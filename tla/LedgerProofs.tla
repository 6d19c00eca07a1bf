----------------------------- MODULE LedgerProofs -----------------------------
(***************************************************************************)
(* What the fold and the gate promise together, for every log the gate can *)
(* accept: of any length, of any candidates that parse, accepted in any    *)
(* order of their dates.                                                   *)
(*                                                                         *)
(* The lemmas follow the program.  First the parts of a lot list and what  *)
(* a sale takes from them, then the reserves and their tiers, then the     *)
(* order of application; then one step of the fold, verb by verb (IsStep), *)
(* and from it what the book has become after any number of them, told     *)
(* from the events alone (IsFoldOf).  Last what the gate has let in        *)
(* (Admissible, ClosesLast), why a candidate it accepts keeps that true,   *)
(* and the theorems.  A log in the order of its dates has more to say: the *)
(* book the gate judged is the book the event is applied to (Story), and   *)
(* what it weighed is there to be paid and sold (Admits, Sure).            *)
(***************************************************************************)
EXTENDS Ledger, LogLemmas

\* The lots a position holds, and the lots a sale takes out of it: of one that is
\* divided the share may come to nothing.
HeldLots == { l \in BoughtLots : l.quantity > 0 /\ l.cost > 0 /\ l.tier \in Tiers }
SoldLots == { l \in BoughtLots : l.quantity >= 0 /\ l.cost > 0 /\ l.tier \in Tiers }
Deltas == [tier : Tiers, amount : Int]

LEMMA LotTypes ==
    /\ HeldLots \subseteq SoldLots
    /\ \A l \in SoldLots : l.quantity \in Nat /\ l.cost \in Nat /\ l.tier \in Tiers
    /\ \A l \in HeldLots : l.quantity \in Nat \ {0} /\ l.cost \in Nat \ {0}
<1>1. \A l \in BoughtLots : l.quantity \in Int /\ l.cost \in Int
  BY DEF BoughtLots
<1> QED BY <1>1 DEF HeldLots, SoldLots

\* A lot keeps its type when its quantity changes.
LEMMA LotWithQuantity ==
    ASSUME NEW l \in HeldLots, NEW q \in Nat
    PROVE  /\ [l EXCEPT !.quantity = q] \in SoldLots
           /\ q > 0 => [l EXCEPT !.quantity = q] \in HeldLots
           /\ [l EXCEPT !.quantity = q].quantity = q
<1> DEFINE k == [l EXCEPT !.quantity = q]
<1>1. k \in BoughtLots /\ k.quantity = q /\ k.cost = l.cost /\ k.tier = l.tier
  <2>1. CASE l \in [tier : STRING, quantity : Int, cost : Int]
    BY <2>1 DEF BoughtLots
  <2>2. CASE l \in [tier : STRING, quantity : Int, cost : Int, entryFx : Int]
    BY <2>2 DEF BoughtLots
  <2> QED BY <2>1, <2>2 DEF HeldLots, BoughtLots
<1>2. l.cost > 0 /\ l.tier \in Tiers
  BY DEF HeldLots
<1>3. k \in SoldLots /\ (q > 0 => k \in HeldLots) /\ k.quantity = q
  <2> HIDE DEF k
  <2> QED BY <1>1, <1>2 DEF HeldLots, SoldLots
<1> QED BY <1>3

LEMMA QuotientType ==
    ASSUME NEW x \in Int, NEW n \in Nat \ {0}
    PROVE  /\ x \div n \in Int /\ n * (x \div n) <= x
           /\ x >= 0 => x \div n \in Nat
OBVIOUS

LEMMA ProductType ==
    ASSUME NEW x \in Nat, NEW y \in Nat
    PROVE  x * y \in Nat
OBVIOUS

\* A factor that both sides have is cut off both.
LEMMA FactorOut ==
    ASSUME NEW x \in Nat, NEW y \in Nat, NEW t \in Nat \ {0}, t * x <= y * t
    PROVE  x <= y
<1>1. SUFFICES ASSUME NEW d \in Nat \ {0}, x = y + d PROVE FALSE
  <2>1. ~ (x <= y) => x - y \in Nat \ {0} /\ x = y + (x - y)
    OBVIOUS
  <2> QED BY <2>1
<1>2. t * (y + d) = t * y + t * d /\ t * y = y * t
  OBVIOUS
<1>3. t * d \in Nat \ {0} /\ t * y \in Nat
  OBVIOUS
<1>4. t * x = t * y + t * d
  BY <1>1, <1>2
<1>5. t * y + t * d <= t * y
  BY <1>2, <1>4
<1> DEFINE one == t * y
           two == t * d
<1>6. one \in Nat /\ two \in Nat \ {0} /\ one + two <= one
  BY <1>3, <1>5
<1> HIDE DEF one, two
<1> QED BY <1>6

\* What lots come to, in units and in cost, and in one tier.
LEMMA QuantityType ==
    ASSUME NEW lots \in Seq(SoldLots)
    PROVE  /\ Quantity(lots) \in Nat /\ Cost(lots) \in Nat
           /\ \A tier : InTier(lots, tier) \in Seq(SoldLots)
<1> DEFINE q == [i \in DOMAIN lots |-> lots[i].quantity]
           c == [i \in DOMAIN lots |-> lots[i].quantity * lots[i].cost]
<1>1. \A i \in DOMAIN lots : lots[i].quantity \in Nat /\ lots[i].cost \in Nat
  BY LineType, LotTypes
<1>2. \A i \in DOMAIN lots : lots[i].quantity * lots[i].cost \in Nat
  BY <1>1, ProductType, Zenon
<1>3. DOMAIN lots = 1 .. Len(lots) /\ Len(lots) \in Nat
  OBVIOUS
<1>4. q \in Seq(Nat) /\ c \in Seq(Nat)
  BY <1>1, <1>2, <1>3
<1>5. Total(q) \in Nat /\ Total(c) \in Nat
  <2> HIDE DEF q, c
  <2> QED BY <1>4, TotalNat
<1>6. \A tier : InTier(lots, tier) \in Seq(SoldLots)
  BY KeptLines DEF InTier
<1> QED BY <1>5, <1>6 DEF Quantity, Cost

LEMMA TierNames ==
    /\ TIERS \in Seq(Tiers) /\ Len(TIERS) = 3 /\ DOMAIN TIERS = 1 .. 3
    /\ \A tier : tier \in Tiers <=> \E k \in DOMAIN TIERS : TIERS[k] = tier
<1>1. Len(TIERS) = 3 /\ DOMAIN TIERS = 1 .. 3
  BY DEF TIERS
<1>2. \A tier : tier \in Tiers <=> \E k \in DOMAIN TIERS : TIERS[k] = tier
  BY DEF Tiers, ToSet
<1>3. TIERS \in Seq(Tiers)
  <2>1. \A k \in 1 .. 3 : TIERS[k] \in Tiers
    BY <1>1, <1>2
  <2>2. TIERS = [k \in 1 .. 3 |-> TIERS[k]]
    BY DEF TIERS
  <2> QED BY <2>1, <2>2
<1> QED BY <1>1, <1>2, <1>3

\* The deltas split an amount over the tiers of lots, when there are lots.
SplitsOver(deltas, lots, amount) ==
    \/ deltas = <<>> /\ lots = <<>>
    \/ /\ deltas # <<>> /\ deltas \in Seq(Deltas)
       /\ Total([i \in DOMAIN deltas |-> deltas[i].amount]) = amount

\* The cash of lots is split over their tiers and nothing of it is lost; only when there
\* are no lots is there nothing to split it over.
LEMMA DeltasAddUp ==
    ASSUME NEW lots \in Seq(SoldLots), NEW total \in Int, NEW sign \in {1, -1}
    PROVE  SplitsOver(TierWeightedDeltas(lots, total, sign), lots, sign * total)
<1> DEFINE places == { k \in DOMAIN TIERS : InTier(lots, TIERS[k]) # <<>> }
           present == Kept(TIERS, places)
           last == Len(present)
           share(i) == (total * Cost(InTier(lots, present[i]))) \div Cost(lots)
           shares == [i \in 1 .. last - 1 |-> share(i)]
           split == [i \in 1 .. last |->
                        [tier |-> present[i],
                         amount |-> sign * (IF i = last THEN total - Total(shares)
                                            ELSE share(i))]]
           deltas == TierWeightedDeltas(lots, total, sign)
<1>1. deltas = IF present = <<>> THEN <<>>
               ELSE IF Cost(lots) = 0
                    THEN << [tier |-> present[1], amount |-> sign * total] >>
               ELSE split
  BY DEF TierWeightedDeltas
<1>2. present \in Seq(Tiers) /\ ToSet(present) = { TIERS[k] : k \in places \cap DOMAIN TIERS }
  <2> HIDE DEF places
  <2> QED BY TierNames, KeptLines
<1>3. Cost(lots) \in Nat /\ \A tier : InTier(lots, tier) \in Seq(SoldLots)
  BY QuantityType
<1>4. present = <<>> => lots = <<>>
  <2> SUFFICES ASSUME lots # <<>> PROVE present # <<>>
    OBVIOUS
  <2>1. 1 \in DOMAIN lots /\ lots[1] \in SoldLots
    OBVIOUS
  <2>2. lots[1].tier \in Tiers
    BY <2>1, LotTypes
  <2>3. PICK k \in DOMAIN TIERS : TIERS[k] = lots[1].tier
    BY <2>2, TierNames
  <2>4. ToSet(InTier(lots, TIERS[k])) =
            { lots[i] : i \in { i \in DOMAIN lots : lots[i].tier = TIERS[k] } \cap DOMAIN lots }
    BY KeptLines DEF InTier
  <2>5. lots[1] \in ToSet(InTier(lots, TIERS[k]))
    BY <2>1, <2>3, <2>4
  <2>6. InTier(lots, TIERS[k]) # <<>>
    BY <2>5 DEF ToSet
  <2>7. TIERS[k] \in ToSet(present)
    <3> HIDE DEF present
    <3> QED BY <1>2, <2>6
  <2> HIDE DEF present
  <2> QED BY <2>7 DEF ToSet
<1> HIDE DEF places, present
<1>5. CASE present = <<>>
  <2>1. deltas = <<>>
    BY <1>1, <1>5
  <2>2. SplitsOver(<<>>, lots, sign * total)
    BY <1>4, <1>5 DEF SplitsOver
  <2> QED BY <2>1, <2>2
<1>6. CASE present # <<>> /\ Cost(lots) = 0
  <2> DEFINE d == << [tier |-> present[1], amount |-> sign * total] >>
  <2>1. deltas = d
    BY <1>1, <1>6
  <2>2. present[1] \in Tiers
    BY <1>2, <1>6
  <2>3. sign * total \in Int
    OBVIOUS
  <2>4. d \in Seq(Deltas) /\ d # <<>>
    BY <2>2, <2>3 DEF Deltas
  <2>5. [i \in DOMAIN d |-> d[i].amount] = << sign * total >>
    OBVIOUS
  <2>6. Total(<< sign * total >>) = sign * total
    BY <2>3, TotalOfOne
  <2>7. SplitsOver(d, lots, sign * total)
    <3> HIDE DEF d
    <3> QED BY <2>4, <2>5, <2>6 DEF SplitsOver
  <2> QED BY <2>1, <2>7
<1>7. CASE present # <<>> /\ Cost(lots) # 0
  <2>1. last \in Nat \ {0} /\ DOMAIN present = 1 .. last
    BY <1>2, <1>7
  <2>2. \A i \in 1 .. last : present[i] \in Tiers
    BY <1>2
  <2>3. \A i \in 1 .. last : share(i) \in Int
    <3> TAKE i \in 1 .. last
    <3> DEFINE c == Cost(InTier(lots, present[i]))
               n == Cost(lots)
    <3>1. c \in Nat
      BY <1>3, QuantityType
    <3>2. n \in Nat \ {0}
      BY <1>3, <1>7
    <3> HIDE DEF c, n
    <3>3. total * c \in Int
      BY <3>1
    <3> QED BY <3>2, <3>3, QuotientType DEF c, n
  <2> HIDE DEF share, last
  <2> DEFINE rest == total - Total(shares)
  <2>4. shares \in Seq(Int) /\ Len(shares) = last - 1 /\ \A i \in 1 .. last - 1 : shares[i] = share(i)
    BY <2>1, <2>3
  <2>5. Total(shares) \in Int
    <3> HIDE DEF shares
    <3> QED BY <2>4, TotalType
  <2>6. rest \in Int
    <3> HIDE DEF shares
    <3> QED BY <2>5
  <2> HIDE DEF shares
  <2>7. \A i \in 1 .. last : split[i] =
            [tier |-> present[i], amount |-> sign * (IF i = last THEN rest ELSE share(i))]
    OBVIOUS
  <2> DEFINE part(i) == sign * (IF i = last THEN rest ELSE share(i))
  <2>8. \A i \in 1 .. last : part(i) \in Int
    <3> HIDE DEF rest
    <3> QED BY <2>3, <2>6
  <2>9. split \in Seq(Deltas) /\ split # <<>> /\ DOMAIN split = 1 .. last
    <3>1. \A i \in 1 .. last : [tier |-> present[i], amount |-> part(i)] \in Deltas
      <4> HIDE DEF part
      <4> QED BY <2>2, <2>8 DEF Deltas
    <3>2. split = [i \in 1 .. last |-> [tier |-> present[i], amount |-> part(i)]]
      OBVIOUS
    <3> HIDE DEF split, part
    <3> QED BY <2>1, <3>1, <3>2
  <2> DEFINE less == [i \in 1 .. last - 1 |-> sign * shares[i]]
             amounts == [i \in DOMAIN split |-> split[i].amount]
  <2>10. less \in Seq(Int) /\ Len(less) = last - 1
         /\ \A i \in 1 .. last - 1 : less[i] = sign * shares[i]
    <3>1. \A i \in 1 .. last - 1 : sign * shares[i] \in Int
      BY <2>1, <2>3, <2>4
    <3> QED BY <2>1, <3>1
  <2>11. Total(less) = sign * Total(shares)
    <3> HIDE DEF less
    <3>1. Len(less) = Len(shares) /\ sign \in Int
           /\ \A i \in 1 .. Len(shares) : less[i] = sign * shares[i]
      BY <2>4, <2>10
    <3> QED BY <2>4, <2>10, <3>1, TotalScaled, Zenon
  <2>12. amounts = Append(less, sign * rest)
    <3>1. \A i \in 1 .. last : split[i].amount = part(i)
      <4>1. \A i \in 1 .. last : split[i] = [tier |-> present[i], amount |-> part(i)]
        BY <2>7
      <4>2. ASSUME NEW i \in 1 .. last PROVE split[i].amount = part(i)
        <5> DEFINE tier == present[i]
                   p == part(i)
        <5>1. split[i] = [tier |-> tier, amount |-> p]
          BY <4>1
        <5> HIDE DEF tier, p, split
        <5>2. split[i].amount = p
          BY <5>1
        <5> QED BY <5>2 DEF p
      <4> QED BY <4>2
    <3>2. DOMAIN amounts = 1 .. last /\ \A i \in 1 .. last : amounts[i] = part(i)
      <4> HIDE DEF part, split
      <4> QED BY <2>9, <3>1
    <3>3. amounts \in Seq(Int) /\ Len(amounts) = last
      <4>1. amounts = [i \in 1 .. last |-> amounts[i]]
        <5> HIDE DEF split
        <5> QED BY <2>9
      <4> HIDE DEF amounts, part
      <4> QED BY <2>1, <2>8, <3>2, <4>1
    <3>4. \A i \in 1 .. last - 1 : part(i) = less[i]
      BY <2>1, <2>4, <2>10
    <3>5. part(last) = sign * rest /\ sign * rest \in Int
      <4> HIDE DEF rest
      <4> QED BY <2>1, <2>6
    <3> HIDE DEF amounts, part, less, rest
    <3>6. /\ Append(less, sign * rest) \in Seq(Int) /\ Len(Append(less, sign * rest)) = last
          /\ \A i \in 1 .. last - 1 : Append(less, sign * rest)[i] = less[i]
          /\ Append(less, sign * rest)[last] = sign * rest
      BY <2>1, <2>10, <3>5
    <3>7. \A i \in 1 .. last : i \in 1 .. last - 1 \/ i = last
      BY <2>1
    <3>8. \A i \in 1 .. last : amounts[i] = Append(less, sign * rest)[i]
      BY <3>2, <3>4, <3>5, <3>6, <3>7
    <3> QED BY <3>3, <3>6, <3>8, SeqEqual, Zenon
  <2>13. Total(amounts) = sign * total
    <3> HIDE DEF amounts, less
    <3>1. sign * rest \in Int
      BY <2>6
    <3>2. Total(Append(less, sign * rest)) = Total(less) + sign * rest
      BY <2>10, <3>1, TotalOfOneMore
    <3> DEFINE x == Total(shares)
    <3>3. rest = total - x /\ x \in Int
      BY <2>5
    <3>4. sign * x + sign * (total - x) = sign * total
      <4> HIDE DEF x
      <4> QED BY <3>3
    <3> HIDE DEF x, rest
    <3> QED BY <2>11, <2>12, <3>2, <3>3, <3>4 DEF x
  <2>14. deltas = split
    BY <1>1, <1>7
  <2>15. SplitsOver(split, lots, sign * total)
    <3> HIDE DEF split
    <3> QED BY <2>9, <2>13 DEF SplitsOver
  <2> QED BY <2>14, <2>15
<1> QED BY <1>5, <1>6, <1>7

\* What a removal leaves and what it takes.
Splits == [removed : Seq(SoldLots), remaining : Seq(HeldLots)]

LEMMA SplitType ==
    ASSUME NEW s \in Splits
    PROVE  /\ s.removed \in Seq(SoldLots) /\ s.remaining \in Seq(HeldLots)
           /\ \A u \in Splits : Beside(s, u) \in Splits /\ AndThen(s, u) \in Splits
<1>1. s.removed \in Seq(SoldLots) /\ s.remaining \in Seq(HeldLots)
  BY DEF Splits
<1>2. ASSUME NEW u \in Splits PROVE Beside(s, u) \in Splits /\ AndThen(s, u) \in Splits
  <2>1. u.removed \in Seq(SoldLots) /\ u.remaining \in Seq(HeldLots)
    BY DEF Splits
  <2>2. /\ s.removed \o u.removed \in Seq(SoldLots)
        /\ s.remaining \o u.remaining \in Seq(HeldLots)
    BY <1>1, <2>1
  <2>3. Beside(s, u) \in Splits
    BY <2>2 DEF Beside, Splits
  <2>4. AndThen(s, u) \in Splits
    BY <2>1, <2>2 DEF AndThen, Splits
  <2> QED BY <2>3, <2>4
<1> QED BY <1>1, <1>2

\* A lot is cut in two, or left as it is.
LEMMA CutType ==
    ASSUME NEW l \in HeldLots, NEW q \in Nat
    PROVE  Cut(l, q) \in Splits /\ Uncut(l) \in Splits
<1> DEFINE sold == [l EXCEPT !.quantity = q]
           left == [l EXCEPT !.quantity = @ - q]
           rest == IF l.quantity > q THEN <<left>> ELSE <<>>
<1>1. sold \in SoldLots
  BY LotWithQuantity
<1>2. l.quantity > q => left \in HeldLots
  <2> SUFFICES ASSUME l.quantity > q PROVE left \in HeldLots
    OBVIOUS
  <2>1. l.quantity - q \in Nat /\ l.quantity - q > 0
    BY LotTypes
  <2>2. [l EXCEPT !.quantity = l.quantity - q] \in HeldLots
    BY <2>1, LotWithQuantity
  <2>3. left = [l EXCEPT !.quantity = l.quantity - q]
    OBVIOUS
  <2> QED BY <2>2, <2>3
<1> HIDE DEF sold, left
<1>3. <<sold>> \in Seq(SoldLots) /\ rest \in Seq(HeldLots)
      /\ <<>> \in Seq(SoldLots) /\ <<l>> \in Seq(HeldLots)
  BY <1>1, <1>2
<1>4. Cut(l, q) = [removed |-> <<sold>>, remaining |-> rest]
  BY DEF Cut, sold, left
<1>5. Uncut(l) = [removed |-> <<>>, remaining |-> <<l>>]
  BY DEF Uncut
<1> HIDE DEF rest
<1> QED BY <1>3, <1>4, <1>5 DEF Splits

\* Lots of any sort, and removals: what is counted is their quantity.
Sized(S) == \A l \in S : l.quantity \in Nat
Units(lots, tier) == [i \in DOMAIN lots |-> IF lots[i].tier = tier THEN lots[i].quantity ELSE 0]

LEMMA UnitsType ==
    ASSUME NEW S, Sized(S), NEW lots \in Seq(S), NEW tier
    PROVE  Units(lots, tier) \in Seq(Nat) /\ Len(Units(lots, tier)) = Len(lots)
<1>1. Len(lots) \in Nat /\ DOMAIN lots = 1 .. Len(lots)
  OBVIOUS
<1>2. \A i \in 1 .. Len(lots) : lots[i].quantity \in Nat
  BY <1>1, LineType DEF Sized
<1>3. \A i \in 1 .. Len(lots) :
        (IF lots[i].tier = tier THEN lots[i].quantity ELSE 0) \in Nat
  BY <1>2
<1> QED BY <1>1, <1>3 DEF Units

\* The units of a tier are those of its lots.
LEMMA HeldOf ==
    ASSUME NEW S, Sized(S), NEW lots \in Seq(S), NEW tier
    PROVE  Held(lots, tier) = Total(Units(lots, tier)) /\ Held(lots, tier) \in Nat
<1> DEFINE f == [l \in S |-> l.quantity]
           places == { i \in DOMAIN lots : lots[i].tier = tier }
           kept == Kept(lots, places)
<1>1. f \in [S -> Int]
  BY DEF Sized
<1>2. /\ kept \in Seq(S)
      /\ Total([i \in DOMAIN kept |-> f[kept[i]]]) =
            Counted([i \in DOMAIN lots |-> f[lots[i]]], places)
  <2> HIDE DEF f, places
  <2> QED BY <1>1, TotalOfKept, ZenonT(60)
<1>3. \A list \in Seq(S) : \A i \in DOMAIN list : f[list[i]] = list[i].quantity
  BY LineType
<1> HIDE DEF f
<1>4. [i \in DOMAIN lots |-> f[lots[i]]] = [i \in DOMAIN lots |-> lots[i].quantity]
  BY <1>3
<1>5. [i \in DOMAIN kept |-> f[kept[i]]] = [i \in DOMAIN kept |-> kept[i].quantity]
  <2> HIDE DEF kept
  <2> QED BY <1>2, <1>3
<1>6. Held(lots, tier) = Counted([i \in DOMAIN lots |-> lots[i].quantity], places)
  BY <1>2, <1>4, <1>5, Zenon DEF Held, Quantity, InTier
<1>7. Counted([i \in DOMAIN lots |-> lots[i].quantity], places) = Total(Units(lots, tier))
  <2> DEFINE w == [i \in DOMAIN lots |-> lots[i].quantity]
  <2>1. DOMAIN w = DOMAIN lots /\ \A i \in DOMAIN lots : w[i] = lots[i].quantity
    OBVIOUS
  <2> HIDE DEF w
  <2>2. [k \in DOMAIN w |-> IF k \in places THEN w[k] ELSE 0] = Units(lots, tier)
    BY <2>1 DEF Units
  <2>3. Counted(w, places) = Total(Units(lots, tier))
    <3> HIDE DEF places
    <3> QED BY <2>2 DEF Counted
  <2> QED BY <2>3 DEF w
<1>8. Total(Units(lots, tier)) \in Nat
  BY UnitsType, TotalNat
<1> HIDE DEF places
<1> QED BY <1>6, <1>7, <1>8

\* Of no lot, of one, and of two lists of lots, one behind the other.
LEMMA HeldOfParts ==
    ASSUME NEW S, Sized(S), NEW tier
    PROVE  /\ Held(<<>>, tier) = 0
           /\ \A l \in S : Held(<<l>>, tier) = IF l.tier = tier THEN l.quantity ELSE 0
<1>1. Held(<<>>, tier) = 0
  <2>1. <<>> \in Seq(S)
    OBVIOUS
  <2>2. Units(<<>>, tier) \in Seq(Int) /\ \A k \in DOMAIN Units(<<>>, tier) : Units(<<>>, tier)[k] = 0
    BY DEF Units
  <2> QED BY <2>1, <2>2, HeldOf, TotalOfNone, Zenon
<1>2. ASSUME NEW l \in S PROVE Held(<<l>>, tier) = IF l.tier = tier THEN l.quantity ELSE 0
  <2> DEFINE x == IF l.tier = tier THEN l.quantity ELSE 0
  <2>1. <<l>> \in Seq(S) /\ x \in Int
    BY DEF Sized
  <2>2. Units(<<l>>, tier) = <<x>>
    BY DEF Units
  <2> HIDE DEF x
  <2>3. Total(<<x>>) = x
    BY <2>1, TotalOfOne
  <2>4. Held(<<l>>, tier) = x
    BY <2>1, <2>2, <2>3, HeldOf, Zenon
  <2> QED BY <2>4 DEF x
<1> QED BY <1>1, <1>2

LEMMA HeldOfBoth ==
    ASSUME NEW S, Sized(S), NEW tier, NEW s \in Seq(S), NEW t \in Seq(S)
    PROVE  Held(s \o t, tier) = Held(s, tier) + Held(t, tier)
<1> DEFINE u == Units(s, tier)
           v == Units(t, tier)
           w == Units(s \o t, tier)
<1>1. s \o t \in Seq(S) /\ Len(s \o t) = Len(s) + Len(t)
      /\ (\A i \in 1 .. Len(s) : (s \o t)[i] = s[i])
      /\ (\A i \in 1 .. Len(t) : (s \o t)[Len(s) + i] = t[i])
  BY LinesOfBoth
<1>2. u \in Seq(Nat) /\ v \in Seq(Nat) /\ w \in Seq(Nat)
      /\ Len(u) = Len(s) /\ Len(v) = Len(t) /\ Len(w) = Len(s \o t)
  BY <1>1, UnitsType, Zenon
<1>3. Len(s) \in Nat /\ Len(t) \in Nat /\ DOMAIN s = 1 .. Len(s) /\ DOMAIN t = 1 .. Len(t)
      /\ DOMAIN (s \o t) = 1 .. Len(s \o t)
  BY <1>1
<1>4. \A i \in 1 .. Len(s) : w[i] = u[i]
  BY <1>1, <1>3 DEF Units
<1>5. \A i \in 1 .. Len(t) : w[Len(s) + i] = v[i]
  BY <1>1, <1>3 DEF Units
<1> HIDE DEF u, v, w
<1>6. u \o v \in Seq(Nat) /\ Len(u \o v) = Len(u) + Len(v)
      /\ (\A i \in 1 .. Len(u) : (u \o v)[i] = u[i])
      /\ (\A i \in 1 .. Len(v) : (u \o v)[Len(u) + i] = v[i])
  <2>1. u \in Seq(Nat) /\ v \in Seq(Nat)
    BY <1>2
  <2> QED BY <2>1, LinesOfBoth
<1>7. \A k \in 1 .. Len(w) : w[k] = (u \o v)[k]
  <2> TAKE k \in 1 .. Len(w)
  <2>1. CASE k <= Len(s)
    <3>1. k \in 1 .. Len(s)
      BY <1>1, <1>2, <1>3, <2>1
    <3> QED BY <1>2, <1>4, <1>6, <3>1, Zenon
  <2>2. CASE k > Len(s)
    <3>1. k - Len(s) \in 1 .. Len(t) /\ k = Len(s) + (k - Len(s))
      BY <1>1, <1>2, <1>3, <2>2
    <3> QED BY <1>2, <1>5, <1>6, <3>1, Zenon
  <2>3. k <= Len(s) \/ k > Len(s)
    BY <1>1, <1>2, <1>3
  <2> QED BY <2>1, <2>2, <2>3, Zenon
<1>8. w = u \o v
  BY <1>1, <1>2, <1>6, <1>7, SeqEqual, Zenon
<1>9. u \in Seq(Int) /\ v \in Seq(Int)
  BY <1>2, TotalNat
<1>10. Total(w) = Total(u) + Total(v)
  BY <1>8, <1>9, TotalOfBoth
<1> QED BY <1>1, <1>10, HeldOf, Zenon DEF u, v, w

\* Three tiers there are, and a figure of each adds up.
LEMMA TotalOfTiers ==
    ASSUME NEW f, \A tier \in Tiers : f[tier] \in Int
    PROVE  Total([k \in DOMAIN TIERS |-> f[TIERS[k]]]) = f["c1"] + f["c2"] + f["c3"]
<1> DEFINE a == f["c1"]
           b == f["c2"]
           c == f["c3"]
<1>1. a \in Int /\ b \in Int /\ c \in Int
  BY DEF Tiers, ToSet, TIERS
<1>2. [k \in DOMAIN TIERS |-> f[TIERS[k]]] = <<a, b, c>>
  BY DEF TIERS
<1> HIDE DEF a, b, c
<1>3. Total(<<a>>) = a /\ <<a>> \in Seq(Int)
  BY <1>1, TotalOfOne
<1>4. Total(<<a, b>>) = a + b /\ <<a, b>> \in Seq(Int)
  <2>1. <<a, b>> = Append(<<a>>, b)
    OBVIOUS
  <2> QED BY <1>1, <1>3, <2>1, TotalOfOneMore, Zenon
<1>5. Total(<<a, b, c>>) = a + b + c
  <2>1. <<a, b, c>> = Append(<<a, b>>, c)
    OBVIOUS
  <2> QED BY <1>1, <1>4, <2>1, TotalOfOneMore, Zenon
<1> QED BY <1>2, <1>5 DEF a, b, c

LEMMA TheTiers == Tiers = {"c1", "c2", "c3"}
BY DEF Tiers, ToSet, TIERS

\* Lots are of a tier, so that what is held of each is all that is held.
LEMMA QuantityByTier ==
    ASSUME NEW S, Sized(S), \A l \in S : l.tier \in Tiers, NEW lots \in Seq(S)
    PROVE  Quantity(lots) = Held(lots, "c1") + Held(lots, "c2") + Held(lots, "c3")
<1> DEFINE q == [i \in DOMAIN lots |-> lots[i].quantity]
           u == Units(lots, "c1")
           v == Units(lots, "c2")
           w == Units(lots, "c3")
           uv == [i \in DOMAIN lots |-> u[i] + v[i]]
<1>1. Len(lots) \in Nat /\ DOMAIN lots = 1 .. Len(lots)
  OBVIOUS
<1>2. \A i \in DOMAIN lots : lots[i].quantity \in Nat /\ lots[i].tier \in {"c1", "c2", "c3"}
  BY LineType, TheTiers DEF Sized
<1>3. u \in Seq(Nat) /\ v \in Seq(Nat) /\ w \in Seq(Nat)
      /\ Len(u) = Len(lots) /\ Len(v) = Len(lots) /\ Len(w) = Len(lots)
  BY UnitsType
<1>4. u \in Seq(Int) /\ v \in Seq(Int) /\ w \in Seq(Int)
  BY <1>3, TotalNat
<1>5. \A i \in 1 .. Len(lots) : u[i] + v[i] + w[i] = lots[i].quantity
  BY <1>1, <1>2 DEF Units
<1> HIDE DEF u, v, w
<1>6. \A i \in 1 .. Len(lots) : u[i] \in Int /\ v[i] \in Int /\ w[i] \in Int
  BY <1>3, <1>4
<1>7. uv \in Seq(Int) /\ Len(uv) = Len(lots) /\ \A i \in 1 .. Len(lots) : uv[i] = u[i] + v[i]
  BY <1>1, <1>6
<1>8. q \in Seq(Int) /\ Len(q) = Len(lots) /\ \A i \in 1 .. Len(lots) : q[i] = lots[i].quantity
  BY <1>1, <1>2
<1> HIDE DEF uv, q
<1>9. \A i \in 1 .. Len(lots) : q[i] = uv[i] + w[i]
  BY <1>5, <1>6, <1>7, <1>8, Zenon
<1>10. Total(uv) = Total(u) + Total(v) /\ Total(u) \in Int /\ Total(v) \in Int
  <2>1. Len(u) = Len(v) /\ Len(uv) = Len(u) /\ \A k \in 1 .. Len(u) : uv[k] = u[k] + v[k]
    BY <1>3, <1>7
  <2> QED BY <1>4, <1>7, <2>1, TotalOfSums, Zenon
<1>11. Total(q) = Total(uv) + Total(w) /\ Total(w) \in Int
  <2>1. Len(uv) = Len(w) /\ Len(q) = Len(uv) /\ \A k \in 1 .. Len(uv) : q[k] = uv[k] + w[k]
    BY <1>3, <1>7, <1>8, <1>9
  <2> QED BY <1>4, <1>7, <1>8, <2>1, TotalOfSums, Zenon
<1>12. Quantity(lots) = Total(q)
  BY DEF Quantity, q
<1>13. Held(lots, "c1") = Total(u) /\ Held(lots, "c2") = Total(v) /\ Held(lots, "c3") = Total(w)
  BY HeldOf DEF u, v, w
<1> QED BY <1>10, <1>11, <1>12, <1>13
----------------------------------------------------------------------------
\* What a quotient does as its dividend grows.
LEMMA QuotientsGrow ==
    ASSUME NEW x \in Nat, NEW y \in Nat, NEW n \in Nat \ {0}, x <= y
    PROVE  /\ x \div n \in Nat /\ y \div n \in Nat /\ x \div n <= y \div n
           /\ \A d \in Nat : y <= x + n * d => y \div n <= x \div n + d
<1> DEFINE a == x \div n
           b == y \div n
<1>1. a \in Nat /\ b \in Nat /\ n * a <= x /\ n * b <= y
  BY QuotientType
<1>2. x < n * a + n /\ y < n * b + n
  OBVIOUS
<1> HIDE DEF a, b
<1>3. a <= b
  <2> SUFFICES ASSUME a >= b + 1 PROVE FALSE
    BY <1>1
  <2>1. n * a >= n * (b + 1)
    BY <1>1
  <2>2. n * (b + 1) = n * b + n
    BY <1>1
  <2>3. n * a \in Nat /\ n * b \in Nat
    BY <1>1, ProductType
  <2> QED BY <1>1, <1>2, <2>1, <2>2, <2>3
<1>4. ASSUME NEW d \in Nat, y <= x + n * d PROVE b <= a + d
  <2> SUFFICES ASSUME b >= a + d + 1 PROVE FALSE
    BY <1>1
  <2>1. n * b >= n * (a + d + 1)
    BY <1>1
  <2>2. n * (a + d + 1) = n * a + n * d + n
    BY <1>1
  <2>3. n * a \in Nat /\ n * b \in Nat /\ n * d \in Nat
    BY <1>1, ProductType
  <2> QED BY <1>1, <1>2, <1>4, <2>1, <2>2, <2>3
<1> QED BY <1>1, <1>3, <1>4 DEF a, b

\* What a tier holds in the first lots, and what of a removal falls on them.
HeldUpTo(lots, tier, k) ==
    Total([j \in 1 .. k |->
            IF j \in { i \in DOMAIN lots : lots[i].tier = tier } THEN lots[j].quantity ELSE 0])
Shared(lots, tier, quantity, k) ==
    (quantity * HeldUpTo(lots, tier, k)) \div Held(lots, tier)

LEMMA AppendedLines ==
    ASSUME NEW S, NEW s \in Seq(S), NEW e \in S
    PROVE  /\ Append(s, e) \in Seq(S) /\ Len(Append(s, e)) = Len(s) + 1
           /\ \A i \in 1 .. Len(s) : Append(s, e)[i] = s[i]
           /\ Append(s, e)[Len(s) + 1] = e
OBVIOUS

LEMMA HeldGrows ==
    ASSUME NEW S, Sized(S), NEW lots \in Seq(S), NEW tier
    PROVE  /\ HeldUpTo(lots, tier, 0) = 0
           /\ HeldUpTo(lots, tier, Len(lots)) = Held(lots, tier)
           /\ \A k \in 0 .. Len(lots) :
                HeldUpTo(lots, tier, k) \in Nat /\ HeldUpTo(lots, tier, k) <= Held(lots, tier)
           /\ \A k \in 1 .. Len(lots) :
                HeldUpTo(lots, tier, k) = HeldUpTo(lots, tier, k - 1) +
                    IF lots[k].tier = tier THEN lots[k].quantity ELSE 0
<1> DEFINE n == Len(lots)
           u == Units(lots, tier)
           part(k) == [j \in 1 .. k |->
                        IF j \in { i \in DOMAIN lots : lots[i].tier = tier }
                        THEN lots[j].quantity ELSE 0]
<1>1. n \in Nat /\ DOMAIN lots = 1 .. n
  OBVIOUS
<1>3. u \in Seq(Nat) /\ Len(u) = n /\ DOMAIN u = 1 .. n
  BY <1>1, UnitsType
<1>4. \A k \in 1 .. n : u[k] = IF lots[k].tier = tier THEN lots[k].quantity ELSE 0
  BY <1>1 DEF Units
<1>5. ASSUME NEW k \in 0 .. n
      PROVE  part(k) \in Seq(Nat) /\ Len(part(k)) = k /\ \A j \in 1 .. k : part(k)[j] = u[j]
  <2>1. \A j \in 1 .. k : j \in 1 .. n
    BY <1>1
  <2>2. \A j \in 1 .. k : u[j] \in Nat
    BY <1>3, <2>1
  <2>3. \A j \in 1 .. k : part(k)[j] = u[j]
    BY <1>1, <1>4, <2>1
  <2>4. part(k) = [j \in 1 .. k |-> part(k)[j]]
    OBVIOUS
  <2> HIDE DEF part, u
  <2> QED BY <1>1, <2>2, <2>3, <2>4
<1>6. \A k \in 0 .. n : HeldUpTo(lots, tier, k) = Total(part(k))
  BY DEF HeldUpTo
<1> HIDE DEF part, u, n
<1>7. \A k \in 0 .. n : HeldUpTo(lots, tier, k) \in Nat
  BY <1>5, <1>6, TotalNat
<1>8. HeldUpTo(lots, tier, 0) = 0
  <2>1. 0 \in 0 .. n
    BY <1>1
  <2>2. part(0) \in Seq(Int) /\ \A k \in DOMAIN part(0) : part(0)[k] = 0
    BY <1>5, <2>1, TotalNat
  <2> QED BY <1>6, <2>1, <2>2, TotalOfNone
<1>9. HeldUpTo(lots, tier, n) = Held(lots, tier)
  <2>1. n \in 0 .. n
    BY <1>1
  <2>2. part(n) = u
    BY <1>3, <1>5, <2>1, SeqEqual
  <2>3. Held(lots, tier) = Total(u)
    BY HeldOf DEF u
  <2> QED BY <1>6, <2>1, <2>2, <2>3
<1>10. ASSUME NEW k \in 1 .. n
       PROVE  HeldUpTo(lots, tier, k) = HeldUpTo(lots, tier, k - 1) + u[k]
  <2>1. k \in 0 .. n /\ k - 1 \in 0 .. n
    BY <1>1
  <2>2. u[k] \in Nat
    BY <1>3
  <2>3. part(k - 1) \in Seq(Int)
    BY <1>5, <2>1, TotalNat
  <2>4. part(k) = Append(part(k - 1), u[k])
    <3>0. part(k - 1) \in Seq(Nat) /\ Len(part(k - 1)) = k - 1
      BY <1>5, <2>1
    <3>1. Append(part(k - 1), u[k]) \in Seq(Nat) /\ Len(Append(part(k - 1), u[k])) = k
          /\ (\A j \in 1 .. k - 1 : Append(part(k - 1), u[k])[j] = part(k - 1)[j])
          /\ Append(part(k - 1), u[k])[k] = u[k]
      BY <1>1, <2>2, <3>0, AppendedLines
    <3>2. \A j \in 1 .. k : j \in 1 .. k - 1 \/ j = k
      BY <1>1
    <3>3. \A j \in 1 .. k : part(k)[j] = Append(part(k - 1), u[k])[j]
      BY <1>5, <2>1, <3>1, <3>2
    <3>4. part(k) \in Seq(Nat) /\ Len(part(k)) = k
      BY <1>5, <2>1
    <3> QED BY <3>1, <3>3, <3>4, SeqEqual, Zenon
  <2>5. Total(part(k)) = Total(part(k - 1)) + u[k]
    <3>1. u[k] \in Int
      BY <2>2
    <3> QED BY <2>3, <2>4, <3>1, TotalOfOneMore, Zenon
  <2> QED BY <1>6, <2>1, <2>5
<1> DEFINE T == { k \in 0 .. n :
                    \A i \in 0 .. k : HeldUpTo(lots, tier, i) <= HeldUpTo(lots, tier, k) }
<1>11. 0 \in T
  BY <1>1, <1>8
<1>12. ASSUME NEW k \in 0 .. n - 1, k \in T PROVE k + 1 \in T
  <2>1. k + 1 \in 1 .. n /\ k + 1 \in 0 .. n /\ k + 1 - 1 = k /\ k \in 0 .. n
    BY <1>1
  <2>2. HeldUpTo(lots, tier, k + 1) = HeldUpTo(lots, tier, k) + u[k + 1]
    BY <1>10, <2>1
  <2>3. /\ HeldUpTo(lots, tier, k) \in Nat /\ HeldUpTo(lots, tier, k + 1) \in Nat
        /\ u[k + 1] \in Nat
    BY <1>3, <1>7, <2>1
  <2>4. ASSUME NEW i \in 0 .. k + 1
        PROVE  HeldUpTo(lots, tier, i) <= HeldUpTo(lots, tier, k + 1)
    <3>1. i \in 0 .. k \/ i = k + 1
      BY <2>1
    <3>2. CASE i \in 0 .. k
      <4>1. HeldUpTo(lots, tier, i) <= HeldUpTo(lots, tier, k)
        BY <1>12, <3>2
      <4>2. HeldUpTo(lots, tier, i) \in Nat
        <5>1. i \in 0 .. n
          BY <1>1, <2>1
        <5> QED BY <1>7, <5>1
      <4> QED BY <2>2, <2>3, <4>1, <4>2
    <3>3. CASE i = k + 1
      BY <2>3, <3>3
    <3> QED BY <3>1, <3>2, <3>3
  <2> QED BY <2>1, <2>4
<1>13. \A k \in 0 .. n : k \in T
  <2> HIDE DEF T
  <2> QED BY <1>1, <1>11, <1>12, InductionUpTo
<1>14. \A k \in 0 .. n : HeldUpTo(lots, tier, k) <= Held(lots, tier)
  <2>1. n \in T
    BY <1>1, <1>13
  <2> QED BY <1>9, <2>1
<1> QED BY <1>4, <1>7, <1>8, <1>9, <1>10, <1>14 DEF n

\* The shares of a removal: rounded as they add up they come to all of it, none is
\* negative, and none is more than its lot holds when the tier holds enough.
LEMMA SharesGrow ==
    ASSUME NEW lots \in Seq(HeldLots), NEW tier, NEW quantity \in Nat, Held(lots, tier) # 0
    PROVE  /\ Shared(lots, tier, quantity, 0) = 0
           /\ Shared(lots, tier, quantity, Len(lots)) = quantity
           /\ \A k \in 0 .. Len(lots) : Shared(lots, tier, quantity, k) \in Nat
           /\ \A k \in 1 .. Len(lots) :
                /\ Shared(lots, tier, quantity, k - 1) <= Shared(lots, tier, quantity, k)
                /\ lots[k].tier # tier =>
                    Shared(lots, tier, quantity, k) = Shared(lots, tier, quantity, k - 1)
                /\ quantity <= Held(lots, tier) /\ lots[k].tier = tier =>
                    Shared(lots, tier, quantity, k) <=
                        Shared(lots, tier, quantity, k - 1) + lots[k].quantity
<1> DEFINE n == Len(lots)
           total == Held(lots, tier)
           h(k) == HeldUpTo(lots, tier, k)
           a(k) == quantity * h(k)
           s(k) == Shared(lots, tier, quantity, k)
<1>1. n \in Nat /\ DOMAIN lots = 1 .. n
  OBVIOUS
<1>2. total \in Nat \ {0}
  <2>1. Sized(HeldLots)
    BY LotTypes DEF Sized
  <2> QED BY <2>1, HeldOf
<1>3. /\ h(0) = 0 /\ h(n) = total
      /\ \A k \in 0 .. n : h(k) \in Nat
      /\ \A k \in 1 .. n : h(k) = h(k - 1) + IF lots[k].tier = tier THEN lots[k].quantity ELSE 0
  <2>1. Sized(HeldLots)
    BY LotTypes DEF Sized
  <2>2. /\ HeldUpTo(lots, tier, 0) = 0
        /\ HeldUpTo(lots, tier, Len(lots)) = Held(lots, tier)
        /\ \A k \in 0 .. Len(lots) : HeldUpTo(lots, tier, k) \in Nat
        /\ \A k \in 1 .. Len(lots) :
            HeldUpTo(lots, tier, k) = HeldUpTo(lots, tier, k - 1) +
                IF lots[k].tier = tier THEN lots[k].quantity ELSE 0
    BY <2>1, HeldGrows
  <2> QED BY <2>2
<1>4. \A k : s(k) = a(k) \div total
  BY DEF Shared
<1> HIDE DEF n, total, h, s
<1>5. \A k \in 0 .. n : a(k) \in Nat
  BY <1>3, ProductType
<1>6. \A k \in 0 .. n : s(k) \in Nat
  BY <1>2, <1>4, <1>5, QuotientType
<1>7. s(0) = 0 /\ s(n) = quantity
  <2>1. a(0) = 0 /\ a(n) = quantity * total
    BY <1>3
  <2>2. 0 \div total = 0 /\ (quantity * total) \div total = quantity
    BY <1>2
  <2> QED BY <1>4, <2>1, <2>2
<1>8. ASSUME NEW k \in 1 .. n
      PROVE  /\ s(k - 1) <= s(k)
             /\ lots[k].tier # tier => s(k) = s(k - 1)
             /\ quantity <= total /\ lots[k].tier = tier => s(k) <= s(k - 1) + lots[k].quantity
  <2> DEFINE q == lots[k].quantity
  <2>1. k \in 0 .. n /\ k - 1 \in 0 .. n
    BY <1>1
  <2>2. q \in Nat
    BY <1>1, LineType, LotTypes DEF n
  <2> HIDE DEF q
  <2>3. a(k) \in Nat /\ a(k - 1) \in Nat /\ h(k) \in Nat /\ h(k - 1) \in Nat
    BY <1>3, <1>5, <2>1
  <2>4. CASE lots[k].tier # tier
    <3>1. h(k) = h(k - 1)
      BY <1>3, <2>3, <2>4
    <3>2. s(k) = s(k - 1)
      BY <1>4, <3>1
    <3> QED BY <1>6, <2>1, <2>4, <3>2
  <2>5. CASE lots[k].tier = tier
    <3>1. h(k) = h(k - 1) + q
      BY <1>3, <2>5 DEF q
    <3>2. a(k) = a(k - 1) + quantity * q
      BY <2>2, <2>3, <3>1
    <3>3. quantity * q \in Nat
      BY <2>2, ProductType
    <3> HIDE DEF a
    <3>4. a(k - 1) <= a(k)
      BY <2>3, <3>2, <3>3
    <3>5. quantity <= total => quantity * q <= total * q
      BY <1>2, <2>2
    <3>6. quantity <= total => a(k) <= a(k - 1) + total * q
      <4>1. total * q \in Nat
        BY <1>2, <2>2, ProductType
      <4> QED BY <2>3, <3>2, <3>3, <3>5, <4>1
    <3>7. /\ a(k - 1) \div total <= a(k) \div total
          /\ quantity <= total => a(k) \div total <= a(k - 1) \div total + q
      BY <1>2, <2>2, <2>3, <3>4, <3>6, QuotientsGrow, Zenon
    <3> QED BY <1>4, <2>5, <3>7 DEF q
  <2> QED BY <2>4, <2>5
<1> QED BY <1>6, <1>7, <1>8 DEF n, total, s

\* A removal from one tier runs over the lots, cutting its share off each of the tier.
Cutting(lots, tier, quantity, k) ==
    IF lots[k].tier = tier
    THEN Cut(lots[k], Shared(lots, tier, quantity, k) - Shared(lots, tier, quantity, k - 1))
    ELSE Uncut(lots[k])
RemovalRuns(f, lots, tier, quantity) ==
    /\ f \in [0 .. Len(lots) -> Splits]
    /\ f[0] = [removed |-> <<>>, remaining |-> <<>>]
    /\ \A k \in 1 .. Len(lots) : f[k] = Beside(f[k - 1], Cutting(lots, tier, quantity, k))

LEMMA CuttingType ==
    ASSUME NEW lots \in Seq(HeldLots), NEW tier, NEW quantity \in Nat, Held(lots, tier) # 0,
           NEW k \in 1 .. Len(lots)
    PROVE  Cutting(lots, tier, quantity, k) \in Splits
<1> DEFINE q == Shared(lots, tier, quantity, k) - Shared(lots, tier, quantity, k - 1)
<1>1. lots[k] \in HeldLots
  OBVIOUS
<1>2. q \in Nat
  <2>1. Len(lots) \in Nat
    OBVIOUS
  <2>2. k \in 0 .. Len(lots) /\ k - 1 \in 0 .. Len(lots)
    BY <2>1
  <2>3. /\ Shared(lots, tier, quantity, k) \in Nat /\ Shared(lots, tier, quantity, k - 1) \in Nat
        /\ Shared(lots, tier, quantity, k - 1) <= Shared(lots, tier, quantity, k)
    BY <2>2, SharesGrow, Zenon
  <2> QED BY <2>3
<1> HIDE DEF q
<1>3. Cut(lots[k], q) \in Splits /\ Uncut(lots[k]) \in Splits
  BY <1>1, <1>2, CutType
<1> QED BY <1>3 DEF Cutting, q

LEMMA RemovalIsRun ==
    ASSUME NEW lots \in Seq(HeldLots), NEW tier, NEW quantity \in Nat, Held(lots, tier) # 0
    PROVE  \E f : /\ RemovalRuns(f, lots, tier, quantity)
                  /\ SplitTierRemoval(lots, tier, quantity) = f[Len(lots)]
<1> DEFINE n == Len(lots)
           inTier == { i \in DOMAIN lots : lots[i].tier = tier }
           total == Quantity(InTier(lots, tier))
           held(k) == Total([j \in 1 .. k |-> IF j \in inTier THEN lots[j].quantity ELSE 0])
           allocated(k) == (quantity * held(k)) \div total
           next(s, k) == Beside(s, IF k \in inTier
                                   THEN Cut(lots[k], allocated(k) - allocated(k - 1))
                                   ELSE Uncut(lots[k]))
           cutting(s, k) == Beside(s, Cutting(lots, tier, quantity, k))
           none == [removed |-> <<>>, remaining |-> <<>>]
           split == CHOOSE s : s = [k \in 0 .. n |-> IF k = 0 THEN none ELSE next(s[k - 1], k)]
<1>1. SplitTierRemoval(lots, tier, quantity) =
        IF total = 0 THEN [removed |-> <<>>, remaining |-> lots] ELSE split[n]
  BY DEF SplitTierRemoval
<1>2. total # 0
  BY DEF Held
<1>3. n \in Nat /\ DOMAIN lots = 1 .. n
  OBVIOUS
<1>4. \A k \in 1 .. n : \A s : next(s, k) = cutting(s, k)
  <2>1. \A k : allocated(k) = Shared(lots, tier, quantity, k)
    BY DEF Shared, HeldUpTo, Held
  <2> HIDE DEF allocated
  <2>2. \A k \in 1 .. n : k \in inTier <=> lots[k].tier = tier
    BY <1>3
  <2> HIDE DEF inTier
  <2> QED BY <2>1, <2>2 DEF Cutting
<1>5. none \in Splits
  BY DEF Splits
<1>6. ASSUME NEW s \in Splits, NEW k \in 1 .. n PROVE cutting(s, k) \in Splits
  <2>1. Cutting(lots, tier, quantity, k) \in Splits
    BY CuttingType
  <2> QED BY <2>1, SplitType
<1>7. split = CHOOSE s : s = [k \in 0 .. n |-> IF k = 0 THEN none ELSE next(s[k - 1], k)]
  OBVIOUS
<1> HIDE DEF split, next, none, total, cutting
<1> DEFINE step == [x \in Splits \X (1 .. n) |-> cutting(x[1], x[2])]
<1>8. step \in [Splits \X (1 .. n) -> Splits]
  BY <1>6
<1> HIDE DEF step, n
<1>9. PICK f : IsFold(f, Splits, n, none, step)
  BY <1>3, <1>5, <1>8, FoldExists, Zenon
<1>10. \A k \in 1 .. n : k - 1 \in 0 .. n /\ f[k - 1] \in Splits
  BY <1>3, <1>9 DEF IsFold
<1>11. \A k \in 1 .. n : f[k] = cutting(f[k - 1], k)
  BY <1>9, <1>10, Zenon DEF step, IsFold
<1>12. f = [k \in 0 .. n |-> IF k = 0 THEN none ELSE next(f[k - 1], k)]
  BY <1>3, <1>4, <1>9, <1>11 DEF IsFold
<1>13. split = [k \in 0 .. n |-> IF k = 0 THEN none ELSE next(split[k - 1], k)]
  BY <1>7, <1>12, Zenon
<1>14. split \in [0 .. n -> Splits] /\ split[0] = none
       /\ \A k \in 1 .. n : split[k] = cutting(split[k - 1], k)
  <2>1. /\ DOMAIN split = 0 .. n /\ split[0] = none
        /\ \A k \in 1 .. n : split[k] = next(split[k - 1], k)
    BY <1>3, <1>13
  <2>2. \A k \in 1 .. n : split[k] = cutting(split[k - 1], k)
    BY <1>4, <2>1
  <2> DEFINE T == { k \in 0 .. n : split[k] \in Splits }
  <2>3. 0 \in T
    BY <1>3, <1>5, <2>1
  <2>4. ASSUME NEW k \in 0 .. n - 1, k \in T PROVE k + 1 \in T
    <3>1. k + 1 \in 1 .. n /\ k + 1 - 1 = k /\ k + 1 \in 0 .. n
      BY <1>3
    <3> QED BY <1>6, <2>2, <2>4, <3>1
  <2>5. \A k \in 0 .. n : k \in T
    <3> HIDE DEF T
    <3> QED BY <1>3, <2>3, <2>4, InductionUpTo
  <2>6. split = [k \in 0 .. n |-> split[k]]
    BY <1>13
  <2> QED BY <2>1, <2>2, <2>5, <2>6, Zenon
<1> QED BY <1>1, <1>2, <1>14 DEF RemovalRuns, n, none, cutting

\* What a removal takes is lots, of which one may be empty, and what it leaves is held.
LEMMA SplitTierRemovalType ==
    ASSUME NEW lots \in Seq(HeldLots), NEW tier, NEW quantity \in Nat
    PROVE  SplitTierRemoval(lots, tier, quantity) \in Splits
<1>1. CASE Held(lots, tier) = 0
  <2>1. [removed |-> <<>>, remaining |-> lots] \in Splits
    BY DEF Splits
  <2>2. SplitTierRemoval(lots, tier, quantity) = [removed |-> <<>>, remaining |-> lots]
    BY <1>1 DEF SplitTierRemoval, Held
  <2> QED BY <2>1, <2>2
<1>2. CASE Held(lots, tier) # 0
  <2>1. PICK f : /\ RemovalRuns(f, lots, tier, quantity)
                 /\ SplitTierRemoval(lots, tier, quantity) = f[Len(lots)]
    BY <1>2, RemovalIsRun
  <2>2. Len(lots) \in 0 .. Len(lots)
    OBVIOUS
  <2> QED BY <2>1, <2>2 DEF RemovalRuns
<1> QED BY <1>1, <1>2

\* One cut: what the sale takes is the lot's share, and the lot keeps the rest.
CutsItsShare(c, lots, tier, quantity, k, t) ==
    /\ Held(c.removed, t) =
        IF t = tier
        THEN Shared(lots, tier, quantity, k) - Shared(lots, tier, quantity, k - 1) ELSE 0
    /\ Held(c.remaining, t) =
        (IF lots[k].tier = t THEN lots[k].quantity ELSE 0) - Held(c.removed, t)

LEMMA CuttingHeld ==
    ASSUME NEW lots \in Seq(HeldLots), NEW tier, NEW quantity \in Nat, Held(lots, tier) # 0,
           quantity <= Held(lots, tier), NEW k \in 1 .. Len(lots), NEW t
    PROVE  CutsItsShare(Cutting(lots, tier, quantity, k), lots, tier, quantity, k, t)
<1> DEFINE c == Cutting(lots, tier, quantity, k)
           l == lots[k]
           s == Shared(lots, tier, quantity, k)
           r == Shared(lots, tier, quantity, k - 1)
           q == s - r
<1>1. l \in HeldLots /\ l.quantity \in Nat \ {0}
  <2>1. l \in HeldLots
    OBVIOUS
  <2> QED BY <2>1, LotTypes
<1>2. /\ s \in Nat /\ r \in Nat /\ r <= s /\ (l.tier # tier => s = r)
      /\ (l.tier = tier => s <= r + l.quantity)
  <2>1. Len(lots) \in Nat
    OBVIOUS
  <2>2. k \in 0 .. Len(lots) /\ k - 1 \in 0 .. Len(lots)
    BY <2>1
  <2> QED BY <2>2, SharesGrow, Zenon
<1>3. Sized(HeldLots) /\ Sized(SoldLots)
  BY LotTypes DEF Sized
<1>4. Held(<<>>, t) = 0
  BY <1>3, HeldOfParts
<1>5. Held(<<l>>, t) = IF l.tier = t THEN l.quantity ELSE 0
  BY <1>1, <1>3, HeldOfParts, Zenon
<1>6. CASE l.tier # tier
  <2>1. c.removed = <<>> /\ c.remaining = <<l>>
    BY <1>6 DEF Cutting, Uncut
  <2> HIDE DEF c, l
  <2>2. s - r = 0
    <3> HIDE DEF s, r
    <3> QED BY <1>2, <1>6
  <2>3. Held(c.removed, t) = IF t = tier THEN s - r ELSE 0
    <3> HIDE DEF s, r
    <3> QED BY <1>4, <2>1, <2>2
  <2>4. Held(c.remaining, t) = (IF l.tier = t THEN l.quantity ELSE 0) - Held(c.removed, t)
    BY <1>1, <1>4, <1>5, <2>1
  <2> QED BY <2>3, <2>4 DEF c, l, s, r, CutsItsShare
<1>7. CASE l.tier = tier
  <2> DEFINE sold == [l EXCEPT !.quantity = q]
             left == [l EXCEPT !.quantity = l.quantity - q]
  <2>1. c.removed = <<sold>> /\ c.remaining = IF l.quantity > q THEN <<left>> ELSE <<>>
    BY <1>7 DEF Cutting, Cut
  <2>2. q \in Nat /\ q <= l.quantity
    <3> HIDE DEF s, r, l
    <3> QED BY <1>1, <1>2, <1>7
  <2> HIDE DEF q
  <2>3. sold \in SoldLots /\ sold.quantity = q /\ sold.tier = l.tier
    <3>1. [l EXCEPT !.quantity = q] \in SoldLots /\ [l EXCEPT !.quantity = q].quantity = q
      BY <1>1, <2>2, LotWithQuantity
    <3>2. [l EXCEPT !.quantity = q].tier = l.tier
      BY <1>1 DEF HeldLots, BoughtLots
    <3> QED BY <3>1, <3>2
  <2>4. left.quantity = l.quantity - q /\ left.tier = l.tier
        /\ (l.quantity > q => left \in HeldLots)
    <3>1. l.quantity - q \in Nat
      BY <1>1, <2>2
    <3> DEFINE x == l.quantity - q
    <3>2. x \in Nat /\ (l.quantity > q => x > 0)
      BY <1>1, <2>2, <3>1
    <3> HIDE DEF x
    <3>3. /\ x > 0 => [l EXCEPT !.quantity = x] \in HeldLots
          /\ [l EXCEPT !.quantity = x].quantity = x
      BY <1>1, <3>2, LotWithQuantity
    <3>4. [l EXCEPT !.quantity = x].tier = l.tier
      BY <1>1 DEF HeldLots, BoughtLots
    <3>5. left = [l EXCEPT !.quantity = x]
      BY DEF x
    <3> HIDE DEF left
    <3>6. left.quantity = x /\ left.tier = l.tier /\ (l.quantity > q => left \in HeldLots)
      BY <3>2, <3>3, <3>4, <3>5
    <3> QED BY <3>6 DEF x
  <2> HIDE DEF sold, left, c, l
  <2>5. Held(<<sold>>, t) = IF tier = t THEN q ELSE 0
    BY <1>3, <1>7, <2>3, HeldOfParts, Zenon
  <2>6. Held(c.remaining, t) = IF tier = t THEN l.quantity - q ELSE 0
    <3>1. CASE l.quantity > q
      <4>1. Held(<<left>>, t) = IF tier = t THEN l.quantity - q ELSE 0
        BY <1>3, <1>7, <2>4, <3>1, HeldOfParts, Zenon
      <4> QED BY <2>1, <3>1, <4>1
    <3>2. CASE ~(l.quantity > q)
      <4>1. l.quantity - q = 0
        BY <1>1, <2>2, <3>2
      <4> QED BY <1>4, <2>1, <3>2, <4>1
    <3> QED BY <3>1, <3>2
  <2>7. Held(c.removed, t) = IF t = tier THEN q ELSE 0
    BY <2>1, <2>5
  <2>8. Held(c.remaining, t) = (IF l.tier = t THEN l.quantity ELSE 0) - Held(c.removed, t)
    BY <1>1, <1>7, <2>2, <2>6, <2>7
  <2> QED BY <2>7, <2>8 DEF c, l, q, s, r, CutsItsShare
<1> QED BY <1>6, <1>7

\* What two splits hold together.
LEMMA SplitsHold ==
    ASSUME NEW s \in Splits, NEW u \in Splits, NEW tier
    PROVE  /\ Held(Beside(s, u).removed, tier) = Held(s.removed, tier) + Held(u.removed, tier)
           /\ Held(Beside(s, u).remaining, tier) = Held(s.remaining, tier) + Held(u.remaining, tier)
           /\ Held(AndThen(s, u).removed, tier) = Held(s.removed, tier) + Held(u.removed, tier)
           /\ AndThen(s, u).remaining = u.remaining
<1> DEFINE a == s.removed
           b == u.removed
           c == s.remaining
           d == u.remaining
<1>1. a \in Seq(SoldLots) /\ b \in Seq(SoldLots) /\ c \in Seq(HeldLots) /\ d \in Seq(HeldLots)
  BY SplitType
<1>2. Sized(HeldLots) /\ Sized(SoldLots)
  BY LotTypes DEF Sized
<1>3. /\ Beside(s, u).removed = a \o b /\ Beside(s, u).remaining = c \o d
      /\ AndThen(s, u).removed = a \o b /\ AndThen(s, u).remaining = d
  BY Zenon DEF Beside, AndThen
<1> HIDE DEF a, b, c, d
<1>4. Held(a \o b, tier) = Held(a, tier) + Held(b, tier)
  BY <1>1, <1>2, HeldOfBoth
<1>5. Held(c \o d, tier) = Held(c, tier) + Held(d, tier)
  BY <1>1, <1>2, HeldOfBoth
<1> QED BY <1>3, <1>4, <1>5 DEF a, b, c, d

\* What leaves one tier is what was asked of it; the other tiers are untouched.
LEMMA SplitTierRemovalHeld ==
    ASSUME NEW lots \in Seq(HeldLots), NEW tier, NEW quantity \in Nat,
           quantity <= Held(lots, tier), NEW t
    PROVE  LET s == SplitTierRemoval(lots, tier, quantity)
           IN  /\ Held(s.removed, t) = IF t = tier THEN quantity ELSE 0
               /\ Held(s.remaining, t) = Held(lots, t) - Held(s.removed, t)
<1> DEFINE n == Len(lots)
           shared(k) == Shared(lots, tier, quantity, k)
           sum(k) == HeldUpTo(lots, t, k)
           s == SplitTierRemoval(lots, tier, quantity)
<1>1. Sized(HeldLots) /\ Sized(SoldLots)
  BY LotTypes DEF Sized
<1>2. Held(lots, tier) \in Nat /\ Held(lots, t) \in Nat /\ Held(<<>>, t) = 0
  BY <1>1, HeldOf, HeldOfParts
<1>3. CASE Held(lots, tier) = 0
  <2>1. s = [removed |-> <<>>, remaining |-> lots]
    BY <1>3 DEF SplitTierRemoval, Held
  <2>2. s.removed = <<>> /\ s.remaining = lots
    BY <2>1
  <2> HIDE DEF s
  <2>3. quantity = 0
    BY <1>3
  <2>4. Held(s.removed, t) = (IF t = tier THEN quantity ELSE 0)
        /\ Held(s.remaining, t) = Held(lots, t) - Held(s.removed, t)
    BY <1>2, <2>2, <2>3
  <2> QED BY <2>4 DEF s
<1>4. CASE Held(lots, tier) # 0
  <2>1. PICK f : RemovalRuns(f, lots, tier, quantity) /\ s = f[n]
    BY <1>4, RemovalIsRun, Zenon
  <2> DEFINE a(k) == Held(f[k].removed, t)
             b(k) == Held(f[k].remaining, t)
             T == { k \in 0 .. n : /\ a(k) = IF t = tier THEN shared(k) ELSE 0
                                   /\ b(k) = sum(k) - a(k) }
  <2>2. n \in Nat
    OBVIOUS
  <2>3. /\ shared(0) = 0 /\ shared(n) = quantity /\ \A k \in 0 .. n : shared(k) \in Nat
    BY <1>4, SharesGrow
  <2>4. /\ sum(0) = 0 /\ sum(n) = Held(lots, t)
        /\ \A k \in 0 .. n : sum(k) \in Nat
        /\ \A k \in 1 .. n :
            sum(k) = sum(k - 1) + IF lots[k].tier = t THEN lots[k].quantity ELSE 0
    BY <1>1, HeldGrows, Zenon
  <2>5. \A k \in 1 .. n : lots[k].quantity \in Nat
    BY LotTypes
  <2> HIDE DEF n, shared, sum, s
  <2>6. 0 \in T
    <3>1. f[0] = [removed |-> <<>>, remaining |-> <<>>] /\ 0 \in 0 .. n
      BY <2>1, <2>2 DEF RemovalRuns
    <3>2. f[0].removed = <<>> /\ f[0].remaining = <<>>
      BY <3>1
    <3> QED BY <1>2, <2>3, <2>4, <3>1, <3>2
  <2>7. ASSUME NEW k \in 0 .. n - 1, k \in T PROVE k + 1 \in T
    <3> DEFINE j == k + 1
               c == Cutting(lots, tier, quantity, j)
    <3>1. j \in 1 .. n /\ j \in 0 .. n /\ k \in 0 .. n /\ j - 1 = k
      BY <2>2
    <3> HIDE DEF j
    <3>2. f[j] = Beside(f[k], c) /\ f[k] \in Splits
      BY <2>1, <3>1 DEF RemovalRuns, n
    <3>3. c \in Splits
      BY <1>4, <3>1, CuttingType DEF n
    <3>4. /\ Held(c.removed, t) = IF t = tier THEN shared(j) - shared(k) ELSE 0
          /\ Held(c.remaining, t) =
                (IF lots[j].tier = t THEN lots[j].quantity ELSE 0) - Held(c.removed, t)
      <4>1. /\ Held(c.removed, t) = IF t = tier THEN shared(j) - shared(j - 1) ELSE 0
            /\ Held(c.remaining, t) =
                (IF lots[j].tier = t THEN lots[j].quantity ELSE 0) - Held(c.removed, t)
        <5>1. j \in 1 .. Len(lots)
          BY <3>1 DEF n
        <5>2. CutsItsShare(Cutting(lots, tier, quantity, j), lots, tier, quantity, j, t)
          BY <1>4, <5>1, CuttingHeld
        <5> HIDE DEF c
        <5>3. c = Cutting(lots, tier, quantity, j)
          BY DEF c
        <5> QED BY <5>2, <5>3 DEF shared, CutsItsShare
      <4> QED BY <3>1, <4>1
    <3> HIDE DEF c
    <3>6. /\ Held(Beside(f[k], c).removed, t) = Held(f[k].removed, t) + Held(c.removed, t)
          /\ Held(Beside(f[k], c).remaining, t) = Held(f[k].remaining, t) + Held(c.remaining, t)
      BY <3>2, <3>3, SplitsHold, Zenon
    <3>7. a(j) = a(k) + Held(c.removed, t)
      BY <3>2, <3>6
    <3>8. b(j) = b(k) + Held(c.remaining, t)
      BY <3>2, <3>6
    <3>9. /\ a(k) = (IF t = tier THEN shared(k) ELSE 0)
          /\ b(k) = sum(k) - a(k)
      BY <2>7
    <3>10. /\ shared(j) \in Nat /\ shared(k) \in Nat /\ sum(j) \in Nat /\ sum(k) \in Nat
           /\ sum(j) = sum(k) + IF lots[j].tier = t THEN lots[j].quantity ELSE 0
           /\ lots[j].quantity \in Nat
      BY <2>3, <2>4, <2>5, <3>1, Zenon
    <3> HIDE DEF a, b
    <3>11. a(j) = (IF t = tier THEN shared(j) ELSE 0)
      BY <3>4, <3>7, <3>9, <3>10
    <3>12. b(j) = sum(j) - a(j)
      BY <3>4, <3>7, <3>8, <3>9, <3>10
    <3>13. j \in T
      BY <3>1, <3>11, <3>12 DEF a, b
    <3> QED BY <3>13 DEF j
  <2>8. \A k \in 0 .. n : k \in T
    <3> HIDE DEF T
    <3> QED BY <2>2, <2>6, <2>7, InductionUpTo, Zenon
  <2>9. n \in T
    BY <2>2, <2>8
  <2>10. Held(s.removed, t) = (IF t = tier THEN quantity ELSE 0)
         /\ Held(s.remaining, t) = Held(lots, t) - Held(s.removed, t)
    BY <2>1, <2>3, <2>4, <2>9
  <2> QED BY <2>10 DEF s
<1> QED BY <1>3, <1>4

\* The removals of a trim, one after another, each of what the last left.
RemovalsRun(f, lots, removals) ==
    /\ f \in [0 .. Len(removals) -> Splits]
    /\ f[0] = [removed |-> <<>>, remaining |-> lots]
    /\ \A k \in 1 .. Len(removals) :
        f[k] = AndThen(f[k - 1], SplitTierRemoval(f[k - 1].remaining, removals[k].tier,
                                                  removals[k].quantity))

LEMMA RemovalsAreRun ==
    ASSUME NEW lots \in Seq(HeldLots), NEW S, NEW removals \in Seq(S),
           \A i \in DOMAIN removals : removals[i].quantity \in Nat
    PROVE  \E f : RemovalsRun(f, lots, removals)
                  /\ SplitRemovals(lots, removals) = f[Len(removals)]
<1> DEFINE n == Len(removals)
           next(s, k) == AndThen(s, SplitTierRemoval(s.remaining, removals[k].tier,
                                                     removals[k].quantity))
           all == [removed |-> <<>>, remaining |-> lots]
           split == CHOOSE s : s = [k \in 0 .. n |-> IF k = 0 THEN all ELSE next(s[k - 1], k)]
<1>1. SplitRemovals(lots, removals) = split[n]
  BY DEF SplitRemovals
<1>2. n \in Nat /\ DOMAIN removals = 1 .. n
  OBVIOUS
<1>3. ASSUME NEW s \in Splits, NEW k \in 1 .. n PROVE next(s, k) \in Splits
  <2>1. s.remaining \in Seq(HeldLots) /\ removals[k].quantity \in Nat
    BY <1>2, SplitType
  <2>2. SplitTierRemoval(s.remaining, removals[k].tier, removals[k].quantity) \in Splits
    BY <2>1, SplitTierRemovalType
  <2> QED BY <2>2, SplitType
<1>4. all \in Splits
  BY DEF Splits
<1>5. split = CHOOSE s : s = [k \in 0 .. n |-> IF k = 0 THEN all ELSE next(s[k - 1], k)]
  OBVIOUS
<1> HIDE DEF next, all, n, split
<1> DEFINE step == [x \in Splits \X (1 .. n) |-> next(x[1], x[2])]
<1>6. step \in [Splits \X (1 .. n) -> Splits]
  BY <1>3
<1> HIDE DEF step
<1>7. PICK f : IsFold(f, Splits, n, all, step)
  BY <1>2, <1>4, <1>6, FoldExists, Zenon
<1>8. \A k \in 1 .. n : k - 1 \in 0 .. n /\ f[k - 1] \in Splits
  BY <1>2, <1>7 DEF IsFold
<1>9. \A k \in 1 .. n : f[k] = next(f[k - 1], k)
  BY <1>7, <1>8, Zenon DEF step, IsFold
<1>10. f = [k \in 0 .. n |-> IF k = 0 THEN all ELSE next(f[k - 1], k)]
  BY <1>2, <1>7, <1>9 DEF IsFold
<1>11. split = [k \in 0 .. n |-> IF k = 0 THEN all ELSE next(split[k - 1], k)]
  BY <1>5, <1>10, Zenon
<1>12. /\ DOMAIN split = 0 .. n /\ split[0] = all
       /\ \A k \in 1 .. n : split[k] = next(split[k - 1], k)
  BY <1>2, <1>11
<1> DEFINE T == { k \in 0 .. n : split[k] \in Splits }
<1>13. 0 \in T
  BY <1>2, <1>4, <1>12
<1>14. ASSUME NEW k \in 0 .. n - 1, k \in T PROVE k + 1 \in T
  <2>1. k + 1 \in 1 .. n /\ k + 1 - 1 = k /\ k + 1 \in 0 .. n
    BY <1>2
  <2> QED BY <1>3, <1>12, <1>14, <2>1
<1>15. \A k \in 0 .. n : k \in T
  <2> HIDE DEF T
  <2> QED BY <1>2, <1>13, <1>14, InductionUpTo, Zenon
<1>16. split \in [0 .. n -> Splits]
  <2>1. split = [k \in 0 .. n |-> split[k]]
    BY <1>11
  <2> QED BY <1>15, <2>1
<1> QED BY <1>1, <1>12, <1>16, Zenon DEF RemovalsRun, n, all, next

\* The same of all the removals of a trim.
LEMMA SplitRemovalsType ==
    ASSUME NEW lots \in Seq(HeldLots), NEW S, NEW removals \in Seq(S),
           \A i \in DOMAIN removals : removals[i].quantity \in Nat
    PROVE  SplitRemovals(lots, removals) \in Splits
<1>1. PICK f : RemovalsRun(f, lots, removals)
               /\ SplitRemovals(lots, removals) = f[Len(removals)]
  BY RemovalsAreRun
<1>2. Len(removals) \in 0 .. Len(removals)
  OBVIOUS
<1> QED BY <1>1, <1>2 DEF RemovalsRun

\* A trim that asks no tier for more than it holds takes from each what it asks.
LEMMA SplitRemovalsHeld ==
    ASSUME NEW lots \in Seq(HeldLots), NEW S, Sized(S), NEW removals \in Seq(S),
           \A tier : Held(removals, tier) <= Held(lots, tier), NEW t
    PROVE  LET s == SplitRemovals(lots, removals)
           IN  /\ Held(s.removed, t) = Held(removals, t)
               /\ Held(s.remaining, t) = Held(lots, t) - Held(removals, t)
<1> DEFINE n == Len(removals)
           sum(k, u) == HeldUpTo(removals, u, k)
           s == SplitRemovals(lots, removals)
<1>1. Sized(HeldLots) /\ Sized(SoldLots)
  BY LotTypes DEF Sized
<1>2. n \in Nat /\ DOMAIN removals = 1 .. n /\ \A i \in 1 .. n : removals[i].quantity \in Nat
  BY DEF Sized
<1>3. PICK f : RemovalsRun(f, lots, removals) /\ s = f[n]
  <2>1. \A i \in DOMAIN removals : removals[i].quantity \in Nat
    BY <1>2
  <2> QED BY <2>1, RemovalsAreRun
<1>4. ASSUME NEW u
      PROVE  /\ sum(0, u) = 0 /\ sum(n, u) = Held(removals, u)
             /\ \A k \in 0 .. n : sum(k, u) \in Nat /\ sum(k, u) <= Held(removals, u)
             /\ \A k \in 1 .. n : sum(k, u) = sum(k - 1, u) +
                    IF removals[k].tier = u THEN removals[k].quantity ELSE 0
  BY HeldGrows
<1>5. \A u : /\ Held(lots, u) \in Nat /\ Held(removals, u) \in Nat
             /\ Held(removals, u) <= Held(lots, u)
  BY <1>1, HeldOf
<1>6. \A u : Held(<<>>, u) = 0
  BY <1>1, HeldOfParts
<1> DEFINE a(k, u) == Held(f[k].removed, u)
           b(k, u) == Held(f[k].remaining, u)
           T == { k \in 0 .. n : \A u : a(k, u) = sum(k, u) /\ b(k, u) = Held(lots, u) - sum(k, u) }
<1> HIDE DEF n, sum, s
<1>7. 0 \in T
  <2>1. f[0] = [removed |-> <<>>, remaining |-> lots] /\ 0 \in 0 .. n
    BY <1>2, <1>3 DEF RemovalsRun
  <2>2. f[0].removed = <<>> /\ f[0].remaining = lots
    BY <2>1
  <2> QED BY <1>4, <1>5, <1>6, <2>1, <2>2
<1>8. ASSUME NEW k \in 0 .. n - 1, k \in T PROVE k + 1 \in T
  <2> DEFINE j == k + 1
             tier == removals[j].tier
             q == removals[j].quantity
             c == SplitTierRemoval(f[k].remaining, tier, q)
  <2>1. j \in 1 .. n /\ j \in 0 .. n /\ k \in 0 .. n /\ j - 1 = k
    BY <1>2
  <2> HIDE DEF j
  <2>2. f[j] = AndThen(f[k], c) /\ f[k] \in Splits
    <3>1. f[j] = AndThen(f[j - 1], SplitTierRemoval(f[j - 1].remaining, removals[j].tier,
                                                    removals[j].quantity))
          /\ f[k] \in Splits
      BY <1>3, <2>1, Zenon DEF RemovalsRun, n
    <3> QED BY <2>1, <3>1
  <2>3. q \in Nat
    BY <1>2, <2>1
  <2>4. \A u : /\ a(k, u) = sum(k, u) /\ b(k, u) = Held(lots, u) - sum(k, u)
               /\ sum(k, u) \in Nat /\ sum(j, u) \in Nat /\ sum(j, u) <= Held(removals, u)
               /\ sum(j, u) = sum(k, u) + IF tier = u THEN q ELSE 0
    BY <1>4, <1>8, <2>1, Zenon
  <2>5. f[k].remaining \in Seq(HeldLots) /\ f[k].removed \in Seq(SoldLots)
    BY <2>2, SplitType
  <2>6. q <= Held(f[k].remaining, tier)
    <3>1. /\ b(k, tier) = Held(lots, tier) - sum(k, tier)
          /\ sum(k, tier) \in Nat /\ sum(j, tier) = sum(k, tier) + q
          /\ sum(j, tier) <= Held(removals, tier)
      <4> HIDE DEF tier, q, a, b
      <4> QED BY <2>3, <2>4
    <3>2. Held(lots, tier) \in Nat /\ Held(removals, tier) \in Nat
          /\ Held(removals, tier) <= Held(lots, tier)
      BY <1>5
    <3> HIDE DEF tier, q
    <3> QED BY <2>3, <3>1, <3>2
  <2> HIDE DEF tier, q
  <2>7. c \in Splits
    BY <2>3, <2>5, SplitTierRemovalType
  <2>8. ASSUME NEW u
        PROVE  /\ Held(c.removed, u) = IF u = tier THEN q ELSE 0
               /\ Held(c.remaining, u) = Held(f[k].remaining, u) - Held(c.removed, u)
    BY <2>3, <2>5, <2>6, SplitTierRemovalHeld
  <2> HIDE DEF c
  <2>9. ASSUME NEW u PROVE a(j, u) = sum(j, u) /\ b(j, u) = Held(lots, u) - sum(j, u)
    <3>1. /\ Held(AndThen(f[k], c).removed, u) = Held(f[k].removed, u) + Held(c.removed, u)
          /\ AndThen(f[k], c).remaining = c.remaining
      BY <2>2, <2>7, SplitsHold, Zenon
    <3>2. a(j, u) = a(k, u) + Held(c.removed, u)
      BY <2>2, <3>1
    <3>3. b(j, u) = b(k, u) - Held(c.removed, u)
      BY <2>2, <2>8, <3>1
    <3>4. Held(lots, u) \in Nat
      BY <1>5
    <3>5. /\ a(k, u) = sum(k, u) /\ b(k, u) = Held(lots, u) - sum(k, u)
          /\ sum(k, u) \in Nat /\ sum(j, u) \in Nat
          /\ sum(j, u) = sum(k, u) + IF tier = u THEN q ELSE 0
      BY <2>4
    <3>6. Held(c.removed, u) = IF u = tier THEN q ELSE 0
      BY <2>8
    <3> HIDE DEF a, b
    <3> QED BY <2>3, <3>2, <3>3, <3>4, <3>5, <3>6
  <2>10. j \in T
    <3> HIDE DEF a, b
    <3> QED BY <2>1, <2>9
  <2> QED BY <2>10 DEF j
<1>9. \A k \in 0 .. n : k \in T
  <2> HIDE DEF T
  <2> QED BY <1>2, <1>7, <1>8, InductionUpTo, Zenon
<1>10. n \in T
  BY <1>2, <1>9
<1>11. Held(s.removed, t) = Held(removals, t)
       /\ Held(s.remaining, t) = Held(lots, t) - Held(removals, t)
  BY <1>3, <1>4, <1>10
<1> QED BY <1>11 DEF s
----------------------------------------------------------------------------
(* The tiers a cash leg is shared over.                                    *)

\* A list of deltas names a tier once; lots are of more than one tier.
Spread(deltas) == \A i, j \in DOMAIN deltas : deltas[i].tier = deltas[j].tier => i = j
OfSeveralTiers(lots) == \E lot, other \in ToSet(lots) : lot.tier # other.tier

\* What the lots of a tier cost.
CostIn(lots, tier) == Cost(InTier(lots, tier))

\* Two shares of an amount do not exceed it when their parts do not exceed the whole.
LEMMA TwoShares ==
    ASSUME NEW total \in Nat, NEW n \in Nat \ {0}, NEW x \in Nat, NEW y \in Nat, x + y <= n
    PROVE  /\ (total * x) \div n \in Nat /\ (total * y) \div n \in Nat
           /\ (total * x) \div n + (total * y) \div n <= total
<1> DEFINE u == total * x
           v == total * y
           a == u \div n
           b == v \div n
<1>1. u \in Nat /\ v \in Nat
  BY ProductType
<1>2. u + v = total * (x + y)
  OBVIOUS
<1>3. total * (x + y) <= total * n
  OBVIOUS
<1> HIDE DEF u, v
<1>4. a \in Nat /\ b \in Nat /\ n * a <= u /\ n * b <= v
  BY <1>1, QuotientType
<1> HIDE DEF a, b
<1>5. n * (a + b) = n * a + n * b
  BY <1>4
<1>6. n * a \in Nat /\ n * b \in Nat /\ total * n \in Nat
  BY <1>4, ProductType
<1>7. n * (a + b) <= total * n
  BY <1>1, <1>2, <1>3, <1>4, <1>5, <1>6
<1>8. a + b \in Nat
  BY <1>4
<1>9. a + b <= total
  BY <1>7, <1>8, FactorOut
<1> QED BY <1>4, <1>9 DEF a, b, u, v

\* The lots of each tier cost what all of them cost.
LEMMA CostByTier ==
    ASSUME NEW lots \in Seq(SoldLots)
    PROVE  /\ \A tier : CostIn(lots, tier) \in Nat
           /\ Cost(lots) = CostIn(lots, "c1") + CostIn(lots, "c2") + CostIn(lots, "c3")
<1> DEFINE S == [tier : Tiers, quantity : Nat]
           f == [l \in SoldLots |-> l.quantity * l.cost]
           priced == [i \in DOMAIN lots |-> [tier |-> lots[i].tier, quantity |-> f[lots[i]]]]
<1>1. \A l \in SoldLots : l.quantity * l.cost \in Nat /\ l.tier \in Tiers
  BY LotTypes, ProductType
<1>2. \A l \in SoldLots : f[l] = l.quantity * l.cost
  OBVIOUS
<1>3. f \in [SoldLots -> Nat] /\ f \in [SoldLots -> Int]
  <2>1. \A l \in SoldLots : l.quantity * l.cost \in Int
    BY <1>1
  <2> QED BY <1>1, <2>1
<1> HIDE DEF f
<1>4. Len(lots) \in Nat /\ DOMAIN lots = 1 .. Len(lots) /\ \A i \in 1 .. Len(lots) : lots[i] \in SoldLots
  OBVIOUS
<1>5. priced \in Seq(S) /\ DOMAIN priced = DOMAIN lots
      /\ \A i \in DOMAIN lots : priced[i].tier = lots[i].tier /\ priced[i].quantity = f[lots[i]]
  <2>1. \A i \in 1 .. Len(lots) : [tier |-> lots[i].tier, quantity |-> f[lots[i]]] \in S
    BY <1>1, <1>3, <1>4
  <2> QED BY <1>4, <2>1
<1> HIDE DEF priced
<1>6. Sized(S) /\ \A l \in S : l.tier \in Tiers
  BY DEF Sized
<1> HIDE DEF S
<1>7. Quantity(priced) = Held(priced, "c1") + Held(priced, "c2") + Held(priced, "c3")
  BY <1>5, <1>6, QuantityByTier
<1>8. Quantity(priced) = Cost(lots)
  <2>1. [i \in DOMAIN priced |-> priced[i].quantity] =
            [i \in DOMAIN lots |-> lots[i].quantity * lots[i].cost]
    BY <1>2, <1>4, <1>5
  <2> QED BY <2>1 DEF Quantity, Cost
<1>9. ASSUME NEW tier PROVE CostIn(lots, tier) = Held(priced, tier)
  <2> DEFINE places == { i \in DOMAIN lots : lots[i].tier = tier }
             kept == Kept(lots, places)
             w == [i \in DOMAIN lots |-> f[lots[i]]]
  <2>1. kept \in Seq(SoldLots) /\ Total([i \in DOMAIN kept |-> f[kept[i]]]) = Counted(w, places)
    <3> HIDE DEF places
    <3> QED BY <1>3, TotalOfKept, ZenonT(60)
  <2>2. Counted(w, places) = Total(Units(priced, tier))
    <3>1. DOMAIN w = DOMAIN lots /\ \A i \in DOMAIN lots : w[i] = f[lots[i]]
      OBVIOUS
    <3> HIDE DEF w
    <3>2. [k \in DOMAIN w |-> IF k \in places THEN w[k] ELSE 0] = Units(priced, tier)
      BY <1>5, <3>1 DEF Units
    <3> HIDE DEF places
    <3> QED BY <3>2 DEF Counted
  <2>3. Total(Units(priced, tier)) = Held(priced, tier)
    BY <1>5, <1>6, HeldOf
  <2>4. CostIn(lots, tier) = Total([i \in DOMAIN kept |-> f[kept[i]]])
    <3>1. CostIn(lots, tier) = Total([i \in DOMAIN kept |-> kept[i].quantity * kept[i].cost])
      BY DEF CostIn, Cost, InTier
    <3>2. [i \in DOMAIN kept |-> kept[i].quantity * kept[i].cost] =
                [i \in DOMAIN kept |-> f[kept[i]]]
      <4> HIDE DEF kept
      <4> QED BY <1>2, <2>1
    <3> HIDE DEF kept
    <3> QED BY <3>1, <3>2
  <2> HIDE DEF kept, w, places
  <2> QED BY <2>1, <2>2, <2>3, <2>4
<1>10. \A tier : Held(priced, tier) \in Nat
  BY <1>5, <1>6, HeldOf
<1> QED BY <1>7, <1>8, <1>9, <1>10

\* The tiers present among lots, in their order.
PresentIn(lots) == Kept(TIERS, { k \in DOMAIN TIERS : InTier(lots, TIERS[k]) # <<>> })

LEMMA PresentTiers ==
    ASSUME NEW lots \in Seq(SoldLots)
    PROVE  /\ PresentIn(lots) \in Seq(Tiers) /\ Len(PresentIn(lots)) \in 0 .. 3
           /\ \A i, j \in DOMAIN PresentIn(lots) : PresentIn(lots)[i] = PresentIn(lots)[j] => i = j
           /\ \A i \in DOMAIN PresentIn(lots) :
                \E lot \in ToSet(lots) : lot.tier = PresentIn(lots)[i]
<1> DEFINE present == PresentIn(lots)
           places == { k \in DOMAIN TIERS : InTier(lots, TIERS[k]) # <<>> }
           rank == [tier \in Tiers |-> IF tier = "c1" THEN 1 ELSE IF tier = "c2" THEN 2 ELSE 3]
<1>1. present \in Seq(Tiers) /\ ToSet(present) = { TIERS[k] : k \in places \cap DOMAIN TIERS }
  <2>1. present = Kept(TIERS, places)
    BY DEF PresentIn
  <2>2. TIERS \in Seq(Tiers)
    BY TierNames
  <2> HIDE DEF places, present
  <2>3. /\ Kept(TIERS, places) \in Seq(Tiers)
        /\ ToSet(Kept(TIERS, places)) = { TIERS[k] : k \in places \cap DOMAIN TIERS }
    BY <2>2, KeptLines
  <2> QED BY <2>1, <2>3
<1>2. rank \in [Tiers -> Int] /\ \A tier \in Tiers : rank[tier] \in {1, 2, 3}
  <2>1. \A tier \in Tiers :
            (IF tier = "c1" THEN 1 ELSE IF tier = "c2" THEN 2 ELSE 3) \in {1, 2, 3}
    OBVIOUS
  <2>2. {1, 2, 3} \subseteq Int
    OBVIOUS
  <2> QED BY <2>1, <2>2
<1>3. Rising(TIERS, rank)
  <2>1. \A i \in 1 .. 3 : rank[TIERS[i]] = i
    BY TheTiers DEF TIERS
  <2> HIDE DEF rank
  <2> QED BY <2>1, TierNames DEF Rising
<1>4. Rising(present, rank)
  <2>1. present = Kept(TIERS, places)
    BY DEF PresentIn
  <2>2. TIERS \in Seq(Tiers)
    BY TierNames
  <2> HIDE DEF places, rank, present
  <2>3. Rising(Kept(TIERS, places), rank)
    BY <1>2, <1>3, <2>2, KeptInOrder
  <2> QED BY <2>1, <2>3
<1> HIDE DEF rank, places, present
<1>5. Len(present) \in Nat /\ DOMAIN present = 1 .. Len(present)
      /\ \A i \in 1 .. Len(present) : present[i] \in Tiers
  <2>1. present \in Seq(Tiers)
    BY <1>1
  <2> QED BY <2>1
<1>6. Len(present) <= 3
  <2> SUFFICES ASSUME Len(present) >= 4 PROVE FALSE
    BY <1>5
  <2>1. {1, 2, 3, 4} \subseteq 1 .. Len(present)
    BY <1>5
  <2>2. /\ rank[present[1]] \in {1, 2, 3} /\ rank[present[4]] \in {1, 2, 3}
        /\ rank[present[2]] \in {1, 2, 3} /\ rank[present[3]] \in {1, 2, 3}
    BY <1>2, <1>5, <2>1
  <2>3. /\ rank[present[1]] < rank[present[2]] /\ rank[present[2]] < rank[present[3]]
        /\ rank[present[3]] < rank[present[4]]
    BY <1>4, <1>5, <2>1 DEF Rising
  <2> QED BY <2>2, <2>3
<1>7. ASSUME NEW i \in DOMAIN present, NEW j \in DOMAIN present, present[i] = present[j]
      PROVE  i = j
  <2>1. i \in Int /\ j \in Int
    BY <1>5
  <2>2. ~(i < j) /\ ~(j < i)
    <3>1. rank[present[i]] \in {1, 2, 3}
      BY <1>2, <1>5
    <3> QED BY <1>4, <1>7, <3>1 DEF Rising
  <2> QED BY <2>1, <2>2
<1>8. ASSUME NEW i \in DOMAIN present PROVE \E lot \in ToSet(lots) : lot.tier = present[i]
  <2>1. present[i] \in ToSet(present)
    BY DEF ToSet
  <2>2. PICK k \in DOMAIN TIERS : TIERS[k] = present[i] /\ InTier(lots, TIERS[k]) # <<>>
    BY <1>1, <2>1 DEF places
  <2> DEFINE held == { n \in DOMAIN lots : lots[n].tier = TIERS[k] }
             in == InTier(lots, TIERS[k])
  <2>3. in \in Seq(SoldLots) /\ ToSet(in) = { lots[n] : n \in held \cap DOMAIN lots }
    <3>1. in = Kept(lots, held)
      BY DEF InTier
    <3> HIDE DEF in, held
    <3> QED BY <3>1, KeptLines
  <2>4. in[1] \in ToSet(in)
    <3> HIDE DEF in
    <3>1. in # <<>>
      BY <2>2 DEF in
    <3>2. 1 \in DOMAIN in
      BY <2>3, <3>1
    <3> QED BY <3>2 DEF ToSet
  <2>5. PICK n \in DOMAIN lots : lots[n].tier = TIERS[k]
    <3> HIDE DEF in
    <3> QED BY <2>3, <2>4
  <2>6. lots[n] \in ToSet(lots)
    BY DEF ToSet
  <2> QED BY <2>2, <2>5, <2>6
<1>9. Len(present) \in 0 .. 3
  BY <1>5, <1>6
<1> QED BY <1>1, <1>7, <1>8, <1>9 DEF present

\* Neither the lots of one tier nor those of two cost more than all.
LEMMA CostsApart ==
    ASSUME NEW lots \in Seq(SoldLots), NEW t \in Tiers
    PROVE  /\ CostIn(lots, t) <= Cost(lots)
           /\ \A u \in Tiers : t # u => CostIn(lots, t) + CostIn(lots, u) <= Cost(lots)
<1> DEFINE x == CostIn(lots, "c1")
           y == CostIn(lots, "c2")
           z == CostIn(lots, "c3")
           n == Cost(lots)
<1>1. x \in Nat /\ y \in Nat /\ z \in Nat /\ n = x + y + z
  BY CostByTier
<1>2. \A u \in Tiers : CostIn(lots, u) = IF u = "c1" THEN x ELSE IF u = "c2" THEN y ELSE z
  BY TheTiers
<1>3. \A u \in Tiers : u = "c1" \/ u = "c2" \/ u = "c3"
  BY TheTiers
<1> HIDE DEF x, y, z, n
<1>4. CostIn(lots, t) <= n
  BY <1>1, <1>2
<1>5. ASSUME NEW u \in Tiers, t # u PROVE CostIn(lots, t) + CostIn(lots, u) <= n
  BY <1>1, <1>2, <1>3, <1>5
<1> QED BY <1>4, <1>5 DEF n

\* The deltas of a cash leg name a tier once, and no more than one unless the lots are of
\* several; and a sale debits no tier.
LEMMA DeltasSpread ==
    ASSUME NEW lots \in Seq(SoldLots), NEW total \in Nat, NEW sign \in {1, -1}, NEW deltas,
           deltas = TierWeightedDeltas(lots, total, sign)
    PROVE  /\ Spread(deltas)
           /\ Len(deltas) > 1 => OfSeveralTiers(lots)
           /\ sign = 1 => \A i \in DOMAIN deltas : deltas[i].amount >= 0
<1> DEFINE present == PresentIn(lots)
           last == Len(present)
           share(i) == (total * CostIn(lots, present[i])) \div Cost(lots)
           shares == [i \in 1 .. last - 1 |-> share(i)]
           part(i) == IF i = last THEN total - Total(shares) ELSE share(i)
           split == [i \in 1 .. last |-> [tier |-> present[i], amount |-> sign * part(i)]]
<1>1. deltas = IF present = <<>> THEN <<>>
               ELSE IF Cost(lots) = 0
                    THEN << [tier |-> present[1], amount |-> sign * total] >>
               ELSE split
  BY DEF TierWeightedDeltas, CostIn, PresentIn
<1>2. /\ present \in Seq(Tiers) /\ last \in 0 .. 3
      /\ \A i, j \in DOMAIN present : present[i] = present[j] => i = j
      /\ \A i \in DOMAIN present : \E lot \in ToSet(lots) : lot.tier = present[i]
  BY PresentTiers
<1> HIDE DEF present, last, share, part
<1>3. DOMAIN present = 1 .. last /\ \A i \in 1 .. last : present[i] \in Tiers
  BY <1>2 DEF last
<1>4. CASE present = <<>>
  <2>1. deltas = <<>>
    BY <1>1, <1>4
  <2> QED BY <2>1 DEF Spread
<1>5. CASE present # <<>> /\ Cost(lots) = 0
  <2>1. deltas = << [tier |-> present[1], amount |-> sign * total] >>
    BY <1>1, <1>5
  <2>2. DOMAIN deltas = {1} /\ Len(deltas) = 1 /\ deltas[1].amount = sign * total
    BY <2>1
  <2>3. sign = 1 => sign * total >= 0
    OBVIOUS
  <2> HIDE DEF shares
  <2> QED BY <2>2, <2>3 DEF Spread
<1>6. CASE present # <<>> /\ Cost(lots) # 0
  <2>1. deltas = split
    BY <1>1, <1>6
  <2>2. last \in 1 .. 3
    BY <1>2, <1>6 DEF last
  <2>3. DOMAIN deltas = 1 .. last /\ Len(deltas) = last
        /\ \A i \in 1 .. last : deltas[i].tier = present[i] /\ deltas[i].amount = sign * part(i)
    BY <2>1, <2>2
  <2>4. Spread(deltas)
    BY <1>2, <1>3, <2>3 DEF Spread
  <2>5. Len(deltas) > 1 => OfSeveralTiers(lots)
    <3> SUFFICES ASSUME Len(deltas) > 1 PROVE OfSeveralTiers(lots)
      OBVIOUS
    <3>1. 1 \in DOMAIN present /\ 2 \in DOMAIN present
      BY <1>3, <2>2, <2>3
    <3>2. present[1] # present[2]
      BY <1>2, <3>1
    <3>3. PICK lot \in ToSet(lots) : lot.tier = present[1]
      BY <1>2, <3>1
    <3>4. PICK other \in ToSet(lots) : other.tier = present[2]
      BY <1>2, <3>1
    <3> QED BY <3>2, <3>3, <3>4 DEF OfSeveralTiers
  <2>6. \A i \in 1 .. last : part(i) \in Nat
    <3> DEFINE n == Cost(lots)
               c(i) == CostIn(lots, present[i])
    <3>1. n \in Nat \ {0} /\ \A i \in 1 .. last : c(i) \in Nat
      BY <1>6, CostByTier, QuantityType, Zenon
    <3>2. \A i \in 1 .. last : c(i) <= n
      BY <1>3, CostsApart
    <3>3. ASSUME NEW i \in 1 .. last, NEW j \in 1 .. last, i # j PROVE c(i) + c(j) <= n
      <4>1. present[i] # present[j] /\ present[i] \in Tiers /\ present[j] \in Tiers
        BY <1>2, <1>3, <3>3, Zenon
      <4> QED BY <4>1, CostsApart
    <3>4. \A i : share(i) = (total * c(i)) \div n
      BY DEF share
    <3> HIDE DEF c, n
    <3>5. \A i \in 1 .. last : share(i) \in Nat /\ share(i) <= total
      <4> TAKE i \in 1 .. last
      <4>1. c(i) \in Nat /\ 0 \in Nat /\ c(i) + 0 <= n
        BY <3>1, <3>2
      <4>2. /\ (total * c(i)) \div n \in Nat /\ (total * 0) \div n \in Nat
            /\ (total * c(i)) \div n + (total * 0) \div n <= total
        BY <3>1, <4>1, TwoShares, Zenon
      <4> QED BY <3>4, <4>2
    <3>6. ASSUME last = 3 PROVE share(1) + share(2) <= total
      <4>1. 1 \in 1 .. last /\ 2 \in 1 .. last
        BY <3>6
      <4>2. c(1) \in Nat /\ c(2) \in Nat /\ c(1) + c(2) <= n
        BY <3>1, <3>3, <4>1
      <4>3. (total * c(1)) \div n + (total * c(2)) \div n <= total
        BY <3>1, <4>2, TwoShares, Zenon
      <4> QED BY <3>4, <4>3
    <3>7. Total(shares) \in Nat /\ Total(shares) <= total
      <4>1. CASE last = 1
        <5>1. shares \in Seq(Int) /\ \A k \in DOMAIN shares : shares[k] = 0
          BY <4>1
        <5> HIDE DEF shares
        <5>2. Total(shares) = 0
          BY <5>1, TotalOfNone
        <5> QED BY <5>2
      <4>2. CASE last = 2
        <5>1. shares = << share(1) >>
          BY <4>2
        <5>2. 1 \in 1 .. last
          BY <4>2
        <5>3. share(1) \in Nat /\ share(1) <= total
          BY <3>5, <5>2
        <5> HIDE DEF shares
        <5>4. Total(<< share(1) >>) = share(1)
          BY <5>3, TotalOfOne
        <5> QED BY <5>1, <5>3, <5>4
      <4>3. CASE last = 3
        <5>1. shares = Append(<< share(1) >>, share(2))
          BY <4>3
        <5>2. 1 \in 1 .. last /\ 2 \in 1 .. last
          BY <4>3
        <5>3. share(1) \in Nat /\ share(2) \in Nat /\ share(1) + share(2) <= total
          BY <3>5, <3>6, <4>3, <5>2
        <5> HIDE DEF shares
        <5>4. << share(1) >> \in Seq(Int) /\ Total(<< share(1) >>) = share(1)
          BY <5>3, TotalOfOne
        <5>5. share(2) \in Int
          BY <5>3
        <5>6. Total(Append(<< share(1) >>, share(2))) = share(1) + share(2)
          BY <5>4, <5>5, TotalOfOneMore, Zenon
        <5> QED BY <5>1, <5>3, <5>6
      <4> QED BY <2>2, <4>1, <4>2, <4>3
    <3> HIDE DEF shares
    <3> QED BY <3>5, <3>7 DEF part
  <2>7. sign = 1 => \A i \in DOMAIN deltas : deltas[i].amount >= 0
    <3> SUFFICES ASSUME sign = 1, NEW i \in DOMAIN deltas PROVE deltas[i].amount >= 0
      OBVIOUS
    <3>1. deltas[i].amount = part(i)
      BY <2>3, <2>6
    <3> QED BY <2>3, <2>6, <3>1
  <2> QED BY <2>4, <2>5, <2>7
<1> QED BY <1>4, <1>5, <1>6
----------------------------------------------------------------------------
(* Reserves.                                                               *)

\* What the lots of a tiered reserve may be.
TierMaps == UNION { [D -> Int] : D \in SUBSET Tiers }

IsReserve(r) ==
    /\ {"amount", "lots"} \subseteq DOMAIN r
    /\ r.amount \in Int
    /\ r.lots = Untiered \/ r.lots \in TierMaps

LEMMA TierMapsType ==
    /\ <<>> \in TierMaps
    /\ \A m \in TierMaps : DOMAIN m \subseteq Tiers /\ \A tier \in DOMAIN m : m[tier] \in Int
    /\ \A m \in TierMaps, tier \in Tiers, x \in Int : Put(m, tier, x) \in TierMaps
    /\ \A m \in TierMaps : \A tier \in DOMAIN m, x \in Int : [m EXCEPT ![tier] = x] \in TierMaps
<1>1. <<>> \in TierMaps
  <2>1. <<>> \in [{} -> Int]
    OBVIOUS
  <2> QED BY <2>1 DEF TierMaps
<1>2. \A m \in TierMaps : DOMAIN m \subseteq Tiers /\ \A tier \in DOMAIN m : m[tier] \in Int
  BY DEF TierMaps
<1>3. ASSUME NEW m \in TierMaps, NEW tier \in Tiers, NEW x \in Int
      PROVE  Put(m, tier, x) \in TierMaps
  <2>1. Put(m, tier, x) \in [DOMAIN m \cup {tier} -> Int]
    BY <1>2 DEF Put
  <2>2. DOMAIN m \cup {tier} \in SUBSET Tiers
    BY <1>2
  <2> QED BY <2>1, <2>2 DEF TierMaps
<1>4. ASSUME NEW m \in TierMaps, NEW tier \in DOMAIN m, NEW x \in Int
      PROVE  [m EXCEPT ![tier] = x] \in TierMaps
  <2>1. PICK D \in SUBSET Tiers : m \in [D -> Int]
    BY DEF TierMaps
  <2>2. [m EXCEPT ![tier] = x] \in [D -> Int]
    BY <2>1
  <2> QED BY <2>2 DEF TierMaps
<1> QED BY <1>1, <1>2, <1>3, <1>4

\* A credit or a debit moves the amount of a reserve by what its deltas come to.
LEMMA DeltaMoves ==
    ASSUME NEW r, IsReserve(r), NEW deltas \in Seq(Deltas),
           NEW amount \in Int, Total([i \in DOMAIN deltas |-> deltas[i].amount]) = amount
    PROVE  /\ IsReserve(ApplyReserveDelta(r, deltas))
           /\ ApplyReserveDelta(r, deltas).amount = r.amount + amount
<1> DEFINE n == Len(deltas)
           moved(held, d) ==
                IF d.tier \in DOMAIN held THEN [held EXCEPT ![d.tier] = @ + d.amount]
                ELSE IF d.amount > 0 THEN Put(held, d.tier, d.amount)
                ELSE held
           next(m, k) == moved(m, deltas[k])
           lots == CHOOSE s : s = [k \in 0 .. n |-> IF k = 0 THEN r.lots ELSE next(s[k - 1], k)]
           left == IF r.lots = Untiered THEN r.lots ELSE lots[n]
           total == Total([i \in DOMAIN deltas |-> deltas[i].amount])
<1>1. ApplyReserveDelta(r, deltas) =
        [r EXCEPT !.amount = r.amount + total, !.lots = left]
  BY DEF ApplyReserveDelta
<1>2. n \in Nat /\ DOMAIN deltas = 1 .. n /\ \A k \in 1 .. n : deltas[k] \in Deltas
  OBVIOUS
<1>3. ASSUME NEW m \in TierMaps, NEW k \in 1 .. n PROVE next(m, k) \in TierMaps
  <2> DEFINE d == deltas[k]
  <2>1. d.tier \in Tiers /\ d.amount \in Int
    BY <1>2 DEF Deltas
  <2> HIDE DEF d
  <2>2. CASE d.tier \in DOMAIN m
    <3>1. m[d.tier] \in Int
      BY <2>2, TierMapsType
    <3>2. m[d.tier] + d.amount \in Int
      BY <2>1, <3>1
    <3>3. [m EXCEPT ![d.tier] = m[d.tier] + d.amount] \in TierMaps
      BY <2>2, <3>2, TierMapsType
    <3>4. next(m, k) = [m EXCEPT ![d.tier] = m[d.tier] + d.amount]
      BY <2>2 DEF d
    <3> QED BY <3>3, <3>4
  <2>3. CASE d.tier \notin DOMAIN m
    <3>1. Put(m, d.tier, d.amount) \in TierMaps
      BY <2>1, TierMapsType
    <3>2. next(m, k) = IF d.amount > 0 THEN Put(m, d.tier, d.amount) ELSE m
      BY <2>3 DEF d
    <3> QED BY <3>1, <3>2
  <2> QED BY <2>2, <2>3
<1> HIDE DEF next, n
<1>4. left = Untiered \/ left \in TierMaps
  <2>1. CASE r.lots = Untiered
    BY <2>1
  <2>2. CASE r.lots # Untiered
    <3>1. r.lots \in TierMaps
      BY <2>2 DEF IsReserve
    <3> DEFINE step == [x \in TierMaps \X (1 .. n) |-> next(x[1], x[2])]
    <3>2. step \in [TierMaps \X (1 .. n) -> TierMaps]
      BY <1>3
    <3> HIDE DEF step
    <3>3. PICK f : IsFold(f, TierMaps, n, r.lots, step)
      BY <1>2, <3>1, <3>2, FoldExists, Zenon
    <3>4. \A k \in 1 .. n : k - 1 \in 0 .. n /\ f[k - 1] \in TierMaps
      BY <1>2, <3>3 DEF IsFold
    <3>5. \A k \in 1 .. n : f[k] = next(f[k - 1], k)
      BY <3>3, <3>4, Zenon DEF step, IsFold
    <3>6. f = [k \in 0 .. n |-> IF k = 0 THEN r.lots ELSE next(f[k - 1], k)]
      BY <1>2, <3>3, <3>5 DEF IsFold
    <3>7. lots = [k \in 0 .. n |-> IF k = 0 THEN r.lots ELSE next(lots[k - 1], k)]
      BY <3>6, Zenon
    <3> HIDE DEF lots
    <3>8. lots[0] = r.lots /\ \A k \in 1 .. n : lots[k] = next(lots[k - 1], k)
      BY <1>2, <3>7
    <3> DEFINE T == { k \in 0 .. n : lots[k] \in TierMaps }
    <3>9. 0 \in T
      BY <1>2, <3>1, <3>8
    <3>10. ASSUME NEW k \in 0 .. n - 1, k \in T PROVE k + 1 \in T
      <4>1. k + 1 \in 1 .. n /\ k + 1 - 1 = k
        BY <1>2
      <4> QED BY <1>3, <3>8, <3>10, <4>1
    <3>11. n \in T
      <4> HIDE DEF T
      <4>1. \A k \in 0 .. n : k \in T
        BY <1>2, <3>9, <3>10, InductionUpTo, Zenon
      <4> QED BY <1>2, <4>1
    <3> QED BY <2>2, <3>11
  <2> QED BY <2>1, <2>2
<1> HIDE DEF left, total
<1>5. total = amount
  BY DEF total
<1> QED BY <1>1, <1>4, <1>5 DEF IsReserve

\* The gate weighed a leg against what its reserve held (crossref.ts 1062-1081).
Covers(r, d) ==
    d.amount >= 0 \/
    -d.amount <= IF r.lots = Untiered THEN r.amount ELSE Stock(r.lots, d.tier)

Stocks(m) == Stock(m, "c1") + Stock(m, "c2") + Stock(m, "c3")

\* One delta of a tiered reserve.
Moving(held, d) ==
    IF d.tier \in DOMAIN held THEN [held EXCEPT ![d.tier] = @ + d.amount]
    ELSE IF d.amount > 0 THEN Put(held, d.tier, d.amount)
    ELSE held

LEMMA StockType ==
    ASSUME NEW m \in TierMaps, NEW tier
    PROVE  Stock(m, tier) \in Int
<1>1. CASE tier \in DOMAIN m
  BY <1>1, TierMapsType DEF Stock
<1>2. CASE tier \notin DOMAIN m
  BY <1>2 DEF Stock
<1> QED BY <1>1, <1>2

LEMMA StocksAddUp ==
    ASSUME NEW m \in TierMaps
    PROVE  Total([k \in DOMAIN TIERS |-> Stock(m, TIERS[k])]) = Stocks(m) /\ Stocks(m) \in Int
<1> DEFINE f == [tier \in Tiers |-> Stock(m, tier)]
<1>1. \A tier \in Tiers : f[tier] \in Int
  BY StockType
<1>2. "c1" \in Tiers /\ "c2" \in Tiers /\ "c3" \in Tiers
  BY TheTiers
<1>3. \A k \in DOMAIN TIERS : TIERS[k] \in Tiers
  BY TierNames
<1>4. [k \in DOMAIN TIERS |-> f[TIERS[k]]] = [k \in DOMAIN TIERS |-> Stock(m, TIERS[k])]
  BY <1>3
<1>5. f["c1"] = Stock(m, "c1") /\ f["c2"] = Stock(m, "c2") /\ f["c3"] = Stock(m, "c3")
  BY <1>2
<1> HIDE DEF f
<1>6. Total([k \in DOMAIN TIERS |-> f[TIERS[k]]]) = f["c1"] + f["c2"] + f["c3"]
  BY <1>1, TotalOfTiers
<1>7. Stock(m, "c1") \in Int /\ Stock(m, "c2") \in Int /\ Stock(m, "c3") \in Int
  BY StockType
<1> QED BY <1>4, <1>5, <1>6, <1>7 DEF Stocks

\* A delta moves its own tier, by its amount.
LEMMA MovedStock ==
    ASSUME NEW m \in TierMaps, NEW d \in Deltas, Stock(m, d.tier) + d.amount >= 0
    PROVE  /\ Moving(m, d) \in TierMaps
           /\ Stock(Moving(m, d), d.tier) = Stock(m, d.tier) + d.amount
           /\ \A tier : tier # d.tier => Stock(Moving(m, d), tier) = Stock(m, tier)
           /\ Stocks(Moving(m, d)) = Stocks(m) + d.amount
<1> DEFINE t == d.tier
           x == d.amount
           c == Moving(m, d)
<1>1. t \in Tiers /\ x \in Int /\ DOMAIN m \subseteq Tiers
  BY TierMapsType DEF Deltas
<1>2. /\ c \in TierMaps
      /\ Stock(c, t) = Stock(m, t) + x
      /\ \A tier : tier # t => Stock(c, tier) = Stock(m, tier)
  <2>1. CASE t \in DOMAIN m
    <3>1. m[t] \in Int
      BY <2>1, TierMapsType
    <3>2. m[t] + x \in Int
      BY <1>1, <3>1
    <3>3. [m EXCEPT ![t] = m[t] + x] \in TierMaps
      BY <2>1, <3>2, TierMapsType
    <3>4. c = [m EXCEPT ![t] = m[t] + x]
      BY <2>1 DEF Moving
    <3>5. PICK D \in SUBSET Tiers : m \in [D -> Int]
      BY DEF TierMaps
    <3>6. DOMAIN c = DOMAIN m /\ c[t] = m[t] + x /\ \A tier \in DOMAIN m : tier # t => c[tier] = m[tier]
      BY <2>1, <3>4, <3>5
    <3> HIDE DEF c
    <3> QED BY <2>1, <3>3, <3>4, <3>6 DEF Stock
  <2>2. CASE t \notin DOMAIN m /\ x > 0
    <3>1. c = Put(m, t, x)
      BY <2>2 DEF Moving
    <3>2. Put(m, t, x) \in TierMaps
      BY <1>1, TierMapsType
    <3>3. DOMAIN c = DOMAIN m \cup {t} /\ c[t] = x /\ \A tier \in DOMAIN m : c[tier] = m[tier]
      BY <2>2, <3>1 DEF Put
    <3> HIDE DEF c
    <3> QED BY <1>1, <2>2, <3>1, <3>2, <3>3 DEF Stock
  <2>3. CASE t \notin DOMAIN m /\ ~ x > 0
    <3>1. c = m
      BY <2>3 DEF Moving
    <3>2. Stock(m, t) = 0
      BY <2>3 DEF Stock
    <3>3. x = 0
      BY <1>1, <2>3, <3>2
    <3> HIDE DEF c
    <3> QED BY <3>1, <3>2, <3>3
  <2> QED BY <2>1, <2>2, <2>3
<1> HIDE DEF c
<1>3. \A tier : Stock(m, tier) \in Int
  BY StockType
<1>4. t = "c1" \/ t = "c2" \/ t = "c3"
  BY <1>1, TheTiers
<1> HIDE DEF t, x
<1>5. Stocks(c) = Stocks(m) + x
  <2>1. CASE t = "c1"
    BY <1>1, <1>2, <1>3, <2>1 DEF Stocks
  <2>2. CASE t = "c2"
    BY <1>1, <1>2, <1>3, <2>2 DEF Stocks
  <2>3. CASE t = "c3"
    BY <1>1, <1>2, <1>3, <2>3 DEF Stocks
  <2> QED BY <1>4, <2>1, <2>2, <2>3
<1> QED BY <1>2, <1>5 DEF t, x, c

\* The tiers of a reserve after so many of the deltas.
MovedBy(f, lots, deltas) ==
    f = [k \in 0 .. Len(deltas) |-> IF k = 0 THEN lots ELSE Moving(f[k - 1], deltas[k])]
Left(lots, deltas) == (CHOOSE f : MovedBy(f, lots, deltas))[Len(deltas)]

LEMMA MovingType ==
    ASSUME NEW m \in TierMaps, NEW d \in Deltas
    PROVE  Moving(m, d) \in TierMaps
<1>1. d.tier \in Tiers /\ d.amount \in Int
  BY DEF Deltas
<1>2. CASE d.tier \in DOMAIN m
  <2>1. m[d.tier] + d.amount \in Int
    BY <1>1, <1>2, TierMapsType
  <2>2. [m EXCEPT ![d.tier] = m[d.tier] + d.amount] \in TierMaps
    BY <1>2, <2>1, TierMapsType
  <2> QED BY <1>2, <2>2 DEF Moving
<1>3. CASE d.tier \notin DOMAIN m
  <2>1. Put(m, d.tier, d.amount) \in TierMaps
    BY <1>1, TierMapsType
  <2> QED BY <1>3, <2>1 DEF Moving
<1> QED BY <1>2, <1>3

LEMMA DeltasMove ==
    ASSUME NEW m \in TierMaps, NEW deltas \in Seq(Deltas)
    PROVE  \E f : MovedBy(f, m, deltas) /\ Left(m, deltas) = f[Len(deltas)]
<1> DEFINE n == Len(deltas)
           step == [x \in TierMaps \X (1 .. n) |-> Moving(x[1], deltas[x[2]])]
<1>1. n \in Nat /\ DOMAIN deltas = 1 .. n /\ \A k \in 1 .. n : deltas[k] \in Deltas
  OBVIOUS
<1>2. step \in [TierMaps \X (1 .. n) -> TierMaps]
  BY <1>1, MovingType
<1> HIDE DEF step
<1>3. PICK f : IsFold(f, TierMaps, n, m, step)
  BY <1>1, <1>2, FoldExists, Zenon
<1>4. \A k \in 1 .. n : k - 1 \in 0 .. n /\ f[k - 1] \in TierMaps
  BY <1>1, <1>3 DEF IsFold
<1>5. \A k \in 1 .. n : f[k] = Moving(f[k - 1], deltas[k])
  BY <1>3, <1>4, Zenon DEF step, IsFold
<1>6. f = [k \in 0 .. n |-> IF k = 0 THEN m ELSE Moving(f[k - 1], deltas[k])]
  BY <1>1, <1>3, <1>5 DEF IsFold
<1>7. MovedBy(f, m, deltas)
  BY <1>6, Zenon DEF MovedBy
<1> QED BY <1>7, Zenon DEF Left

\* What is left when each delta named a tier of its own and was covered.
LEMMA TiersLeft ==
    ASSUME NEW m \in TierMaps, NEW deltas \in Seq(Deltas), Spread(deltas),
           \A tier \in Tiers : Stock(m, tier) >= 0,
           \A i \in DOMAIN deltas : Stock(m, deltas[i].tier) + deltas[i].amount >= 0
    PROVE  /\ Left(m, deltas) \in TierMaps
           /\ \A tier \in Tiers : Stock(Left(m, deltas), tier) >= 0
           /\ Stocks(Left(m, deltas)) = Stocks(m) + Total([i \in DOMAIN deltas |-> deltas[i].amount])
<1> DEFINE n == Len(deltas)
           amounts == [i \in DOMAIN deltas |-> deltas[i].amount]
<1>1. n \in Nat /\ DOMAIN deltas = 1 .. n /\ \A k \in 1 .. n : deltas[k] \in Deltas
  OBVIOUS
<1>2. \A k \in 1 .. n : deltas[k] \in Deltas /\ deltas[k].tier \in Tiers /\ deltas[k].amount \in Int
  <2>1. \A d \in Deltas : d.tier \in Tiers /\ d.amount \in Int
    BY DEF Deltas
  <2> QED BY <1>1, <2>1
<1>3. PICK f : MovedBy(f, m, deltas) /\ Left(m, deltas) = f[Len(deltas)]
  BY DeltasMove
<1>4. f[0] = m /\ \A k \in 1 .. n : f[k] = Moving(f[k - 1], deltas[k])
  BY <1>1, <1>3 DEF MovedBy
<1>5. amounts \in Seq(Int)
  BY <1>1, <1>2
<1>6. PICK run : IsRunning(run, amounts) /\ Total(amounts) = run[Len(amounts)]
  BY <1>5, TotalRuns, Zenon
<1>7. Len(amounts) = n /\ \A k \in 1 .. n : amounts[k] = deltas[k].amount
  BY <1>1, <1>5
<1> HIDE DEF amounts, n
<1>8. run[0] = 0 /\ \A k \in 1 .. n : run[k] = run[k - 1] + deltas[k].amount
  BY <1>6, <1>7 DEF IsRunning
<1>9. \A k \in 0 .. n : run[k] \in Int
  BY <1>6, <1>7, Zenon DEF IsRunning
<1> DEFINE Fine(k) == /\ f[k] \in TierMaps
                      /\ \A tier \in Tiers : Stock(f[k], tier) >= 0
                      /\ Stocks(f[k]) = Stocks(m) + run[k]
                      /\ \A i \in k + 1 .. n : Stock(f[k], deltas[i].tier) = Stock(m, deltas[i].tier)
           T == { k \in 0 .. n : Fine(k) }
<1>10. 0 \in T
  <2>1. Stocks(m) \in Int
    BY StocksAddUp, Zenon
  <2> QED BY <1>1, <1>4, <1>8, <2>1
<1>11. ASSUME NEW k \in 0 .. n - 1, k \in T PROVE k + 1 \in T
  <2> DEFINE d == deltas[k + 1]
  <2>1. k + 1 \in 1 .. n /\ k + 1 - 1 = k /\ k \in 0 .. n
    BY <1>1
  <2>2. Fine(k)
    BY <1>11
  <2>3. d \in Deltas /\ d.tier \in Tiers /\ d.amount \in Int
    BY <1>2, <2>1
  <2>4. Stock(f[k], d.tier) = Stock(m, d.tier)
    BY <1>1, <2>1, <2>2
  <2>5. Stock(f[k], d.tier) + d.amount >= 0
    BY <1>1, <2>1, <2>4
  <2>6. f[k + 1] = Moving(f[k], d)
    BY <1>4, <2>1
  <2>7. f[k] \in TierMaps
    BY <2>2
  <2> HIDE DEF d
  <2>8. /\ f[k + 1] \in TierMaps
        /\ Stock(f[k + 1], d.tier) = Stock(f[k], d.tier) + d.amount
        /\ \A tier : tier # d.tier => Stock(f[k + 1], tier) = Stock(f[k], tier)
        /\ Stocks(f[k + 1]) = Stocks(f[k]) + d.amount
    BY <2>3, <2>5, <2>6, <2>7, MovedStock
  <2>9. \A tier \in Tiers : Stock(f[k + 1], tier) >= 0
    BY <2>2, <2>5, <2>8
  <2>10. Stocks(f[k + 1]) = Stocks(m) + run[k + 1]
    <3>1. run[k + 1] = run[k] + d.amount
      BY <1>8, <2>1 DEF d
    <3>2. Stocks(m) \in Int /\ run[k] \in Int
      BY <1>9, <2>1, StocksAddUp, Zenon
    <3> QED BY <2>2, <2>3, <2>8, <3>1, <3>2
  <2>11. ASSUME NEW i \in k + 2 .. n PROVE Stock(f[k + 1], deltas[i].tier) = Stock(m, deltas[i].tier)
    <3>1. i \in 1 .. n /\ i # k + 1 /\ i \in k + 1 .. n
      BY <1>1, <2>1
    <3>2. deltas[i].tier # d.tier
      BY <1>1, <2>1, <3>1 DEF Spread, d, n
    <3> QED BY <2>2, <2>8, <3>1, <3>2
  <2>12. k + 1 + 1 = k + 2
    BY <2>1
  <2>13. Fine(k + 1)
    BY <2>8, <2>9, <2>10, <2>11, <2>12
  <2> HIDE DEF Fine
  <2> QED BY <1>1, <2>1, <2>13
<1>12. n \in T
  <2> HIDE DEF T
  <2>1. \A k \in 0 .. n : k \in T
    BY <1>1, <1>10, <1>11, InductionUpTo, Zenon
  <2> QED BY <1>1, <2>1
<1> QED BY <1>3, <1>6, <1>7, <1>12 DEF n, amounts

\* The reserve is still sound after a leg it covers, whatever the leg is for.
LEMMA StillSound ==
    ASSUME NEW r, IsReserve(r), NEW paid \in BOOLEAN, Sound(r, paid),
           NEW deltas \in Seq(Deltas), Spread(deltas),
           \A i \in DOMAIN deltas : Covers(r, deltas[i]),
           NEW still \in BOOLEAN, paid => still,
           Len(deltas) > 1 => still \/ \A i \in DOMAIN deltas : deltas[i].amount >= 0
    PROVE  Sound(ApplyReserveDelta(r, deltas), still)
<1> DEFINE n == Len(deltas)
           amounts == [i \in DOMAIN deltas |-> deltas[i].amount]
           total == Total(amounts)
           c == ApplyReserveDelta(r, deltas)
           left == IF r.lots = Untiered THEN r.lots ELSE Left(r.lots, deltas)
<1>1. n \in Nat /\ DOMAIN deltas = 1 .. n /\ \A k \in 1 .. n : deltas[k] \in Deltas /\ deltas[k].amount \in Int
  <2>1. \A d \in Deltas : d.amount \in Int
    BY DEF Deltas
  <2>2. n \in Nat /\ DOMAIN deltas = 1 .. n /\ \A k \in 1 .. n : deltas[k] \in Deltas
    OBVIOUS
  <2> QED BY <2>1, <2>2
<1>2. amounts \in Seq(Int) /\ Len(amounts) = n
  BY <1>1
<1>3. total \in Int
  BY <1>2, TotalType
<1>4. c = [r EXCEPT !.amount = r.amount + total, !.lots = left]
  BY DEF ApplyReserveDelta, Left, MovedBy, Moving
<1>5. c.amount = r.amount + total /\ c.lots = left /\ r.amount \in Int
  BY <1>4 DEF IsReserve
<1> HIDE DEF c, left
<1>6. ASSUME r.lots = Untiered PROVE Sound(c, still)
  <2>1. c.lots = Untiered
    BY <1>5, <1>6 DEF left
  <2>2. AddsUp(c)
    BY <2>1 DEF AddsUp
  <2>3. ASSUME c.amount < 0 PROVE still
    <3>1. CASE r.amount < 0
      BY <3>1 DEF Sound
    <3>2. CASE \A i \in DOMAIN deltas : deltas[i].amount >= 0
      <4>1. \A i \in 1 .. n : amounts[i] \in Nat
        BY <1>1, <3>2
      <4>2. amounts \in Seq(Nat)
        BY <1>1, <4>1
      <4> HIDE DEF amounts
      <4>3. total \in Nat
        BY <4>2, TotalNat
      <4>4. r.amount < 0
        BY <1>3, <1>5, <2>3, <4>3
      <4> QED BY <4>4, <3>1
    <3>3. CASE n > 1
      BY <3>2, <3>3
    <3>4. CASE n = 1 /\ r.amount >= 0
      <4>1. deltas[1].amount \in Int /\ 1 \in DOMAIN deltas /\ Covers(r, deltas[1])
        BY <1>1, <3>4
      <4>2. amounts = <<deltas[1].amount>>
        BY <1>1, <1>2, <3>4
      <4> HIDE DEF amounts
      <4>3. total = deltas[1].amount
        BY <4>1, <4>2, TotalOfOne
      <4> HIDE DEF total
      <4>4. r.amount + deltas[1].amount >= 0
        BY <1>5, <1>6, <3>4, <4>1 DEF Covers
      <4>5. c.amount = r.amount + deltas[1].amount
        BY <1>5, <4>3
      <4> QED BY <2>3, <4>1, <4>4, <4>5, <1>5
    <3>5. CASE n = 0
      BY <1>1, <3>2, <3>5
    <3> HIDE DEF total
    <3> QED BY <1>1, <1>5, <3>1, <3>3, <3>4, <3>5
  <2> QED BY <2>1, <2>2, <2>3 DEF Sound
<1>7. ASSUME r.lots # Untiered PROVE Sound(c, still)
  <2>1. r.lots \in TierMaps
    BY <1>7 DEF IsReserve
  <2>2. \A tier \in Tiers : Stock(r.lots, tier) >= 0
    BY <1>7 DEF Sound, Stock
  <2>3. \A i \in DOMAIN deltas : Stock(r.lots, deltas[i].tier) + deltas[i].amount >= 0
    <3> SUFFICES ASSUME NEW i \in DOMAIN deltas
                 PROVE  Stock(r.lots, deltas[i].tier) + deltas[i].amount >= 0
      OBVIOUS
    <3>1. Covers(r, deltas[i]) /\ deltas[i].amount \in Int /\ deltas[i].tier \in Tiers
      BY <1>1 DEF Deltas
    <3>2. Stock(r.lots, deltas[i].tier) \in Int
      BY <2>1, StockType
    <3>3. Stock(r.lots, deltas[i].tier) >= 0
      BY <2>2, <3>1
    <3> QED BY <1>7, <3>1, <3>2, <3>3 DEF Covers
  <2>4. /\ Left(r.lots, deltas) \in TierMaps
        /\ \A tier \in Tiers : Stock(Left(r.lots, deltas), tier) >= 0
        /\ Stocks(Left(r.lots, deltas)) = Stocks(r.lots) + total
    BY <2>1, <2>2, <2>3, TiersLeft
  <2>5. c.lots = Left(r.lots, deltas)
    BY <1>5, <1>7 DEF left
  <2>6. r.amount = Stocks(r.lots)
    BY <1>7, <2>1, StocksAddUp DEF Sound, AddsUp
  <2>7. c.amount = Stocks(c.lots)
    BY <1>5, <2>4, <2>5, <2>6
  <2>8. c.lots \in TierMaps /\ \A tier \in Tiers : Stock(c.lots, tier) >= 0
    BY <2>4, <2>5
  <2> HIDE DEF total
  <2>9. AddsUp(c)
    BY <2>7, <2>8, StocksAddUp DEF AddsUp
  <2>10. c.amount >= 0
    <3>1. Stock(c.lots, "c1") \in Int /\ Stock(c.lots, "c2") \in Int /\ Stock(c.lots, "c3") \in Int
      BY <2>8, StockType
    <3>2. Stock(c.lots, "c1") >= 0 /\ Stock(c.lots, "c2") >= 0 /\ Stock(c.lots, "c3") >= 0
      BY <2>8, TheTiers
    <3> QED BY <2>7, <3>1, <3>2 DEF Stocks
  <2>11. \A tier \in DOMAIN c.lots : c.lots[tier] >= 0
    <3>1. DOMAIN c.lots \subseteq Tiers
      BY <2>8, TierMapsType
    <3> QED BY <2>8, <3>1 DEF Stock
  <2>12. c.amount \in Int
    BY <1>3, <1>5
  <2> QED BY <2>9, <2>10, <2>11, <2>12 DEF Sound
<1> QED BY <1>6, <1>7 DEF c
----------------------------------------------------------------------------
(* The events of a log, in the order in which they are applied.            *)

\* A log of events each of which the parser admits.
Parsed(events) ==
    events \in Seq(Candidates) /\ \A i \in DOMAIN events : ParsesEvent(events[i])

EntryAt(events, i) == [at |-> i, event |-> events[i]]
EntriesOf(events, places) == { EntryAt(events, i) : i \in places }
UpTo(events, day) == { i \in DOMAIN events : events[i].asOf <= day }

\* The order in which events are applied: by date, and on one date as they came.
Earlier(x, y) ==
    x.event.asOf < y.event.asOf \/ (x.event.asOf = y.event.asOf /\ x.at < y.at)
ByDate(list) == \A i, j \in DOMAIN list : i < j => Earlier(list[i], list[j])

\* The events dated no later than a day, each of them once, in the order of their dates.
IsTimeline(list, events, day) ==
    /\ list \in Seq(EntriesOf(events, DOMAIN events))
    /\ ToSet(list) = EntriesOf(events, UpTo(events, day))
    /\ ByDate(list)

LEMMA DatesType ==
    ASSUME NEW events, Parsed(events)
    PROVE  /\ MaxDate \in Nat
           /\ \A i \in DOMAIN events : events[i].asOf \in 1 .. MaxDate
BY CandidatesAssumption DEF Parsed, ParsesEvent, IsDate

\* The events of one day put behind those of the days before it.
LEMMA NextDay ==
    ASSUME NEW events, Parsed(events), NEW day \in Nat, NEW list,
           IsTimeline(list, events, day)
    PROVE  IsTimeline(list \o Kept([i \in DOMAIN events |-> EntryAt(events, i)],
                                   { i \in DOMAIN events : events[i].asOf = day + 1 }),
                      events, day + 1)
<1> DEFINE L == EntriesOf(events, DOMAIN events)
           all == [i \in DOMAIN events |-> EntryAt(events, i)]
           places == { i \in DOMAIN events : events[i].asOf = day + 1 }
           now == Kept(all, places)
           both == list \o now
<1>1. \A i \in DOMAIN events : events[i].asOf \in Nat
  BY DatesType
<1>2. all \in Seq(L) /\ DOMAIN all = DOMAIN events
  <2>1. \A i \in DOMAIN events : EntryAt(events, i) \in L
    BY DEF EntriesOf
  <2>2. DOMAIN events = 1 .. Len(events) /\ Len(events) \in Nat
    BY DEF Parsed
  <2> QED BY <2>1, <2>2
<1>3. \A i \in DOMAIN events : all[i] = EntryAt(events, i)
  OBVIOUS
<1> HIDE DEF all
<1>4. now \in Seq(L) /\ ToSet(now) = { all[i] : i \in places \cap DOMAIN all }
  BY <1>2, KeptLines
<1>5. ToSet(now) = EntriesOf(events, places)
  BY <1>2, <1>3, <1>4, Zenon DEF EntriesOf
<1>6. \A i, j \in DOMAIN now : i < j => now[i].at < now[j].at
  <2> DEFINE rank == [x \in L |-> x.at]
  <2>1. /\ \A i \in DOMAIN events : EntryAt(events, i) \in L /\ EntryAt(events, i).at = i
        /\ DOMAIN events = 1 .. Len(events)
        /\ \A x \in L : x.at \in Int
    BY DEF EntriesOf, EntryAt, Parsed
  <2>2. rank \in [L -> Int] /\ \A x \in L : rank[x] = x.at
    BY <2>1
  <2> HIDE DEF rank
  <2>3. Rising(all, rank)
    BY <1>2, <1>3, <2>1, <2>2 DEF Rising
  <2>4. Rising(now, rank)
    BY <1>2, <2>2, <2>3, KeptInOrder
  <2> HIDE DEF now, L
  <2>5. \A i \in DOMAIN now : now[i] \in L
    BY <1>4, LineType
  <2> QED BY <2>2, <2>4, <2>5 DEF Rising
<1> HIDE DEF now
<1>7. /\ list \in Seq(L) /\ ByDate(list)
      /\ ToSet(list) = EntriesOf(events, UpTo(events, day))
  BY DEF IsTimeline
<1>8. /\ \A x \in ToSet(list) : x.event.asOf \in Nat /\ x.event.asOf <= day
      /\ \A x \in ToSet(now) : x.event.asOf = day + 1
  BY <1>1, <1>5, <1>7 DEF EntriesOf, EntryAt, UpTo
<1>9. /\ both \in Seq(L) /\ Len(both) = Len(list) + Len(now)
      /\ \A i \in 1 .. Len(list) : both[i] = list[i]
      /\ \A i \in 1 .. Len(now) : both[Len(list) + i] = now[i]
  BY <1>4, <1>7, LinesOfBoth
<1>10. ToSet(both) = EntriesOf(events, UpTo(events, day + 1))
  <2>1. ToSet(both) = ToSet(list) \cup ToSet(now)
    BY <1>4, <1>7, AppendedOnly
  <2>2. UpTo(events, day + 1) = UpTo(events, day) \cup places
    BY <1>1 DEF UpTo
  <2> QED BY <1>5, <1>7, <2>1, <2>2 DEF EntriesOf
<1>11. ByDate(both)
  <2> DEFINE m == Len(list)
             n == Len(now)
  <2>1. /\ m \in Nat /\ n \in Nat /\ DOMAIN both = 1 .. m + n
        /\ DOMAIN list = 1 .. m /\ DOMAIN now = 1 .. n
    BY <1>4, <1>7, <1>9
  <2>2. \A i \in 1 .. m : list[i] \in ToSet(list)
    BY <2>1 DEF ToSet
  <2>3. \A i \in 1 .. n : now[i] \in ToSet(now)
    BY <2>1 DEF ToSet
  <2> SUFFICES ASSUME NEW i \in 1 .. m + n, NEW j \in 1 .. m + n, i < j
               PROVE  Earlier(both[i], both[j])
    BY <2>1, Zenon DEF ByDate
  <2> HIDE DEF m, n, both
  <2>4. CASE j <= m
    <3>1. i \in 1 .. m /\ j \in 1 .. m
      BY <2>1, <2>4
    <3> QED BY <1>7, <1>9, <2>1, <3>1, Zenon DEF ByDate, m
  <2>5. CASE j > m
    <3>1. j - m \in 1 .. n /\ m + (j - m) = j
      BY <2>1, <2>5
    <3>2. both[j] = now[j - m]
      BY <1>9, <3>1 DEF m, n
    <3>3. both[j].event.asOf = day + 1
      BY <1>8, <2>3, <3>1, <3>2
    <3>4. CASE i <= m
      <4>1. i \in 1 .. m
        BY <2>1, <3>4
      <4>2. both[i] = list[i]
        BY <1>9, <4>1 DEF m
      <4>3. both[i].event.asOf \in Nat /\ both[i].event.asOf <= day
        BY <1>8, <2>2, <4>1, <4>2
      <4> QED BY <3>3, <4>3 DEF Earlier
    <3>5. CASE i > m
      <4>1. i - m \in 1 .. n /\ m + (i - m) = i
        BY <2>1, <3>5
      <4>2. both[i] = now[i - m]
        BY <1>9, <4>1 DEF m, n
      <4>3. both[i].event.asOf = day + 1
        BY <1>8, <2>3, <4>1, <4>2
      <4>4. i - m < j - m
        BY <2>1
      <4>5. both[i].at < both[j].at
        BY <1>6, <2>1, <3>1, <3>2, <4>1, <4>2, <4>4
      <4> QED BY <3>3, <4>3, <4>5 DEF Earlier
    <3> QED BY <2>1, <3>4, <3>5
  <2> QED BY <2>1, <2>4, <2>5
<1>12. IsTimeline(both, events, day + 1)
  BY <1>9, <1>10, <1>11 DEF IsTimeline
<1> QED BY <1>12 DEF now, all

LEMMA ApplicableLines ==
    ASSUME NEW events, Parsed(events), NEW asOf \in Nat
    PROVE  IsTimeline(Applicable(events, asOf), events, asOf)
<1> DEFINE L == EntriesOf(events, DOMAIN events)
           all == [i \in DOMAIN events |-> EntryAt(events, i)]
           next(s, day) == s \o Kept(all, { i \in DOMAIN events : events[i].asOf = day })
           upTo == CHOOSE s : s = [day \in 0 .. asOf |->
                                    IF day = 0 THEN <<>> ELSE next(s[day - 1], day)]
           step == [x \in Seq(L) \X (1 .. asOf) |-> next(x[1], x[2])]
<1>1. Applicable(events, asOf) = upTo[asOf]
  BY DEF Applicable, EntryAt
<1>2. all \in Seq(L)
  <2>1. \A i \in DOMAIN events : EntryAt(events, i) \in L
    BY DEF EntriesOf
  <2>2. DOMAIN events = 1 .. Len(events) /\ Len(events) \in Nat
    BY DEF Parsed
  <2> QED BY <2>1, <2>2
<1> HIDE DEF all
<1>3. ASSUME NEW s \in Seq(L), NEW day \in 1 .. asOf PROVE next(s, day) \in Seq(L)
  <2> DEFINE now == Kept(all, { i \in DOMAIN events : events[i].asOf = day })
  <2>1. now \in Seq(L)
    BY <1>2, KeptLines
  <2> HIDE DEF now
  <2>2. s \o now \in Seq(L)
    BY <2>1
  <2> QED BY <2>2 DEF now
<1>4. <<>> \in Seq(L)
  OBVIOUS
<1> HIDE DEF next
<1>5. step \in [Seq(L) \X (1 .. asOf) -> Seq(L)]
  BY <1>3
<1> HIDE DEF L
<1>6. PICK f : IsFold(f, Seq(L), asOf, <<>>, step)
  <2> HIDE DEF step
  <2> QED BY <1>4, <1>5, FoldExists, Zenon
<1>7. \A k \in 1 .. asOf : k - 1 \in 0 .. asOf /\ f[k - 1] \in Seq(L)
  BY <1>6 DEF IsFold
<1>8. \A k \in 1 .. asOf : f[k] = next(f[k - 1], k)
  BY <1>6, <1>7, Zenon DEF step, IsFold
<1>9. f = [day \in 0 .. asOf |-> IF day = 0 THEN <<>> ELSE next(f[day - 1], day)]
  BY <1>6, <1>8 DEF IsFold
<1>10. upTo = [day \in 0 .. asOf |-> IF day = 0 THEN <<>> ELSE next(upTo[day - 1], day)]
  BY <1>9, Zenon
<1> HIDE DEF upTo, step
<1>11. upTo[0] = <<>> /\ \A k \in 1 .. asOf : upTo[k] = next(upTo[k - 1], k)
  BY <1>10
<1> DEFINE T == { k \in 0 .. asOf : IsTimeline(upTo[k], events, k) }
<1>12. 0 \in T
  <2>1. UpTo(events, 0) = {}
    BY DatesType DEF UpTo
  <2>2. ToSet(<<>>) = {} /\ EntriesOf(events, {}) = {}
    BY DEF EntriesOf, ToSet
  <2>3. ByDate(<<>>)
    BY DEF ByDate
  <2>4. IsTimeline(<<>>, events, 0)
    BY <1>4, <2>1, <2>2, <2>3, Zenon DEF IsTimeline, L
  <2> QED BY <1>11, <2>4
<1>13. ASSUME NEW k \in 0 .. asOf - 1, k \in T PROVE k + 1 \in T
  <2>1. k + 1 \in 1 .. asOf /\ k + 1 - 1 = k /\ k \in Nat
    OBVIOUS
  <2>2. upTo[k + 1] = next(upTo[k], k + 1)
    <3>1. upTo[k + 1] = next(upTo[k + 1 - 1], k + 1)
      BY <1>11, <2>1
    <3> QED BY <2>1, <3>1
  <2>3. IsTimeline(upTo[k], events, k)
    BY <1>13
  <2>4. IsTimeline(next(upTo[k], k + 1), events, k + 1)
    BY <2>1, <2>3, NextDay DEF next, all
  <2> QED BY <2>1, <2>2, <2>4
<1>14. asOf \in T
  <2> HIDE DEF T
  <2>1. \A k \in 0 .. asOf : k \in T
    BY <1>12, <1>13, InductionUpTo
  <2> QED BY <2>1
<1> QED BY <1>1, <1>14
----------------------------------------------------------------------------
(* The book.                                                               *)

BookFields == {"usdMxn", "positions", "reserves", "closes", "closedBook", "latestMark",
               "invalidation", "fallback", "seeded", "anchors", "skipped"}

\* What the handlers rely on an event to state.
CashVerbs == {"PositionOpened", "PositionClosed", "PositionTrimmed", "PositionAddedTo",
              "Deposit", "Withdraw", "Transfer"}
IsEvent(e) ==
    /\ e.type \in CashVerbs \cup {"PriceMarked", "InvalidationMarked", "ReserveOpened"}
    /\ e.type \in CashVerbs => e.amount \in Int
    /\ e.type \in {"Deposit", "Withdraw", "Transfer"} => e.tier \in Tiers
    /\ e.type = "Transfer" => e.from # e.reserve
    /\ e.type = "PositionOpened" => e.lots \in Seq(HeldLots) /\ e.lots # <<>>
    /\ e.type = "PositionTrimmed" =>
        e.removals \in Seq(Figures) /\ \A i \in DOMAIN e.removals : e.removals[i].quantity \in Nat
    /\ e.type = "PositionAddedTo" => e.lot \in HeldLots

IsPosition(p) == "lots" \in DOMAIN p /\ p.lots \in Seq(HeldLots)
IsClosedBook(rows) ==
    rows \in Seq(ToSet(rows)) /\ \A i \in DOMAIN rows : rows[i].proceeds \in Int
Booked(rows) == Total([i \in DOMAIN rows |-> rows[i].proceeds])

\* The shape of a book, whatever events made it.
IsBook(b) ==
    /\ DOMAIN b = BookFields
    /\ \A id \in DOMAIN b.reserves : IsReserve(b.reserves[id])
    /\ \A id \in DOMAIN b.positions : IsPosition(b.positions[id])
    /\ IsClosedBook(b.closedBook)

\* What a reserve holds, and nothing when there is no such reserve.
Holds(b, id) == IF id \in DOMAIN b.reserves THEN b.reserves[id].amount ELSE 0

SameElsewhere(b, c) ==
    /\ c.positions = b.positions /\ c.closedBook = b.closedBook
    /\ c.invalidation = b.invalidation /\ c.skipped = b.skipped

LEMMA LotsAreHeld ==
    ASSUME NEW lots \in Seq(BoughtLots), ValidLots(lots, TRUE)
    PROVE  lots \in Seq(HeldLots) /\ lots # <<>>
<1>1. DOMAIN lots = 1 .. Len(lots) /\ Len(lots) \in Nat /\ lots # <<>>
  BY DEF ValidLots
<1>2. \A i \in 1 .. Len(lots) : lots[i] \in BoughtLots /\ ValidLot(lots[i], TRUE)
  <2>1. \A i \in DOMAIN lots : lots[i] \in BoughtLots
    BY LineType
  <2> QED BY <1>1, <2>1, Zenon DEF ValidLots
<1>3. \A i \in 1 .. Len(lots) : lots[i] \in HeldLots
  BY <1>2 DEF HeldLots, ValidLot, IsPositiveNumber
<1> QED BY <1>1, <1>3

LEMMA EventTypes ==
    ASSUME NEW e \in Candidates, ParsesEvent(e)
    PROVE  IsEvent(e)
<1>1. /\ "lots" \in DOMAIN e => e.lots \in Seq(BoughtLots)
      /\ "lot" \in DOMAIN e => e.lot \in BoughtLots
      /\ "removals" \in DOMAIN e => e.removals \in Seq(Figures)
  BY CandidatesAssumption
<1>2. e.type \in CashVerbs \cup {"PriceMarked", "InvalidationMarked", "ReserveOpened"}
  BY DEF ParsesEvent, CashVerbs
<1>3. CASE e.type = "PositionOpened"
  <2>1. ParsePositionOpened(e)
    BY <1>3 DEF ParsesEvent
  <2>2. e.lots \in Seq(HeldLots) /\ e.lots # <<>>
    BY <1>1, <2>1, LotsAreHeld, Zenon DEF ParsePositionOpened
  <2>3. e.amount \in Int
    BY <2>1 DEF ParsePositionOpened, StatesCashLeg, StatesAmount, IsPositiveNumber
  <2> QED BY <1>3, <2>2, <2>3 DEF IsEvent, CashVerbs
<1>4. CASE e.type = "PositionClosed"
  <2>1. ParsePositionClosed(e)
    BY <1>4 DEF ParsesEvent
  <2> QED BY <1>4, <2>1
          DEF IsEvent, CashVerbs, ParsePositionClosed, StatesCashLeg, StatesAmount, IsPositiveNumber
<1>5. CASE e.type = "PositionTrimmed"
  <2>1. ParsePositionTrimmed(e)
    BY <1>5 DEF ParsesEvent
  <2>2. e.removals \in Seq(Figures) /\ \A r \in ToSet(e.removals) : IsPositiveNumber(r.quantity)
    BY <1>1, <2>1 DEF ParsePositionTrimmed, ParseRemoval
  <2>3. \A i \in DOMAIN e.removals : e.removals[i].quantity \in Nat
    BY <2>2 DEF IsPositiveNumber, ToSet
  <2>4. e.amount \in Int
    BY <2>1 DEF ParsePositionTrimmed, StatesCashLeg, StatesAmount, IsPositiveNumber
  <2> QED BY <1>5, <2>2, <2>3, <2>4 DEF IsEvent, CashVerbs
<1>6. CASE e.type = "PositionAddedTo"
  <2>1. ParsePositionAddedTo(e)
    BY <1>6 DEF ParsesEvent
  <2>2. e.lot \in HeldLots
    BY <1>1, <2>1 DEF ParsePositionAddedTo, ValidLot, HeldLots, IsPositiveNumber
  <2>3. e.amount \in Int
    BY <2>1 DEF ParsePositionAddedTo, StatesCashLeg, StatesAmount, IsPositiveNumber
  <2> QED BY <1>6, <2>2, <2>3 DEF IsEvent, CashVerbs
<1>7. CASE e.type \in {"Deposit", "Withdraw"}
  <2>1. ParseReserveMove(e)
    BY <1>7 DEF ParsesEvent
  <2> QED BY <1>7, <2>1
          DEF IsEvent, CashVerbs, ParseReserveMove, StatesCashLeg, StatesAmount, StatesTier,
              IsPositiveNumber
<1>8. CASE e.type = "Transfer"
  <2>1. ParseTransfer(e)
    BY <1>8 DEF ParsesEvent
  <2> QED BY <1>8, <2>1
          DEF IsEvent, CashVerbs, ParseTransfer, StatesAmount, StatesTier, IsPositiveNumber
<1>9. CASE e.type \in {"PriceMarked", "InvalidationMarked", "ReserveOpened"}
  BY <1>9 DEF IsEvent, CashVerbs
<1> QED BY <1>2, <1>3, <1>4, <1>5, <1>6, <1>7, <1>8, <1>9 DEF CashVerbs

\* One more row of the closed book adds its proceeds to what it reports.
LEMMA OneMoreRow ==
    ASSUME NEW rows, IsClosedBook(rows), NEW row, row.proceeds \in Int
    PROVE  /\ IsClosedBook(Append(rows, row))
           /\ Booked(Append(rows, row)) = Booked(rows) + row.proceeds
           /\ Booked(rows) \in Int
<1> DEFINE more == Append(rows, row)
           S == ToSet(rows)
           T == ToSet(more)
           a == [i \in DOMAIN rows |-> rows[i].proceeds]
           b == [i \in DOMAIN more |-> more[i].proceeds]
           x == row.proceeds
<1>1. /\ rows \in Seq(S) /\ DOMAIN rows = 1 .. Len(rows) /\ Len(rows) \in Nat
      /\ \A i \in DOMAIN rows : rows[i].proceeds \in Int
  BY DEF IsClosedBook
<1>2. /\ DOMAIN more = 1 .. Len(rows) + 1 /\ Len(more) = Len(rows) + 1
      /\ more[Len(rows) + 1] = row /\ \A i \in 1 .. Len(rows) : more[i] = rows[i]
  <2> HIDE DEF S
  <2>1. rows \in Seq(S \cup {row}) /\ row \in S \cup {row}
    BY <1>1
  <2> QED BY <1>1, <2>1
<1>3. more \in Seq(T)
  <2>1. \A i \in DOMAIN more : more[i] \in T
    BY DEF ToSet
  <2>2. more \in Seq(S \cup {row})
    <3> HIDE DEF S
    <3>1. rows \in Seq(S \cup {row}) /\ row \in S \cup {row}
      BY <1>1
    <3> QED BY <3>1
  <2> HIDE DEF T, more
  <2> QED BY <2>1, <2>2
<1> HIDE DEF more
<1>4. \A i \in DOMAIN more : more[i].proceeds \in Int
  BY <1>1, <1>2
<1>5. a \in Seq(Int) /\ Len(a) = Len(rows)
  BY <1>1
<1>6. b = Append(a, x)
  BY <1>1, <1>2, <1>5
<1> HIDE DEF a, b, x
<1>7. Total(b) = Total(a) + x /\ Total(a) \in Int
  BY <1>5, <1>6, TotalOfOneMore, Zenon DEF x
<1> QED BY <1>3, <1>4, <1>7, Zenon DEF IsClosedBook, Booked, a, b, x, more

\* The Discard Channel touches nothing but itself.
LEMMA Discards ==
    ASSUME NEW b, IsBook(b), NEW e, NEW at, NEW reason
    PROVE  LET c == RecordSkip(b, e, at, reason)
           IN  /\ IsBook(c)
               /\ c.reserves = b.reserves /\ c.positions = b.positions
               /\ c.closedBook = b.closedBook /\ c.invalidation = b.invalidation
               /\ c.skipped = b.skipped \cup {[at |-> at, type |-> e.type, reason |-> reason]}
<1> DEFINE s == [at |-> at, type |-> e.type, reason |-> reason]
           c == [b EXCEPT !.skipped = b.skipped \cup {s}]
<1>1. RecordSkip(b, e, at, reason) = c
  BY DEF RecordSkip
<1> HIDE DEF s
<1>2. /\ DOMAIN c = BookFields
      /\ c.reserves = b.reserves /\ c.positions = b.positions
      /\ c.closedBook = b.closedBook /\ c.invalidation = b.invalidation
      /\ c.skipped = b.skipped \cup {s}
  BY DEF IsBook, BookFields
<1> HIDE DEF c
<1>3. IsBook(c)
  BY <1>2 DEF IsBook
<1> QED BY <1>1, <1>2, <1>3 DEF s

\* A leg of cash moves one reserve by its amount.
LEMMA Credits ==
    ASSUME NEW b, IsBook(b), NEW id \in DOMAIN b.reserves, NEW deltas \in Seq(Deltas),
           NEW amount \in Int, Total([i \in DOMAIN deltas |-> deltas[i].amount]) = amount
    PROVE  /\ IsBook(ApplyToReserve(b, id, deltas))
           /\ SameElsewhere(b, ApplyToReserve(b, id, deltas))
           /\ DOMAIN ApplyToReserve(b, id, deltas).reserves = DOMAIN b.reserves
           /\ \A x : Holds(ApplyToReserve(b, id, deltas), x) =
                        Holds(b, x) + IF id = x THEN amount ELSE 0
<1> DEFINE r == ApplyReserveDelta(b.reserves[id], deltas)
           new == [b.reserves EXCEPT ![id] = r]
           c == [b EXCEPT !.reserves = new]
<1>1. ApplyToReserve(b, id, deltas) = c
  BY DEF ApplyToReserve
<1>2. IsReserve(r) /\ r.amount = b.reserves[id].amount + amount
  <2>1. IsReserve(b.reserves[id])
    BY DEF IsBook
  <2> QED BY <2>1, DeltaMoves
<1> HIDE DEF r
<1>3. /\ DOMAIN new = DOMAIN b.reserves
      /\ \A x \in DOMAIN b.reserves : new[x] = IF x = id THEN r ELSE b.reserves[x]
  OBVIOUS
<1> HIDE DEF new
<1>4. DOMAIN c = BookFields /\ c.reserves = new /\ SameElsewhere(b, c)
  BY DEF IsBook, BookFields, SameElsewhere
<1> HIDE DEF c
<1>5. \A x \in DOMAIN b.reserves : IsReserve(new[x])
  BY <1>2, <1>3 DEF IsBook
<1>6. IsBook(c)
  BY <1>3, <1>4, <1>5 DEF IsBook, SameElsewhere
<1>7. ASSUME NEW x PROVE Holds(c, x) = Holds(b, x) + IF id = x THEN amount ELSE 0
  <2>1. CASE x \notin DOMAIN b.reserves
    <3>1. Holds(c, x) = 0 /\ Holds(b, x) = 0 /\ id # x
      BY <1>3, <1>4, <2>1 DEF Holds
    <3> QED BY <3>1
  <2>2. CASE x = id
    BY <1>2, <1>3, <1>4, <2>2 DEF Holds, IsBook, IsReserve
  <2>3. CASE x \in DOMAIN b.reserves /\ x # id
    <3>1. Holds(c, x) = b.reserves[x].amount /\ Holds(b, x) = b.reserves[x].amount
      BY <1>3, <1>4, <2>3 DEF Holds
    <3>2. b.reserves[x].amount \in Int
      BY <2>3 DEF IsBook, IsReserve
    <3> QED BY <2>3, <3>1, <3>2
  <2> QED BY <2>1, <2>2, <2>3
<1> QED BY <1>1, <1>3, <1>4, <1>6, <1>7

\* The cash leg of a position verb: nothing of the event is applied, or all of it, with
\* the cash.  It is not applied only when there are no lots, or no such reserve.
LEMMA TieredLeg ==
    ASSUME NEW b, IsBook(b), NEW e, NEW at, NEW applied, IsBook(applied),
           applied.reserves = b.reserves,
           NEW deltas, NEW lots, NEW amount \in Int, SplitsOver(deltas, lots, amount)
    PROVE  LET c == ApplyTieredLeg(b, e, at, deltas, applied)
           IN  \/ c = RecordSkip(b, e, at, "provenance-absent") /\ lots = <<>>
               \/ /\ c = RecordSkip(b, e, at, "reserve-absent")
                  /\ e.reserve \notin DOMAIN b.reserves
               \/ /\ e.reserve \in DOMAIN b.reserves
                  /\ IsBook(c) /\ SameElsewhere(applied, c)
                  /\ DOMAIN c.reserves = DOMAIN b.reserves
                  /\ \A id : Holds(c, id) = Holds(b, id) + IF e.reserve = id THEN amount ELSE 0
<1> DEFINE c == ApplyTieredLeg(b, e, at, deltas, applied)
<1>1. CASE deltas = <<>>
  BY <1>1 DEF ApplyTieredLeg, SplitsOver
<1>2. CASE deltas # <<>> /\ e.reserve \notin DOMAIN b.reserves
  BY <1>2 DEF ApplyTieredLeg
<1>3. CASE deltas # <<>> /\ e.reserve \in DOMAIN b.reserves
  <2>1. c = ApplyToReserve(applied, e.reserve, deltas)
    BY <1>3 DEF ApplyTieredLeg
  <2>2. deltas \in Seq(Deltas) /\ Total([i \in DOMAIN deltas |-> deltas[i].amount]) = amount
    BY <1>3 DEF SplitsOver
  <2>3. /\ IsBook(c) /\ SameElsewhere(applied, c)
        /\ DOMAIN c.reserves = DOMAIN applied.reserves
        /\ \A id : Holds(c, id) = Holds(applied, id) + IF e.reserve = id THEN amount ELSE 0
    BY <1>3, <2>1, <2>2, Credits
  <2>4. \A id : Holds(applied, id) = Holds(b, id)
    BY DEF Holds
  <2> HIDE DEF c
  <2>5. \A id : Holds(c, id) = Holds(b, id) + IF e.reserve = id THEN amount ELSE 0
    BY <2>3, <2>4
  <2> QED BY <1>3, <2>3, <2>5 DEF c
<1> QED BY <1>1, <1>2, <1>3
----------------------------------------------------------------------------
(* The verbs.                                                              *)

Sales == {"PositionClosed", "PositionTrimmed"}
NamedBy(e) == IF e.type = "Transfer" THEN {e.from, e.reserve} ELSE {e.reserve}

\* Nothing of the event is applied, for one of the three reasons.
IsDiscarded(b, c, e, at) ==
    /\ c.reserves = b.reserves /\ c.positions = b.positions /\ c.closedBook = b.closedBook
    /\ \E reason :
        /\ c.skipped = b.skipped \cup {[at |-> at, type |-> e.type, reason |-> reason]}
        /\ \/ reason = "provenance-absent" /\ e.type \in Sales
           \/ /\ reason = "reserve-absent" /\ e.type \in CashVerbs
              /\ ~(NamedBy(e) \subseteq DOMAIN b.reserves)
           \/ /\ reason = "position-absent"
              /\ e.type \in Sales \cup {"PositionAddedTo"}
              /\ e.position \notin DOMAIN b.positions

\* A position opened on a day.
IsAged(p, asOf) == "openedAsOf" \in DOMAIN p /\ p.openedAsOf = asOf

\* What an applied event does to the lives of the positions.
LivesOn(b, c, e) ==
    /\ e.type \in Sales \cup {"PositionAddedTo"} => e.position \in DOMAIN b.positions
    /\ DOMAIN c.positions =
        IF e.type = "PositionOpened" THEN DOMAIN b.positions \cup {e.position}
        ELSE IF e.type = "PositionClosed" THEN DOMAIN b.positions \ {e.position}
        ELSE DOMAIN b.positions
    /\ \A id \in DOMAIN c.positions :
        IF e.type = "PositionOpened" /\ id = e.position THEN IsAged(c.positions[id], e.asOf)
        ELSE \A asOf : IsAged(b.positions[id], asOf) => IsAged(c.positions[id], asOf)
    /\ IF e.type \in Sales
       THEN \E row : /\ row.position = e.position /\ row.proceeds = e.amount
                     /\ row.partial <=> e.type = "PositionTrimmed"
                     /\ row.closedAsOf = e.asOf
                     /\ row.openedAsOf = b.positions[e.position].openedAsOf
                     /\ c.closedBook = Append(b.closedBook, row)
       ELSE c.closedBook = b.closedBook

\* What it does to the cash.
IsApplied(b, c, e) ==
    /\ c.skipped = b.skipped
    /\ \A id : Holds(c, id) = Holds(b, id) + CashEffect(e, id)
    /\ DOMAIN c.reserves =
        DOMAIN b.reserves \cup (IF e.type = "ReserveOpened" THEN {e.reserve} ELSE {})
    /\ LivesOn(b, c, e)

\* The levels are those the book had, but for one that the event sets.
KeepsLevels(b, c, e, at) ==
    \A id \in DOMAIN c.invalidation :
        \/ id \in DOMAIN b.invalidation /\ c.invalidation[id] = b.invalidation[id]
        \/ /\ e.type = "InvalidationMarked" /\ id = e.position
           /\ c.invalidation[id].at = at /\ c.invalidation[id].asOf = e.asOf

IsStep(b, c, e, at) ==
    /\ IsBook(c) /\ KeepsLevels(b, c, e, at)
    /\ IsDiscarded(b, c, e, at) \/ IsApplied(b, c, e)

\* An event whose target is not there is discarded.
LEMMA SkipIsStep ==
    ASSUME NEW b, IsBook(b), NEW e, NEW at, NEW reason,
           \/ reason = "provenance-absent" /\ e.type \in Sales
           \/ /\ reason = "reserve-absent" /\ e.type \in CashVerbs
              /\ ~(NamedBy(e) \subseteq DOMAIN b.reserves)
           \/ /\ reason = "position-absent"
              /\ e.type \in Sales \cup {"PositionAddedTo"}
              /\ e.position \notin DOMAIN b.positions
    PROVE  IsStep(b, RecordSkip(b, e, at, reason), e, at)
<1> DEFINE c == RecordSkip(b, e, at, reason)
<1>1. /\ IsBook(c)
      /\ c.reserves = b.reserves /\ c.positions = b.positions
      /\ c.closedBook = b.closedBook /\ c.invalidation = b.invalidation
      /\ c.skipped = b.skipped \cup {[at |-> at, type |-> e.type, reason |-> reason]}
  BY Discards
<1> HIDE DEF c
<1>2. KeepsLevels(b, c, e, at)
  BY <1>1 DEF KeepsLevels
<1>3. IsDiscarded(b, c, e, at)
  BY <1>1 DEF IsDiscarded
<1> QED BY <1>1, <1>2, <1>3 DEF IsStep, c

\* A position verb is a step when what its leg applies is what the verb does.
LEMMA LegIsStep ==
    ASSUME NEW b, IsBook(b), NEW e, NEW at, NEW applied, IsBook(applied),
           applied.reserves = b.reserves, applied.skipped = b.skipped,
           applied.invalidation = b.invalidation, LivesOn(b, applied, e),
           NEW deltas, NEW lots, NEW amount \in Int, SplitsOver(deltas, lots, amount),
           e.type \in CashVerbs \ {"Transfer"}, lots = <<>> => e.type \in Sales,
           \A id : CashEffect(e, id) = IF e.reserve = id THEN amount ELSE 0
    PROVE  IsStep(b, ApplyTieredLeg(b, e, at, deltas, applied), e, at)
<1> DEFINE c == ApplyTieredLeg(b, e, at, deltas, applied)
<1>1. \/ c = RecordSkip(b, e, at, "provenance-absent") /\ lots = <<>>
      \/ c = RecordSkip(b, e, at, "reserve-absent") /\ e.reserve \notin DOMAIN b.reserves
      \/ /\ e.reserve \in DOMAIN b.reserves
         /\ IsBook(c) /\ SameElsewhere(applied, c)
         /\ DOMAIN c.reserves = DOMAIN b.reserves
         /\ \A id : Holds(c, id) = Holds(b, id) + IF e.reserve = id THEN amount ELSE 0
  BY TieredLeg
<1> HIDE DEF c
<1>2. NamedBy(e) = {e.reserve}
  BY DEF NamedBy
<1>3. CASE c = RecordSkip(b, e, at, "provenance-absent") /\ lots = <<>>
  BY <1>3, SkipIsStep DEF c
<1>4. CASE c = RecordSkip(b, e, at, "reserve-absent") /\ e.reserve \notin DOMAIN b.reserves
  <2>1. ~(NamedBy(e) \subseteq DOMAIN b.reserves)
    BY <1>2, <1>4
  <2> QED BY <1>4, <2>1, SkipIsStep DEF c
<1>5. CASE /\ e.reserve \in DOMAIN b.reserves
           /\ IsBook(c) /\ SameElsewhere(applied, c)
           /\ DOMAIN c.reserves = DOMAIN b.reserves
           /\ \A id : Holds(c, id) = Holds(b, id) + IF e.reserve = id THEN amount ELSE 0
  <2>1. /\ c.positions = applied.positions /\ c.closedBook = applied.closedBook
        /\ c.invalidation = b.invalidation /\ c.skipped = b.skipped
    BY <1>5 DEF SameElsewhere
  <2>2. LivesOn(b, c, e)
    BY <2>1 DEF LivesOn
  <2>3. \A id : Holds(c, id) = Holds(b, id) + CashEffect(e, id)
    BY <1>5
  <2>4. DOMAIN c.reserves =
            DOMAIN b.reserves \cup (IF e.type = "ReserveOpened" THEN {e.reserve} ELSE {})
    BY <1>5 DEF CashVerbs
  <2>5. IsApplied(b, c, e)
    BY <2>1, <2>2, <2>3, <2>4 DEF IsApplied
  <2>6. KeepsLevels(b, c, e, at)
    BY <2>1 DEF KeepsLevels
  <2> QED BY <1>5, <2>5, <2>6 DEF IsStep, c
<1> QED BY <1>1, <1>3, <1>4, <1>5

LEMMA EffectOf ==
    ASSUME NEW e, NEW id
    PROVE  /\ e.type \in {"Deposit", "PositionClosed", "PositionTrimmed"} =>
                CashEffect(e, id) = IF e.reserve = id THEN e.amount ELSE 0
           /\ e.type \in {"Withdraw", "PositionOpened", "PositionAddedTo"} =>
                CashEffect(e, id) = IF e.reserve = id THEN -e.amount ELSE 0
           /\ e.type = "Transfer" =>
                CashEffect(e, id) = IF e.reserve = id THEN e.amount
                                    ELSE IF e.from = id THEN -e.amount ELSE 0
           /\ e.type \in {"PriceMarked", "InvalidationMarked", "ReserveOpened"} =>
                CashEffect(e, id) = 0
BY DEF CashEffect

\* A purchase and a sale split the cash of the leg over the lots it pays for, or sells.
LEMMA LegsSplit ==
    ASSUME NEW lots \in Seq(SoldLots), NEW amount \in Int
    PROVE  /\ SplitsOver(DeltasForOpen(lots, amount), lots, -amount)
           /\ SplitsOver(DeltasForClose(lots, amount), lots, amount)
<1>1. SplitsOver(TierWeightedDeltas(lots, amount, -1), lots, (-1) * amount)
  BY DeltasAddUp
<1>2. SplitsOver(TierWeightedDeltas(lots, amount, 1), lots, 1 * amount)
  BY DeltasAddUp
<1>3. (-1) * amount = -amount /\ 1 * amount = amount
  OBVIOUS
<1> QED BY <1>1, <1>2, <1>3 DEF DeltasForOpen, DeltasForClose

LEMMA HeldAreSold ==
    ASSUME NEW lots \in Seq(HeldLots)
    PROVE  lots \in Seq(SoldLots)
BY LotTypes

LEMMA OpenedIsStep ==
    ASSUME NEW b, IsBook(b), NEW e, IsEvent(e), NEW at, e.type = "PositionOpened"
    PROVE  IsStep(b, Opened(b, e, at), e, at)
<1> DEFINE price == WeightedAverageCost(e.lots)
           fresh == e.instrument \notin b.seeded
           new == [portfolio |-> e.portfolio, tempo |-> e.tempo, mode |-> e.mode,
                   account |-> e.account, currency |-> e.currency,
                   instrument |-> e.instrument, direction |-> e.direction, lots |-> e.lots,
                   markPrice |-> price, openedAsOf |-> e.asOf]
           positions == Put(b.positions, e.position, new)
           fallback == b.fallback \cup {e.position}
           seeded == b.seeded \cup {e.instrument}
           anchors == IF fresh THEN Put(b.anchors, e.instrument, Len(b.closes) + 1)
                      ELSE b.anchors
           closes == IF fresh
                     THEN Append(b.closes, [instrument |-> e.instrument, asOf |-> e.asOf,
                                            price |-> price])
                     ELSE b.closes
           applied == [b EXCEPT !.positions = positions, !.fallback = fallback,
                                !.seeded = seeded, !.anchors = anchors, !.closes = closes]
           deltas == DeltasForOpen(e.lots, e.amount)
<1>1. Opened(b, e, at) = ApplyTieredLeg(b, e, at, deltas, applied)
  BY DEF Opened
<1>2. e.lots \in Seq(HeldLots) /\ e.lots # <<>> /\ e.amount \in Int
  BY DEF IsEvent, CashVerbs
<1>3. IsPosition(new) /\ IsAged(new, e.asOf)
  BY <1>2 DEF IsPosition, IsAged
<1> HIDE DEF new
<1>4. /\ DOMAIN positions = DOMAIN b.positions \cup {e.position}
      /\ \A id \in DOMAIN positions : IsPosition(positions[id])
      /\ \A id \in DOMAIN positions :
            positions[id] = IF id = e.position THEN new ELSE b.positions[id]
  <2>1. \A id \in DOMAIN b.positions : IsPosition(b.positions[id])
    BY DEF IsBook
  <2>2. /\ DOMAIN positions = DOMAIN b.positions \cup {e.position}
        /\ positions[e.position] = new
        /\ \A x \in DOMAIN b.positions : x # e.position => positions[x] = b.positions[x]
    BY DEF Put
  <2> HIDE DEF positions
  <2> QED BY <1>3, <2>1, <2>2
<1> HIDE DEF positions, fallback, seeded, anchors, closes, fresh, price
<1>5. /\ DOMAIN applied = BookFields
      /\ applied.positions = positions /\ applied.reserves = b.reserves
      /\ applied.skipped = b.skipped /\ applied.invalidation = b.invalidation
      /\ applied.closedBook = b.closedBook
  BY DEF IsBook, BookFields
<1> HIDE DEF applied
<1>6. IsBook(applied)
  BY <1>4, <1>5 DEF IsBook
<1>7. LivesOn(b, applied, e)
  <2>1. \A id \in DOMAIN positions :
            IF id = e.position THEN IsAged(positions[id], e.asOf)
            ELSE positions[id] = b.positions[id]
    BY <1>3, <1>4
  <2> QED BY <1>4, <1>5, <2>1 DEF LivesOn, Sales
<1>8. SplitsOver(deltas, e.lots, -e.amount)
  BY <1>2, HeldAreSold, LegsSplit
<1>9. \A id : CashEffect(e, id) = IF e.reserve = id THEN -e.amount ELSE 0
  BY EffectOf
<1> HIDE DEF deltas
<1>10. e.type \in CashVerbs \ {"Transfer"} /\ -e.amount \in Int
  BY <1>2 DEF CashVerbs
<1>11. IsStep(b, ApplyTieredLeg(b, e, at, deltas, applied), e, at)
  BY <1>2, <1>5, <1>6, <1>7, <1>8, <1>9, <1>10, LegIsStep
<1> QED BY <1>1, <1>11

LEMMA ClosedIsStep ==
    ASSUME NEW b, IsBook(b), NEW e, IsEvent(e), NEW at, e.type = "PositionClosed"
    PROVE  IsStep(b, Closed(b, e, at), e, at)
<1> DEFINE id == e.position
           lots == b.positions[id].lots
           row == ClosedRow(b, b.positions[id], id, lots, e, FALSE)
           rows == Append(b.closedBook, row)
           positions == Restrict(b.positions, DOMAIN b.positions \ {id})
           applied == [b EXCEPT !.closedBook = rows, !.positions = positions]
           deltas == DeltasForClose(lots, e.amount)
<1>1. CASE id \notin DOMAIN b.positions
  <2>1. Closed(b, e, at) = RecordSkip(b, e, at, "position-absent")
    BY <1>1 DEF Closed
  <2> QED BY <1>1, <2>1, SkipIsStep DEF Sales
<1>2. CASE id \in DOMAIN b.positions
  <2>1. Closed(b, e, at) = ApplyTieredLeg(b, e, at, deltas, applied)
    BY <1>2 DEF Closed
  <2>2. e.amount \in Int
    BY DEF IsEvent, CashVerbs
  <2>3. /\ row.position = id /\ row.proceeds = e.amount /\ row.partial = FALSE
        /\ row.closedAsOf = e.asOf /\ row.openedAsOf = b.positions[id].openedAsOf
    BY DEF ClosedRow
  <2> HIDE DEF row
  <2>4. IsClosedBook(rows)
    BY <2>2, <2>3, OneMoreRow DEF IsBook
  <2>5. /\ DOMAIN positions = DOMAIN b.positions \ {id}
        /\ \A x \in DOMAIN positions : IsPosition(positions[x]) /\ positions[x] = b.positions[x]
    BY DEF IsBook, Restrict
  <2> HIDE DEF rows, positions
  <2>6. /\ DOMAIN applied = BookFields
        /\ applied.positions = positions /\ applied.reserves = b.reserves
        /\ applied.skipped = b.skipped /\ applied.invalidation = b.invalidation
        /\ applied.closedBook = rows
    BY DEF IsBook, BookFields
  <2> HIDE DEF applied
  <2>7. IsBook(applied)
    BY <2>4, <2>5, <2>6 DEF IsBook
  <2>8. LivesOn(b, applied, e)
    <3>1. e.type \in Sales /\ e.type # "PositionTrimmed" /\ e.type # "PositionOpened"
      BY DEF Sales
    <3>2. /\ row.position = e.position /\ row.proceeds = e.amount
          /\ row.partial <=> e.type = "PositionTrimmed"
          /\ row.closedAsOf = e.asOf
          /\ row.openedAsOf = b.positions[e.position].openedAsOf
          /\ applied.closedBook = Append(b.closedBook, row)
      BY <2>3, <2>6, <3>1 DEF rows
    <3> QED BY <1>2, <2>5, <2>6, <3>1, <3>2 DEF LivesOn
  <2>9. lots \in Seq(HeldLots)
    BY <1>2 DEF IsBook, IsPosition
  <2> HIDE DEF lots
  <2>10. SplitsOver(deltas, lots, e.amount)
    BY <2>2, <2>9, HeldAreSold, LegsSplit
  <2>11. \A x : CashEffect(e, x) = IF e.reserve = x THEN e.amount ELSE 0
    BY EffectOf
  <2> HIDE DEF deltas
  <2>12. e.type \in CashVerbs \ {"Transfer"} /\ e.type \in Sales
    BY DEF CashVerbs, Sales
  <2>13. IsStep(b, ApplyTieredLeg(b, e, at, deltas, applied), e, at)
    BY <2>2, <2>6, <2>7, <2>8, <2>10, <2>11, <2>12, LegIsStep
  <2> QED BY <2>1, <2>13
<1> QED BY <1>1, <1>2

LEMMA TrimmedIsStep ==
    ASSUME NEW b, IsBook(b), NEW e, IsEvent(e), NEW at, e.type = "PositionTrimmed"
    PROVE  IsStep(b, Trimmed(b, e, at), e, at)
<1> DEFINE id == e.position
           split == SplitRemovals(b.positions[id].lots, e.removals)
           row == ClosedRow(b, b.positions[id], id, split.removed, e, TRUE)
           rows == Append(b.closedBook, row)
           left == split.remaining
           new == [b.positions[id] EXCEPT !.lots = left]
           positions == [b.positions EXCEPT ![id] = new]
           applied == [b EXCEPT !.closedBook = rows, !.positions = positions]
           deltas == DeltasForClose(split.removed, e.amount)
<1>1. CASE id \notin DOMAIN b.positions
  <2>1. Trimmed(b, e, at) = RecordSkip(b, e, at, "position-absent")
    BY <1>1 DEF Trimmed
  <2> QED BY <1>1, <2>1, SkipIsStep DEF Sales
<1>2. CASE id \in DOMAIN b.positions
  <2>1. Trimmed(b, e, at) = ApplyTieredLeg(b, e, at, deltas, applied)
    BY <1>2 DEF Trimmed
  <2>2. e.amount \in Int
    BY DEF IsEvent, CashVerbs
  <2>3. /\ row.position = id /\ row.proceeds = e.amount /\ row.partial = TRUE
        /\ row.closedAsOf = e.asOf /\ row.openedAsOf = b.positions[id].openedAsOf
    BY DEF ClosedRow
  <2> HIDE DEF row
  <2>4. IsClosedBook(rows)
    BY <2>2, <2>3, OneMoreRow DEF IsBook
  <2>5. split \in Splits
    <3>1. b.positions[id].lots \in Seq(HeldLots)
      BY <1>2 DEF IsBook, IsPosition
    <3>2. e.removals \in Seq(Figures) /\ \A i \in DOMAIN e.removals : e.removals[i].quantity \in Nat
      BY DEF IsEvent
    <3> QED BY <3>1, <3>2, SplitRemovalsType
  <2>6. split.removed \in Seq(SoldLots) /\ left \in Seq(HeldLots)
    BY <2>5 DEF Splits
  <2> HIDE DEF split, left
  <2>7. IsPosition(new) /\ \A asOf : IsAged(b.positions[id], asOf) => IsAged(new, asOf)
    BY <1>2, <2>6 DEF IsBook, IsPosition, IsAged
  <2> HIDE DEF new
  <2>8. /\ DOMAIN positions = DOMAIN b.positions
        /\ \A x \in DOMAIN positions : IsPosition(positions[x])
        /\ \A x \in DOMAIN positions : \A asOf :
                IsAged(b.positions[x], asOf) => IsAged(positions[x], asOf)
    BY <2>7 DEF IsBook
  <2> HIDE DEF rows, positions
  <2>9. /\ DOMAIN applied = BookFields
        /\ applied.positions = positions /\ applied.reserves = b.reserves
        /\ applied.skipped = b.skipped /\ applied.invalidation = b.invalidation
        /\ applied.closedBook = rows
    BY DEF IsBook, BookFields
  <2> HIDE DEF applied
  <2>10. IsBook(applied)
    BY <2>4, <2>8, <2>9 DEF IsBook
  <2>11. e.type \in CashVerbs \ {"Transfer"} /\ e.type \in Sales
    BY DEF CashVerbs, Sales
  <2>12. LivesOn(b, applied, e)
    <3>1. /\ row.position = e.position /\ row.proceeds = e.amount
          /\ row.partial <=> e.type = "PositionTrimmed"
          /\ row.closedAsOf = e.asOf
          /\ row.openedAsOf = b.positions[e.position].openedAsOf
          /\ applied.closedBook = Append(b.closedBook, row)
      BY <2>3, <2>9 DEF rows
    <3>2. e.type # "PositionOpened" /\ e.type # "PositionClosed"
      OBVIOUS
    <3> QED BY <1>2, <2>8, <2>9, <2>11, <3>1, <3>2, Zenon DEF LivesOn
  <2>13. SplitsOver(deltas, split.removed, e.amount)
    BY <2>2, <2>6, LegsSplit
  <2>14. \A x : CashEffect(e, x) = IF e.reserve = x THEN e.amount ELSE 0
    BY EffectOf
  <2> HIDE DEF deltas
  <2>15. IsStep(b, ApplyTieredLeg(b, e, at, deltas, applied), e, at)
    BY <2>2, <2>9, <2>10, <2>11, <2>12, <2>13, <2>14, LegIsStep
  <2> QED BY <2>1, <2>15
<1> QED BY <1>1, <1>2

LEMMA AddedToIsStep ==
    ASSUME NEW b, IsBook(b), NEW e, IsEvent(e), NEW at, e.type = "PositionAddedTo"
    PROVE  IsStep(b, AddedTo(b, e, at), e, at)
<1> DEFINE id == e.position
           adding == b.positions[id]
           lots == Append(adding.lots, e.lot)
           blended == WeightedAverageCost(lots)
           unmarked == /\ e.position \in b.fallback
                       /\ adding.instrument \notin DOMAIN b.latestMark
           anchored == unmarked /\ adding.instrument \in DOMAIN b.anchors
           price == IF unmarked THEN blended ELSE adding.markPrice
           closes == IF anchored
                     THEN [b.closes EXCEPT ![b.anchors[adding.instrument]].price = blended]
                     ELSE b.closes
           new == [adding EXCEPT !.lots = lots, !.markPrice = price]
           positions == [b.positions EXCEPT ![id] = new]
           applied == [b EXCEPT !.positions = positions, !.closes = closes]
           deltas == DeltasForOpen(<<e.lot>>, e.amount)
<1>1. CASE id \notin DOMAIN b.positions
  <2>1. AddedTo(b, e, at) = RecordSkip(b, e, at, "position-absent")
    BY <1>1 DEF AddedTo
  <2> QED BY <1>1, <2>1, SkipIsStep DEF Sales
<1>2. CASE id \in DOMAIN b.positions
  <2>1. AddedTo(b, e, at) = ApplyTieredLeg(b, e, at, deltas, applied)
    BY <1>2, Zenon DEF AddedTo
  <2>2. e.amount \in Int /\ e.lot \in HeldLots
    BY DEF IsEvent, CashVerbs
  <2>3. lots \in Seq(HeldLots)
    BY <1>2, <2>2 DEF IsBook, IsPosition
  <2> HIDE DEF lots, price
  <2>4. IsPosition(new) /\ \A asOf : IsAged(b.positions[id], asOf) => IsAged(new, asOf)
    BY <1>2, <2>3 DEF IsBook, IsPosition, IsAged
  <2> HIDE DEF new
  <2>5. /\ DOMAIN positions = DOMAIN b.positions
        /\ \A x \in DOMAIN positions : IsPosition(positions[x])
        /\ \A x \in DOMAIN positions : \A asOf :
                IsAged(b.positions[x], asOf) => IsAged(positions[x], asOf)
    BY <2>4 DEF IsBook
  <2> HIDE DEF positions, closes
  <2>6. /\ DOMAIN applied = BookFields
        /\ applied.positions = positions /\ applied.reserves = b.reserves
        /\ applied.skipped = b.skipped /\ applied.invalidation = b.invalidation
        /\ applied.closedBook = b.closedBook
    BY DEF IsBook, BookFields
  <2> HIDE DEF applied
  <2>7. IsBook(applied)
    BY <2>5, <2>6 DEF IsBook
  <2>8. LivesOn(b, applied, e)
    BY <1>2, <2>5, <2>6 DEF LivesOn, Sales
  <2>9. <<e.lot>> \in Seq(HeldLots) /\ <<e.lot>> # <<>>
    BY <2>2
  <2>10. SplitsOver(deltas, <<e.lot>>, -e.amount)
    BY <2>2, <2>9, HeldAreSold, LegsSplit, Zenon
  <2>11. \A x : CashEffect(e, x) = IF e.reserve = x THEN -e.amount ELSE 0
    BY EffectOf
  <2> HIDE DEF deltas
  <2>12. e.type \in CashVerbs \ {"Transfer"} /\ -e.amount \in Int
    BY <2>2 DEF CashVerbs
  <2>13. IsStep(b, ApplyTieredLeg(b, e, at, deltas, applied), e, at)
    BY <2>6, <2>7, <2>8, <2>9, <2>10, <2>11, <2>12, LegIsStep, Zenon
  <2> QED BY <2>1, <2>13
<1> QED BY <1>1, <1>2

LEMMA InvalidationIsStep ==
    ASSUME NEW b, IsBook(b), NEW e, IsEvent(e), NEW at, e.type = "InvalidationMarked"
    PROVE  IsStep(b, InvalidationMarked(b, e, at), e, at)
<1> DEFINE level == [level |-> e.level, direction |-> e.direction, asOf |-> e.asOf, at |-> at]
           levels == Put(b.invalidation, e.position, level)
           c == [b EXCEPT !.invalidation = levels]
<1>1. InvalidationMarked(b, e, at) = c
  BY DEF InvalidationMarked
<1>2. level.at = at /\ level.asOf = e.asOf
  OBVIOUS
<1> HIDE DEF level
<1>3. /\ DOMAIN levels = DOMAIN b.invalidation \cup {e.position}
      /\ levels[e.position] = level
      /\ \A x \in DOMAIN b.invalidation : x # e.position => levels[x] = b.invalidation[x]
  BY DEF Put
<1> HIDE DEF levels
<1>4. /\ DOMAIN c = BookFields /\ c.invalidation = levels
      /\ c.positions = b.positions /\ c.reserves = b.reserves
      /\ c.skipped = b.skipped /\ c.closedBook = b.closedBook
  BY DEF IsBook, BookFields
<1> HIDE DEF c
<1>5. IsBook(c)
  BY <1>4 DEF IsBook
<1>6. KeepsLevels(b, c, e, at)
  BY <1>2, <1>3, <1>4 DEF KeepsLevels
<1>7. LivesOn(b, c, e)
  BY <1>4 DEF LivesOn, Sales
<1>8. \A id : Holds(c, id) = Holds(b, id) + CashEffect(e, id)
  <2>1. \A id : CashEffect(e, id) = 0
    BY EffectOf
  <2>2. \A id : Holds(c, id) = Holds(b, id) /\ Holds(b, id) \in Int
    BY <1>4 DEF Holds, IsBook, IsReserve
  <2> QED BY <2>1, <2>2
<1>9. IsApplied(b, c, e)
  BY <1>4, <1>7, <1>8 DEF IsApplied
<1> QED BY <1>1, <1>5, <1>6, <1>9 DEF IsStep

LEMMA MarkIsStep ==
    ASSUME NEW b, IsBook(b), NEW e, IsEvent(e), NEW at, e.type = "PriceMarked"
    PROVE  IsStep(b, PriceMarked(b, e), e, at)
<1> DEFINE sameDay == { i \in DOMAIN b.closes :
                            /\ b.closes[i].instrument = e.instrument
                            /\ b.closes[i].asOf = e.asOf }
           marks == Put(b.latestMark, e.instrument, e.price)
           rate == IF "usdMxn" \in DOMAIN e THEN e.usdMxn ELSE b.usdMxn
           closes == IF sameDay = {}
                     THEN Append(b.closes, [instrument |-> e.instrument, asOf |-> e.asOf,
                                            price |-> e.price])
                     ELSE [b.closes EXCEPT ![Min(sameDay)].price = e.price]
           c == [b EXCEPT !.latestMark = marks, !.usdMxn = rate, !.closes = closes]
<1>1. PriceMarked(b, e) = c
  BY DEF PriceMarked
<1> HIDE DEF marks, rate, closes
<1>2. /\ DOMAIN c = BookFields /\ c.invalidation = b.invalidation
      /\ c.positions = b.positions /\ c.reserves = b.reserves
      /\ c.skipped = b.skipped /\ c.closedBook = b.closedBook
  BY DEF IsBook, BookFields
<1> HIDE DEF c
<1>3. IsBook(c)
  BY <1>2 DEF IsBook
<1>4. KeepsLevels(b, c, e, at)
  BY <1>2 DEF KeepsLevels
<1>5. LivesOn(b, c, e)
  BY <1>2 DEF LivesOn, Sales
<1>6. \A id : Holds(c, id) = Holds(b, id) + CashEffect(e, id)
  <2>1. \A id : CashEffect(e, id) = 0
    BY EffectOf
  <2>2. \A id : Holds(c, id) = Holds(b, id) /\ Holds(b, id) \in Int
    BY <1>2 DEF Holds, IsBook, IsReserve
  <2> QED BY <2>1, <2>2
<1>7. IsApplied(b, c, e)
  BY <1>2, <1>5, <1>6 DEF IsApplied
<1> QED BY <1>1, <1>3, <1>4, <1>7 DEF IsStep

LEMMA OneLeg ==
    ASSUME NEW tier \in Tiers, NEW amount \in Int
    PROVE  LET deltas == << [tier |-> tier, amount |-> amount] >>
           IN  /\ deltas \in Seq(Deltas)
               /\ Total([i \in DOMAIN deltas |-> deltas[i].amount]) = amount
<1> DEFINE deltas == << [tier |-> tier, amount |-> amount] >>
           figures == [i \in DOMAIN deltas |-> deltas[i].amount]
<1>1. deltas \in Seq(Deltas)
  BY DEF Deltas
<1>2. figures = <<amount>>
  OBVIOUS
<1> HIDE DEF figures
<1>3. Total(figures) = amount
  BY <1>2, TotalOfOne
<1> QED BY <1>1, <1>3 DEF figures

\* A verb that moves cash alone is a step.
LEMMA CashIsStep ==
    ASSUME NEW b, IsBook(b), NEW c, IsBook(c), NEW e, NEW at,
           e.type \in {"Deposit", "Withdraw", "Transfer"},
           SameElsewhere(b, c), DOMAIN c.reserves = DOMAIN b.reserves,
           \A id : Holds(c, id) = Holds(b, id) + CashEffect(e, id)
    PROVE  IsStep(b, c, e, at)
<1>1. /\ c.positions = b.positions /\ c.closedBook = b.closedBook
      /\ c.invalidation = b.invalidation /\ c.skipped = b.skipped
  BY DEF SameElsewhere
<1>2. KeepsLevels(b, c, e, at)
  BY <1>1 DEF KeepsLevels
<1>3. LivesOn(b, c, e)
  BY <1>1 DEF LivesOn, Sales
<1>4. IsApplied(b, c, e)
  BY <1>1, <1>3 DEF IsApplied
<1> QED BY <1>2, <1>4 DEF IsStep

LEMMA MovedIsStep ==
    ASSUME NEW b, IsBook(b), NEW e, IsEvent(e), NEW at, e.type \in {"Deposit", "Withdraw"},
           NEW amount, amount = IF e.type = "Deposit" THEN e.amount ELSE -e.amount
    PROVE  IsStep(b, Moved(b, e, at, amount), e, at)
<1>1. e.amount \in Int /\ amount \in Int /\ e.tier \in Tiers
  BY DEF IsEvent, CashVerbs
<1>2. NamedBy(e) = {e.reserve} /\ e.type \in CashVerbs
  BY DEF NamedBy, CashVerbs
<1>3. CASE e.reserve \notin DOMAIN b.reserves
  <2>1. Moved(b, e, at, amount) = RecordSkip(b, e, at, "reserve-absent")
    BY <1>3 DEF Moved
  <2>2. ~(NamedBy(e) \subseteq DOMAIN b.reserves)
    BY <1>2, <1>3
  <2> QED BY <1>2, <2>1, <2>2, SkipIsStep
<1>4. CASE e.reserve \in DOMAIN b.reserves
  <2> DEFINE deltas == << [tier |-> e.tier, amount |-> amount] >>
             c == ApplyToReserve(b, e.reserve, deltas)
  <2>1. Moved(b, e, at, amount) = c
    BY <1>4 DEF Moved
  <2>2. deltas \in Seq(Deltas) /\ Total([i \in DOMAIN deltas |-> deltas[i].amount]) = amount
    BY <1>1, OneLeg
  <2> HIDE DEF deltas
  <2>3. /\ IsBook(c) /\ SameElsewhere(b, c) /\ DOMAIN c.reserves = DOMAIN b.reserves
        /\ \A x : Holds(c, x) = Holds(b, x) + IF e.reserve = x THEN amount ELSE 0
    BY <1>1, <1>4, <2>2, Credits
  <2>4. \A x : CashEffect(e, x) = IF e.reserve = x THEN amount ELSE 0
    BY EffectOf
  <2> HIDE DEF c
  <2>5. \A x : Holds(c, x) = Holds(b, x) + CashEffect(e, x)
    BY <2>3, <2>4
  <2> QED BY <2>1, <2>3, <2>5, CashIsStep
<1> QED BY <1>3, <1>4

LEMMA TransferredIsStep ==
    ASSUME NEW b, IsBook(b), NEW e, IsEvent(e), NEW at, e.type = "Transfer"
    PROVE  IsStep(b, Transferred(b, e, at), e, at)
<1>1. e.amount \in Int /\ -e.amount \in Int /\ e.tier \in Tiers /\ e.from # e.reserve
  BY DEF IsEvent, CashVerbs
<1>2. NamedBy(e) = {e.from, e.reserve} /\ e.type \in CashVerbs
  BY DEF NamedBy, CashVerbs
<1>3. CASE ~({e.from, e.reserve} \subseteq DOMAIN b.reserves)
  <2>1. Transferred(b, e, at) = RecordSkip(b, e, at, "reserve-absent")
    BY <1>3 DEF Transferred
  <2> QED BY <1>2, <1>3, <2>1, SkipIsStep
<1>4. CASE {e.from, e.reserve} \subseteq DOMAIN b.reserves
  <2> DEFINE debit == << [tier |-> e.tier, amount |-> -e.amount] >>
             credit == << [tier |-> e.tier, amount |-> e.amount] >>
             a == ApplyToReserve(b, e.from, debit)
             c == ApplyToReserve(a, e.reserve, credit)
  <2>1. Transferred(b, e, at) = c
    BY <1>4 DEF Transferred
  <2>2. debit \in Seq(Deltas) /\ Total([i \in DOMAIN debit |-> debit[i].amount]) = -e.amount
    BY <1>1, OneLeg
  <2>3. credit \in Seq(Deltas) /\ Total([i \in DOMAIN credit |-> credit[i].amount]) = e.amount
    BY <1>1, OneLeg
  <2> HIDE DEF debit, credit
  <2>4. /\ IsBook(a) /\ SameElsewhere(b, a) /\ DOMAIN a.reserves = DOMAIN b.reserves
        /\ \A x : Holds(a, x) = Holds(b, x) + IF e.from = x THEN -e.amount ELSE 0
    BY <1>1, <1>4, <2>2, Credits
  <2> HIDE DEF a
  <2>5. /\ IsBook(c) /\ SameElsewhere(a, c) /\ DOMAIN c.reserves = DOMAIN a.reserves
        /\ \A x : Holds(c, x) = Holds(a, x) + IF e.reserve = x THEN e.amount ELSE 0
    BY <1>1, <1>4, <2>3, <2>4, Credits
  <2> HIDE DEF c
  <2>6. SameElsewhere(b, c) /\ DOMAIN c.reserves = DOMAIN b.reserves
    BY <2>4, <2>5 DEF SameElsewhere
  <2>7. ASSUME NEW x PROVE Holds(c, x) = Holds(b, x) + CashEffect(e, x)
    <3>1. CashEffect(e, x) = IF e.reserve = x THEN e.amount
                             ELSE IF e.from = x THEN -e.amount ELSE 0
      BY EffectOf
    <3>2. Holds(b, x) \in Int
      BY DEF Holds, IsBook, IsReserve
    <3> QED BY <1>1, <2>4, <2>5, <3>1, <3>2
  <2> QED BY <2>1, <2>5, <2>6, <2>7, CashIsStep
<1> QED BY <1>3, <1>4

LEMMA ReserveOpenedIsStep ==
    ASSUME NEW b, IsBook(b), NEW e, IsEvent(e), NEW at, e.type = "ReserveOpened",
           e.reserve \notin DOMAIN b.reserves
    PROVE  IsStep(b, ReserveOpened(b, e), e, at)
<1> DEFINE r == CapitalRecordBase(e, 0, <<>>)
           reserves == Put(b.reserves, e.reserve, r)
           c == [b EXCEPT !.reserves = reserves]
<1>1. ReserveOpened(b, e) = c
  BY DEF ReserveOpened
<1>2. IsReserve(r) /\ r.amount = 0
  BY TierMapsType DEF CapitalRecordBase, IsReserve
<1> HIDE DEF r
<1>3. /\ DOMAIN reserves = DOMAIN b.reserves \cup {e.reserve}
      /\ reserves[e.reserve] = r
      /\ \A x \in DOMAIN b.reserves : x # e.reserve => reserves[x] = b.reserves[x]
  BY DEF Put
<1> HIDE DEF reserves
<1>4. /\ DOMAIN c = BookFields /\ c.reserves = reserves /\ SameElsewhere(b, c)
  BY DEF IsBook, BookFields, SameElsewhere
<1> HIDE DEF c
<1>5. /\ c.positions = b.positions /\ c.closedBook = b.closedBook
      /\ c.invalidation = b.invalidation /\ c.skipped = b.skipped
  BY <1>4 DEF SameElsewhere
<1>6. \A x \in DOMAIN reserves : IsReserve(reserves[x])
  BY <1>2, <1>3 DEF IsBook
<1>7. IsBook(c)
  BY <1>4, <1>5, <1>6 DEF IsBook
<1>8. KeepsLevels(b, c, e, at)
  BY <1>5 DEF KeepsLevels
<1>9. LivesOn(b, c, e)
  BY <1>5 DEF LivesOn, Sales
<1>10. ASSUME NEW x PROVE Holds(c, x) = Holds(b, x) + CashEffect(e, x)
  <2>1. CashEffect(e, x) = 0
    BY EffectOf
  <2>2. Holds(b, x) \in Int
    BY DEF Holds, IsBook, IsReserve
  <2>3. Holds(c, x) = Holds(b, x)
    BY <1>2, <1>3, <1>4 DEF Holds
  <2> QED BY <2>1, <2>2, <2>3
<1>11. IsApplied(b, c, e)
  BY <1>3, <1>4, <1>5, <1>9, <1>10 DEF IsApplied
<1> QED BY <1>1, <1>7, <1>8, <1>11 DEF IsStep

\* Whatever the verb, applying an event is a step: it is discarded, and only reported, or
\* moves the cash it states.  A reserve is born under a name that no reserve has.
LEMMA ApplyIsStep ==
    ASSUME NEW b, IsBook(b), NEW entry, IsEvent(entry.event),
           entry.event.type = "ReserveOpened" => entry.event.reserve \notin DOMAIN b.reserves
    PROVE  IsStep(b, Apply(b, entry), entry.event, entry.at)
<1> DEFINE e == entry.event
           at == entry.at
<1>1. e.type \in CashVerbs \cup {"PriceMarked", "InvalidationMarked", "ReserveOpened"}
  BY DEF IsEvent
<1>2. CASE e.type = "PositionOpened"
  <2>1. Apply(b, entry) = Opened(b, e, at)
    BY <1>2 DEF Apply
  <2> QED BY <1>2, <2>1, OpenedIsStep
<1>3. CASE e.type = "PositionClosed"
  <2>1. Apply(b, entry) = Closed(b, e, at)
    BY <1>3 DEF Apply
  <2> QED BY <1>3, <2>1, ClosedIsStep
<1>4. CASE e.type = "PositionTrimmed"
  <2>1. Apply(b, entry) = Trimmed(b, e, at)
    BY <1>4 DEF Apply
  <2> QED BY <1>4, <2>1, TrimmedIsStep
<1>5. CASE e.type = "PositionAddedTo"
  <2>1. Apply(b, entry) = AddedTo(b, e, at)
    BY <1>5 DEF Apply
  <2> QED BY <1>5, <2>1, AddedToIsStep
<1>6. CASE e.type = "InvalidationMarked"
  <2>1. Apply(b, entry) = InvalidationMarked(b, e, at)
    BY <1>6 DEF Apply
  <2> QED BY <1>6, <2>1, InvalidationIsStep
<1>7. CASE e.type = "PriceMarked"
  <2>1. Apply(b, entry) = PriceMarked(b, e)
    BY <1>7 DEF Apply
  <2> QED BY <1>7, <2>1, MarkIsStep
<1>8. CASE e.type = "Deposit"
  <2>1. Apply(b, entry) = Moved(b, e, at, e.amount)
    BY <1>8 DEF Apply
  <2> QED BY <1>8, <2>1, MovedIsStep
<1>9. CASE e.type = "Withdraw"
  <2>1. Apply(b, entry) = Moved(b, e, at, -e.amount)
    BY <1>9 DEF Apply
  <2> QED BY <1>9, <2>1, MovedIsStep
<1>10. CASE e.type = "Transfer"
  <2>1. Apply(b, entry) = Transferred(b, e, at)
    BY <1>10 DEF Apply
  <2> QED BY <1>10, <2>1, TransferredIsStep
<1>11. CASE e.type = "ReserveOpened"
  <2>1. Apply(b, entry) = ReserveOpened(b, e)
    BY <1>11 DEF Apply
  <2> QED BY <1>11, <2>1, ReserveOpenedIsStep
<1> HIDE DEF e
<1> QED BY <1>1, <1>2, <1>3, <1>4, <1>5, <1>6, <1>7, <1>8, <1>9, <1>10, <1>11 DEF CashVerbs
----------------------------------------------------------------------------
(* What the gate admits to a log.                                          *)

Later == PositionVerbs \ {"PositionOpened"}
Founds(e, id) == e.type = "ReserveOpened" /\ e.reserve = id
Opens(e, id) == e.type = "PositionOpened" /\ e.position = id
Closing(e, id) == e.type = "PositionClosed" /\ e.position = id

Sooner(events, i, j) ==
    events[i].asOf < events[j].asOf \/ (events[i].asOf = events[j].asOf /\ i < j)
Before(events, p) == { j \in DOMAIN events : Sooner(events, j, p) }

\* A reserve and a position are opened once, under a name the seed does not use.
BornOnce(events) ==
    \A i \in DOMAIN events :
        /\ events[i].type = "ReserveOpened" =>
            /\ events[i].reserve \notin IdsOf(Genesis.reserves)
            /\ \A j \in DOMAIN events : Founds(events[j], events[i].reserve) => i = j
        /\ events[i].type = "PositionOpened" =>
            /\ events[i].position \notin IdsOf(Genesis.positions)
            /\ \A j \in DOMAIN events : Opens(events[j], events[i].position) => i = j

\* What an event names is of the seed, or opened sooner.
Founded(events) ==
    \A p \in DOMAIN events :
        /\ events[p].type \in CashVerbs => \A id \in NamedBy(events[p]) :
            \/ id \in IdsOf(Genesis.reserves)
            \/ \E i \in Before(events, p) : Founds(events[i], id)
        /\ events[p].type \in Later =>
            \/ events[p].position \in IdsOf(Genesis.positions)
            \/ \E i \in Before(events, p) : Opens(events[i], events[p].position)

Admissible(events) == Parsed(events) /\ BornOnce(events) /\ Founded(events)

\* A close is the last event of its position (ADR-017).
ClosesLast(events) ==
    \A p, j \in DOMAIN events :
        p # j /\ events[p].type \in Later /\ Closing(events[j], events[p].position) =>
            Sooner(events, p, j)

LEMMA SoonerOrders ==
    ASSUME NEW events, Parsed(events), NEW i \in DOMAIN events, NEW j \in DOMAIN events
    PROVE  /\ ~Sooner(events, i, i)
           /\ Sooner(events, i, j) => ~Sooner(events, j, i)
           /\ i # j => Sooner(events, i, j) \/ Sooner(events, j, i)
<1>1. events[i].asOf \in Nat /\ events[j].asOf \in Nat
  BY DatesType
<1>2. i \in Nat /\ j \in Nat
  BY DEF Parsed
<1> QED BY <1>1, <1>2 DEF Sooner

\* The places of the events that a timeline applies before its k-th.
LEMMA TimelinePlaces ==
    ASSUME NEW events, Parsed(events), NEW day \in Nat, NEW list,
           IsTimeline(list, events, day), NEW k \in 1 .. Len(list)
    PROVE  /\ list[k].at \in DOMAIN events /\ list[k] = EntryAt(events, list[k].at)
           /\ { list[i].at : i \in 1 .. k - 1 } = Before(events, list[k].at)
<1> DEFINE p == list[k].at
<1>1. /\ list \in Seq(EntriesOf(events, DOMAIN events)) /\ Len(list) \in Nat
      /\ DOMAIN list = 1 .. Len(list)
      /\ ToSet(list) = EntriesOf(events, UpTo(events, day)) /\ ByDate(list)
  BY DEF IsTimeline
<1>2. \A i \in 1 .. Len(list) :
        /\ list[i].at \in DOMAIN events /\ list[i] = EntryAt(events, list[i].at)
        /\ list[i].event = events[list[i].at]
  <2>1. \A i \in DOMAIN list : list[i] \in EntriesOf(events, DOMAIN events)
    BY <1>1, LineType
  <2> QED BY <1>1, <2>1 DEF EntriesOf, EntryAt
<1>3. \A i, j \in 1 .. Len(list) : i < j => Sooner(events, list[i].at, list[j].at)
  <2> SUFFICES ASSUME NEW i \in 1 .. Len(list), NEW j \in 1 .. Len(list), i < j
               PROVE  Sooner(events, list[i].at, list[j].at)
    OBVIOUS
  <2>1. Earlier(list[i], list[j])
    BY <1>1 DEF ByDate
  <2>2. list[i].event = events[list[i].at] /\ list[j].event = events[list[j].at]
    BY <1>2
  <2> QED BY <2>1, <2>2 DEF Earlier, Sooner
<1>4. p \in DOMAIN events
  BY <1>2
<1>5. ASSUME NEW i \in 1 .. k - 1 PROVE list[i].at \in Before(events, p)
  <2>1. i \in 1 .. Len(list) /\ i < k
    BY <1>1
  <2> QED BY <1>2, <1>3, <2>1 DEF Before
<1>6. ASSUME NEW j \in Before(events, p) PROVE \E i \in 1 .. k - 1 : list[i].at = j
  <2>1. j \in DOMAIN events /\ Sooner(events, j, p)
    BY DEF Before
  <2>2. events[j].asOf \in Nat /\ events[p].asOf \in Nat /\ events[j].asOf <= events[p].asOf
    BY <1>4, <2>1, DatesType DEF Sooner
  <2>3. events[p].asOf <= day
    <3>1. list[k] \in EntriesOf(events, UpTo(events, day))
      BY <1>1 DEF ToSet
    <3> QED BY <3>1 DEF EntriesOf, EntryAt, UpTo
  <2>4. EntryAt(events, j) \in ToSet(list)
    BY <1>1, <2>1, <2>2, <2>3 DEF EntriesOf, UpTo
  <2>5. PICK i \in 1 .. Len(list) : list[i] = EntryAt(events, j)
    BY <1>1, <2>4 DEF ToSet
  <2>6. list[i].at = j
    BY <2>5 DEF EntryAt
  <2>7. i # k
    BY <1>4, <2>1, <2>6, SoonerOrders
  <2>8. ~(k < i)
    BY <1>3, <1>4, <2>1, <2>6, SoonerOrders
  <2> QED BY <2>6, <2>7, <2>8
<1>7. { list[i].at : i \in 1 .. k - 1 } = Before(events, p)
  BY <1>5, <1>6, Zenon
<1> QED BY <1>2, <1>7

\* Once the whole timeline is applied, all that is dated up to its day is.
LEMMA TimelineAll ==
    ASSUME NEW events, Parsed(events), NEW day \in Nat, NEW list,
           IsTimeline(list, events, day)
    PROVE  { list[i].at : i \in 1 .. Len(list) } = UpTo(events, day)
<1>1. DOMAIN list = 1 .. Len(list) /\ ToSet(list) = EntriesOf(events, UpTo(events, day))
  BY DEF IsTimeline
<1>2. ASSUME NEW i \in 1 .. Len(list) PROVE list[i].at \in UpTo(events, day)
  <2>1. list[i] \in EntriesOf(events, UpTo(events, day))
    BY <1>1 DEF ToSet
  <2> QED BY <2>1 DEF EntriesOf, EntryAt
<1>3. ASSUME NEW j \in UpTo(events, day) PROVE \E i \in 1 .. Len(list) : list[i].at = j
  <2>1. EntryAt(events, j) \in ToSet(list)
    BY <1>1 DEF EntriesOf
  <2> QED BY <1>1, <2>1 DEF ToSet, EntryAt
<1> QED BY <1>2, <1>3
----------------------------------------------------------------------------
(* What the fold has made of the events at some places of a log.           *)

\* Those that were applied, and the positions they have opened or the seed had.
Standing(b, places) == { i \in places : \A s \in b.skipped : s.at # i }
Named(events, places) ==
    IdsOf(Genesis.positions) \cup
    { events[i].position : i \in { j \in places : events[j].type = "PositionOpened" } }

\* No event found its reserve missing and, if closes come last, none its position.
SkipsOf(b, events, places) ==
    \A s \in b.skipped :
        /\ s.at \in places /\ s.reason \in {"provenance-absent", "position-absent"}
        /\ ClosesLast(events) => s.reason # "position-absent"

\* A level is where the event that set it says it is.
LevelsOf(b, events, places) ==
    \A id \in DOMAIN b.invalidation :
        LET p == b.invalidation[id].at
        IN  /\ p \in places /\ events[p].type = "InvalidationMarked"
            /\ events[p].position = id /\ b.invalidation[id].asOf = events[p].asOf

Effects(events, id) == [i \in DOMAIN events |-> CashEffect(events[i], id)]
Sold(events) == [i \in DOMAIN events |-> Proceeds(events[i])]

\* The reserves are those of the seed and those opened, and the cash of each, like the
\* proceeds of the closed book, is accounted for.
CashOf(b, events, places) ==
    /\ DOMAIN b.reserves = IdsOf(Genesis.reserves) \cup
        { events[i].reserve : i \in { j \in places : events[j].type = "ReserveOpened" } }
    /\ \A id : Holds(b, id) = SeededCash(id) + Counted(Effects(events, id), Standing(b, places))
    /\ Booked(b.closedBook) = Counted(Sold(events), Standing(b, places))

\* A row of the closed book, told from the events.
IsRow(r, events, places, standing) ==
    /\ r.position \in Named(events, places)
    /\ r.position \notin IdsOf(Genesis.positions) =>
        \E i \in places : Opens(events[i], r.position) /\ r.openedAsOf = events[i].asOf
    /\ ~r.partial =>
        \E j \in standing : Closing(events[j], r.position) /\ r.closedAsOf = events[j].asOf

\* A position is open from the event that opens it, or the seed, to the one that closes
\* it, and every such event is a row of the closed book.
OpenOnes(b, events, places, standing) ==
    DOMAIN b.positions =
        { id \in Named(events, places) : \A j \in standing : ~Closing(events[j], id) }
AgesOf(b, events, places) ==
    \A id \in DOMAIN b.positions \ IdsOf(Genesis.positions) :
        \E i \in places : Opens(events[i], id) /\ IsAged(b.positions[id], events[i].asOf)
RowsTell(rows, events, places, standing) ==
    \A i \in DOMAIN rows : IsRow(rows[i], events, places, standing)
ClosesOf(rows, events, standing) ==
    \A j \in standing : events[j].type = "PositionClosed" =>
        \E i \in DOMAIN rows : /\ rows[i].position = events[j].position
                               /\ rows[i].closedAsOf = events[j].asOf /\ ~rows[i].partial
OnceClosed(rows) ==
    \A i, j \in DOMAIN rows :
        rows[i].position = rows[j].position /\ ~rows[i].partial /\ ~rows[j].partial => i = j

LivesOf(b, events, places) ==
    /\ OpenOnes(b, events, places, Standing(b, places))
    /\ AgesOf(b, events, places)
    /\ RowsTell(b.closedBook, events, places, Standing(b, places))
    /\ ClosesOf(b.closedBook, events, Standing(b, places))
    /\ OnceClosed(b.closedBook)

IsFoldOf(b, events, places) ==
    /\ IsBook(b) /\ SkipsOf(b, events, places) /\ LevelsOf(b, events, places)
    /\ CashOf(b, events, places) /\ LivesOf(b, events, places)

\* c is b with the p-th event, the next in the order of the dates, applied or discarded.
IsNext(b, c, events, p) ==
    /\ Admissible(events) /\ p \in DOMAIN events /\ IsFoldOf(b, events, Before(events, p))
    /\ IsStep(b, c, events[p], p)

LEMMA EventsAreTyped ==
    ASSUME NEW events, Parsed(events)
    PROVE  /\ DOMAIN events = 1 .. Len(events) /\ Len(events) \in Nat
           /\ \A i \in DOMAIN events : IsEvent(events[i])
<1>1. \A i \in DOMAIN events : events[i] \in Candidates /\ ParsesEvent(events[i])
  <2>1. \A i \in DOMAIN events : events[i] \in Candidates
    BY LineType DEF Parsed
  <2> QED BY <2>1 DEF Parsed
<1>2. \A i \in DOMAIN events : IsEvent(events[i])
  BY <1>1, EventTypes
<1> QED BY <1>2 DEF Parsed

LEMMA EffectsType ==
    ASSUME NEW events, Parsed(events)
    PROVE  /\ \A id : Effects(events, id) \in Seq(Int)
           /\ Sold(events) \in Seq(Int)
           /\ \A id : DOMAIN Effects(events, id) = DOMAIN events
           /\ DOMAIN Sold(events) = DOMAIN events
<1>1. /\ DOMAIN events = 1 .. Len(events) /\ Len(events) \in Nat
      /\ \A i \in DOMAIN events : IsEvent(events[i])
  BY EventsAreTyped
<1>2. \A i \in DOMAIN events : Proceeds(events[i]) \in Int
  BY <1>1 DEF Proceeds, IsEvent, CashVerbs
<1>3. ASSUME NEW e, IsEvent(e), NEW id PROVE CashEffect(e, id) \in Int
  <2>1. e.type \in CashVerbs => e.amount \in Int /\ -e.amount \in Int
    BY <1>3 DEF IsEvent
  <2>2. e.type \in CashVerbs \cup {"PriceMarked", "InvalidationMarked", "ReserveOpened"}
    BY <1>3 DEF IsEvent
  <2> QED BY <2>1, <2>2, EffectOf DEF CashVerbs
<1>4. \A id : \A i \in DOMAIN events : CashEffect(events[i], id) \in Int
  BY <1>1, <1>3
<1>5. ASSUME NEW id PROVE Effects(events, id) \in Seq(Int)
  BY <1>1, <1>4 DEF Effects
<1>6. Sold(events) \in Seq(Int)
  BY <1>1, <1>2 DEF Sold
<1> QED BY <1>5, <1>6, Zenon DEF Effects, Sold

\* The next event is not applied yet, and it finds its reserve, and its name.
LEMMA NextIsNew ==
    ASSUME NEW events, Admissible(events), NEW p \in DOMAIN events, NEW b,
           IsFoldOf(b, events, Before(events, p))
    PROVE  /\ p \notin Before(events, p) /\ Before(events, p) \subseteq DOMAIN events
           /\ events[p].type \in CashVerbs => NamedBy(events[p]) \subseteq DOMAIN b.reserves
           /\ events[p].type = "ReserveOpened" => events[p].reserve \notin DOMAIN b.reserves
           /\ events[p].type \in Later => events[p].position \in Named(events, Before(events, p))
           /\ events[p].type = "PositionOpened" =>
                events[p].position \notin Named(events, Before(events, p))
<1> DEFINE places == Before(events, p)
           e == events[p]
<1>1. Parsed(events) /\ BornOnce(events) /\ Founded(events)
  BY DEF Admissible
<1>2. p \notin places /\ places \subseteq DOMAIN events
  BY <1>1, SoonerOrders DEF Before
<1>3. DOMAIN b.reserves = IdsOf(Genesis.reserves) \cup
        { events[i].reserve : i \in { j \in places : events[j].type = "ReserveOpened" } }
  BY DEF IsFoldOf, CashOf
<1> HIDE DEF places
<1>4. e.type \in CashVerbs => NamedBy(e) \subseteq DOMAIN b.reserves
  BY <1>1, <1>3 DEF Founded, Founds, places
<1>5. e.type = "ReserveOpened" => e.reserve \notin DOMAIN b.reserves
  <2> SUFFICES ASSUME e.type = "ReserveOpened", e.reserve \in DOMAIN b.reserves PROVE FALSE
    OBVIOUS
  <2>1. e.reserve \notin IdsOf(Genesis.reserves)
        /\ \A j \in DOMAIN events : Founds(events[j], e.reserve) => p = j
    BY <1>1 DEF BornOnce
  <2>2. PICK j \in places : events[j].type = "ReserveOpened" /\ events[j].reserve = e.reserve
    BY <1>3, <2>1
  <2> QED BY <1>2, <2>1, <2>2 DEF Founds
<1>6. e.type \in Later => e.position \in Named(events, places)
  BY <1>1 DEF Founded, Opens, Named, places
<1>7. e.type = "PositionOpened" => e.position \notin Named(events, places)
  <2> SUFFICES ASSUME e.type = "PositionOpened", e.position \in Named(events, places) PROVE FALSE
    OBVIOUS
  <2>1. e.position \notin IdsOf(Genesis.positions)
        /\ \A j \in DOMAIN events : Opens(events[j], e.position) => p = j
    BY <1>1 DEF BornOnce
  <2>2. PICK j \in places : events[j].type = "PositionOpened" /\ events[j].position = e.position
    BY <2>1 DEF Named
  <2> QED BY <1>2, <2>1, <2>2 DEF Opens
<1> QED BY <1>2, <1>4, <1>5, <1>6, <1>7 DEF places

\* The next event stands, unless it is discarded; the others stand as they stood.
LEMMA StandsAfter ==
    ASSUME NEW events, NEW p, NEW b, NEW c, IsNext(b, c, events, p)
    PROVE  /\ IsDiscarded(b, c, events[p], p) =>
                Standing(c, Before(events, p) \cup {p}) = Standing(b, Before(events, p))
           /\ IsApplied(b, c, events[p]) =>
                Standing(c, Before(events, p) \cup {p}) = Standing(b, Before(events, p)) \cup {p}
           /\ p \notin Standing(b, Before(events, p))
<1> DEFINE places == Before(events, p)
<1>1. p \notin places
  BY NextIsNew DEF IsNext
<1>2. \A s \in b.skipped : s.at \in places
  BY DEF IsNext, IsFoldOf, SkipsOf
<1> HIDE DEF places
<1>3. ASSUME IsDiscarded(b, c, events[p], p)
      PROVE  Standing(c, places \cup {p}) = Standing(b, places)
  <2>1. PICK reason :
          c.skipped = b.skipped \cup {[at |-> p, type |-> events[p].type, reason |-> reason]}
    BY <1>3 DEF IsDiscarded
  <2> DEFINE s == [at |-> p, type |-> events[p].type, reason |-> reason]
  <2>2. s.at = p
    OBVIOUS
  <2> HIDE DEF s
  <2>3. c.skipped = b.skipped \cup {s}
    BY <2>1 DEF s
  <2> QED BY <1>1, <1>2, <2>2, <2>3 DEF Standing
<1>4. ASSUME IsApplied(b, c, events[p])
      PROVE  Standing(c, places \cup {p}) = Standing(b, places) \cup {p}
  <2>1. c.skipped = b.skipped
    BY <1>4 DEF IsApplied
  <2> QED BY <1>1, <1>2, <2>1 DEF Standing
<1> QED BY <1>1, <1>3, <1>4 DEF Standing, places

LEMMA SkipsAfter ==
    ASSUME NEW events, NEW p, NEW b, NEW c, IsNext(b, c, events, p)
    PROVE  SkipsOf(c, events, Before(events, p) \cup {p})
<1> DEFINE places == Before(events, p)
           e == events[p]
<1>1. /\ Admissible(events) /\ p \in DOMAIN events
      /\ SkipsOf(b, events, places) /\ LivesOf(b, events, places)
      /\ IsDiscarded(b, c, e, p) \/ IsApplied(b, c, e)
  BY DEF IsNext, IsFoldOf, IsStep
<1>2. /\ e.type \in CashVerbs => NamedBy(e) \subseteq DOMAIN b.reserves
      /\ e.type \in Later => e.position \in Named(events, places)
  BY NextIsNew DEF IsNext
<1>3. CASE IsApplied(b, c, e)
  <2>1. c.skipped = b.skipped
    BY <1>3 DEF IsApplied
  <2> QED BY <1>1, <2>1 DEF SkipsOf
<1>4. CASE IsDiscarded(b, c, e, p)
  <2>1. PICK reason :
          /\ c.skipped = b.skipped \cup {[at |-> p, type |-> e.type, reason |-> reason]}
          /\ \/ reason = "provenance-absent" /\ e.type \in Sales
             \/ /\ reason = "reserve-absent" /\ e.type \in CashVerbs
                /\ ~(NamedBy(e) \subseteq DOMAIN b.reserves)
             \/ /\ reason = "position-absent"
                /\ e.type \in Sales \cup {"PositionAddedTo"}
                /\ e.position \notin DOMAIN b.positions
    BY <1>4 DEF IsDiscarded
  <2> DEFINE s == [at |-> p, type |-> e.type, reason |-> reason]
  <2>2. s.at = p /\ s.reason = reason
    OBVIOUS
  <2> HIDE DEF s
  <2>3. c.skipped = b.skipped \cup {s}
    BY <2>1 DEF s
  <2>4. reason \in {"provenance-absent", "position-absent"}
    BY <1>2, <2>1
  <2>5. ASSUME ClosesLast(events), reason = "position-absent" PROVE FALSE
    <3>1. e.type \in Later /\ e.position \notin DOMAIN b.positions
      BY <2>1, <2>5 DEF Later, PositionVerbs, Sales
    <3>2. PICK j \in Standing(b, places) : Closing(events[j], e.position)
      BY <1>1, <1>2, <3>1 DEF LivesOf, OpenOnes
    <3>3. j \in DOMAIN events /\ Sooner(events, j, p)
      BY <3>2 DEF Standing, Before
    <3>4. j # p /\ ~Sooner(events, p, j)
      BY <1>1, <3>3, SoonerOrders DEF Admissible
    <3> QED BY <1>1, <2>5, <3>1, <3>2, <3>3, <3>4 DEF ClosesLast
  <2> QED BY <1>1, <2>2, <2>3, <2>4, <2>5 DEF SkipsOf
<1> QED BY <1>1, <1>3, <1>4

LEMMA LevelsAfter ==
    ASSUME NEW events, NEW p, NEW b, NEW c, IsNext(b, c, events, p)
    PROVE  LevelsOf(c, events, Before(events, p) \cup {p})
<1>1. LevelsOf(b, events, Before(events, p)) /\ KeepsLevels(b, c, events[p], p)
  BY DEF IsNext, IsFoldOf, IsStep
<1>2. ASSUME NEW id \in DOMAIN c.invalidation
      PROVE  LET q == c.invalidation[id].at
             IN  /\ q \in Before(events, p) \cup {p} /\ events[q].type = "InvalidationMarked"
                 /\ events[q].position = id /\ c.invalidation[id].asOf = events[q].asOf
  <2>1. CASE id \in DOMAIN b.invalidation /\ c.invalidation[id] = b.invalidation[id]
    BY <1>1, <2>1 DEF LevelsOf
  <2>2. CASE /\ events[p].type = "InvalidationMarked" /\ id = events[p].position
             /\ c.invalidation[id].at = p /\ c.invalidation[id].asOf = events[p].asOf
    BY <2>2
  <2> QED BY <1>1, <2>1, <2>2 DEF KeepsLevels
<1> QED BY <1>2 DEF LevelsOf

LEMMA CashAfter ==
    ASSUME NEW events, NEW p, NEW b, NEW c, IsNext(b, c, events, p)
    PROVE  CashOf(c, events, Before(events, p) \cup {p})
<1> DEFINE places == Before(events, p)
           more == places \cup {p}
           e == events[p]
           born(S) == { events[i].reserve : i \in { j \in S : events[j].type = "ReserveOpened" } }
<1>1. /\ Admissible(events) /\ p \in DOMAIN events /\ IsBook(b) /\ CashOf(b, events, places)
      /\ IsDiscarded(b, c, e, p) \/ IsApplied(b, c, e)
  BY DEF IsNext, IsFoldOf, IsStep
<1>2. p \notin Standing(b, places)
  BY StandsAfter, Zenon
<1>3. /\ \A id : Effects(events, id) \in Seq(Int) /\ DOMAIN Effects(events, id) = DOMAIN events
      /\ Sold(events) \in Seq(Int) /\ DOMAIN Sold(events) = DOMAIN events
  BY <1>1, EffectsType DEF Admissible
<1>4. /\ \A id : Effects(events, id)[p] = CashEffect(e, id)
      /\ Sold(events)[p] = Proceeds(e)
  BY <1>1 DEF Effects, Sold
<1>5. born(more) = born(places) \cup (IF e.type = "ReserveOpened" THEN {e.reserve} ELSE {})
  OBVIOUS
<1>6. CASE IsDiscarded(b, c, e, p)
  <2>1. c.reserves = b.reserves /\ c.closedBook = b.closedBook
    BY <1>6 DEF IsDiscarded
  <2>2. e.type # "ReserveOpened"
    BY <1>6 DEF IsDiscarded, CashVerbs, Sales
  <2>3. Standing(c, more) = Standing(b, places)
    BY <1>6, StandsAfter, Zenon
  <2>4. \A id : Holds(c, id) = Holds(b, id)
    BY <2>1 DEF Holds
  <2>5. born(more) = born(places)
    BY <1>5, <2>2
  <2> HIDE DEF born, more
  <2>6. DOMAIN c.reserves = IdsOf(Genesis.reserves) \cup born(more)
    BY <1>1, <2>1, <2>5 DEF CashOf, born
  <2> QED BY <1>1, <2>1, <2>3, <2>4, <2>6 DEF CashOf, born, more
<1>7. CASE IsApplied(b, c, e)
  <2>1. Standing(c, more) = Standing(b, places) \cup {p}
    BY <1>7, StandsAfter
  <2>2. ASSUME NEW id
        PROVE  Holds(c, id) = SeededCash(id) + Counted(Effects(events, id), Standing(c, more))
    <3> DEFINE x == Counted(Effects(events, id), Standing(b, places))
               y == CashEffect(e, id)
               z == SeededCash(id)
    <3>1. Counted(Effects(events, id), Standing(c, more)) = x + y
      <4> DEFINE w == Effects(events, id)
                 A == Standing(b, places)
      <4>1. w \in Seq(Int) /\ p \in DOMAIN w /\ p \notin A /\ w[p] = y
        BY <1>1, <1>2, <1>3, <1>4
      <4> HIDE DEF w, A, y
      <4>2. Counted(w, A \cup {p}) = Counted(w, A) + y
        BY <4>1, CountedOneMore
      <4> QED BY <2>1, <4>2 DEF w, A
    <3>2. Holds(b, id) = z + x
      BY <1>1 DEF CashOf
    <3>3. Holds(c, id) = Holds(b, id) + y
      BY <1>7 DEF IsApplied
    <3>4. x \in Int /\ y \in Int
      BY <1>1, <1>3, <1>4, CountedType
    <3>5. z \in Int
      <4>1. \A r \in ToSet(Genesis.reserves) : r.amount \in Int
        BY CandidatesAssumption
      <4>2. ASSUME id \in IdsOf(Genesis.reserves)
            PROVE  IndexById(Genesis.reserves)[id] \in ToSet(Genesis.reserves)
        BY <4>2 DEF IdsOf, IndexById
      <4> QED BY <4>1, <4>2 DEF SeededCash
    <3> HIDE DEF x, y, z
    <3>6. Holds(c, id) = z + (x + y)
      BY <3>2, <3>3, <3>4, <3>5
    <3> QED BY <3>1, <3>6 DEF z
  <2>3. Booked(c.closedBook) = Counted(Sold(events), Standing(c, more))
    <3> DEFINE x == Counted(Sold(events), Standing(b, places))
               y == Proceeds(e)
    <3>1. Counted(Sold(events), Standing(c, more)) = x + y
      BY <1>1, <1>2, <1>3, <1>4, <2>1, CountedOneMore, Zenon
    <3>2. Booked(b.closedBook) = x
      BY <1>1 DEF CashOf
    <3>3. x \in Int /\ y \in Int
      BY <1>1, <1>3, <1>4, CountedType
    <3> HIDE DEF x
    <3>4. CASE e.type \in Sales
      <4>1. PICK row : row.proceeds = e.amount /\ c.closedBook = Append(b.closedBook, row)
        BY <1>7, <3>4 DEF IsApplied, LivesOn
      <4>2. y = e.amount
        BY <3>4 DEF Proceeds, Sales
      <4>3. Booked(c.closedBook) = Booked(b.closedBook) + y
        BY <1>1, <3>3, <4>1, <4>2, OneMoreRow DEF IsBook
      <4> QED BY <3>1, <3>2, <4>3
    <3>5. CASE e.type \notin Sales
      <4>1. c.closedBook = b.closedBook
        BY <1>7, <3>5 DEF IsApplied, LivesOn
      <4>2. y = 0
        BY <3>5 DEF Proceeds, Sales
      <4> QED BY <3>1, <3>2, <3>3, <4>1, <4>2
    <3> QED BY <3>4, <3>5
  <2>4. DOMAIN c.reserves = IdsOf(Genesis.reserves) \cup born(more)
    <3>1. DOMAIN c.reserves =
            DOMAIN b.reserves \cup (IF e.type = "ReserveOpened" THEN {e.reserve} ELSE {})
      BY <1>7 DEF IsApplied
    <3>2. DOMAIN b.reserves = IdsOf(Genesis.reserves) \cup born(places)
      BY <1>1 DEF CashOf
    <3> HIDE DEF born
    <3> QED BY <1>5, <3>1, <3>2, Zenon
  <2> HIDE DEF more
  <2> QED BY <2>2, <2>3, <2>4, Zenon DEF CashOf, more
<1> QED BY <1>1, <1>6, <1>7

\* What is said of a row stays true of it.
LEMMA RowStays ==
    ASSUME NEW events, NEW places, NEW more, NEW standing, NEW still, NEW r,
           places \subseteq more, standing \subseteq still, IsRow(r, events, places, standing)
    PROVE  IsRow(r, events, more, still)
<1>1. Named(events, places) \subseteq Named(events, more)
  BY DEF Named
<1> QED BY <1>1 DEF IsRow

\* The lives of positions when the next event is discarded.
LEMMA LivesUntouched ==
    ASSUME NEW events, NEW p, NEW b, NEW c, IsNext(b, c, events, p),
           IsDiscarded(b, c, events[p], p)
    PROVE  LivesOf(c, events, Before(events, p) \cup {p})
<1> DEFINE places == Before(events, p)
           more == places \cup {p}
           e == events[p]
<1>1. LivesOf(b, events, places)
  BY DEF IsNext, IsFoldOf
<1>2. c.positions = b.positions /\ c.closedBook = b.closedBook
  BY DEF IsDiscarded
<1>3. Standing(c, more) = Standing(b, places)
  BY StandsAfter, Zenon
<1>4. e.type # "PositionOpened"
  <2>1. e.type \in CashVerbs => NamedBy(e) \subseteq DOMAIN b.reserves
    BY NextIsNew DEF IsNext
  <2> QED BY <2>1 DEF IsDiscarded, Sales
<1>5. Named(events, more) = Named(events, places) /\ places \subseteq more
  BY <1>4 DEF Named
<1> HIDE DEF more, places
<1>6. OpenOnes(c, events, more, Standing(c, more))
  BY <1>1, <1>2, <1>3, <1>5 DEF LivesOf, OpenOnes
<1>7. AgesOf(c, events, more)
  BY <1>1, <1>2, <1>5 DEF LivesOf, AgesOf
<1>8. RowsTell(c.closedBook, events, more, Standing(c, more))
  BY <1>1, <1>2, <1>3, <1>5, RowStays DEF LivesOf, RowsTell
<1> QED BY <1>1, <1>2, <1>3, <1>6, <1>7, <1>8 DEF LivesOf, more, places

\* The lives of positions when the next event is applied, one clause after another.
LEMMA PositionsAfter ==
    ASSUME NEW events, NEW p, NEW b, NEW c, IsNext(b, c, events, p),
           IsApplied(b, c, events[p])
    PROVE  OpenOnes(c, events, Before(events, p) \cup {p},
                    Standing(c, Before(events, p) \cup {p}))
<1> DEFINE places == Before(events, p)
           more == places \cup {p}
           e == events[p]
           id == e.position
           old == Standing(b, places)
           new == Standing(c, more)
           open(names, standing) == { x \in names : \A j \in standing : ~Closing(events[j], x) }
<1>1. LivesOf(b, events, places) /\ LivesOn(b, c, e)
  BY DEF IsNext, IsFoldOf, IsApplied
<1>2. new = old \cup {p}
  BY StandsAfter
<1>3. DOMAIN b.positions = open(Named(events, places), old)
  BY <1>1 DEF LivesOf, OpenOnes
<1>4. Named(events, more) =
        Named(events, places) \cup (IF e.type = "PositionOpened" THEN {id} ELSE {})
  BY DEF Named
<1>5. CASE e.type = "PositionOpened"
  <2>1. id \notin Named(events, places)
    BY <1>5, NextIsNew DEF IsNext
  <2>2. \A j \in old : ~Closing(events[j], id)
    <3> SUFFICES ASSUME NEW j \in old, Closing(events[j], id) PROVE FALSE
      OBVIOUS
    <3>1. PICK i \in DOMAIN b.closedBook : b.closedBook[i].position = id
      BY <1>1 DEF LivesOf, ClosesOf, Closing
    <3>2. b.closedBook[i].position \in Named(events, places)
      BY <1>1 DEF LivesOf, RowsTell, IsRow
    <3> QED BY <2>1, <3>1, <3>2
  <2>3. \A x : ~Closing(e, x)
    BY <1>5 DEF Closing
  <2>4. DOMAIN c.positions = DOMAIN b.positions \cup {id}
    BY <1>1, <1>5 DEF LivesOn
  <2> HIDE DEF old, new
  <2>5. open(Named(events, more), new) = open(Named(events, places), old) \cup {id}
    BY <1>2, <1>4, <1>5, <2>2, <2>3
  <2> HIDE DEF open
  <2>6. DOMAIN c.positions = open(Named(events, more), new)
    BY <1>3, <2>4, <2>5, Zenon
  <2> QED BY <2>6 DEF open, new, OpenOnes
<1>6. CASE e.type = "PositionClosed"
  <2>1. \A x : Closing(e, x) <=> x = id
    BY <1>6 DEF Closing
  <2>2. DOMAIN c.positions = DOMAIN b.positions \ {id}
    BY <1>1, <1>6 DEF LivesOn
  <2>3. Named(events, more) = Named(events, places)
    BY <1>4, <1>6
  <2> HIDE DEF old, new
  <2>4. open(Named(events, places), new) = open(Named(events, places), old) \ {id}
    BY <1>2, <2>1
  <2> HIDE DEF open
  <2>5. DOMAIN c.positions = open(Named(events, more), new)
    BY <1>3, <2>2, <2>3, <2>4
  <2> QED BY <2>5 DEF open, new, OpenOnes
<1>7. CASE e.type \notin {"PositionOpened", "PositionClosed"}
  <2>1. \A x : ~Closing(e, x)
    BY <1>7 DEF Closing
  <2>2. DOMAIN c.positions = DOMAIN b.positions
    BY <1>1, <1>7 DEF LivesOn
  <2>3. Named(events, more) = Named(events, places)
    BY <1>4, <1>7, Zenon
  <2> HIDE DEF old, new
  <2>4. open(Named(events, places), new) = open(Named(events, places), old)
    BY <1>2, <2>1
  <2> HIDE DEF open
  <2>5. DOMAIN c.positions = open(Named(events, more), new)
    BY <1>3, <2>2, <2>3, <2>4
  <2> QED BY <2>5 DEF open, new, OpenOnes
<1> QED BY <1>5, <1>6, <1>7

LEMMA AgesAfter ==
    ASSUME NEW events, NEW p, NEW b, NEW c, IsNext(b, c, events, p),
           IsApplied(b, c, events[p])
    PROVE  AgesOf(c, events, Before(events, p) \cup {p})
<1> SUFFICES ASSUME NEW id \in DOMAIN c.positions \ IdsOf(Genesis.positions)
             PROVE  \E i \in Before(events, p) \cup {p} :
                        Opens(events[i], id) /\ IsAged(c.positions[id], events[i].asOf)
  BY DEF AgesOf
<1> DEFINE places == Before(events, p)
           e == events[p]
<1>1. LivesOf(b, events, places) /\ LivesOn(b, c, e)
  BY DEF IsNext, IsFoldOf, IsApplied
<1>2. CASE e.type = "PositionOpened" /\ id = e.position
  <2>1. IsAged(c.positions[id], e.asOf)
    BY <1>1, <1>2 DEF LivesOn
  <2>2. Opens(e, id)
    BY <1>2 DEF Opens
  <2> QED BY <2>1, <2>2
<1>3. CASE ~(e.type = "PositionOpened" /\ id = e.position)
  <2>1. id \in DOMAIN b.positions
    BY <1>1, <1>3 DEF LivesOn
  <2>2. PICK i \in places : Opens(events[i], id) /\ IsAged(b.positions[id], events[i].asOf)
    BY <1>1, <2>1 DEF LivesOf, AgesOf
  <2>3. \A asOf : IsAged(b.positions[id], asOf) => IsAged(c.positions[id], asOf)
    BY <1>1, <1>3, Zenon DEF LivesOn
  <2> HIDE DEF places
  <2> QED BY <2>2, <2>3 DEF places
<1> QED BY <1>2, <1>3

LEMMA OneRowMore ==
    ASSUME NEW rows, IsClosedBook(rows), NEW row
    PROVE  /\ DOMAIN Append(rows, row) = 1 .. Len(rows) + 1
           /\ DOMAIN rows = 1 .. Len(rows) /\ Len(rows) \in Nat
           /\ Append(rows, row)[Len(rows) + 1] = row
           /\ \A i \in DOMAIN rows : Append(rows, row)[i] = rows[i]
<1> DEFINE S == ToSet(rows)
<1>1. rows \in Seq(S)
  BY DEF IsClosedBook
<1> HIDE DEF S
<1>2. rows \in Seq(S \cup {row}) /\ row \in S \cup {row}
  BY <1>1
<1> QED BY <1>2

LEMMA RowsAfter ==
    ASSUME NEW events, NEW p, NEW b, NEW c, IsNext(b, c, events, p),
           IsApplied(b, c, events[p])
    PROVE  /\ RowsTell(c.closedBook, events, Before(events, p) \cup {p},
                  Standing(c, Before(events, p) \cup {p}))
           /\ ClosesOf(c.closedBook, events, Standing(c, Before(events, p) \cup {p}))
           /\ OnceClosed(c.closedBook)
<1> DEFINE places == Before(events, p)
           more == places \cup {p}
           e == events[p]
           id == e.position
           old == Standing(b, places)
           new == Standing(c, more)
           rows == b.closedBook
<1>1. LivesOf(b, events, places) /\ LivesOn(b, c, e) /\ IsBook(b)
  BY DEF IsNext, IsFoldOf, IsApplied
<1>2. new = old \cup {p}
  BY StandsAfter
<1>3. places \subseteq more /\ old \subseteq new /\ p \in more /\ p \in new
  BY <1>2
<1> HIDE DEF new, old, more
<1>4. RowsTell(rows, events, places, old) /\ ClosesOf(rows, events, old) /\ OnceClosed(rows)
  BY <1>1 DEF LivesOf, old
<1>5. \A i \in DOMAIN rows : IsRow(rows[i], events, more, new)
  BY <1>3, <1>4, RowStays DEF RowsTell
<1>6. CASE e.type \notin Sales
  <2>1. c.closedBook = rows
    BY <1>1, <1>6 DEF LivesOn
  <2>2. \A j \in new : events[j].type = "PositionClosed" => j \in old
    BY <1>2, <1>6 DEF Sales
  <2>3. ClosesOf(rows, events, new)
    BY <1>4, <2>2 DEF ClosesOf
  <2>4. RowsTell(rows, events, more, new)
    BY <1>5 DEF RowsTell
  <2> QED BY <1>4, <2>1, <2>3, <2>4 DEF new, more
<1>7. CASE e.type \in Sales
  <2>1. PICK row : /\ row.position = id
                   /\ row.partial <=> e.type = "PositionTrimmed"
                   /\ row.closedAsOf = e.asOf
                   /\ row.openedAsOf = b.positions[id].openedAsOf
                   /\ c.closedBook = Append(rows, row)
    BY <1>1, <1>7 DEF LivesOn
  <2>2. id \in DOMAIN b.positions
    BY <1>1, <1>7 DEF LivesOn
  <2>3. id \in Named(events, places) /\ \A j \in old : ~Closing(events[j], id)
    BY <1>1, <2>2 DEF LivesOf, OpenOnes, old
  <2> DEFINE cb == c.closedBook
             n == Len(rows)
  <2>4. /\ DOMAIN cb = 1 .. n + 1 /\ DOMAIN rows = 1 .. n /\ n \in Nat
        /\ cb[n + 1] = row /\ \A i \in DOMAIN rows : cb[i] = rows[i]
    BY <1>1, <2>1, OneRowMore DEF IsBook
  <2>5. IsRow(row, events, more, new)
    <3>1. id \in Named(events, more)
      BY <1>3, <2>3 DEF Named
    <3>2. id \notin IdsOf(Genesis.positions) =>
            \E i \in more : Opens(events[i], id) /\ row.openedAsOf = events[i].asOf
      BY <1>1, <1>3, <2>1, <2>2 DEF LivesOf, AgesOf, IsAged
    <3>3. ~row.partial => Closing(e, id)
      BY <1>7, <2>1 DEF Sales, Closing
    <3> QED BY <1>3, <2>1, <3>1, <3>2, <3>3 DEF IsRow
  <2>6. n + 1 \in DOMAIN cb /\ DOMAIN rows \subseteq DOMAIN cb
        /\ \A i \in DOMAIN cb : i \in DOMAIN rows \/ i = n + 1
    BY <2>4
  <2> HIDE DEF cb, n
  <2>7. RowsTell(cb, events, more, new)
    BY <1>5, <2>4, <2>5, <2>6 DEF RowsTell
  <2>8. ASSUME NEW j \in new, events[j].type = "PositionClosed"
        PROVE  \E i \in DOMAIN cb : /\ cb[i].position = events[j].position
                                    /\ cb[i].closedAsOf = events[j].asOf /\ ~cb[i].partial
    <3>1. CASE j = p
      <4>1. ~row.partial
        BY <2>1, <2>8, <3>1
      <4> QED BY <2>1, <2>4, <2>6, <3>1, <4>1
    <3>2. CASE j # p
      <4>1. j \in old
        BY <1>2, <3>2
      <4>2. PICK i \in DOMAIN rows : /\ rows[i].position = events[j].position
                                     /\ rows[i].closedAsOf = events[j].asOf /\ ~rows[i].partial
        BY <1>4, <2>8, <4>1 DEF ClosesOf
      <4> QED BY <2>4, <2>6, <4>2
    <3> QED BY <3>1, <3>2
  <2>9. \A i \in DOMAIN rows : rows[i].position = id => rows[i].partial
    <3> SUFFICES ASSUME NEW i \in DOMAIN rows, rows[i].position = id, ~rows[i].partial
                 PROVE  FALSE
      OBVIOUS
    <3>1. \E j \in old : Closing(events[j], id)
      BY <1>4 DEF RowsTell, IsRow
    <3> QED BY <2>3, <3>1
  <2>10. ASSUME NEW i \in DOMAIN cb, NEW j \in DOMAIN cb, cb[i].position = cb[j].position,
                ~cb[i].partial, ~cb[j].partial
         PROVE  i = j
    <3>1. CASE i \in DOMAIN rows /\ j \in DOMAIN rows
      BY <1>4, <2>4, <2>10, <3>1 DEF OnceClosed
    <3>2. CASE i = n + 1
      BY <2>1, <2>4, <2>6, <2>9, <2>10, <3>2
    <3>3. CASE j = n + 1
      BY <2>1, <2>4, <2>6, <2>9, <2>10, <3>3
    <3> QED BY <2>6, <3>1, <3>2, <3>3
  <2>11. ClosesOf(cb, events, new) /\ OnceClosed(cb)
    BY <2>8, <2>10 DEF ClosesOf, OnceClosed
  <2> QED BY <2>7, <2>11 DEF cb, new, more
<1> QED BY <1>6, <1>7

\* One more event, applied or discarded, leaves the fold what it is said to be.
LEMMA FoldStep ==
    ASSUME NEW events, NEW p, NEW b, NEW c, IsNext(b, c, events, p)
    PROVE  IsFoldOf(c, events, Before(events, p) \cup {p})
<1> DEFINE more == Before(events, p) \cup {p}
<1>1. IsBook(c) /\ (IsDiscarded(b, c, events[p], p) \/ IsApplied(b, c, events[p]))
  BY DEF IsNext, IsStep
<1>2. SkipsOf(c, events, more) /\ LevelsOf(c, events, more) /\ CashOf(c, events, more)
  BY SkipsAfter, LevelsAfter, CashAfter
<1>3. LivesOf(c, events, more)
  <2>1. CASE IsDiscarded(b, c, events[p], p)
    BY <2>1, LivesUntouched
  <2>2. CASE IsApplied(b, c, events[p])
    BY <2>2, PositionsAfter, AgesAfter, RowsAfter DEF LivesOf
  <2> QED BY <1>1, <2>1, <2>2
<1> QED BY <1>1, <1>2, <1>3 DEF IsFoldOf
----------------------------------------------------------------------------
(* The fold of a whole log.                                                *)

LEMMA SeedReserveType ==
    ASSUME NEW r \in ToSet(Genesis.reserves)
    PROVE  IsReserve(SeedReserve(r)) /\ SeedReserve(r).amount = r.amount
<1> DEFINE held == [tier \in { lot.tier : lot \in ToSet(r.lots) } |->
                        Quantity(InTier(r.lots, tier))]
           lots == IF "lots" \in DOMAIN r THEN held ELSE Untiered
<1>1. /\ r.amount \in Int
      /\ "lots" \in DOMAIN r => r.lots \in Seq(Figures) /\ ValidLots(r.lots, FALSE)
  BY CandidatesAssumption, Zenon DEF ParsesFundReview, ValidReserve
<1>2. ASSUME "lots" \in DOMAIN r PROVE held \in TierMaps
  <2>1. \A i \in DOMAIN r.lots : r.lots[i].tier \in Tiers
    BY <1>1, <1>2 DEF ValidLots, ValidLot
  <2>2. { lot.tier : lot \in ToSet(r.lots) } \in SUBSET Tiers
    BY <2>1 DEF ToSet
  <2>3. ASSUME NEW tier PROVE Quantity(InTier(r.lots, tier)) \in Int
    <3> DEFINE in == InTier(r.lots, tier)
    <3>1. in \in Seq(Figures)
      BY <1>1, <1>2, KeptLines DEF InTier
    <3> HIDE DEF in
    <3>2. [i \in DOMAIN in |-> in[i].quantity] \in Seq(Int)
      <4>1. DOMAIN in = 1 .. Len(in) /\ Len(in) \in Nat /\ \A i \in 1 .. Len(in) : in[i] \in Figures
        BY <3>1
      <4>2. \A i \in 1 .. Len(in) : in[i].quantity \in Int
        BY <4>1 DEF Figures
      <4> QED BY <4>1, <4>2
    <3>3. Quantity(in) \in Int
      BY <3>2, TotalType DEF Quantity
    <3> QED BY <3>3 DEF in
  <2>4. held \in [{ lot.tier : lot \in ToSet(r.lots) } -> Int]
    BY <2>3
  <2> QED BY <2>2, <2>4, Zenon DEF TierMaps
<1>3. lots = Untiered \/ lots \in TierMaps
  BY <1>2
<1>4. SeedReserve(r) = CapitalRecordBase(r, r.amount, lots)
  BY DEF SeedReserve
<1> HIDE DEF lots
<1> QED BY <1>1, <1>3, <1>4 DEF CapitalRecordBase, IsReserve

LEMMA Indexed ==
    ASSUME NEW records
    PROVE  /\ DOMAIN IndexById(records) = IdsOf(records)
           /\ \A id \in IdsOf(records) : IndexById(records)[id] \in ToSet(records)
BY DEF IndexById, IdsOf

\* The seed is the fold of no events.
LEMMA SeedIsFold ==
    ASSUME NEW events, Parsed(events)
    PROVE  IsFoldOf(GenesisBook, events, {})
<1> DEFINE b == GenesisBook
           reserves == IndexById(Genesis.reserves)
           positions == IndexById(Genesis.positions)
<1>1. /\ DOMAIN b = BookFields
      /\ b.positions = positions /\ b.closedBook = <<>>
      /\ b.reserves = [id \in DOMAIN reserves |-> SeedReserve(reserves[id])]
      /\ b.invalidation = <<>> /\ b.skipped = {}
  BY DEF GenesisBook, BookFields
<1>2. /\ DOMAIN reserves = IdsOf(Genesis.reserves) /\ DOMAIN positions = IdsOf(Genesis.positions)
      /\ \A id \in DOMAIN reserves : reserves[id] \in ToSet(Genesis.reserves)
      /\ \A id \in DOMAIN positions : positions[id] \in ToSet(Genesis.positions)
  BY Indexed
<1> HIDE DEF b, positions
<1>3. DOMAIN b.reserves = IdsOf(Genesis.reserves)
  BY <1>1, <1>2
<1>4. \A id \in DOMAIN b.reserves :
        IsReserve(b.reserves[id]) /\ b.reserves[id].amount = reserves[id].amount
  BY <1>1, <1>2, SeedReserveType
<1>5. \A id \in DOMAIN b.positions : IsPosition(b.positions[id])
  <2>1. ASSUME NEW p \in ToSet(Genesis.positions) PROVE IsPosition(p)
    <3>1. "lots" \in DOMAIN p /\ ValidLots(p.lots, TRUE) /\ p.lots \in Seq(BoughtLots)
      BY CandidatesAssumption, Zenon DEF ParsesFundReview, ValidPosition
    <3> QED BY <3>1, LotsAreHeld, Zenon DEF IsPosition
  <2> QED BY <1>1, <1>2, <2>1
<1>6. IsClosedBook(b.closedBook) /\ Booked(b.closedBook) = 0
  <2>1. IsClosedBook(<<>>)
    BY EmptyLog DEF IsClosedBook
  <2>2. Booked(<<>>) = 0
    <3> DEFINE s == [i \in DOMAIN <<>> |-> (<<>>)[i].proceeds]
    <3>1. s \in Seq(Int) /\ \A k \in DOMAIN s : s[k] = 0
      OBVIOUS
    <3> HIDE DEF s
    <3>2. Total(s) = 0
      BY <3>1, TotalOfNone
    <3> QED BY <3>2 DEF Booked, s
  <2> QED BY <1>1, <2>1, <2>2
<1>7. IsBook(b)
  BY <1>1, <1>4, <1>5, <1>6 DEF IsBook
<1>8. Standing(b, {}) = {} /\ Named(events, {}) = IdsOf(Genesis.positions)
  BY DEF Standing, Named
<1>9. SkipsOf(b, events, {}) /\ LevelsOf(b, events, {})
  BY <1>1 DEF SkipsOf, LevelsOf
<1>10. CashOf(b, events, {})
  <2>1. \A id : Counted(Effects(events, id), {}) = 0
    BY EffectsType, CountedNone
  <2>2. Counted(Sold(events), {}) = 0
    BY EffectsType, CountedNone
  <2>3. ASSUME NEW id PROVE Holds(b, id) = SeededCash(id) + 0
    <3>1. \A r \in ToSet(Genesis.reserves) : r.amount \in Int
      BY CandidatesAssumption
    <3> QED BY <1>2, <1>3, <1>4, <3>1 DEF Holds, SeededCash
  <2>4. DOMAIN b.reserves = IdsOf(Genesis.reserves) \cup
            { events[i].reserve : i \in { j \in {} : events[j].type = "ReserveOpened" } }
    BY <1>3
  <2> QED BY <1>6, <1>8, <2>1, <2>2, <2>3, <2>4 DEF CashOf
<1>11. OpenOnes(b, events, {}, {})
  BY <1>1, <1>2, <1>8 DEF OpenOnes
<1>12. AgesOf(b, events, {})
  BY <1>1, <1>2 DEF AgesOf
<1>13. /\ RowsTell(b.closedBook, events, {}, {}) /\ ClosesOf(b.closedBook, events, {})
       /\ OnceClosed(b.closedBook)
  BY <1>1 DEF RowsTell, ClosesOf, OnceClosed
<1>14. LivesOf(b, events, {})
  BY <1>8, <1>11, <1>12, <1>13 DEF LivesOf
<1> QED BY <1>7, <1>9, <1>10, <1>14 DEF IsFoldOf, b

\* f is the book after each of the events of a list.
RunsOver(f, list) ==
    f = [k \in 0 .. Len(list) |-> IF k = 0 THEN GenesisBook ELSE Apply(f[k - 1], list[k])]

LEMMA FoldRuns ==
    ASSUME NEW list, Len(list) \in Nat
    PROVE  \E f : RunsOver(f, list)
<1> DEFINE n == Len(list)
           Good(f, m) == f = [k \in 0 .. m |-> IF k = 0 THEN GenesisBook
                                                ELSE Apply(f[k - 1], list[k])]
           T == { m \in 0 .. n : \E f : Good(f, m) }
<1>1. 0 \in T
  <2> DEFINE g == [k \in 0 .. 0 |-> GenesisBook]
  <2>1. Good(g, 0)
    OBVIOUS
  <2> HIDE DEF g
  <2>2. (\E f : Good(f, 0)) /\ 0 \in 0 .. n
    BY <2>1
  <2> QED BY <2>2
<1>2. ASSUME NEW m \in 0 .. n - 1, m \in T PROVE m + 1 \in T
  <2>1. PICK f : Good(f, m)
    BY <1>2
  <2> DEFINE g == [k \in 0 .. m + 1 |-> IF k = m + 1 THEN Apply(f[m], list[m + 1]) ELSE f[k]]
  <2>2. m \in Nat /\ m + 1 \in 0 .. n
    OBVIOUS
  <2>3. ASSUME NEW k \in 0 .. m + 1
        PROVE  g[k] = IF k = 0 THEN GenesisBook ELSE Apply(g[k - 1], list[k])
    <3>1. CASE k = m + 1
      <4>1. k # 0 /\ k - 1 = m /\ m \in 0 .. m + 1 /\ m # m + 1
        BY <2>2, <3>1
      <4>2. g[k] = Apply(f[m], list[m + 1]) /\ g[m] = f[m]
        BY <3>1, <4>1
      <4> HIDE DEF g
      <4> QED BY <3>1, <4>1, <4>2
    <3>2. CASE k # m + 1
      <4>1. k \in 0 .. m /\ g[k] = f[k]
        BY <2>2, <3>2
      <4>2. f[k] = IF k = 0 THEN GenesisBook ELSE Apply(f[k - 1], list[k])
        BY <2>1, <4>1
      <4>3. k # 0 => k - 1 \in 0 .. m + 1 /\ k - 1 # m + 1
        BY <2>2, <4>1
      <4>4. k # 0 => g[k - 1] = f[k - 1]
        BY <4>3
      <4> HIDE DEF g
      <4> QED BY <4>1, <4>2, <4>4
    <3> QED BY <3>1, <3>2
  <2>4. DOMAIN g = 0 .. m + 1 /\ g = [k \in 0 .. m + 1 |-> g[k]]
    OBVIOUS
  <2> HIDE DEF g
  <2>5. Good(g, m + 1)
    BY <2>3, <2>4, Zenon
  <2> QED BY <2>2, <2>5
<1>3. n \in T
  <2> HIDE DEF T
  <2>1. \A m \in 0 .. n : m \in T
    BY <1>1, <1>2, InductionUpTo, Zenon
  <2> QED BY <2>1
<1> QED BY <1>3 DEF RunsOver

\* The fold of a log goes through the book after each of its events.
LEMMA FoldIsRun ==
    ASSUME NEW events, NEW asOf, Len(Applicable(events, asOf)) \in Nat
    PROVE  \E f : /\ RunsOver(f, Applicable(events, asOf))
                  /\ FoldEventsAsOf(events, asOf) = Finish(f[Len(Applicable(events, asOf))])
<1> DEFINE list == Applicable(events, asOf)
           fold == CHOOSE f : f = [k \in 0 .. Len(list) |-> IF k = 0 THEN GenesisBook
                                                            ELSE Apply(f[k - 1], list[k])]
<1>1. FoldEventsAsOf(events, asOf) = Finish(fold[Len(list)])
  BY DEF FoldEventsAsOf
<1> HIDE DEF list
<1>2. PICK f : f = [k \in 0 .. Len(list) |-> IF k = 0 THEN GenesisBook
                                            ELSE Apply(f[k - 1], list[k])]
  BY FoldRuns DEF RunsOver, list
<1>3. RunsOver(fold, list)
  BY <1>2, Zenon DEF RunsOver
<1> HIDE DEF fold
<1> QED BY <1>1, <1>3 DEF list

LEMMA RunIsFold ==
    ASSUME NEW events, Admissible(events), NEW day \in Nat, NEW list,
           IsTimeline(list, events, day), NEW f, RunsOver(f, list)
    PROVE  IsFoldOf(f[Len(list)], events, UpTo(events, day))
<1> DEFINE n == Len(list)
           done(k) == { list[i].at : i \in 1 .. k }
           T == { k \in 0 .. n : IsFoldOf(f[k], events, done(k)) }
<1>1. Parsed(events) /\ n \in Nat
  BY DEF Admissible, IsTimeline
<1>2. f[0] = GenesisBook /\ \A k \in 0 .. n - 1 : f[k + 1] = Apply(f[k], list[k + 1])
  <2>1. ASSUME NEW k \in 0 .. n - 1 PROVE f[k + 1] = Apply(f[k], list[k + 1])
    <3>1. k + 1 \in 0 .. n /\ k + 1 # 0 /\ k + 1 - 1 = k
      BY <1>1
    <3>2. f[k + 1] = Apply(f[k + 1 - 1], list[k + 1])
      BY <3>1 DEF RunsOver
    <3> QED BY <3>1, <3>2
  <2>2. f[0] = GenesisBook
    BY <1>1 DEF RunsOver
  <2> QED BY <2>1, <2>2
<1>3. 0 \in T
  <2>1. done(0) = {}
    OBVIOUS
  <2> HIDE DEF done
  <2>2. IsFoldOf(GenesisBook, events, {})
    BY <1>1, SeedIsFold
  <2>3. IsFoldOf(f[0], events, done(0))
    BY <1>2, <2>1, <2>2, Zenon
  <2>4. 0 \in 0 .. n
    BY <1>1
  <2> QED BY <2>3, <2>4
<1>4. ASSUME NEW k \in 0 .. n - 1, k \in T PROVE k + 1 \in T
  <2> DEFINE p == list[k + 1].at
             c == f[k + 1]
  <2>1. k + 1 \in 1 .. n /\ k + 1 \in 0 .. n /\ k \in Nat /\ k + 1 - 1 = k
    BY <1>1
  <2>2. /\ p \in DOMAIN events /\ list[k + 1] = EntryAt(events, p)
        /\ { list[i].at : i \in 1 .. k + 1 - 1 } = Before(events, p)
    BY <1>1, <2>1, TimelinePlaces
  <2>3. done(k) = Before(events, p)
    BY <2>1, <2>2
  <2>4. done(k + 1) = Before(events, p) \cup {p}
    <3>1. \A i : i \in 1 .. k + 1 <=> i \in 1 .. k \/ i = k + 1
      BY <2>1
    <3>2. done(k + 1) = done(k) \cup {p}
      BY <3>1
    <3> QED BY <2>3, <3>2
  <2>5. IsFoldOf(f[k], events, Before(events, p))
    BY <1>4, <2>3, Zenon
  <2>6. list[k + 1].event = events[p] /\ list[k + 1].at = p
    BY <2>2 DEF EntryAt
  <2> HIDE DEF p, c, T, done
  <2>7. IsStep(f[k], c, events[p], p)
    <3>1. IsBook(f[k]) /\ IsEvent(events[p])
      BY <1>1, <2>2, <2>5, EventsAreTyped DEF IsFoldOf
    <3>2. events[p].type = "ReserveOpened" => events[p].reserve \notin DOMAIN f[k].reserves
      BY <2>2, <2>5, NextIsNew
    <3>3. IsStep(f[k], Apply(f[k], list[k + 1]), list[k + 1].event, list[k + 1].at)
      BY <2>6, <3>1, <3>2, ApplyIsStep
    <3>4. c = Apply(f[k], list[k + 1])
      BY <1>2 DEF c
    <3> QED BY <2>6, <3>3, <3>4
  <2>8. IsNext(f[k], c, events, p)
    BY <2>2, <2>5, <2>7 DEF IsNext
  <2>9. IsFoldOf(c, events, Before(events, p) \cup {p})
    BY <2>8, FoldStep
  <2> QED BY <2>1, <2>4, <2>9, Zenon DEF c, T
<1>5. n \in T
  <2> HIDE DEF T
  <2>1. \A k \in 0 .. n : k \in T
    BY <1>1, <1>3, <1>4, InductionUpTo, Zenon
  <2> QED BY <1>1, <2>1
<1>6. done(n) = UpTo(events, day)
  BY <1>1, TimelineAll
<1> HIDE DEF done
<1> QED BY <1>5, <1>6

\* An instant of the fold that closes nothing when it is discarded late: a level without a
\* position moves no cash, and closes and opens nothing.
LEMMA LevelMovesNothing ==
    ASSUME NEW e, e.type = "InvalidationMarked"
    PROVE  /\ \A id : CashEffect(e, id) = 0
           /\ Proceeds(e) = 0
           /\ \A id : ~Closing(e, id)
BY DEF CashEffect, Proceeds, Closing

LEMMA MaxOfOne ==
    ASSUME NEW x \in Int
    PROVE  Max({x}) = x
BY DEF Max

\* Every level finds its position, if closes come last.
LEMMA NoOrphans ==
    ASSUME NEW events, Admissible(events), ClosesLast(events), NEW day \in Nat, NEW b,
           IsFoldOf(b, events, UpTo(events, day))
    PROVE  OrphanedMarks(b) = {}
<1> DEFINE places == UpTo(events, day)
<1> SUFFICES ASSUME NEW id \in OrphanedMarks(b) PROVE FALSE
  OBVIOUS
<1>1. id \in DOMAIN b.invalidation /\ id \notin DOMAIN b.positions
  BY DEF OrphanedMarks
<1>2. PICK p \in places : /\ events[p].type = "InvalidationMarked" /\ events[p].position = id
                          /\ b.invalidation[id].asOf = events[p].asOf
  BY <1>1 DEF IsFoldOf, LevelsOf
<1>3. p \in DOMAIN events /\ Before(events, p) \subseteq places
  <2>1. p \in DOMAIN events /\ events[p].asOf <= day
    BY DEF UpTo
  <2>2. \A j \in DOMAIN events : events[j].asOf \in Nat
    BY DatesType DEF Admissible
  <2> QED BY <2>1, <2>2 DEF Before, Sooner, UpTo
<1> HIDE DEF places
<1>4. id \in Named(events, places)
  <2>1. \/ id \in IdsOf(Genesis.positions)
        \/ \E i \in Before(events, p) : Opens(events[i], id)
    BY <1>2, <1>3 DEF Admissible, Founded, Later, PositionVerbs
  <2> QED BY <1>3, <2>1 DEF Named, Opens
<1>5. PICK j \in Standing(b, places) : Closing(events[j], id)
  BY <1>1, <1>4 DEF IsFoldOf, LivesOf, OpenOnes, places
<1>6. PICK i \in DOMAIN b.closedBook :
        /\ b.closedBook[i].position = id /\ b.closedBook[i].closedAsOf = events[j].asOf
        /\ ~b.closedBook[i].partial
  BY <1>5 DEF IsFoldOf, LivesOf, ClosesOf, Closing, places
<1> DEFINE row == b.closedBook[i]
<1>7. row \in RetiredRows(b, id) /\ row \in ToSet(b.closedBook)
  BY <1>6 DEF RetiredRows, ToSet
<1>8. \A r \in RetiredRows(b, id) : r = row
  <2>1. OnceClosed(b.closedBook)
    BY DEF IsFoldOf, LivesOf
  <2> QED BY <1>6, <2>1 DEF RetiredRows, ToSet, OnceClosed
<1>9. { r.closedAsOf : r \in RetiredRows(b, id) } = { events[j].asOf }
  BY <1>6, <1>7, <1>8
<1>10. b.invalidation[id].asOf > Max({ events[j].asOf })
  BY <1>6, <1>7, <1>9, Zenon DEF OrphanedMarks
<1>11. /\ j \in DOMAIN events /\ events[j].asOf \in Int /\ events[p].asOf \in Int
  BY <1>3, <1>5, DatesType DEF Standing, UpTo, Admissible, places
<1>12. p # j /\ Sooner(events, p, j)
  BY <1>2, <1>3, <1>5, <1>11 DEF ClosesLast, Later, PositionVerbs, Closing
<1> QED BY <1>2, <1>10, <1>11, <1>12, MaxOfOne DEF Sooner

\* What follows the last event values the positions, and may say of a level that it found
\* none; it leaves the fold what it is said to be.
LEMMA FinishKeeps ==
    ASSUME NEW events, Admissible(events), NEW day \in Nat, NEW b,
           IsFoldOf(b, events, UpTo(events, day))
    PROVE  IsFoldOf(Finish(b), events, UpTo(events, day))
<1> DEFINE places == UpTo(events, day)
           c == Finish(b)
           valued(p) == IF p.instrument \in DOMAIN b.latestMark
                        THEN [p EXCEPT !.markPrice = b.latestMark[p.instrument]]
                        ELSE p
           found == { [at |-> b.invalidation[id].at, type |-> "InvalidationMarked",
                       reason |-> "position-absent"] : id \in OrphanedMarks(b) }
           positions == [id \in DOMAIN b.positions |-> valued(b.positions[id])]
           skipped == b.skipped \cup found
<1>1. /\ IsBook(b) /\ SkipsOf(b, events, places) /\ LevelsOf(b, events, places)
      /\ CashOf(b, events, places) /\ LivesOf(b, events, places)
      /\ Parsed(events)
  BY DEF IsFoldOf, Admissible
<1>2. DOMAIN b = BookFields
  BY <1>1 DEF IsBook
<1>3. c = [b EXCEPT !.positions = positions, !.skipped = skipped]
  BY DEF Finish
<1> HIDE DEF positions, skipped, c
<1>4. /\ DOMAIN c = BookFields /\ c.positions = positions /\ c.skipped = skipped
      /\ c.reserves = b.reserves /\ c.closedBook = b.closedBook
      /\ c.invalidation = b.invalidation
  BY <1>2, <1>3 DEF BookFields
<1>5. /\ DOMAIN c.positions = DOMAIN b.positions
      /\ \A id \in DOMAIN c.positions : c.positions[id] = valued(b.positions[id])
  BY <1>4 DEF positions
<1>6. ASSUME NEW p
      PROVE  /\ IsPosition(p) => IsPosition(valued(p))
             /\ \A asOf : IsAged(p, asOf) => IsAged(valued(p), asOf)
  <2> DEFINE q == [p EXCEPT !.markPrice = b.latestMark[p.instrument]]
  <2>1. DOMAIN q = DOMAIN p
    OBVIOUS
  <2>2. "lots" \in DOMAIN p => q.lots = p.lots
    OBVIOUS
  <2>3. "openedAsOf" \in DOMAIN p => q.openedAsOf = p.openedAsOf
    OBVIOUS
  <2>4. valued(p) = q \/ valued(p) = p
    OBVIOUS
  <2> HIDE DEF q, valued
  <2>5. IsPosition(p) => IsPosition(valued(p))
    BY <2>1, <2>2, <2>4 DEF IsPosition
  <2>6. \A asOf : IsAged(p, asOf) => IsAged(valued(p), asOf)
    BY <2>1, <2>3, <2>4 DEF IsAged
  <2> QED BY <2>5, <2>6
<1> HIDE DEF valued
<1>7. IsBook(c)
  BY <1>1, <1>4, <1>5, <1>6 DEF IsBook
<1>8. LevelsOf(c, events, places)
  BY <1>1, <1>4 DEF LevelsOf
<1>9. \A s \in found : /\ s.reason = "position-absent"
                       /\ \E id \in OrphanedMarks(b) : s.at = b.invalidation[id].at
  OBVIOUS
<1>10. \A s \in found : /\ s.at \in places /\ events[s.at].type = "InvalidationMarked"
                        /\ s.reason \in {"provenance-absent", "position-absent"}
  <2>1. \A id \in OrphanedMarks(b) : id \in DOMAIN b.invalidation
    BY DEF OrphanedMarks
  <2> HIDE DEF found
  <2> QED BY <1>1, <1>9, <2>1 DEF LevelsOf
<1>11. ClosesLast(events) => found = {}
  BY NoOrphans
<1>12. c.skipped = b.skipped \cup found
  BY <1>4 DEF skipped
<1> HIDE DEF found
<1>13. SkipsOf(c, events, places)
  BY <1>1, <1>10, <1>11, <1>12 DEF SkipsOf
<1>14. /\ Standing(c, places) \subseteq Standing(b, places)
       /\ \A i \in Standing(b, places) :
            i \notin Standing(c, places) => events[i].type = "InvalidationMarked"
  BY <1>10, <1>12 DEF Standing
<1>15. CashOf(c, events, places)
  <2>1. ASSUME NEW id
        PROVE  Counted(Effects(events, id), Standing(b, places)) =
                Counted(Effects(events, id), Standing(c, places))
    <3> DEFINE w == Effects(events, id)
               A == Standing(b, places)
               B == Standing(c, places)
    <3>1. w \in Seq(Int) /\ DOMAIN w = DOMAIN events
      BY <1>1, EffectsType
    <3>2. \A k \in DOMAIN w : (k \in A <=> k \in B) \/ w[k] = 0
      BY <1>14, <3>1, LevelMovesNothing DEF Effects
    <3> HIDE DEF w, A, B
    <3>3. Counted(w, A) = Counted(w, B)
      BY <3>1, <3>2, CountedSame
    <3> QED BY <3>3 DEF w, A, B
  <2>2. Counted(Sold(events), Standing(b, places)) = Counted(Sold(events), Standing(c, places))
    <3> DEFINE w == Sold(events)
               A == Standing(b, places)
               B == Standing(c, places)
    <3>1. w \in Seq(Int) /\ DOMAIN w = DOMAIN events
      BY <1>1, EffectsType
    <3>2. \A k \in DOMAIN w : (k \in A <=> k \in B) \/ w[k] = 0
      BY <1>14, <3>1, LevelMovesNothing DEF Sold
    <3> HIDE DEF w, A, B
    <3>3. Counted(w, A) = Counted(w, B)
      BY <3>1, <3>2, CountedSame
    <3> QED BY <3>3 DEF w, A, B
  <2>3. \A id : Holds(c, id) = Holds(b, id)
    BY <1>4 DEF Holds
  <2> QED BY <1>1, <1>4, <2>1, <2>2, <2>3 DEF CashOf
<1>16. LivesOf(c, events, places)
  <2>1. \A id, i : i \in Standing(b, places) /\ Closing(events[i], id) => i \in Standing(c, places)
    BY <1>14, LevelMovesNothing
  <2>2. OpenOnes(c, events, places, Standing(c, places))
    <3> DEFINE open(standing) == { id \in Named(events, places) :
                                        \A j \in standing : ~Closing(events[j], id) }
    <3>1. open(Standing(b, places)) = open(Standing(c, places))
      BY <1>14, <2>1
    <3>2. DOMAIN b.positions = open(Standing(b, places))
      BY <1>1 DEF LivesOf, OpenOnes
    <3> HIDE DEF open
    <3>3. DOMAIN c.positions = open(Standing(c, places))
      BY <1>5, <3>1, <3>2
    <3> QED BY <3>3 DEF open, OpenOnes
  <2>3. AgesOf(c, events, places)
    BY <1>1, <1>5, <1>6 DEF LivesOf, AgesOf
  <2>4. RowsTell(c.closedBook, events, places, Standing(c, places))
    <3>1. ASSUME NEW r, IsRow(r, events, places, Standing(b, places))
          PROVE  IsRow(r, events, places, Standing(c, places))
      BY <2>1, <3>1 DEF IsRow
    <3> QED BY <1>1, <1>4, <3>1 DEF LivesOf, RowsTell
  <2>5. ClosesOf(c.closedBook, events, Standing(c, places)) /\ OnceClosed(c.closedBook)
    BY <1>1, <1>4, <1>14 DEF LivesOf, ClosesOf
  <2> QED BY <2>2, <2>3, <2>4, <2>5 DEF LivesOf
<1> QED BY <1>7, <1>8, <1>13, <1>15, <1>16 DEF IsFoldOf, c

\* The book of a log, at any date it is read.
LEMMA FoldIs ==
    ASSUME NEW events, Admissible(events), NEW day \in Nat
    PROVE  IsFoldOf(FoldEventsAsOf(events, day), events, UpTo(events, day))
<1> DEFINE list == Applicable(events, day)
<1>1. IsTimeline(list, events, day)
  BY ApplicableLines DEF Admissible
<1>2. Len(list) \in Nat
  BY <1>1 DEF IsTimeline
<1>3. PICK f : RunsOver(f, list) /\ FoldEventsAsOf(events, day) = Finish(f[Len(list)])
  BY <1>2, FoldIsRun
<1> HIDE DEF list
<1>4. IsFoldOf(f[Len(list)], events, UpTo(events, day))
  BY <1>1, <1>3, RunIsFold
<1> QED BY <1>3, <1>4, FinishKeeps
----------------------------------------------------------------------------
(* A log in the order of its dates is applied in the order it was written. *)

Ordered(events) == \A i, j \in DOMAIN events : i < j => events[i].asOf <= events[j].asOf
Entries(events) == [i \in DOMAIN events |-> EntryAt(events, i)]

\* The books a log goes through when it is applied in its own order.
Story(events) == CHOOSE f : RunsOver(f, Entries(events))

LEMMA StoryRuns ==
    ASSUME NEW events, Parsed(events)
    PROVE  /\ Story(events)[0] = GenesisBook
           /\ \A k \in 1 .. Len(events) :
                Story(events)[k] = Apply(Story(events)[k - 1], EntryAt(events, k))
<1> DEFINE list == Entries(events)
           f == Story(events)
<1>1. Len(events) \in Nat /\ DOMAIN events = 1 .. Len(events)
  BY EventsAreTyped
<1>2. Len(list) = Len(events) /\ \A k \in 1 .. Len(events) : list[k] = EntryAt(events, k)
  BY <1>1 DEF Entries
<1> HIDE DEF list
<1>3. \E s : RunsOver(s, list)
  BY <1>1, <1>2, FoldRuns
<1>4. RunsOver(f, list)
  BY <1>3 DEF Story, list
<1> HIDE DEF f
<1>5. f[0] = GenesisBook
  BY <1>1, <1>2, <1>4 DEF RunsOver
<1>6. ASSUME NEW k \in 1 .. Len(events) PROVE f[k] = Apply(f[k - 1], EntryAt(events, k))
  <2>1. k \in 0 .. Len(list) /\ k # 0
    BY <1>1, <1>2
  <2> QED BY <1>2, <1>4, <2>1 DEF RunsOver
<1> QED BY <1>5, <1>6 DEF f

LEMMA StoryGrows ==
    ASSUME NEW events, Parsed(events), NEW more, Parsed(more), Len(events) <= Len(more),
           \A i \in DOMAIN events : more[i] = events[i], NEW k \in 0 .. Len(events)
    PROVE  Story(more)[k] = Story(events)[k]
<1> DEFINE T == { n \in 0 .. Len(events) : Story(more)[n] = Story(events)[n] }
<1>1. Len(events) \in Nat /\ Len(more) \in Nat /\ DOMAIN events = 1 .. Len(events)
  BY EventsAreTyped
<1>2. 0 \in T
  BY <1>1, StoryRuns
<1>3. ASSUME NEW n \in 0 .. Len(events) - 1, n \in T PROVE n + 1 \in T
  <2>1. n + 1 \in 1 .. Len(events) /\ n + 1 \in 1 .. Len(more) /\ n + 1 - 1 = n
    BY <1>1
  <2>2. EntryAt(more, n + 1) = EntryAt(events, n + 1)
    BY <1>1, <2>1 DEF EntryAt
  <2>3. /\ Story(more)[n + 1] = Apply(Story(more)[n], EntryAt(more, n + 1))
        /\ Story(events)[n + 1] = Apply(Story(events)[n], EntryAt(events, n + 1))
    BY <2>1, StoryRuns
  <2>4. Story(more)[n] = Story(events)[n]
    BY <1>3
  <2> QED BY <1>1, <2>1, <2>2, <2>3, <2>4
<1> HIDE DEF T
<1>4. \A n \in 0 .. Len(events) : n \in T
  BY <1>1, <1>2, <1>3, InductionUpTo, Zenon
<1> QED BY <1>4 DEF T

\* Read at a day, such a log gives the book it had after its events up to that day.
LEMMA FoldInOrder ==
    ASSUME NEW events, Parsed(events), Ordered(events), NEW day \in Nat
    PROVE  \E n \in 0 .. Len(events) :
            UpTo(events, day) = 1 .. n /\ FoldEventsAsOf(events, day) = Finish(Story(events)[n])
<1> DEFINE list == Applicable(events, day)
           n == Len(list)
           done(k) == { list[i].at : i \in 1 .. k }
           D == { k \in 0 .. n : done(k) = 1 .. k }
<1>1. Len(events) \in Nat /\ DOMAIN events = 1 .. Len(events)
  BY EventsAreTyped
<1>2. IsTimeline(list, events, day)
  BY ApplicableLines
<1>3. n \in Nat
  BY <1>2 DEF IsTimeline
<1>4. PICK f : RunsOver(f, list) /\ FoldEventsAsOf(events, day) = Finish(f[n])
  BY <1>3, FoldIsRun
<1> HIDE DEF list, n
<1>5. ASSUME NEW p \in DOMAIN events PROVE Before(events, p) = 1 .. p - 1
  <2>1. \A i \in DOMAIN events : events[i].asOf \in Nat
    BY DatesType
  <2>2. \A j \in DOMAIN events : Sooner(events, j, p) <=> j < p
    <3> SUFFICES ASSUME NEW j \in DOMAIN events PROVE Sooner(events, j, p) <=> j < p
      OBVIOUS
    <3>1. j \in Nat /\ p \in Nat /\ events[j].asOf \in Nat /\ events[p].asOf \in Nat
      BY <1>1, <2>1
    <3>2. CASE j < p
      BY <3>1, <3>2 DEF Ordered, Sooner
    <3>3. CASE p < j
      BY <3>1, <3>3 DEF Ordered, Sooner
    <3>4. CASE j = p
      BY <3>1, <3>4 DEF Sooner
    <3> QED BY <3>1, <3>2, <3>3, <3>4
  <2>3. \A j : j \in 1 .. p - 1 <=> j \in DOMAIN events /\ j < p
    BY <1>1
  <2>4. \A j : j \in Before(events, p) <=> j \in DOMAIN events /\ j < p
    BY <2>2 DEF Before
  <2> QED BY <2>3, <2>4, Zenon
<1>6. ASSUME NEW k \in 0 .. n - 1, done(k) = 1 .. k PROVE list[k + 1].at = k + 1
  <2> DEFINE p == list[k + 1].at
  <2>1. k + 1 \in 1 .. n /\ k + 1 - 1 = k
    BY <1>3
  <2>2. p \in DOMAIN events /\ { list[i].at : i \in 1 .. k + 1 - 1 } = Before(events, p)
    BY <1>2, <2>1, TimelinePlaces DEF n
  <2>3. done(k) = Before(events, p)
    BY <2>1, <2>2
  <2> HIDE DEF p, done
  <2>4. 1 .. k = 1 .. p - 1 /\ p \in Nat /\ p >= 1 /\ k \in Nat
    BY <1>1, <1>3, <1>5, <1>6, <2>2, <2>3
  <2>5. ~ k < p - 1
    <3>1. p - 1 \in 1 .. p - 1 <=> p - 1 \in 1 .. k
      BY <2>4
    <3> QED BY <2>4, <3>1
  <2>6. ~ p - 1 < k
    <3>1. k \in 1 .. p - 1 <=> k \in 1 .. k
      BY <2>4
    <3> QED BY <2>4, <3>1
  <2>7. p = k + 1
    BY <2>4, <2>5, <2>6
  <2> QED BY <2>7 DEF p
<1>7. 0 \in D
  BY <1>3
<1>8. ASSUME NEW k \in 0 .. n - 1, k \in D PROVE k + 1 \in D
  <2>1. done(k) = 1 .. k
    BY <1>8
  <2>2. list[k + 1].at = k + 1
    BY <1>6, <2>1
  <2>3. k \in Nat /\ k + 1 \in 0 .. n
    BY <1>3
  <2>4. \A i : i \in 1 .. k + 1 <=> i \in 1 .. k \/ i = k + 1
    BY <2>3
  <2>5. done(k + 1) = done(k) \cup {k + 1}
    BY <2>2, <2>4
  <2> HIDE DEF done
  <2>6. done(k + 1) = 1 .. k + 1
    BY <2>1, <2>4, <2>5, Zenon
  <2> QED BY <2>3, <2>6
<1>9. \A k \in 0 .. n : k \in D
  <2> HIDE DEF D
  <2> QED BY <1>3, <1>7, <1>8, InductionUpTo
<1>10. UpTo(events, day) = 1 .. n
  <2>1. done(n) = UpTo(events, day)
    BY <1>2, TimelineAll DEF n
  <2>2. n \in D
    <3> HIDE DEF D
    <3> QED BY <1>3, <1>9
  <2>3. done(n) = 1 .. n
    <3> HIDE DEF done
    <3> QED BY <2>2
  <2> QED BY <2>1, <2>3, Zenon
<1>11. n \in 0 .. Len(events)
  <2>1. 1 .. n \subseteq 1 .. Len(events)
    BY <1>1, <1>10 DEF UpTo
  <2>2. n >= 1 => n \in 1 .. n
    BY <1>3
  <2> QED BY <1>1, <1>3, <2>1, <2>2
<1> DEFINE T == { k \in 0 .. n : f[k] = Story(events)[k] }
<1>12. 0 \in T
  BY <1>3, <1>4, StoryRuns DEF RunsOver, n
<1>13. ASSUME NEW k \in 0 .. n - 1, k \in T PROVE k + 1 \in T
  <2>1. k + 1 \in 1 .. n /\ k + 1 \in 0 .. n /\ k + 1 # 0 /\ k + 1 - 1 = k /\ k \in 0 .. n
    BY <1>3
  <2>2. k + 1 \in 1 .. Len(events)
    BY <1>1, <1>11, <2>1
  <2>3. list[k + 1].at = k + 1
    BY <1>6, <1>9, <2>1
  <2>4. list[k + 1] = EntryAt(events, k + 1)
    BY <1>2, <2>1, <2>3, TimelinePlaces DEF n
  <2>5. f[k + 1] = Apply(f[k + 1 - 1], list[k + 1])
    BY <1>4, <2>1 DEF RunsOver, n
  <2>6. Story(events)[k + 1] = Apply(Story(events)[k + 1 - 1], EntryAt(events, k + 1))
    BY <2>2, StoryRuns
  <2>7. f[k] = Story(events)[k]
    BY <1>13
  <2> QED BY <2>1, <2>4, <2>5, <2>6, <2>7
<1>14. f[n] = Story(events)[n]
  <2> HIDE DEF T
  <2>1. \A k \in 0 .. n : k \in T
    BY <1>3, <1>12, <1>13, InductionUpTo
  <2>2. n \in T
    BY <1>3, <2>1
  <2> QED BY <2>2 DEF T
<1> QED BY <1>4, <1>10, <1>11, <1>14
----------------------------------------------------------------------------
(* What an accepted event of such a log does to lots and reserves.         *)

LotsOf(b, id) == IF id \in DOMAIN b.positions THEN b.positions[id].lots ELSE <<>>
RowsAreSold(rows) == \A i \in DOMAIN rows : rows[i].lots \in Seq(SoldLots)
Taken(rows, id, tier) == Total([i \in DOMAIN rows |-> TakenBy(rows[i], id, tier)])
Bought(events, id, tier) == Total([i \in DOMAIN events |-> BoughtBy(events[i], id, tier)])

\* The cash leg of a verb is paid, and nothing is discarded.
Settles(b, c, id, deltas) ==
    /\ c.reserves = [b.reserves EXCEPT ![id] = ApplyReserveDelta(@, deltas)]
    /\ c.skipped = b.skipped

\* The lots of one position become others, and no other position moves.
Holding(b, c, position, lots) ==
    \A id : LotsOf(c, id) = IF id = position THEN lots ELSE LotsOf(b, id)

LEMMA LegSettles ==
    ASSUME NEW b, NEW e, NEW at, NEW deltas, deltas # <<>>, e.reserve \in DOMAIN b.reserves,
           NEW applied, DOMAIN applied = BookFields, applied.reserves = b.reserves,
           applied.skipped = b.skipped
    PROVE  LET c == ApplyTieredLeg(b, e, at, deltas, applied)
           IN  /\ Settles(b, c, e.reserve, deltas)
               /\ c.positions = applied.positions /\ c.closedBook = applied.closedBook
<1> DEFINE c == ApplyTieredLeg(b, e, at, deltas, applied)
<1>1. c = [applied EXCEPT !.reserves[e.reserve] = ApplyReserveDelta(@, deltas)]
  BY DEF ApplyTieredLeg, ApplyToReserve
<1>2. {"reserves", "positions", "closedBook", "skipped"} \subseteq DOMAIN applied
  BY DEF BookFields
<1>3. /\ c.reserves = [applied.reserves EXCEPT ![e.reserve] = ApplyReserveDelta(@, deltas)]
      /\ c.positions = applied.positions /\ c.closedBook = applied.closedBook
      /\ c.skipped = applied.skipped
  BY <1>1, <1>2
<1> HIDE DEF c
<1>4. Settles(b, c, e.reserve, deltas)
  BY <1>3 DEF Settles
<1> QED BY <1>3, <1>4 DEF c

LEMMA OpenSettles ==
    ASSUME NEW b, IsBook(b), NEW e, IsEvent(e), NEW at, e.type = "PositionOpened",
           e.reserve \in DOMAIN b.reserves
    PROVE  LET c == Opened(b, e, at)
               deltas == DeltasForOpen(e.lots, e.amount)
           IN  /\ deltas # <<>> /\ deltas \in Seq(Deltas)
               /\ Settles(b, c, e.reserve, deltas)
               /\ Holding(b, c, e.position, e.lots) /\ c.closedBook = b.closedBook
<1> DEFINE price == WeightedAverageCost(e.lots)
           fresh == e.instrument \notin b.seeded
           p == [portfolio |-> e.portfolio, tempo |-> e.tempo, mode |-> e.mode,
                 account |-> e.account, currency |-> e.currency,
                 instrument |-> e.instrument, direction |-> e.direction, lots |-> e.lots,
                 markPrice |-> price, openedAsOf |-> e.asOf]
           applied == [b EXCEPT
            !.positions = Put(@, e.position, p),
            !.fallback = @ \cup {e.position},
            !.seeded = @ \cup {e.instrument},
            !.anchors = IF fresh THEN Put(@, e.instrument, Len(b.closes) + 1) ELSE @,
            !.closes = IF fresh
                       THEN Append(@, [instrument |-> e.instrument, asOf |-> e.asOf,
                                       price |-> price])
                       ELSE @]
           deltas == DeltasForOpen(e.lots, e.amount)
           c == ApplyTieredLeg(b, e, at, deltas, applied)
<1>1. c = Opened(b, e, at)
  BY DEF Opened
<1>2. e.lots \in Seq(HeldLots) /\ e.lots # <<>> /\ e.amount \in Int
  BY DEF IsEvent, CashVerbs
<1>3. e.lots \in Seq(SoldLots)
  BY <1>2, HeldAreSold
<1>4. SplitsOver(deltas, e.lots, -e.amount)
  BY <1>2, <1>3, LegsSplit
<1>5. deltas # <<>> /\ deltas \in Seq(Deltas)
  BY <1>2, <1>4 DEF SplitsOver
<1>6. DOMAIN b = BookFields
  BY DEF IsBook
<1>7. /\ DOMAIN applied = BookFields /\ applied.reserves = b.reserves
      /\ applied.skipped = b.skipped /\ applied.closedBook = b.closedBook
      /\ applied.positions = Put(b.positions, e.position, p)
  BY <1>6 DEF BookFields
<1>8. p.lots = e.lots
  OBVIOUS
<1> HIDE DEF applied, deltas, p, c
<1>9. /\ Settles(b, c, e.reserve, deltas)
      /\ c.positions = Put(b.positions, e.position, p) /\ c.closedBook = b.closedBook
  BY <1>5, <1>7, LegSettles DEF c
<1>10. Holding(b, c, e.position, e.lots)
  BY <1>8, <1>9 DEF Holding, LotsOf, Put
<1> QED BY <1>1, <1>5, <1>9, <1>10 DEF deltas

LEMMA CloseSettles ==
    ASSUME NEW b, IsBook(b), NEW e, IsEvent(e), NEW at, e.type = "PositionClosed",
           e.reserve \in DOMAIN b.reserves, e.position \in DOMAIN b.positions,
           LotsOf(b, e.position) # <<>>
    PROVE  LET c == Closed(b, e, at)
               lots == LotsOf(b, e.position)
               deltas == DeltasForClose(lots, e.amount)
           IN  /\ lots \in Seq(SoldLots) /\ deltas # <<>> /\ deltas \in Seq(Deltas)
               /\ Settles(b, c, e.reserve, deltas)
               /\ Holding(b, c, e.position, <<>>)
               /\ \E row : /\ row.position = e.position /\ row.lots = lots
                           /\ c.closedBook = Append(b.closedBook, row)
<1> DEFINE closing == b.positions[e.position]
           row == ClosedRow(b, closing, e.position, closing.lots, e, FALSE)
           applied == [b EXCEPT
            !.closedBook = Append(@, row),
            !.positions = Restrict(@, DOMAIN @ \ {e.position})]
           deltas == DeltasForClose(closing.lots, e.amount)
           c == ApplyTieredLeg(b, e, at, deltas, applied)
<1>1. c = Closed(b, e, at)
  BY DEF Closed
<1>2. closing.lots \in Seq(HeldLots) /\ e.amount \in Int
  BY DEF IsBook, IsPosition, IsEvent, CashVerbs
<1>3. closing.lots \in Seq(SoldLots)
  BY <1>2, HeldAreSold
<1>4. closing.lots = LotsOf(b, e.position)
  BY DEF LotsOf
<1>5. SplitsOver(deltas, closing.lots, e.amount)
  BY <1>2, <1>3, LegsSplit
<1>6. deltas # <<>> /\ deltas \in Seq(Deltas)
  BY <1>4, <1>5 DEF SplitsOver
<1>7. DOMAIN b = BookFields
  BY DEF IsBook
<1>8. row.position = e.position /\ row.lots = closing.lots
  BY DEF ClosedRow
<1> HIDE DEF row
<1>9. /\ DOMAIN applied = BookFields /\ applied.reserves = b.reserves
      /\ applied.skipped = b.skipped /\ applied.closedBook = Append(b.closedBook, row)
      /\ applied.positions = Restrict(b.positions, DOMAIN b.positions \ {e.position})
  BY <1>7 DEF BookFields
<1> HIDE DEF applied, deltas, c
<1>10. /\ Settles(b, c, e.reserve, deltas)
       /\ c.positions = Restrict(b.positions, DOMAIN b.positions \ {e.position})
       /\ c.closedBook = Append(b.closedBook, row)
  BY <1>6, <1>9, LegSettles DEF c
<1>11. Holding(b, c, e.position, <<>>)
  BY <1>10 DEF Holding, LotsOf, Restrict
<1> HIDE DEF closing
<1> QED BY <1>1, <1>3, <1>4, <1>6, <1>8, <1>10, <1>11 DEF deltas


\* The removals of a trim, as the parser admits them.
Removals == { r \in Figures : r.quantity \in Nat \ {0} /\ r.tier \in Tiers }

LEMMA TrimLeaves ==
    ASSUME NEW lots \in Seq(HeldLots), NEW removals \in Seq(Removals), removals # <<>>,
           \A tier \in Tiers : Held(removals, tier) <= Held(lots, tier),
           Quantity(removals) < Quantity(lots), NEW split, split = SplitRemovals(lots, removals)
    PROVE  /\ split.removed \in Seq(SoldLots) /\ split.removed # <<>>
           /\ split.remaining \in Seq(HeldLots) /\ split.remaining # <<>>
           /\ \A tier : /\ Held(split.removed, tier) = Held(removals, tier)
                        /\ Held(split.remaining, tier) = Held(lots, tier) - Held(removals, tier)
<1>1. Sized(Removals) /\ \A r \in Removals : r.tier \in Tiers /\ r.quantity \in Nat \ {0}
  BY DEF Sized, Removals
<1>2. Sized(HeldLots) /\ \A l \in HeldLots : l.tier \in Tiers
  BY LotTypes DEF Sized, HeldLots
<1>3. split \in Splits
  <2>1. \A i \in DOMAIN removals : removals[i].quantity \in Nat
    BY <1>1, LineType
  <2> QED BY <2>1, SplitRemovalsType
<1>4. split.removed \in Seq(SoldLots) /\ split.remaining \in Seq(HeldLots)
  BY <1>3 DEF Splits
<1>5. \A tier : Held(removals, tier) <= Held(lots, tier)
  <2> SUFFICES ASSUME NEW tier PROVE Held(removals, tier) <= Held(lots, tier)
    OBVIOUS
  <2>1. CASE tier \in Tiers
    BY <2>1
  <2>2. CASE tier \notin Tiers
    <3>1. Held(removals, tier) = Total(Units(removals, tier)) /\ Held(lots, tier) \in Nat
      BY <1>1, <1>2, HeldOf
    <3>2. \A i \in DOMAIN removals : removals[i].tier # tier
      BY <1>1, <2>2, LineType
    <3>3. Units(removals, tier) \in Seq(Int) /\ \A i \in DOMAIN Units(removals, tier) : Units(removals, tier)[i] = 0
      BY <3>2 DEF Units
    <3>4. Total(Units(removals, tier)) = 0
      BY <3>3, TotalOfNone
    <3> QED BY <3>1, <3>4
  <2> QED BY <2>1, <2>2
<1>6. ASSUME NEW tier
      PROVE  /\ Held(split.removed, tier) = Held(removals, tier)
             /\ Held(split.remaining, tier) = Held(lots, tier) - Held(removals, tier)
  BY <1>1, <1>5, SplitRemovalsHeld
<1>7. split.removed # <<>>
  <2> SUFFICES ASSUME split.removed = <<>> PROVE FALSE
    OBVIOUS
  <2> DEFINE t == removals[1].tier
  <2>1. 1 \in DOMAIN removals /\ removals[1] \in Removals
    <3>1. Len(removals) # 0 /\ Len(removals) \in Nat /\ DOMAIN removals = 1 .. Len(removals)
      OBVIOUS
    <3>2. 1 \in DOMAIN removals
      BY <3>1
    <3> QED BY <3>2, LineType
  <2>2. Held(removals, t) = 0
    <3>1. Held(<<>>, t) = 0
      BY <1>1, HeldOfParts
    <3> QED BY <1>6, <3>1
  <2>3. Held(removals, t) = Total(Units(removals, t))
    BY <1>1, HeldOf
  <2>4. Units(removals, t) \in Seq(Nat) /\ 1 \in DOMAIN Units(removals, t)
        /\ Units(removals, t)[1] = removals[1].quantity
    <3>1. \A i \in DOMAIN removals : removals[i].quantity \in Nat
      BY <1>1, LineType
    <3> QED BY <2>1, <3>1 DEF Units
  <2>5. Units(removals, t)[1] <= Total(Units(removals, t))
    BY <2>4, TotalAtLeast
  <2>6. removals[1].quantity \in Nat \ {0}
    BY <1>1, <2>1
  <2> QED BY <2>2, <2>3, <2>4, <2>5, <2>6
<1>8. split.remaining # <<>>
  <2> SUFFICES ASSUME split.remaining = <<>> PROVE FALSE
    OBVIOUS
  <2>1. ASSUME NEW tier PROVE Held(lots, tier) = Held(removals, tier)
    <3>1. Held(split.remaining, tier) = 0
      BY <1>1, HeldOfParts
    <3>2. Held(lots, tier) \in Nat /\ Held(removals, tier) \in Nat
      BY <1>1, <1>2, HeldOf
    <3> QED BY <1>6, <3>1, <3>2
  <2>2. Quantity(lots) = Held(lots, "c1") + Held(lots, "c2") + Held(lots, "c3")
    BY <1>2, QuantityByTier
  <2>3. Quantity(removals) = Held(removals, "c1") + Held(removals, "c2") + Held(removals, "c3")
    BY <1>1, QuantityByTier
  <2>4. Held(lots, "c1") = Held(removals, "c1") /\ Held(lots, "c2") = Held(removals, "c2")
        /\ Held(lots, "c3") = Held(removals, "c3")
    BY <2>1
  <2>5. Quantity(lots) = Quantity(removals)
    BY <2>2, <2>3, <2>4
  <2>6. Quantity(lots) \in Int
    <3>1. Held(lots, "c1") \in Nat /\ Held(lots, "c2") \in Nat /\ Held(lots, "c3") \in Nat
      BY <1>2, HeldOf
    <3> QED BY <2>2, <3>1
  <2> QED BY <2>5, <2>6
<1> QED BY <1>4, <1>6, <1>7, <1>8

LEMMA TrimSettles ==
    ASSUME NEW b, IsBook(b), NEW e, IsEvent(e), NEW at, e.type = "PositionTrimmed",
           e.reserve \in DOMAIN b.reserves, e.position \in DOMAIN b.positions,
           NEW lots, lots = LotsOf(b, e.position),
           e.removals \in Seq(Removals), e.removals # <<>>,
           \A tier \in Tiers : Held(e.removals, tier) <= Held(lots, tier),
           Quantity(e.removals) < Quantity(lots)
    PROVE  LET c == Trimmed(b, e, at)
               split == SplitRemovals(lots, e.removals)
               deltas == DeltasForClose(split.removed, e.amount)
           IN  /\ deltas # <<>> /\ deltas \in Seq(Deltas)
               /\ Settles(b, c, e.reserve, deltas)
               /\ Holding(b, c, e.position, split.remaining)
               /\ \E row : /\ row.position = e.position /\ row.lots = split.removed
                           /\ c.closedBook = Append(b.closedBook, row)
<1> DEFINE id == e.position
           split == SplitRemovals(lots, e.removals)
           row == ClosedRow(b, b.positions[id], id, split.removed, e, TRUE)
           applied == [b EXCEPT
            !.closedBook = Append(@, row),
            !.positions[e.position].lots = split.remaining]
           deltas == DeltasForClose(split.removed, e.amount)
           c == ApplyTieredLeg(b, e, at, deltas, applied)
<1>1. lots = b.positions[id].lots /\ lots \in Seq(HeldLots) /\ e.amount \in Int
  BY DEF LotsOf, IsBook, IsPosition, IsEvent, CashVerbs
<1>2. c = Trimmed(b, e, at)
  BY <1>1 DEF Trimmed
<1>3. split.removed \in Seq(SoldLots) /\ split.removed # <<>>
  BY <1>1, TrimLeaves
<1>4. SplitsOver(deltas, split.removed, e.amount)
  <2> HIDE DEF split
  <2> QED BY <1>1, <1>3, LegsSplit
<1>5. deltas # <<>> /\ deltas \in Seq(Deltas)
  BY <1>3, <1>4 DEF SplitsOver
<1>6. DOMAIN b = BookFields
  BY DEF IsBook
<1>7. row.position = id /\ row.lots = split.removed
  BY DEF ClosedRow
<1> HIDE DEF row, split
<1>8. /\ DOMAIN applied = BookFields /\ applied.reserves = b.reserves
      /\ applied.skipped = b.skipped /\ applied.closedBook = Append(b.closedBook, row)
      /\ applied.positions = [b.positions EXCEPT ![id] = [@ EXCEPT !.lots = split.remaining]]
  BY <1>6 DEF BookFields
<1> HIDE DEF applied, deltas, c
<1>9. /\ Settles(b, c, e.reserve, deltas)
      /\ c.positions = applied.positions /\ c.closedBook = Append(b.closedBook, row)
  BY <1>5, <1>8, LegSettles DEF c
<1>10. Holding(b, c, id, split.remaining)
  <2>1. "lots" \in DOMAIN b.positions[id]
    BY DEF IsBook, IsPosition
  <2> QED BY <1>8, <1>9, <2>1 DEF Holding, LotsOf
<1> QED BY <1>2, <1>5, <1>7, <1>9, <1>10 DEF deltas, split

LEMMA AddSettles ==
    ASSUME NEW b, IsBook(b), NEW e, IsEvent(e), NEW at, e.type = "PositionAddedTo",
           e.reserve \in DOMAIN b.reserves, e.position \in DOMAIN b.positions
    PROVE  LET c == AddedTo(b, e, at)
               deltas == DeltasForOpen(<<e.lot>>, e.amount)
           IN  /\ deltas # <<>> /\ deltas \in Seq(Deltas)
               /\ Settles(b, c, e.reserve, deltas)
               /\ Holding(b, c, e.position, Append(LotsOf(b, e.position), e.lot))
               /\ c.closedBook = b.closedBook
<1> DEFINE id == e.position
           adding == b.positions[id]
           lots == Append(adding.lots, e.lot)
           blended == WeightedAverageCost(lots)
           unmarked == id \in b.fallback /\ adding.instrument \notin DOMAIN b.latestMark
           anchored == unmarked /\ adding.instrument \in DOMAIN b.anchors
           price == IF unmarked THEN blended ELSE adding.markPrice
           closes == IF anchored
                     THEN [b.closes EXCEPT ![b.anchors[adding.instrument]].price = blended]
                     ELSE b.closes
           new == [adding EXCEPT !.lots = lots, !.markPrice = price]
           positions == [b.positions EXCEPT ![id] = new]
           applied == [b EXCEPT !.positions = positions, !.closes = closes]
           deltas == DeltasForOpen(<<e.lot>>, e.amount)
           c == ApplyTieredLeg(b, e, at, deltas, applied)
<1>1. c = AddedTo(b, e, at)
  BY Zenon DEF AddedTo
<1>2. e.lot \in HeldLots /\ e.amount \in Int
  BY DEF IsEvent, CashVerbs
<1>3. <<e.lot>> \in Seq(SoldLots)
  <2>1. <<e.lot>> \in Seq(HeldLots)
    BY <1>2
  <2> QED BY <2>1, HeldAreSold, Zenon
<1>4. SplitsOver(deltas, <<e.lot>>, -e.amount)
  BY <1>2, <1>3, LegsSplit, Zenon
<1>5. deltas # <<>> /\ deltas \in Seq(Deltas)
  BY <1>4 DEF SplitsOver
<1>6. DOMAIN b = BookFields
  BY DEF IsBook
<1>7. "lots" \in DOMAIN b.positions[id] /\ lots = Append(LotsOf(b, id), e.lot)
  BY DEF IsBook, IsPosition, LotsOf
<1> HIDE DEF lots, price, closes
<1>8. /\ DOMAIN positions = DOMAIN b.positions /\ positions[id].lots = lots
      /\ \A x \in DOMAIN b.positions : x # id => positions[x] = b.positions[x]
  BY <1>7, Zenon
<1> HIDE DEF positions
<1>9. /\ DOMAIN applied = BookFields /\ applied.reserves = b.reserves
       /\ applied.skipped = b.skipped /\ applied.closedBook = b.closedBook
       /\ applied.positions = positions
  BY <1>6 DEF BookFields
<1> HIDE DEF applied, deltas, c
<1>10. /\ Settles(b, c, e.reserve, deltas)
      /\ c.positions = positions /\ c.closedBook = b.closedBook
  BY <1>5, <1>9, LegSettles DEF c
<1>11. Holding(b, c, id, lots)
  BY <1>8, <1>10 DEF Holding, LotsOf
<1> QED BY <1>1, <1>5, <1>7, <1>10, <1>11 DEF deltas


\* Nothing was discarded, no position is empty, and the rows tell what was sold.
Tidy(b) ==
    /\ b.skipped = {}
    /\ \A id \in DOMAIN b.positions : LotsOf(b, id) # <<>>
    /\ RowsAreSold(b.closedBook)

\* What is held and what left, tier by tier, moves by what the event buys.
Even(b, c, e) ==
    \A id, tier :
        Held(LotsOf(c, id), tier) + Taken(c.closedBook, id, tier) =
            Held(LotsOf(b, id), tier) + Taken(b.closedBook, id, tier) + BoughtBy(e, id, tier)

SolventWith(b, paid) == \A id \in DOMAIN b.reserves : Sound(b.reserves[id], id \in paid)
PaidBy(e) ==
    IF e.type = "PositionOpened" THEN IF OfSeveralTiers(e.lots) THEN {e.reserve} ELSE {} ELSE {}

\* What the gate found in the book for the event it accepted.
Admits(b, e) ==
    /\ e.type \in CashVerbs => e.amount \in Nat \ {0} /\ NamedBy(e) \subseteq DOMAIN b.reserves
    /\ e.type \in Sales \cup {"PositionAddedTo"} => e.position \in DOMAIN b.positions
    /\ e.type = "PositionOpened" =>
        e.position \notin DOMAIN b.positions /\ CheckFunding(b, e, e.lots)
    /\ e.type = "PositionAddedTo" => CheckFunding(b, e, <<e.lot>>)
    /\ e.type = "PositionTrimmed" =>
        /\ e.removals \in Seq(Removals) /\ e.removals # <<>>
        /\ \A tier \in Tiers : Held(e.removals, tier) <= Held(LotsOf(b, e.position), tier)
        /\ Quantity(e.removals) < Quantity(LotsOf(b, e.position))
    /\ e.type = "Withdraw" => CheckDebit(b, e.reserve, e.tier, e.amount)
    /\ e.type = "Transfer" => CheckDebit(b, e.from, e.tier, e.amount)
    /\ e.type = "ReserveOpened" => e.reserve \notin DOMAIN b.reserves

LEMMA LotsOfBook ==
    ASSUME NEW b, IsBook(b), NEW id
    PROVE  /\ LotsOf(b, id) \in Seq(HeldLots)
           /\ \A tier : Held(LotsOf(b, id), tier) \in Nat
<1>1. LotsOf(b, id) \in Seq(HeldLots)
  BY EmptyLog DEF LotsOf, IsBook, IsPosition
<1>2. Sized(HeldLots)
  BY LotTypes DEF Sized
<1> QED BY <1>1, <1>2, HeldOf

LEMMA TakenType ==
    ASSUME NEW rows, IsClosedBook(rows), RowsAreSold(rows), NEW id, NEW tier
    PROVE  /\ [i \in DOMAIN rows |-> TakenBy(rows[i], id, tier)] \in Seq(Int)
           /\ Taken(rows, id, tier) \in Int
<1>1. Sized(SoldLots)
  BY LotTypes DEF Sized
<1>2. DOMAIN rows = 1 .. Len(rows) /\ Len(rows) \in Nat
  BY DEF IsClosedBook
<1>3. ASSUME NEW i \in DOMAIN rows PROVE TakenBy(rows[i], id, tier) \in Int
  <2>1. rows[i].lots \in Seq(SoldLots)
    BY DEF RowsAreSold
  <2>2. Held(rows[i].lots, tier) \in Nat
    BY <1>1, <2>1, HeldOf
  <2> QED BY <2>2 DEF TakenBy
<1>4. [i \in DOMAIN rows |-> TakenBy(rows[i], id, tier)] \in Seq(Int)
  BY <1>2, <1>3
<1> QED BY <1>4, TotalType DEF Taken

LEMMA TakenMore ==
    ASSUME NEW rows, IsClosedBook(rows), RowsAreSold(rows), NEW row, row.lots \in Seq(SoldLots)
    PROVE  /\ RowsAreSold(Append(rows, row))
           /\ \A id, tier : Taken(Append(rows, row), id, tier) =
                                Taken(rows, id, tier) + TakenBy(row, id, tier)
<1> DEFINE more == Append(rows, row)
<1>1. /\ DOMAIN more = 1 .. Len(rows) + 1 /\ DOMAIN rows = 1 .. Len(rows) /\ Len(rows) \in Nat
      /\ more[Len(rows) + 1] = row /\ \A i \in DOMAIN rows : more[i] = rows[i]
  BY OneRowMore
<1> HIDE DEF more
<1>2. RowsAreSold(more)
  BY <1>1 DEF RowsAreSold
<1>3. ASSUME NEW id, NEW tier PROVE Taken(more, id, tier) = Taken(rows, id, tier) + TakenBy(row, id, tier)
  <2> DEFINE a == [i \in DOMAIN rows |-> TakenBy(rows[i], id, tier)]
             b == [i \in DOMAIN more |-> TakenBy(more[i], id, tier)]
             x == TakenBy(row, id, tier)
  <2>1. a \in Seq(Int) /\ Len(a) = Len(rows)
    <3>1. a \in Seq(Int)
      BY TakenType, Zenon
    <3> QED BY <1>1, <3>1
  <2>2. x \in Int
    <3>1. Sized(SoldLots)
      BY LotTypes DEF Sized
    <3>2. Held(row.lots, tier) \in Nat
      BY <3>1, HeldOf
    <3> QED BY <3>2 DEF TakenBy
  <2>3. b = Append(a, x)
    BY <1>1, <2>1
  <2> HIDE DEF a, b, x
  <2>4. Total(b) = Total(a) + x
    BY <2>1, <2>2, <2>3, TotalOfOneMore
  <2> QED BY <2>4 DEF Taken, a, b, x
<1> QED BY <1>2, <1>3 DEF more

\* A leg keeps every reserve sound that it covers.
LEMMA LegKeepsSolvent ==
    ASSUME NEW b, IsBook(b), NEW c, NEW id \in DOMAIN b.reserves, NEW deltas \in Seq(Deltas),
           Settles(b, c, id, deltas), NEW paid, SolventWith(b, paid), Spread(deltas),
           \A i \in DOMAIN deltas : Covers(b.reserves[id], deltas[i]), NEW more,
           Len(deltas) > 1 => id \in more \/ \A i \in DOMAIN deltas : deltas[i].amount >= 0
    PROVE  SolventWith(c, paid \cup more)
<1>1. DOMAIN c.reserves = DOMAIN b.reserves
  BY DEF Settles
<1> SUFFICES ASSUME NEW x \in DOMAIN b.reserves PROVE Sound(c.reserves[x], x \in paid \cup more)
  BY <1>1 DEF SolventWith
<1>2. Sound(b.reserves[x], x \in paid) /\ IsReserve(b.reserves[x])
  BY DEF SolventWith, IsBook
<1>3. CASE x = id
  <2>1. c.reserves[x] = ApplyReserveDelta(b.reserves[x], deltas)
    BY <1>3 DEF Settles
  <2>2. (x \in paid) \in BOOLEAN /\ (x \in paid \cup more) \in BOOLEAN
    OBVIOUS
  <2>3. Sound(ApplyReserveDelta(b.reserves[x], deltas), x \in paid \cup more)
    <3> DEFINE was == x \in paid
               is == x \in paid \cup more
    <3>1. was \in BOOLEAN /\ is \in BOOLEAN /\ (was => is)
      OBVIOUS
    <3>2. Len(deltas) > 1 => is \/ \A i \in DOMAIN deltas : deltas[i].amount >= 0
      BY <1>3
    <3>3. Sound(b.reserves[x], was)
      BY <1>2
    <3>4. \A i \in DOMAIN deltas : Covers(b.reserves[x], deltas[i])
      BY <1>3
    <3> HIDE DEF was, is
    <3>5. Sound(ApplyReserveDelta(b.reserves[x], deltas), is)
      BY <1>2, <3>1, <3>2, <3>3, <3>4, StillSound
    <3> QED BY <3>5 DEF is
  <2> QED BY <2>1, <2>3
<1>4. CASE x # id
  <2>1. c.reserves[x] = b.reserves[x]
    BY <1>4 DEF Settles
  <2>2. Sound(b.reserves[x], x \in paid \cup more)
    BY <1>2 DEF Sound
  <2> QED BY <2>1, <2>2
<1> QED BY <1>3, <1>4

LEMMA SolventStays ==
    ASSUME NEW b, NEW paid, NEW more, SolventWith(b, paid)
    PROVE  SolventWith(b, paid \cup more)
BY DEF SolventWith, Sound

\* The gate's debit rule covers a leg; a credit needs no cover.
LEMMA DebitCovers ==
    ASSUME NEW b, NEW id, NEW d \in Deltas, CheckDebit(b, id, d.tier, -d.amount) \/ d.amount >= 0
    PROVE  Covers(b.reserves[id], d)
BY DEF CheckDebit, Covers, Stock


LEMMA StaysTidy ==
    ASSUME NEW b, IsBook(b), Tidy(b), NEW c, NEW e, LivesOn(b, c, e), c.skipped = b.skipped,
           e.type \in Sales \cup {"PositionOpened", "PositionAddedTo"},
           NEW lots, Holding(b, c, e.position, lots),
           lots # <<>> \/ e.type = "PositionClosed", RowsAreSold(c.closedBook)
    PROVE  Tidy(c)
<1>1. ASSUME NEW id \in DOMAIN c.positions PROVE LotsOf(c, id) # <<>>
  <2>1. CASE id = e.position
    <3>1. e.type # "PositionClosed"
      BY <2>1 DEF LivesOn
    <3> QED BY <2>1, <3>1 DEF Holding
  <2>2. CASE id # e.position
    <3>1. id \in DOMAIN b.positions
      BY <2>2 DEF LivesOn
    <3>2. LotsOf(c, id) = LotsOf(b, id)
      BY <2>2 DEF Holding
    <3> QED BY <3>1, <3>2 DEF Tidy
  <2> QED BY <2>1, <2>2
<1> QED BY <1>1 DEF Tidy

LEMMA NothingMoves ==
    ASSUME NEW b, IsBook(b), Tidy(b), NEW c, NEW e, c.positions = b.positions,
           c.closedBook = b.closedBook, c.skipped = b.skipped,
           e.type \notin {"PositionOpened", "PositionAddedTo"}
    PROVE  Tidy(c) /\ Even(b, c, e)
<1>1. \A id : LotsOf(c, id) = LotsOf(b, id)
  BY DEF LotsOf
<1>2. Tidy(c)
  BY <1>1 DEF Tidy
<1>3. ASSUME NEW id, NEW tier
      PROVE  Held(LotsOf(c, id), tier) + Taken(c.closedBook, id, tier) =
                Held(LotsOf(b, id), tier) + Taken(b.closedBook, id, tier) + BoughtBy(e, id, tier)
  <2>1. BoughtBy(e, id, tier) = 0
    BY DEF BoughtBy
  <2>2. Held(LotsOf(b, id), tier) \in Nat /\ Taken(b.closedBook, id, tier) \in Int
    BY LotsOfBook, TakenType, Zenon DEF IsBook, Tidy
  <2> QED BY <1>1, <2>1, <2>2
<1> QED BY <1>2, <1>3 DEF Even

LEMMA BuyIsEven ==
    ASSUME NEW b, IsBook(b), Tidy(b), NEW c, NEW e, NEW lots,
           Holding(b, c, e.position, lots), c.closedBook = b.closedBook,
           \A id, tier : BoughtBy(e, id, tier) =
                IF id = e.position THEN Held(lots, tier) - Held(LotsOf(b, id), tier) ELSE 0,
           lots \in Seq(HeldLots)
    PROVE  Even(b, c, e)
<1> SUFFICES ASSUME NEW id, NEW tier
             PROVE  Held(LotsOf(c, id), tier) + Taken(c.closedBook, id, tier) =
                        Held(LotsOf(b, id), tier) + Taken(b.closedBook, id, tier)
                            + BoughtBy(e, id, tier)
  BY DEF Even
<1>1. Held(LotsOf(b, id), tier) \in Nat /\ Taken(b.closedBook, id, tier) \in Int
  BY LotsOfBook, TakenType, Zenon DEF IsBook, Tidy
<1>2. Held(lots, tier) \in Nat
  <2>1. Sized(HeldLots)
    BY LotTypes DEF Sized
  <2> QED BY <2>1, HeldOf
<1>3. CASE id = e.position
  <2>1. BoughtBy(e, id, tier) = Held(lots, tier) - Held(LotsOf(b, id), tier)
    BY <1>3
  <2>2. LotsOf(c, id) = lots
    BY <1>3 DEF Holding
  <2> QED BY <1>1, <1>2, <2>1, <2>2
<1>4. CASE id # e.position
  <2>1. BoughtBy(e, id, tier) = 0
    BY <1>4
  <2>2. LotsOf(c, id) = LotsOf(b, id)
    BY <1>4 DEF Holding
  <2> QED BY <1>1, <2>1, <2>2
<1> QED BY <1>3, <1>4

LEMMA SaleIsEven ==
    ASSUME NEW b, IsBook(b), Tidy(b), NEW c, NEW e, e.type \in Sales, NEW lots, NEW row,
           Holding(b, c, e.position, lots), c.closedBook = Append(b.closedBook, row),
           row.position = e.position, row.lots \in Seq(SoldLots), lots \in Seq(HeldLots),
           \A tier : Held(lots, tier) = Held(LotsOf(b, e.position), tier) - Held(row.lots, tier)
    PROVE  Even(b, c, e) /\ RowsAreSold(c.closedBook)
<1>1. /\ RowsAreSold(c.closedBook)
      /\ \A id, tier : Taken(c.closedBook, id, tier) =
                            Taken(b.closedBook, id, tier) + TakenBy(row, id, tier)
  BY TakenMore DEF IsBook, Tidy
<1>2. ASSUME NEW id, NEW tier
      PROVE  Held(LotsOf(c, id), tier) + Taken(c.closedBook, id, tier) =
                Held(LotsOf(b, id), tier) + Taken(b.closedBook, id, tier) + BoughtBy(e, id, tier)
  <2>1. Held(LotsOf(b, id), tier) \in Nat /\ Taken(b.closedBook, id, tier) \in Int
    BY LotsOfBook, TakenType, Zenon DEF IsBook, Tidy
  <2>2. Held(lots, tier) \in Nat /\ Held(row.lots, tier) \in Nat
    <3>1. Sized(HeldLots) /\ Sized(SoldLots)
      BY LotTypes DEF Sized
    <3>2. Held(lots, tier) \in Nat
      BY <3>1, HeldOf
    <3>3. Held(row.lots, tier) \in Nat
      BY <3>1, HeldOf
    <3> QED BY <3>2, <3>3
  <2>3. BoughtBy(e, id, tier) = 0
    BY DEF BoughtBy, Sales
  <2>4. CASE id = e.position
    <3>1. LotsOf(c, id) = lots /\ TakenBy(row, id, tier) = Held(row.lots, tier)
      BY <2>4 DEF Holding, TakenBy
    <3>2. Held(lots, tier) = Held(LotsOf(b, id), tier) - Held(row.lots, tier)
      BY <2>4
    <3>3. Taken(c.closedBook, id, tier) = Taken(b.closedBook, id, tier) + Held(row.lots, tier)
      BY <1>1, <3>1
    <3> QED BY <2>1, <2>2, <2>3, <3>1, <3>2, <3>3
  <2>5. CASE id # e.position
    <3>1. LotsOf(c, id) = LotsOf(b, id) /\ TakenBy(row, id, tier) = 0
      BY <2>5 DEF Holding, TakenBy
    <3>2. Taken(c.closedBook, id, tier) = Taken(b.closedBook, id, tier)
      BY <1>1, <2>1, <3>1
    <3> QED BY <2>1, <2>3, <3>1, <3>2
  <2> QED BY <2>4, <2>5
<1> QED BY <1>1, <1>2 DEF Even

\* What every event of the log keeps, once the gate admitted it.
Keeps(b, c, e) ==
    /\ Tidy(c) /\ Even(b, c, e)
    /\ \A paid : SolventWith(b, paid) => SolventWith(c, paid \cup PaidBy(e))

LEMMA OpenKeeps ==
    ASSUME NEW b, IsBook(b), Tidy(b), NEW e, IsEvent(e), NEW at, e.type = "PositionOpened",
           Admits(b, e), NEW c, c = Opened(b, e, at), LivesOn(b, c, e)
    PROVE  Keeps(b, c, e)
<1> DEFINE deltas == DeltasForOpen(e.lots, e.amount)
<1>1. /\ e.amount \in Nat \ {0} /\ e.reserve \in DOMAIN b.reserves
      /\ e.position \notin DOMAIN b.positions /\ CheckFunding(b, e, e.lots)
  BY DEF Admits, CashVerbs, NamedBy
<1>2. e.lots \in Seq(HeldLots) /\ e.lots # <<>> /\ e.lots \in Seq(SoldLots)
  BY HeldAreSold DEF IsEvent
<1>3. /\ deltas # <<>> /\ deltas \in Seq(Deltas) /\ Settles(b, c, e.reserve, deltas)
      /\ Holding(b, c, e.position, e.lots) /\ c.closedBook = b.closedBook
  BY <1>1, OpenSettles
<1>4. Spread(deltas) /\ (Len(deltas) > 1 => OfSeveralTiers(e.lots))
  BY <1>1, <1>2, DeltasSpread DEF DeltasForOpen
<1>5. \A i \in DOMAIN deltas : CheckDebit(b, e.reserve, deltas[i].tier, -deltas[i].amount)
  BY <1>1 DEF CheckFunding
<1> HIDE DEF deltas
<1>6. \A i \in DOMAIN deltas : Covers(b.reserves[e.reserve], deltas[i])
  BY <1>3, <1>5, DebitCovers, LineType, Zenon
<1>7. Len(deltas) > 1 => e.reserve \in PaidBy(e)
  BY <1>4 DEF PaidBy
<1>8. ASSUME NEW paid, SolventWith(b, paid) PROVE SolventWith(c, paid \cup PaidBy(e))
  BY <1>1, <1>3, <1>4, <1>6, <1>7, <1>8, LegKeepsSolvent, Zenon
<1>9. Even(b, c, e)
  <2>1. ASSUME NEW id, NEW tier
        PROVE  BoughtBy(e, id, tier) =
                IF id = e.position THEN Held(e.lots, tier) - Held(LotsOf(b, id), tier) ELSE 0
    <3>1. CASE id = e.position
      <4>1. LotsOf(b, id) = <<>>
        BY <1>1, <3>1 DEF LotsOf
      <4>2. Sized(HeldLots)
        BY LotTypes DEF Sized
      <4>3. Held(LotsOf(b, id), tier) = 0 /\ Held(e.lots, tier) \in Nat
        BY <1>2, <4>1, <4>2, HeldOf, HeldOfParts
      <4> QED BY <3>1, <4>3 DEF BoughtBy
    <3>2. CASE id # e.position
      BY <3>2 DEF BoughtBy
    <3> QED BY <3>1, <3>2
  <2> QED BY <1>2, <1>3, <2>1, BuyIsEven
<1>10. Tidy(c)
  <2>1. RowsAreSold(c.closedBook) /\ c.skipped = b.skipped
    BY <1>3 DEF Tidy, Settles
  <2> QED BY <1>2, <1>3, <2>1, StaysTidy, Zenon
<1> QED BY <1>8, <1>9, <1>10 DEF Keeps

LEMMA AddKeeps ==
    ASSUME NEW b, IsBook(b), Tidy(b), NEW e, IsEvent(e), NEW at, e.type = "PositionAddedTo",
           Admits(b, e), NEW c, c = AddedTo(b, e, at), LivesOn(b, c, e)
    PROVE  Keeps(b, c, e)
<1> DEFINE deltas == DeltasForOpen(<<e.lot>>, e.amount)
           held == LotsOf(b, e.position)
           lots == Append(held, e.lot)
<1>1. /\ e.amount \in Nat \ {0} /\ e.reserve \in DOMAIN b.reserves
      /\ e.position \in DOMAIN b.positions /\ CheckFunding(b, e, <<e.lot>>)
  BY DEF Admits, CashVerbs, NamedBy
<1>2. e.lot \in HeldLots /\ <<e.lot>> \in Seq(HeldLots) /\ <<e.lot>> \in Seq(SoldLots)
  <2>1. e.lot \in HeldLots
    BY DEF IsEvent
  <2>2. <<e.lot>> \in Seq(HeldLots)
    BY <2>1
  <2> QED BY <2>1, <2>2, HeldAreSold, Zenon
<1>3. /\ deltas # <<>> /\ deltas \in Seq(Deltas) /\ Settles(b, c, e.reserve, deltas)
      /\ Holding(b, c, e.position, lots) /\ c.closedBook = b.closedBook
  BY <1>1, AddSettles
<1>4. Spread(deltas) /\ (Len(deltas) > 1 => OfSeveralTiers(<<e.lot>>))
  BY <1>1, <1>2, DeltasSpread, Zenon DEF DeltasForOpen
<1>5. \A i \in DOMAIN deltas : CheckDebit(b, e.reserve, deltas[i].tier, -deltas[i].amount)
  BY <1>1 DEF CheckFunding
<1>6. ~OfSeveralTiers(<<e.lot>>)
  BY DEF OfSeveralTiers, ToSet
<1>7. held \in Seq(HeldLots)
  BY LotsOfBook
<1>8. lots \in Seq(HeldLots) /\ lots # <<>> /\ lots = held \o <<e.lot>>
  <2> HIDE DEF held
  <2> QED BY <1>2, <1>7
<1> HIDE DEF deltas, lots, held
<1>9. \A i \in DOMAIN deltas : Covers(b.reserves[e.reserve], deltas[i])
  BY <1>3, <1>5, DebitCovers, LineType, Zenon
<1>10. ASSUME NEW paid, SolventWith(b, paid) PROVE SolventWith(c, paid \cup PaidBy(e))
  BY <1>1, <1>3, <1>4, <1>6, <1>9, <1>10, LegKeepsSolvent, Zenon
<1>11. Even(b, c, e)
  <2>1. ASSUME NEW id, NEW tier
        PROVE  BoughtBy(e, id, tier) =
                IF id = e.position THEN Held(lots, tier) - Held(LotsOf(b, id), tier) ELSE 0
    <3>1. CASE id = e.position
      <4>1. Sized(HeldLots)
        BY LotTypes DEF Sized
      <4>2. Held(lots, tier) = Held(held, tier) + Held(<<e.lot>>, tier)
        BY <1>2, <1>7, <1>8, <4>1, HeldOfBoth, Zenon
      <4>3. Held(held, tier) \in Nat
        BY <1>7, <4>1, HeldOf
      <4>4. Held(<<e.lot>>, tier) \in Nat
        BY <1>2, <4>1, HeldOf, Zenon
      <4>5. BoughtBy(e, id, tier) = Held(<<e.lot>>, tier)
        BY <3>1 DEF BoughtBy
      <4>6. LotsOf(b, id) = held
        BY <3>1 DEF held
      <4> QED BY <3>1, <4>2, <4>3, <4>4, <4>5, <4>6
    <3>2. CASE id # e.position
      BY <3>2 DEF BoughtBy
    <3> QED BY <3>1, <3>2
  <2> QED BY <1>3, <1>8, <2>1, BuyIsEven, Zenon
<1>12. Tidy(c)
  <2>1. RowsAreSold(c.closedBook) /\ c.skipped = b.skipped
    BY <1>3 DEF Tidy, Settles
  <2> QED BY <1>3, <1>8, <2>1, StaysTidy, Zenon
<1> QED BY <1>10, <1>11, <1>12 DEF Keeps


LEMMA SaleCovers ==
    ASSUME NEW b, IsBook(b), NEW c, NEW e, e.type \in Sales, NEW lots \in Seq(SoldLots),
           e.amount \in Nat, e.reserve \in DOMAIN b.reserves, NEW deltas \in Seq(Deltas),
           deltas = DeltasForClose(lots, e.amount), Settles(b, c, e.reserve, deltas),
           NEW paid, SolventWith(b, paid)
    PROVE  SolventWith(c, paid \cup PaidBy(e))
<1>1. Spread(deltas) /\ \A i \in DOMAIN deltas : deltas[i].amount >= 0
  BY DeltasSpread DEF DeltasForClose
<1>2. \A i \in DOMAIN deltas : Covers(b.reserves[e.reserve], deltas[i])
  BY <1>1 DEF Covers
<1> QED BY <1>1, <1>2, LegKeepsSolvent, Zenon

LEMMA CloseKeeps ==
    ASSUME NEW b, IsBook(b), Tidy(b), NEW e, IsEvent(e), NEW at, e.type = "PositionClosed",
           Admits(b, e), NEW c, c = Closed(b, e, at), LivesOn(b, c, e)
    PROVE  Keeps(b, c, e)
<1> DEFINE lots == LotsOf(b, e.position)
           deltas == DeltasForClose(lots, e.amount)
<1>1. /\ e.amount \in Nat \ {0} /\ e.reserve \in DOMAIN b.reserves
      /\ e.position \in DOMAIN b.positions /\ e.type \in Sales
  BY DEF Admits, CashVerbs, NamedBy, Sales
<1>2. lots # <<>>
  BY <1>1 DEF Tidy
<1>3. /\ lots \in Seq(SoldLots) /\ deltas # <<>> /\ deltas \in Seq(Deltas)
      /\ Settles(b, c, e.reserve, deltas) /\ Holding(b, c, e.position, <<>>)
      /\ \E row : /\ row.position = e.position /\ row.lots = lots
                  /\ c.closedBook = Append(b.closedBook, row)
  BY <1>1, <1>2, CloseSettles
<1>4. PICK row : /\ row.position = e.position /\ row.lots = lots
                 /\ c.closedBook = Append(b.closedBook, row)
  BY <1>3
<1>5. \A tier : Held(<<>>, tier) = Held(lots, tier) - Held(row.lots, tier)
  <2> SUFFICES ASSUME NEW tier PROVE Held(<<>>, tier) = Held(lots, tier) - Held(row.lots, tier)
    OBVIOUS
  <2>1. Sized(HeldLots)
    BY LotTypes DEF Sized
  <2>2. Held(<<>>, tier) = 0
    BY <2>1, HeldOfParts
  <2>3. Held(lots, tier) \in Nat
    BY LotsOfBook
  <2> QED BY <1>4, <2>2, <2>3
<1>6. <<>> \in Seq(HeldLots)
  BY EmptyLog
<1> HIDE DEF deltas
<1>7. Even(b, c, e) /\ RowsAreSold(c.closedBook)
  BY <1>1, <1>3, <1>4, <1>5, <1>6, SaleIsEven, Zenon
<1>8. ASSUME NEW paid, SolventWith(b, paid) PROVE SolventWith(c, paid \cup PaidBy(e))
  BY <1>1, <1>3, <1>8, SaleCovers DEF deltas
<1>9. Tidy(c)
  <2>1. c.skipped = b.skipped
    BY <1>3 DEF Settles
  <2> QED BY <1>1, <1>3, <1>7, <2>1, StaysTidy, Zenon
<1> QED BY <1>7, <1>8, <1>9 DEF Keeps

LEMMA TrimKeeps ==
    ASSUME NEW b, IsBook(b), Tidy(b), NEW e, IsEvent(e), NEW at, e.type = "PositionTrimmed",
           Admits(b, e), NEW c, c = Trimmed(b, e, at), LivesOn(b, c, e)
    PROVE  Keeps(b, c, e)
<1> DEFINE lots == LotsOf(b, e.position)
           split == SplitRemovals(lots, e.removals)
           deltas == DeltasForClose(split.removed, e.amount)
<1>1. /\ e.amount \in Nat \ {0} /\ e.reserve \in DOMAIN b.reserves
      /\ e.position \in DOMAIN b.positions /\ e.type \in Sales
  BY DEF Admits, CashVerbs, NamedBy, Sales
<1>2. /\ e.removals \in Seq(Removals) /\ e.removals # <<>>
      /\ \A tier \in Tiers : Held(e.removals, tier) <= Held(lots, tier)
      /\ Quantity(e.removals) < Quantity(lots)
  BY DEF Admits
<1>3. lots \in Seq(HeldLots)
  BY LotsOfBook
<1>4. /\ split.removed \in Seq(SoldLots) /\ split.removed # <<>>
      /\ split.remaining \in Seq(HeldLots) /\ split.remaining # <<>>
      /\ \A tier : /\ Held(split.removed, tier) = Held(e.removals, tier)
                   /\ Held(split.remaining, tier) = Held(lots, tier) - Held(e.removals, tier)
  <2> HIDE DEF lots
  <2> QED BY <1>2, <1>3, TrimLeaves
<1>5. /\ deltas # <<>> /\ deltas \in Seq(Deltas) /\ Settles(b, c, e.reserve, deltas)
      /\ Holding(b, c, e.position, split.remaining)
      /\ \E row : /\ row.position = e.position /\ row.lots = split.removed
                  /\ c.closedBook = Append(b.closedBook, row)
  BY <1>1, <1>2, TrimSettles
<1> HIDE DEF deltas, split
<1>6. PICK row : /\ row.position = e.position /\ row.lots = split.removed
                 /\ c.closedBook = Append(b.closedBook, row)
  BY <1>5
<1>7. \A tier : Held(split.remaining, tier) = Held(lots, tier) - Held(row.lots, tier)
  BY <1>4, <1>6
<1>8. row.lots \in Seq(SoldLots)
  BY <1>4, <1>6
<1>9. Even(b, c, e) /\ RowsAreSold(c.closedBook)
  BY <1>1, <1>4, <1>5, <1>6, <1>7, <1>8, SaleIsEven, Zenon
<1>10. ASSUME NEW paid, SolventWith(b, paid) PROVE SolventWith(c, paid \cup PaidBy(e))
  BY <1>1, <1>4, <1>5, <1>10, SaleCovers DEF deltas
<1>11. Tidy(c)
  <2>1. c.skipped = b.skipped
    BY <1>5 DEF Settles
  <2> QED BY <1>1, <1>4, <1>5, <1>9, <2>1, StaysTidy, Zenon
<1> QED BY <1>9, <1>10, <1>11 DEF Keeps

LEMMA OneDelta ==
    ASSUME NEW tier \in Tiers, NEW amount \in Int, NEW deltas,
           deltas = << [tier |-> tier, amount |-> amount] >>
    PROVE  /\ deltas \in Seq(Deltas) /\ Spread(deltas) /\ Len(deltas) = 1
           /\ \A i \in DOMAIN deltas : deltas[i] = [tier |-> tier, amount |-> amount]
<1>1. [tier |-> tier, amount |-> amount] \in Deltas
  BY DEF Deltas
<1> QED BY <1>1 DEF Spread

LEMMA CreditSettles ==
    ASSUME NEW b, IsBook(b), NEW id \in DOMAIN b.reserves, NEW deltas, NEW c,
           c = ApplyToReserve(b, id, deltas)
    PROVE  Settles(b, c, id, deltas) /\ c.positions = b.positions /\ c.closedBook = b.closedBook
<1>1. DOMAIN b = BookFields
  BY DEF IsBook
<1> QED BY <1>1 DEF Settles, ApplyToReserve, BookFields

\* A leg that the gate covered, to or from a reserve the event names.
LEMMA LegKeeps ==
    ASSUME NEW b, IsBook(b), NEW id \in DOMAIN b.reserves, NEW tier \in Tiers,
           NEW amount \in Int, amount >= 0 \/ CheckDebit(b, id, tier, -amount),
           NEW c, c = ApplyToReserve(b, id, << [tier |-> tier, amount |-> amount] >>),
           NEW paid, SolventWith(b, paid)
    PROVE  SolventWith(c, paid)
<1> DEFINE deltas == << [tier |-> tier, amount |-> amount] >>
<1>0. deltas = << [tier |-> tier, amount |-> amount] >>
  OBVIOUS
<1>2. Settles(b, c, id, deltas)
  BY CreditSettles
<1> HIDE DEF deltas
<1>1. /\ deltas \in Seq(Deltas) /\ Spread(deltas) /\ Len(deltas) = 1
      /\ \A i \in DOMAIN deltas : deltas[i] = [tier |-> tier, amount |-> amount]
  <2>1. deltas \in Seq(Deltas)
    BY <1>0, OneDelta
  <2>2. Spread(deltas)
    BY <1>0, OneDelta
  <2>3. Len(deltas) = 1
    BY <1>0, OneDelta
  <2>4. \A i \in DOMAIN deltas : deltas[i] = [tier |-> tier, amount |-> amount]
    BY <1>0, OneDelta
  <2> QED BY <2>1, <2>2, <2>3, <2>4
<1>3. \A i \in DOMAIN deltas : Covers(b.reserves[id], deltas[i])
  <2> SUFFICES ASSUME NEW i \in DOMAIN deltas PROVE Covers(b.reserves[id], deltas[i])
    OBVIOUS
  <2>1. deltas[i] \in Deltas /\ deltas[i].tier = tier /\ deltas[i].amount = amount
    BY <1>1 DEF Deltas
  <2> QED BY <2>1, DebitCovers, Zenon
<1>4. SolventWith(c, paid \cup {})
  <2>1. deltas \in Seq(Deltas) /\ Spread(deltas) /\ ~(Len(deltas) > 1)
    BY <1>1
  <2> QED BY <1>2, <1>3, <2>1, LegKeepsSolvent, Zenon
<1>5. paid \cup {} = paid
  OBVIOUS
<1> QED BY <1>4, <1>5

LEMMA MoveKeeps ==
    ASSUME NEW b, IsBook(b), Tidy(b), NEW e, IsEvent(e), NEW at,
           e.type \in {"Deposit", "Withdraw"}, Admits(b, e), NEW c,
           NEW amount, amount = IF e.type = "Deposit" THEN e.amount ELSE -e.amount,
           c = Moved(b, e, at, amount)
    PROVE  Keeps(b, c, e)
<1> DEFINE deltas == << [tier |-> e.tier, amount |-> amount] >>
<1>1. /\ e.amount \in Nat \ {0} /\ e.reserve \in DOMAIN b.reserves /\ e.tier \in Tiers
      /\ e.type = "Withdraw" => CheckDebit(b, e.reserve, e.tier, e.amount)
  BY DEF Admits, CashVerbs, NamedBy, IsEvent
<1>2. c = ApplyToReserve(b, e.reserve, deltas)
  BY <1>1 DEF Moved
<1>3. Settles(b, c, e.reserve, deltas) /\ c.positions = b.positions /\ c.closedBook = b.closedBook
  BY <1>1, <1>2, CreditSettles
<1>4. c.skipped = b.skipped
  BY <1>3 DEF Settles
<1>5. Tidy(c) /\ Even(b, c, e)
  BY <1>3, <1>4, NothingMoves
<1>6. amount \in Int /\ (amount >= 0 \/ CheckDebit(b, e.reserve, e.tier, -amount))
  <2>1. CASE e.type = "Deposit"
    BY <1>1, <2>1
  <2>2. CASE e.type # "Deposit"
    <3>1. amount = -e.amount /\ -amount = e.amount /\ amount \in Int
      BY <1>1, <2>2
    <3> QED BY <1>1, <2>2, <3>1
  <2> QED BY <2>1, <2>2
<1>7. ASSUME NEW paid, SolventWith(b, paid) PROVE SolventWith(c, paid \cup PaidBy(e))
  <2>1. SolventWith(c, paid)
    BY <1>1, <1>2, <1>6, <1>7, LegKeeps
  <2> QED BY <2>1, SolventStays
<1> QED BY <1>5, <1>7 DEF Keeps

LEMMA TransferKeeps ==
    ASSUME NEW b, IsBook(b), Tidy(b), NEW e, IsEvent(e), NEW at, e.type = "Transfer",
           Admits(b, e), NEW c, c = Transferred(b, e, at)
    PROVE  Keeps(b, c, e)
<1> DEFINE leg(amount) == << [tier |-> e.tier, amount |-> amount] >>
           half == ApplyToReserve(b, e.from, leg(-e.amount))
<1>1. /\ e.amount \in Nat \ {0} /\ e.reserve \in DOMAIN b.reserves /\ e.from \in DOMAIN b.reserves
      /\ e.tier \in Tiers /\ CheckDebit(b, e.from, e.tier, e.amount)
  BY DEF Admits, CashVerbs, NamedBy, IsEvent
<1>2. c = ApplyToReserve(half, e.reserve, leg(e.amount))
  BY <1>1 DEF Transferred
<1>3. -e.amount \in Int /\ e.amount \in Int /\ -(-e.amount) = e.amount
  BY <1>1
<1>4. IsBook(half) /\ DOMAIN half.reserves = DOMAIN b.reserves
  <2>1. leg(-e.amount) \in Seq(Deltas) /\ Total([i \in DOMAIN leg(-e.amount) |-> leg(-e.amount)[i].amount]) = -e.amount
    BY <1>1, <1>3, OneLeg
  <2> QED BY <1>1, <1>3, <2>1, Credits, Zenon
<1>5. /\ half.skipped = b.skipped /\ half.positions = b.positions
      /\ half.closedBook = b.closedBook
  <2>1. Settles(b, half, e.from, leg(-e.amount)) /\ half.positions = b.positions
        /\ half.closedBook = b.closedBook
    BY <1>1, CreditSettles
  <2> QED BY <2>1 DEF Settles
<1> HIDE DEF half
<1>6. /\ c.skipped = b.skipped /\ c.positions = b.positions /\ c.closedBook = b.closedBook
  <2>1. Settles(half, c, e.reserve, leg(e.amount)) /\ c.positions = half.positions
        /\ c.closedBook = half.closedBook
    BY <1>1, <1>2, <1>4, CreditSettles
  <2> QED BY <1>5, <2>1 DEF Settles
<1>7. Tidy(c) /\ Even(b, c, e)
  BY <1>6, NothingMoves
<1>8. ASSUME NEW paid, SolventWith(b, paid) PROVE SolventWith(c, paid \cup PaidBy(e))
  <2>1. CheckDebit(b, e.from, e.tier, -(-e.amount))
    BY <1>1, <1>3
  <2>2. SolventWith(half, paid)
    BY <1>1, <1>3, <1>8, <2>1, LegKeeps DEF half
  <2>3. e.amount >= 0
    BY <1>1
  <2>4. SolventWith(c, paid)
    BY <1>1, <1>2, <1>3, <1>4, <2>2, <2>3, LegKeeps
  <2> QED BY <2>4, SolventStays
<1> QED BY <1>7, <1>8 DEF Keeps

\* A mark and a level move neither cash nor lots.
LEMMA MarkKeeps ==
    ASSUME NEW b, IsBook(b), Tidy(b), NEW e, e.type \in {"PriceMarked", "InvalidationMarked"},
           NEW c, c.positions = b.positions, c.closedBook = b.closedBook,
           c.skipped = b.skipped, c.reserves = b.reserves
    PROVE  Keeps(b, c, e)
<1>1. Tidy(c) /\ Even(b, c, e)
  BY NothingMoves
<1>2. ASSUME NEW paid, SolventWith(b, paid) PROVE SolventWith(c, paid \cup PaidBy(e))
  <2>1. SolventWith(c, paid)
    BY <1>2 DEF SolventWith
  <2> QED BY <2>1, SolventStays
<1> QED BY <1>1, <1>2 DEF Keeps

LEMMA ReserveKeeps ==
    ASSUME NEW b, IsBook(b), Tidy(b), NEW e, e.type = "ReserveOpened", NEW c,
           c = ReserveOpened(b, e)
    PROVE  Keeps(b, c, e)
<1> DEFINE r == CapitalRecordBase(e, 0, <<>>)
<1>1. /\ c.positions = b.positions /\ c.closedBook = b.closedBook /\ c.skipped = b.skipped
      /\ c.reserves = Put(b.reserves, e.reserve, r)
  BY DEF ReserveOpened, IsBook, BookFields
<1>2. Tidy(c) /\ Even(b, c, e)
  BY <1>1, NothingMoves, Zenon
<1>3. r.amount = 0 /\ r.lots = <<>>
  BY DEF CapitalRecordBase
<1> HIDE DEF r
<1>4. \A paid : Sound(r, paid)
  <2>1. <<>> \in TierMaps /\ Stocks(<<>>) = 0
    BY TierMapsType DEF Stocks, Stock
  <2>2. AddsUp(r)
    <3>1. Total([k \in DOMAIN TIERS |-> Stock(<<>>, TIERS[k])]) = 0
      BY <2>1, StocksAddUp
    <3> QED BY <1>3, <3>1 DEF AddsUp
  <2>3. \A tier \in DOMAIN r.lots : r.lots[tier] >= 0
    BY <1>3
  <2> QED BY <1>3, <2>2, <2>3 DEF Sound
<1>5. ASSUME NEW paid, SolventWith(b, paid) PROVE SolventWith(c, paid \cup PaidBy(e))
  <2>1. SolventWith(c, paid)
    <3> SUFFICES ASSUME NEW id \in DOMAIN c.reserves PROVE Sound(c.reserves[id], id \in paid)
      BY DEF SolventWith
    <3>1. CASE id = e.reserve
      <4>1. c.reserves[id] = r
        BY <1>1, <3>1 DEF Put
      <4> QED BY <1>4, <4>1
    <3>2. CASE id # e.reserve
      <4>1. id \in DOMAIN b.reserves /\ c.reserves[id] = b.reserves[id]
        BY <1>1, <3>2 DEF Put
      <4> QED BY <1>5, <4>1 DEF SolventWith
    <3> QED BY <3>1, <3>2
  <2> QED BY <2>1, SolventStays
<1> QED BY <1>2, <1>5 DEF Keeps

\* The handlers, together.
LEMMA ApplyKeeps ==
    ASSUME NEW b, IsBook(b), Tidy(b), NEW e, IsEvent(e), NEW at, Admits(b, e),
           NEW c, c = Apply(b, [at |-> at, event |-> e])
    PROVE  IsBook(c) /\ Keeps(b, c, e)
<1>1. IsStep(b, c, e, at)
  <2> DEFINE entry == [at |-> at, event |-> e]
  <2>1. entry.event = e /\ entry.at = at
    OBVIOUS
  <2>2. e.type = "ReserveOpened" => e.reserve \notin DOMAIN b.reserves
    BY DEF Admits
  <2> HIDE DEF entry
  <2>3. IsStep(b, Apply(b, entry), entry.event, entry.at)
    BY <2>1, <2>2, ApplyIsStep
  <2> QED BY <2>1, <2>3 DEF entry
<1>2. IsBook(c)
  BY <1>1 DEF IsStep
<1>3. ASSUME c.skipped = b.skipped PROVE LivesOn(b, c, e)
  <2>1. ~IsDiscarded(b, c, e, at)
    BY <1>3, Zenon DEF IsDiscarded, Tidy
  <2> QED BY <1>1, <2>1 DEF IsStep, IsApplied
<1>4. CASE e.type = "PositionOpened"
  <2>1. c = Opened(b, e, at)
    BY <1>4 DEF Apply
  <2>2. e.reserve \in DOMAIN b.reserves
    BY <1>4 DEF Admits, CashVerbs, NamedBy
  <2>3. c.skipped = b.skipped
    <3>1. Settles(b, Opened(b, e, at), e.reserve, DeltasForOpen(e.lots, e.amount))
      BY <1>4, <2>2, OpenSettles
    <3> QED BY <2>1, <3>1 DEF Settles
  <2> QED BY <1>2, <1>3, <1>4, <2>1, <2>3, OpenKeeps
<1>5. CASE e.type = "PositionClosed"
  <2>1. c = Closed(b, e, at)
    BY <1>5 DEF Apply
  <2>2. e.reserve \in DOMAIN b.reserves /\ e.position \in DOMAIN b.positions
    BY <1>5 DEF Admits, CashVerbs, NamedBy, Sales
  <2>3. LotsOf(b, e.position) # <<>>
    BY <2>2 DEF Tidy
  <2>4. c.skipped = b.skipped
    <3>1. Settles(b, Closed(b, e, at), e.reserve,
                  DeltasForClose(LotsOf(b, e.position), e.amount))
      BY <1>5, <2>2, <2>3, CloseSettles
    <3> QED BY <2>1, <3>1 DEF Settles
  <2> QED BY <1>2, <1>3, <1>5, <2>1, <2>4, CloseKeeps
<1>6. CASE e.type = "PositionTrimmed"
  <2>1. c = Trimmed(b, e, at)
    BY <1>6 DEF Apply
  <2>2. e.reserve \in DOMAIN b.reserves /\ e.position \in DOMAIN b.positions
    BY <1>6 DEF Admits, CashVerbs, NamedBy, Sales
  <2>3. /\ e.removals \in Seq(Removals) /\ e.removals # <<>>
        /\ \A tier \in Tiers : Held(e.removals, tier) <= Held(LotsOf(b, e.position), tier)
        /\ Quantity(e.removals) < Quantity(LotsOf(b, e.position))
    BY <1>6 DEF Admits
  <2>4. c.skipped = b.skipped
    <3> DEFINE lots == LotsOf(b, e.position)
    <3>1. Settles(b, Trimmed(b, e, at), e.reserve,
                  DeltasForClose(SplitRemovals(lots, e.removals).removed, e.amount))
      BY <1>6, <2>2, <2>3, TrimSettles
    <3> QED BY <2>1, <3>1 DEF Settles
  <2> QED BY <1>2, <1>3, <1>6, <2>1, <2>4, TrimKeeps
<1>7. CASE e.type = "PositionAddedTo"
  <2>1. c = AddedTo(b, e, at)
    BY <1>7 DEF Apply
  <2>2. e.reserve \in DOMAIN b.reserves /\ e.position \in DOMAIN b.positions
    BY <1>7 DEF Admits, CashVerbs, NamedBy, Sales
  <2>3. c.skipped = b.skipped
    <3>1. Settles(b, AddedTo(b, e, at), e.reserve, DeltasForOpen(<<e.lot>>, e.amount))
      BY <1>7, <2>2, AddSettles
    <3> QED BY <2>1, <3>1 DEF Settles
  <2> QED BY <1>2, <1>3, <1>7, <2>1, <2>3, AddKeeps
<1>8. CASE e.type = "Deposit"
  <2>1. c = Moved(b, e, at, e.amount)
    BY <1>8 DEF Apply
  <2> QED BY <1>2, <1>8, <2>1, MoveKeeps
<1>9. CASE e.type = "Withdraw"
  <2>1. c = Moved(b, e, at, -e.amount)
    BY <1>9 DEF Apply
  <2> QED BY <1>2, <1>9, <2>1, MoveKeeps
<1>10. CASE e.type = "Transfer"
  <2>1. c = Transferred(b, e, at)
    BY <1>10 DEF Apply
  <2> QED BY <1>2, <1>10, <2>1, TransferKeeps
<1>11. CASE e.type = "PriceMarked"
  <2>1. c = PriceMarked(b, e)
    BY <1>11 DEF Apply
  <2>2. /\ c.positions = b.positions /\ c.closedBook = b.closedBook
        /\ c.skipped = b.skipped /\ c.reserves = b.reserves
    BY <2>1, Zenon DEF PriceMarked, IsBook, BookFields
  <2> QED BY <1>2, <1>11, <2>2, MarkKeeps
<1>12. CASE e.type = "InvalidationMarked"
  <2>1. c = InvalidationMarked(b, e, at)
    BY <1>12 DEF Apply
  <2>2. /\ c.positions = b.positions /\ c.closedBook = b.closedBook
        /\ c.skipped = b.skipped /\ c.reserves = b.reserves
    BY <2>1 DEF InvalidationMarked, IsBook, BookFields
  <2> QED BY <1>2, <1>12, <2>2, MarkKeeps
<1>13. CASE e.type = "ReserveOpened"
  <2>1. c = ReserveOpened(b, e)
    BY <1>13 DEF Apply
  <2> QED BY <1>2, <1>13, <2>1, ReserveKeeps
<1> QED BY <1>4, <1>5, <1>6, <1>7, <1>8, <1>9, <1>10, <1>11, <1>12, <1>13 DEF IsEvent, CashVerbs
----------------------------------------------------------------------------
(* The inductive invariant.                                                *)

IInv ==
    /\ Admissible(log)
    /\ book = FoldEvents(log)
    /\ CloseWasDiscarded \/ ClosesLast(log)

LEMMA BookIsFold ==
    ASSUME IInv
    PROVE  IsFoldOf(book, log, DOMAIN log)
<1>1. Admissible(log) /\ book = FoldEventsAsOf(log, MaxDate) /\ MaxDate \in Nat
  BY CandidatesAssumption DEF IInv, FoldEvents
<1>2. \A i \in DOMAIN log : log[i].asOf <= MaxDate
  <2>1. \A i \in DOMAIN log : log[i].asOf \in 1 .. MaxDate
    BY <1>1, DatesType DEF Admissible
  <2> QED BY <1>1, <2>1
<1>3. UpTo(log, MaxDate) = DOMAIN log
  BY <1>2 DEF UpTo
<1>4. IsFoldOf(FoldEventsAsOf(log, MaxDate), log, UpTo(log, MaxDate))
  BY <1>1, FoldIs
<1> QED BY <1>1, <1>3, <1>4

\* The ids the gate knows are the ids of the seed and of the events.
LEMMA KnownAreNamed ==
    ASSUME NEW b, NEW events, NEW places, IsFoldOf(b, events, places)
    PROVE  PositionIds(b) = Named(events, places)
<1>1. LivesOf(b, events, places)
  BY DEF IsFoldOf
<1>2. ASSUME NEW id \in PositionIds(b) PROVE id \in Named(events, places)
  <2>1. CASE id \in DOMAIN b.positions
    BY <1>1, <2>1 DEF LivesOf, OpenOnes
  <2>2. CASE \E r \in ToSet(b.closedBook) : id = r.position
    <3>1. PICK i \in DOMAIN b.closedBook : id = b.closedBook[i].position
      BY <2>2 DEF ToSet
    <3> QED BY <1>1, <3>1 DEF LivesOf, RowsTell, IsRow
  <2> QED BY <2>1, <2>2 DEF PositionIds
<1>3. ASSUME NEW id \in Named(events, places) PROVE id \in PositionIds(b)
  <2>1. CASE id \in DOMAIN b.positions
    BY <2>1 DEF PositionIds
  <2>2. CASE id \notin DOMAIN b.positions
    <3>1. PICK j \in Standing(b, places) : Closing(events[j], id)
      BY <1>1, <1>3, <2>2 DEF LivesOf, OpenOnes
    <3>2. PICK i \in DOMAIN b.closedBook : b.closedBook[i].position = id
      BY <1>1, <3>1 DEF LivesOf, ClosesOf, Closing
    <3> QED BY <3>2 DEF PositionIds, ToSet
  <2> QED BY <2>1, <2>2
<1> QED BY <1>2, <1>3

\* A position the gate says was born by a day was opened by then.
LEMMA BornByThen ==
    ASSUME NEW b, NEW events, NEW places, IsFoldOf(b, events, places),
           NEW id \in PositionIds(b) \ IdsOf(Genesis.positions)
    PROVE  \E i \in places : Opens(events[i], id) /\ PositionBornAsOf(b, id) = events[i].asOf
<1>1. LivesOf(b, events, places)
  BY DEF IsFoldOf
<1>2. CASE id \in DOMAIN b.positions
  <2>1. PICK i \in places : Opens(events[i], id) /\ IsAged(b.positions[id], events[i].asOf)
    BY <1>1, <1>2 DEF LivesOf, AgesOf
  <2> QED BY <1>2, <2>1 DEF PositionBornAsOf, IsAged
<1>3. CASE id \notin DOMAIN b.positions
  <2> DEFINE r == CHOOSE x \in ToSet(b.closedBook) : x.position = id
  <2>1. \E x \in ToSet(b.closedBook) : x.position = id
    BY <1>3 DEF PositionIds
  <2>2. r \in ToSet(b.closedBook) /\ r.position = id
    BY <2>1
  <2>3. PositionBornAsOf(b, id) = r.openedAsOf
    BY <1>3 DEF PositionBornAsOf
  <2> HIDE DEF r
  <2>4. IsRow(r, events, places, Standing(b, places))
    BY <1>1, <2>2 DEF LivesOf, RowsTell, ToSet
  <2> QED BY <2>2, <2>3, <2>4 DEF IsRow
<1> QED BY <1>2, <1>3

LEMMA MinOfOne ==
    ASSUME NEW x \in Int
    PROVE  Min({x}) = x
BY DEF Min

\* What an accepted line adds to the log.
LEMMA OneMoreEvent ==
    ASSUME NEW events, Parsed(events), NEW e \in Candidates, ParsesEvent(e)
    PROVE  /\ Parsed(Append(events, e)) /\ Len(events) \in Nat
           /\ DOMAIN Append(events, e) = DOMAIN events \cup {Len(events) + 1}
           /\ DOMAIN events = 1 .. Len(events) /\ Len(Append(events, e)) = Len(events) + 1
           /\ Append(events, e)[Len(events) + 1] = e
           /\ \A i \in DOMAIN events : Append(events, e)[i] = events[i]
<1>1. events \in Seq(Candidates) /\ \A i \in DOMAIN events : ParsesEvent(events[i])
  BY DEF Parsed
<1>2. /\ Append(events, e) \in Seq(Candidates) /\ Len(events) \in Nat
      /\ DOMAIN events = 1 .. Len(events) /\ Len(Append(events, e)) = Len(events) + 1
      /\ DOMAIN Append(events, e) = DOMAIN events \cup {Len(events) + 1}
      /\ Append(events, e)[Len(events) + 1] = e
      /\ \A i \in DOMAIN events : Append(events, e)[i] = events[i]
  BY <1>1
<1>3. \A i \in DOMAIN Append(events, e) : ParsesEvent(Append(events, e)[i])
  BY <1>1, <1>2
<1> QED BY <1>2, <1>3 DEF Parsed

\* What an event must have passed to be accepted, verb by verb.
LEMMA Judgement ==
    ASSUME NEW b, NEW events, NEW e, Accepts(b, events, e)
    PROVE  /\ e.type = "PositionOpened" =>
                /\ e.position \notin PositionIds(b)
                /\ ReserveBornBy(b, events, e.reserve, e.asOf)
           /\ e.type = "PositionClosed" =>
                /\ PositionBornBy(b, e) /\ ~IsRetired(b, e.position) /\ UntouchedAfter(events, e)
                /\ ReserveBornBy(b, events, e.reserve, e.asOf)
           /\ e.type \in {"PositionTrimmed", "PositionAddedTo"} =>
                /\ PositionBornBy(b, e) /\ BeforeRetirement(b, e)
                /\ ReserveBornBy(b, events, e.reserve, e.asOf)
           /\ e.type = "InvalidationMarked" => PositionBornBy(b, e) /\ ~IsRetired(b, e.position)
           /\ e.type \in {"Deposit", "Withdraw"} => ReserveBornBy(b, events, e.reserve, e.asOf)
           /\ e.type = "Transfer" => /\ ReserveBornBy(b, events, e.reserve, e.asOf)
                                     /\ ReserveBornBy(b, events, e.from, e.asOf)
           /\ e.type = "ReserveOpened" => e.reserve \notin DOMAIN b.reserves
<1>1. ASSUME e.type = "PositionOpened" PROVE AcceptsOpened(b, events, e)
  BY <1>1 DEF Accepts
<1>2. ASSUME e.type = "PositionClosed" PROVE AcceptsClosed(b, events, e)
  BY <1>2 DEF Accepts
<1>3. ASSUME e.type = "PositionTrimmed" PROVE AcceptsTrimmed(b, events, e)
  BY <1>3 DEF Accepts
<1>4. ASSUME e.type = "PositionAddedTo" PROVE AcceptsAddedTo(b, events, e)
  BY <1>4 DEF Accepts
<1>5. ASSUME e.type = "InvalidationMarked" PROVE AcceptsInvalidation(b, e)
  BY <1>5 DEF Accepts
<1>6. ASSUME e.type = "Deposit" PROVE AcceptsDeposit(b, events, e)
  BY <1>6 DEF Accepts
<1>7. ASSUME e.type = "Withdraw" PROVE AcceptsWithdraw(b, events, e)
  BY <1>7 DEF Accepts
<1>8. ASSUME e.type = "Transfer" PROVE AcceptsTransfer(b, events, e)
  BY <1>8 DEF Accepts
<1>9. ASSUME e.type = "ReserveOpened" PROVE AcceptsReserveOpened(b, e)
  BY <1>9 DEF Accepts
<1>10. e.type = "PositionOpened" =>
        e.position \notin PositionIds(b) /\ ReserveBornBy(b, events, e.reserve, e.asOf)
  BY <1>1 DEF AcceptsOpened
<1>11. e.type = "PositionClosed" =>
        /\ PositionBornBy(b, e) /\ ~IsRetired(b, e.position) /\ UntouchedAfter(events, e)
        /\ ReserveBornBy(b, events, e.reserve, e.asOf)
  BY <1>2 DEF AcceptsClosed
<1>12. e.type \in {"PositionTrimmed", "PositionAddedTo"} =>
        /\ PositionBornBy(b, e) /\ BeforeRetirement(b, e)
        /\ ReserveBornBy(b, events, e.reserve, e.asOf)
  BY <1>3, <1>4 DEF AcceptsTrimmed, AcceptsAddedTo
<1>13. e.type = "InvalidationMarked" => PositionBornBy(b, e) /\ ~IsRetired(b, e.position)
  BY <1>5 DEF AcceptsInvalidation
<1>14. e.type \in {"Deposit", "Withdraw"} => ReserveBornBy(b, events, e.reserve, e.asOf)
  BY <1>6, <1>7 DEF AcceptsDeposit, AcceptsWithdraw
<1>15. e.type = "Transfer" => /\ ReserveBornBy(b, events, e.reserve, e.asOf)
                              /\ ReserveBornBy(b, events, e.from, e.asOf)
  BY <1>8 DEF AcceptsTransfer
<1>16. e.type = "ReserveOpened" => e.reserve \notin DOMAIN b.reserves
  BY <1>9 DEF AcceptsReserveOpened
<1> QED BY <1>10, <1>11, <1>12, <1>13, <1>14, <1>15, <1>16

\* e is accepted to a log that folds to b.
IsAccepted(e, b, events) ==
    /\ Admissible(events) /\ IsFoldOf(b, events, DOMAIN events)
    /\ e \in Candidates /\ ParsesEvent(e) /\ Accepts(b, events, e)

\* A name is not opened again.
LEMMA StillBornOnce ==
    ASSUME NEW e, NEW b, NEW events, IsAccepted(e, b, events)
    PROVE  BornOnce(Append(events, e))
<1> DEFINE more == Append(events, e)
           n == Len(events) + 1
           places == DOMAIN events
<1>1. Parsed(events) /\ BornOnce(events) /\ e \in Candidates /\ ParsesEvent(e)
  BY DEF IsAccepted, Admissible
<1>2. DOMAIN more = places \cup {n} /\ more[n] = e /\ \A i \in places : more[i] = events[i]
  BY <1>1, OneMoreEvent
<1>3. IsFoldOf(b, events, places) /\ Accepts(b, events, e)
  BY DEF IsAccepted
<1> HIDE DEF more, n, places
<1>4. /\ IdsOf(Genesis.reserves) \subseteq DOMAIN b.reserves
      /\ \A i \in places : events[i].type = "ReserveOpened" =>
            events[i].reserve \in DOMAIN b.reserves
  BY <1>3 DEF IsFoldOf, CashOf
<1>5. /\ IdsOf(Genesis.positions) \subseteq PositionIds(b)
      /\ \A i \in places : events[i].type = "PositionOpened" =>
            events[i].position \in PositionIds(b)
  BY <1>3, KnownAreNamed DEF Named
<1>6. /\ e.type = "ReserveOpened" => e.reserve \notin DOMAIN b.reserves
      /\ e.type = "PositionOpened" => e.position \notin PositionIds(b)
  BY <1>3, Judgement
<1>7. ASSUME NEW i \in DOMAIN more, more[i].type = "ReserveOpened"
      PROVE  /\ more[i].reserve \notin IdsOf(Genesis.reserves)
             /\ \A j \in DOMAIN more : Founds(more[j], more[i].reserve) => i = j
  <2>1. more[i].reserve \notin IdsOf(Genesis.reserves)
    BY <1>1, <1>2, <1>4, <1>6, <1>7 DEF BornOnce, places
  <2>2. ASSUME NEW j \in DOMAIN more, Founds(more[j], more[i].reserve) PROVE i = j
    BY <1>1, <1>2, <1>4, <1>6, <1>7, <2>2 DEF BornOnce, places, Founds
  <2> QED BY <2>1, <2>2
<1>8. ASSUME NEW i \in DOMAIN more, more[i].type = "PositionOpened"
      PROVE  /\ more[i].position \notin IdsOf(Genesis.positions)
             /\ \A j \in DOMAIN more : Opens(more[j], more[i].position) => i = j
  <2>1. more[i].position \notin IdsOf(Genesis.positions)
    BY <1>1, <1>2, <1>5, <1>6, <1>8 DEF BornOnce, places
  <2>2. ASSUME NEW j \in DOMAIN more, Opens(more[j], more[i].position) PROVE i = j
    BY <1>1, <1>2, <1>5, <1>6, <1>8, <2>2 DEF BornOnce, places, Opens
  <2> QED BY <2>1, <2>2
<1> QED BY <1>7, <1>8 DEF BornOnce, more

\* The reserve that an accepted event names is older than the event.
LEMMA ReserveIsOlder ==
    ASSUME NEW b, NEW events, Admissible(events), IsFoldOf(b, events, DOMAIN events),
           NEW id, NEW asOf, ReserveBornBy(b, events, id, asOf)
    PROVE  \/ id \in IdsOf(Genesis.reserves)
           \/ \E i \in DOMAIN events : Founds(events[i], id) /\ events[i].asOf <= asOf
<1> SUFFICES ASSUME id \notin IdsOf(Genesis.reserves)
             PROVE  \E i \in DOMAIN events : Founds(events[i], id) /\ events[i].asOf <= asOf
  OBVIOUS
<1> DEFINE births == { i \in DOMAIN events :
                        events[i].type = "ReserveOpened" /\ events[i].reserve = id }
<1>1. id \in DOMAIN b.reserves /\ asOf >= ReserveBornAsOf(events, id)
  BY DEF ReserveBornBy
<1>2. PICK i \in DOMAIN events : Founds(events[i], id)
  BY <1>1 DEF IsFoldOf, CashOf, Founds
<1>3. births = {i}
  BY <1>2 DEF Admissible, BornOnce, Founds
<1>4. i \in Int
  BY DEF Admissible, Parsed
<1>5. Max(births) = i /\ births # {}
  BY <1>3, <1>4, MaxOfOne
<1>6. ReserveBornAsOf(events, id) = events[i].asOf
  BY <1>5 DEF ReserveBornAsOf
<1>7. events[i].asOf <= asOf
  <2>1. asOf >= events[i].asOf
    BY <1>1, <1>6
  <2> QED BY <2>1
<1> QED BY <1>2, <1>7

\* What an accepted event names was opened before it.
LEMMA StillFounded ==
    ASSUME NEW e, NEW b, NEW events, IsAccepted(e, b, events)
    PROVE  Founded(Append(events, e))
<1> DEFINE more == Append(events, e)
           n == Len(events) + 1
           places == DOMAIN events
<1>1. /\ Admissible(events) /\ Parsed(events) /\ Founded(events)
      /\ e \in Candidates /\ ParsesEvent(e)
      /\ IsFoldOf(b, events, places) /\ Accepts(b, events, e)
  BY DEF IsAccepted, Admissible
<1>2. /\ Parsed(more) /\ DOMAIN more = places \cup {n} /\ more[n] = e
      /\ \A i \in places : more[i] = events[i]
      /\ places = 1 .. Len(events) /\ Len(events) \in Nat
  BY <1>1, OneMoreEvent, Zenon
<1> HIDE DEF more
<1>3. \A i, j \in places : Sooner(events, i, j) => Sooner(more, i, j)
  BY <1>2 DEF Sooner
<1>4. \A i \in places : events[i].asOf <= e.asOf => i \in Before(more, n)
  <2>1. \A i \in DOMAIN more : more[i].asOf \in Int
    BY <1>2, DatesType
  <2>2. \A i \in places : i < n
    BY <1>2
  <2> QED BY <1>2, <2>1, <2>2 DEF Before, Sooner
<1> HIDE DEF places, n
<1>5. \A p \in places : Before(events, p) \subseteq Before(more, p)
  BY <1>2, <1>3 DEF Before, places
<1>6. ASSUME NEW p \in DOMAIN more, more[p].type \in CashVerbs, NEW id \in NamedBy(more[p])
      PROVE  \/ id \in IdsOf(Genesis.reserves)
             \/ \E i \in Before(more, p) : Founds(more[i], id)
  <2>1. CASE p \in places
    <3>1. events[p].type \in CashVerbs /\ id \in NamedBy(events[p])
      BY <1>2, <1>6, <2>1
    <3>2. \/ id \in IdsOf(Genesis.reserves)
          \/ \E i \in Before(events, p) : Founds(events[i], id)
      BY <1>1, <2>1, <3>1 DEF Founded, places
    <3>3. \A i \in Before(events, p) : i \in places
      BY DEF Before, places
    <3> QED BY <1>2, <1>5, <2>1, <3>2, <3>3
  <2>2. CASE p = n
    <3>1. e.type \in CashVerbs /\ id \in NamedBy(e)
      BY <1>2, <1>6, <2>2
    <3>2. ReserveBornBy(b, events, id, e.asOf)
      BY <1>1, <3>1, Judgement DEF NamedBy, CashVerbs
    <3>3. \/ id \in IdsOf(Genesis.reserves)
          \/ \E i \in places : Founds(events[i], id) /\ events[i].asOf <= e.asOf
      BY <1>1, <3>2, ReserveIsOlder DEF places
    <3> QED BY <1>2, <1>4, <2>2, <3>3
  <2> QED BY <1>2, <2>1, <2>2
<1>7. ASSUME NEW p \in DOMAIN more, more[p].type \in Later
      PROVE  \/ more[p].position \in IdsOf(Genesis.positions)
             \/ \E i \in Before(more, p) : Opens(more[i], more[p].position)
  <2>1. CASE p \in places
    <3>1. \/ events[p].position \in IdsOf(Genesis.positions)
          \/ \E i \in Before(events, p) : Opens(events[i], events[p].position)
      BY <1>1, <1>2, <1>7, <2>1 DEF Founded, places
    <3>2. \A i \in Before(events, p) : i \in places
      BY DEF Before, places
    <3> QED BY <1>2, <1>5, <2>1, <3>1, <3>2
  <2>2. CASE p = n
    <3>1. e.type \in Later
      BY <1>2, <1>7, <2>2
    <3>2. PositionBornBy(b, e)
      BY <1>1, <3>1, Judgement DEF Later, PositionVerbs
    <3>3. CASE e.position \in IdsOf(Genesis.positions)
      BY <1>2, <2>2, <3>3
    <3>4. CASE e.position \notin IdsOf(Genesis.positions)
      <4>1. e.position \in PositionIds(b) \ IdsOf(Genesis.positions)
            /\ e.asOf >= PositionBornAsOf(b, e.position)
        BY <3>2, <3>4 DEF PositionBornBy
      <4>2. PICK i \in places : /\ Opens(events[i], e.position)
                                /\ PositionBornAsOf(b, e.position) = events[i].asOf
        BY <1>1, <4>1, BornByThen
      <4>3. events[i].asOf <= e.asOf
        BY <4>1, <4>2
      <4> QED BY <1>2, <1>4, <2>2, <4>2, <4>3
    <3> QED BY <3>3, <3>4
  <2> QED BY <1>2, <2>1, <2>2
<1> QED BY <1>6, <1>7, Zenon DEF Founded, more

\* A close that stands has retired its position, and on its own date only.
LEMMA RetiredOn ==
    ASSUME NEW b, NEW events, Parsed(events), IsFoldOf(b, events, DOMAIN events),
           NEW j \in Standing(b, DOMAIN events), NEW id, Closing(events[j], id)
    PROVE  IsRetired(b, id) /\ RetiredAsOf(b, id) = events[j].asOf
<1>1. PICK i \in DOMAIN b.closedBook :
        /\ b.closedBook[i].position = id /\ b.closedBook[i].closedAsOf = events[j].asOf
        /\ ~b.closedBook[i].partial
  BY DEF IsFoldOf, LivesOf, ClosesOf, Closing
<1> DEFINE row == b.closedBook[i]
<1>2. row \in RetiredRows(b, id)
  BY <1>1 DEF RetiredRows, ToSet
<1>3. \A r \in RetiredRows(b, id) : r = row
  <2>1. OnceClosed(b.closedBook)
    BY DEF IsFoldOf, LivesOf
  <2> QED BY <1>1, <2>1 DEF RetiredRows, ToSet, OnceClosed
<1>4. { r.closedAsOf : r \in RetiredRows(b, id) } = { events[j].asOf }
  BY <1>1, <1>2, <1>3
<1>5. events[j].asOf \in Int
  BY DatesType DEF Standing
<1>6. Min({ events[j].asOf }) = events[j].asOf
  BY <1>5, MinOfOne
<1> QED BY <1>2, <1>4, <1>6, Zenon DEF IsRetired, RetiredAsOf

\* The last verb of a position is no earlier than any verb of it.
LEMMA LastVerbIsLast ==
    ASSUME NEW events, Parsed(events), NEW p \in DOMAIN events, events[p].type \in PositionVerbs
    PROVE  /\ events[p].asOf <= LastVerbAsOf(events, events[p].position)
           /\ LastVerbAsOf(events, events[p].position) \in Nat
<1> DEFINE S == {0} \cup { events[i].asOf : i \in { j \in DOMAIN events :
                    events[j].type \in PositionVerbs /\ events[j].position = events[p].position } }
<1>1. MaxDate \in Nat /\ \A i \in DOMAIN events : events[i].asOf \in 0 .. MaxDate
  BY DatesType
<1>2. S \in SUBSET (0 .. MaxDate) /\ events[p].asOf \in S
  BY <1>1
<1> HIDE DEF S
<1>3. events[p].asOf <= Max(S) /\ Max(S) \in Nat
  BY <1>1, <1>2, MaxOfDates
<1> QED BY <1>3 DEF LastVerbAsOf, S

\* As long as every close was applied, an accepted event leaves the closes last.
LEMMA StillClosesLast ==
    ASSUME NEW e, NEW b, NEW events, IsAccepted(e, b, events), ClosesLast(events),
           ~SkippedFor(b, "provenance-absent")
    PROVE  ClosesLast(Append(events, e))
<1> DEFINE more == Append(events, e)
           n == Len(events) + 1
           places == DOMAIN events
<1>1. /\ Admissible(events) /\ Parsed(events) /\ e \in Candidates /\ ParsesEvent(e)
      /\ IsFoldOf(b, events, places) /\ Accepts(b, events, e)
  BY DEF IsAccepted, Admissible
<1>2. /\ Parsed(more) /\ DOMAIN more = places \cup {n} /\ more[n] = e
      /\ \A i \in places : more[i] = events[i]
      /\ places = 1 .. Len(events) /\ Len(events) \in Nat
  BY <1>1, OneMoreEvent
<1> HIDE DEF more
<1>3. b.skipped = {}
  BY <1>1 DEF IsFoldOf, SkipsOf, SkippedFor
<1>4. Standing(b, places) = places
  BY <1>3 DEF Standing
<1>5. \A i \in DOMAIN more : more[i].asOf \in Int
  BY <1>2, DatesType
<1>6. \A i \in places : i < n
  BY <1>2
<1> HIDE DEF places, n
<1>7. SUFFICES ASSUME NEW p \in DOMAIN more, NEW j \in DOMAIN more, p # j,
                      more[p].type \in Later, Closing(more[j], more[p].position)
               PROVE  Sooner(more, p, j)
  BY DEF ClosesLast, more
<1>8. CASE p \in places /\ j \in places
  <2>1. Sooner(events, p, j)
    BY <1>2, <1>7, <1>8 DEF ClosesLast, places
  <2> QED BY <1>2, <1>8, <2>1 DEF Sooner
<1>9. CASE p \in places /\ j = n
  <2>1. UntouchedAfter(events, e) /\ e.position = events[p].position
    BY <1>1, <1>2, <1>7, <1>9, Judgement DEF Closing
  <2>2. /\ events[p].asOf <= LastVerbAsOf(events, events[p].position)
        /\ LastVerbAsOf(events, events[p].position) \in Nat
    BY <1>1, <1>2, <1>7, <1>9, LastVerbIsLast DEF Later, places
  <2>3. e.asOf >= LastVerbAsOf(events, events[p].position)
    BY <2>1 DEF UntouchedAfter
  <2>4. events[p].asOf <= e.asOf
    BY <1>2, <1>5, <1>9, <2>2, <2>3
  <2> QED BY <1>2, <1>5, <1>6, <1>9, <2>4 DEF Sooner
<1>10. CASE p = n /\ j \in places
  <2>1. Closing(events[j], e.position) /\ e.type \in Later
    BY <1>2, <1>7, <1>10
  <2>2. IsRetired(b, e.position) /\ RetiredAsOf(b, e.position) = events[j].asOf
    BY <1>1, <1>4, <1>10, <2>1, RetiredOn DEF places
  <2>3. BeforeRetirement(b, e)
    BY <1>1, <2>1, <2>2, Judgement DEF Later, PositionVerbs
  <2>4. e.asOf < events[j].asOf
    BY <2>2, <2>3 DEF BeforeRetirement
  <2> QED BY <1>2, <1>10, <2>4 DEF Sooner
<1> QED BY <1>2, <1>7, <1>8, <1>9, <1>10

\* Only what is behind the place counts: a log and a longer one agree on their parts.
LEMMA PartsStay ==
    ASSUME NEW events, Parsed(events), NEW e \in Candidates, ParsesEvent(e),
           NEW k \in 0 .. Len(events)
    PROVE  SubSeq(Append(events, e), 1, k) = SubSeq(events, 1, k)
<1>1. /\ events \in Seq(Candidates) /\ Append(events, e) \in Seq(Candidates)
      /\ Len(events) \in Nat /\ k \in 0 .. Len(Append(events, e))
      /\ \A i \in 1 .. Len(events) : Append(events, e)[i] = events[i]
  BY DEF Parsed
<1> DEFINE s == SubSeq(Append(events, e), 1, k)
           t == SubSeq(events, 1, k)
<1>2. s \in Seq(Candidates) /\ Len(s) = k /\ \A i \in 1 .. k : s[i] = Append(events, e)[i]
  BY <1>1, LinesOfPart
<1>3. t \in Seq(Candidates) /\ Len(t) = k /\ \A i \in 1 .. k : t[i] = events[i]
  BY <1>1, LinesOfPart
<1> HIDE DEF s, t
<1>4. \A i \in 1 .. k : s[i] = t[i]
  BY <1>1, <1>2, <1>3
<1>5. s = t
  BY <1>2, <1>3, <1>4
<1> QED BY <1>5 DEF s, t

LEMMA WholePart ==
    ASSUME NEW events \in Seq(Candidates)
    PROVE  SubSeq(events, 1, Len(events)) = events
OBVIOUS

\* The book is the fold of the log; what the log holds has been parsed, founds and opens
\* under a name once, and names nothing before it was founded or opened; and no verb of a
\* position comes behind its close, unless a close was discarded.  Every candidate the
\* gate lets in keeps that so, wherever its date puts it in the order of application
\* (crossref.ts 847-905, 1138-1240; ingest-walk.ts 160-242).
THEOREM Inductive ==
    /\ Init => IInv
    /\ IInv /\ [Next]_vars => IInv'
<1>1. Init => IInv
  <2> SUFFICES ASSUME Init PROVE IInv
    OBVIOUS
  <2>1. log = <<>> /\ book = FoldEvents(log)
    BY DEF Init
  <2>2. Parsed(log)
    BY <2>1, EmptyLog DEF Parsed
  <2>3. DOMAIN log = {}
    BY <2>1
  <2>4. BornOnce(log) /\ Founded(log) /\ ClosesLast(log)
    BY <2>3 DEF BornOnce, Founded, ClosesLast
  <2> QED BY <2>1, <2>2, <2>4 DEF IInv, Admissible
<1>2. ASSUME IInv, [Next]_vars PROVE IInv'
  <2>1. CASE UNCHANGED vars
    BY <1>2, <2>1 DEF IInv, vars, CloseWasDiscarded
  <2>2. ASSUME NEW e \in Candidates, Ingest(e) PROVE IInv'
    <3>1. /\ ParsesEvent(e) /\ Accepts(book, log, e)
          /\ log' = Append(log, e) /\ book' = FoldEvents(log')
      BY <2>2 DEF Ingest
    <3>2. IsAccepted(e, book, log)
      BY <1>2, <2>2, <3>1, BookIsFold DEF IInv, IsAccepted
    <3>3. Parsed(log) /\ Parsed(log') /\ Len(log) \in Nat /\ Len(log') = Len(log) + 1
      BY <1>2, <3>1, OneMoreEvent DEF IInv, Admissible
    <3>4. Admissible(log')
      BY <3>1, <3>2, <3>3, StillBornOnce, StillFounded DEF Admissible
    <3>5. \A k \in 0 .. Len(log) : SubSeq(log', 1, k) = SubSeq(log, 1, k)
      BY <3>1, <3>3, PartsStay
    <3>6. SubSeq(log', 1, Len(log)) = log
      <4>1. SubSeq(log', 1, Len(log)) = SubSeq(log, 1, Len(log))
        BY <3>3, <3>5
      <4> QED BY <3>3, <4>1, WholePart DEF Parsed
    <3>7. CloseWasDiscarded => CloseWasDiscarded'
      <4> SUFFICES ASSUME CloseWasDiscarded PROVE CloseWasDiscarded'
        OBVIOUS
      <4>1. PICK k \in 0 .. Len(log) - 1 :
              SkippedFor(FoldEvents(SubSeq(log, 1, k)), "provenance-absent")
        BY DEF CloseWasDiscarded
      <4>2. k \in 0 .. Len(log) /\ k \in 0 .. Len(log') - 1
        BY <3>3
      <4>3. SubSeq(log', 1, k) = SubSeq(log, 1, k)
        BY <3>5, <4>2
      <4> QED BY <4>1, <4>2, <4>3, Zenon DEF CloseWasDiscarded, SkippedFor
    <3>8. SkippedFor(book, "provenance-absent") => CloseWasDiscarded'
      <4> SUFFICES ASSUME SkippedFor(book, "provenance-absent") PROVE CloseWasDiscarded'
        OBVIOUS
      <4>1. Len(log) \in 0 .. Len(log') - 1
        BY <3>3
      <4>2. FoldEvents(SubSeq(log', 1, Len(log))) = book
        BY <1>2, <3>6, Zenon DEF IInv
      <4> QED BY <4>1, <4>2 DEF CloseWasDiscarded, SkippedFor
    <3>9. CloseWasDiscarded' \/ ClosesLast(log')
      <4> SUFFICES ASSUME ~CloseWasDiscarded' PROVE ClosesLast(log')
        OBVIOUS
      <4>1. ClosesLast(log) /\ ~SkippedFor(book, "provenance-absent")
        BY <1>2, <3>7, <3>8 DEF IInv
      <4> QED BY <3>1, <3>2, <4>1, StillClosesLast
    <3> QED BY <3>1, <3>4, <3>9 DEF IInv
  <2> QED BY <1>2, <2>1, <2>2 DEF Next
<1> QED BY <1>1, <1>2
----------------------------------------------------------------------------
(* What follows.                                                           *)

LEMMA Invariant == Spec => []IInv
<1>1. Init => IInv
  BY Inductive
<1>2. IInv /\ [Next]_vars => IInv'
  BY Inductive
<1> QED BY <1>1, <1>2, PTL DEF Spec

\* Every step folds a log of typed events into a typed book: amounts are amounts, a held
\* lot has a quantity and a tier, and whatever the fold discards is of the log.
THEOREM TypeCorrect == Spec => []TypeOK
<1>1. ASSUME IInv PROVE TypeOK
  <2>1. IsFoldOf(book, log, DOMAIN log) /\ IsBook(book) /\ log \in Seq(Candidates)
    BY <1>1, BookIsFold DEF IInv, Admissible, Parsed, IsFoldOf
  <2>2. ASSUME NEW id \in DOMAIN book.reserves
        PROVE  /\ book.reserves[id].amount \in Int
               /\ book.reserves[id].lots = Untiered
                  \/ DOMAIN book.reserves[id].lots \subseteq Tiers
    BY <2>1, TierMapsType DEF IsBook, IsReserve
  <2>3. ASSUME NEW id \in DOMAIN book.positions, NEW lot \in ToSet(book.positions[id].lots)
        PROVE  lot.quantity > 0 /\ lot.tier \in Tiers
    <3>1. book.positions[id].lots \in Seq(HeldLots)
      BY <2>1 DEF IsBook, IsPosition
    <3>2. PICK i \in DOMAIN book.positions[id].lots : lot = book.positions[id].lots[i]
      BY <2>3 DEF ToSet
    <3>3. lot \in HeldLots
      BY <3>1, <3>2, LineType
    <3> QED BY <3>3 DEF HeldLots
  <2>4. \A s \in book.skipped : s.at \in DOMAIN log
    BY <2>1 DEF IsFoldOf, SkipsOf
  <2> QED BY <2>1, <2>2, <2>3, <2>4 DEF TypeOK
<1>2. IInv => TypeOK
  BY <1>1
<1> QED BY <1>2, Invariant, PTL

\* Cash is neither invented nor lost: whatever the dates of the events and the order in
\* which they were accepted, a reserve holds what the seed gave it and what the applied
\* events moved, and the closed book reports the proceeds they brought in.
THEOREM NothingInvented == Spec => []Conserved
<1>1. ASSUME IInv PROVE Conserved
  <2> DEFINE A == Standing(book, DOMAIN log)
  <2>1. CashOf(book, log, DOMAIN log) /\ Parsed(log)
    BY <1>1, BookIsFold DEF IInv, Admissible, IsFoldOf
  <2>2. A = Applied
    BY DEF Standing, Applied
  <2> HIDE DEF A
  <2>3. ASSUME NEW id \in DOMAIN book.reserves
        PROVE  book.reserves[id].amount = SeededCash(id) +
                Total([i \in DOMAIN log |-> IF i \in Applied THEN CashEffect(log[i], id) ELSE 0])
    <3>1. Holds(book, id) = SeededCash(id) + Counted(Effects(log, id), A)
      BY <2>1 DEF CashOf, A
    <3>2. [i \in DOMAIN Effects(log, id) |-> IF i \in A THEN Effects(log, id)[i] ELSE 0] =
            [i \in DOMAIN log |-> IF i \in Applied THEN CashEffect(log[i], id) ELSE 0]
      BY <2>2 DEF Effects
    <3> QED BY <3>1, <3>2 DEF Holds, Counted
  <2>4. Total([i \in DOMAIN book.closedBook |-> book.closedBook[i].proceeds]) =
            Total([i \in DOMAIN log |-> IF i \in Applied THEN Proceeds(log[i]) ELSE 0])
    <3>1. Booked(book.closedBook) = Counted(Sold(log), A)
      BY <2>1 DEF CashOf, A
    <3>2. [i \in DOMAIN Sold(log) |-> IF i \in A THEN Sold(log)[i] ELSE 0] =
            [i \in DOMAIN log |-> IF i \in Applied THEN Proceeds(log[i]) ELSE 0]
      BY <2>2 DEF Sold
    <3> QED BY <3>1, <3>2 DEF Booked, Counted
  <2>5. CashConserved
    BY <2>3 DEF CashConserved
  <2>6. ProceedsReported
    BY <2>4 DEF ProceedsReported
  <2> QED BY <2>5, <2>6 DEF Conserved
<1>2. IInv => Conserved
  BY <1>1
<1> QED BY <1>2, Invariant, PTL

\* The date rules of the gate: whatever is backdated, and at whatever date the book is
\* read, no accepted event finds its reserve missing, none finds its position missing
\* unless some close was discarded, and no position lives twice.
THEOREM TargetsAreThere == Spec => []NoAbsentTarget
<1>1. ASSUME IInv PROVE NoAbsentTarget
  <2>1. Admissible(log) /\ IsFoldOf(book, log, DOMAIN log)
    BY <1>1, BookIsFold DEF IInv
  <2>2. ASSUME NEW day \in Genesis.asOf .. MaxDate
        PROVE  SkipsOf(FoldEventsAsOf(log, day), log, UpTo(log, day))
    <3>1. day \in Nat
      BY CandidatesAssumption DEF ParsesFundReview, IsDate
    <3> QED BY <2>1, <3>1, FoldIs DEF IsFoldOf
  <2>3. NoAbsentReserve
    BY <2>2 DEF NoAbsentReserve, SkippedFor, SkipsOf
  <2>4. NoAbsentPosition
    <3> SUFFICES ASSUME ~CloseWasDiscarded, NEW day \in Genesis.asOf .. MaxDate,
                        SkippedFor(FoldEventsAsOf(log, day), "position-absent")
                 PROVE  FALSE
      BY DEF NoAbsentPosition
    <3>1. ClosesLast(log)
      BY <1>1 DEF IInv
    <3> QED BY <2>2, <3>1 DEF SkippedFor, SkipsOf
  <2>5. OneLife
    <3>1. LivesOf(book, log, DOMAIN log)
      BY <2>1 DEF IsFoldOf
    <3>2. ASSUME NEW id, IsRetired(book, id) PROVE id \notin DOMAIN book.positions
      <4>1. PICK r \in ToSet(book.closedBook) : r.position = id /\ ~r.partial
        BY <3>2 DEF IsRetired, RetiredRows
      <4>2. PICK i \in DOMAIN book.closedBook : r = book.closedBook[i]
        BY DEF ToSet
      <4>3. \E j \in Standing(book, DOMAIN log) : Closing(log[j], id)
        BY <3>1, <4>1, <4>2 DEF LivesOf, RowsTell, IsRow
      <4> QED BY <3>1, <4>3 DEF LivesOf, OpenOnes
    <3>3. ASSUME NEW id
          PROVE  Cardinality({ i \in DOMAIN book.closedBook :
                    book.closedBook[i].position = id /\ ~book.closedBook[i].partial }) <= 1
      BY <3>1, AtMostOne DEF LivesOf, OnceClosed
    <3> QED BY <3>2, <3>3, Zenon DEF OneLife
  <2> QED BY <2>3, <2>4, <2>5 DEF NoAbsentTarget
<1>2. IInv => NoAbsentTarget
  BY <1>1
<1> QED BY <1>2, Invariant, PTL
----------------------------------------------------------------------------
(* What the gate finds when nothing is backdated.                          *)

\* The book that is handed out holds what the last event left, and discards no more than
\* levels that found no position.
LEMMA FinishMoves ==
    ASSUME NEW b, IsBook(b), NEW c, c = Finish(b)
    PROVE  /\ c.reserves = b.reserves /\ c.closedBook = b.closedBook
           /\ DOMAIN c.positions = DOMAIN b.positions
           /\ \A id : LotsOf(c, id) = LotsOf(b, id)
           /\ \A s \in c.skipped : s \in b.skipped \/ s.reason = "position-absent"
<1> DEFINE valued(p) == IF p.instrument \in DOMAIN b.latestMark
                        THEN [p EXCEPT !.markPrice = b.latestMark[p.instrument]]
                        ELSE p
           found == { [at |-> b.invalidation[id].at, type |-> "InvalidationMarked",
                       reason |-> "position-absent"] : id \in OrphanedMarks(b) }
           positions == [id \in DOMAIN b.positions |-> valued(b.positions[id])]
           skipped == b.skipped \cup found
<1>1. DOMAIN b = BookFields /\ \A id \in DOMAIN b.positions : IsPosition(b.positions[id])
  BY DEF IsBook
<1>2. c = [b EXCEPT !.positions = positions, !.skipped = skipped]
  BY DEF Finish
<1> HIDE DEF positions, skipped
<1>3. /\ c.positions = positions /\ c.skipped = skipped
      /\ c.reserves = b.reserves /\ c.closedBook = b.closedBook
  BY <1>1, <1>2 DEF BookFields
<1>4. /\ DOMAIN c.positions = DOMAIN b.positions
      /\ \A id \in DOMAIN c.positions : c.positions[id] = valued(b.positions[id])
  BY <1>3 DEF positions
<1>5. ASSUME NEW id \in DOMAIN b.positions PROVE c.positions[id].lots = b.positions[id].lots
  <2>1. "lots" \in DOMAIN b.positions[id]
    BY <1>1 DEF IsPosition
  <2> QED BY <1>4, <2>1, Zenon
<1>6. \A id : LotsOf(c, id) = LotsOf(b, id)
  BY <1>4, <1>5 DEF LotsOf
<1>7. \A s \in c.skipped : s \in b.skipped \/ s.reason = "position-absent"
  BY <1>3 DEF skipped
<1> QED BY <1>3, <1>4, <1>6, <1>7

NothingLater(events, e) == \A i \in DOMAIN events : events[i].asOf <= e.asOf

\* A sale or an add of a log in order finds its position open.
LEMMA StillOpen ==
    ASSUME NEW e, NEW b, NEW events, IsAccepted(e, b, events), NothingLater(events, e),
           e.type \in Sales \cup {"PositionAddedTo"}
    PROVE  e.position \in DOMAIN b.positions /\ ~IsRetired(b, e.position)
<1>1. /\ Parsed(events) /\ IsFoldOf(b, events, DOMAIN events) /\ Accepts(b, events, e)
      /\ ParsesEvent(e)
  BY DEF IsAccepted, Admissible
<1>2. PositionBornBy(b, e) /\ (~IsRetired(b, e.position) \/ BeforeRetirement(b, e))
  BY <1>1, Judgement DEF Sales
<1>3. /\ e.asOf \in Int /\ \A i \in DOMAIN events : events[i].asOf \in Int
      /\ \A i \in DOMAIN events : events[i].asOf <= e.asOf
  BY <1>1, DatesType DEF ParsesEvent, IsDate, NothingLater
<1>4. LivesOf(b, events, DOMAIN events)
  BY <1>1 DEF IsFoldOf
<1>5. ~IsRetired(b, e.position)
  <2> SUFFICES ASSUME IsRetired(b, e.position) PROVE FALSE
    OBVIOUS
  <2>1. e.asOf < RetiredAsOf(b, e.position)
    BY <1>2 DEF BeforeRetirement
  <2>2. PICK i \in DOMAIN b.closedBook :
          b.closedBook[i].position = e.position /\ ~b.closedBook[i].partial
    BY DEF IsRetired, RetiredRows, ToSet
  <2>3. PICK j \in Standing(b, DOMAIN events) : Closing(events[j], e.position)
    BY <1>4, <2>2 DEF LivesOf, RowsTell, IsRow
  <2>4. RetiredAsOf(b, e.position) = events[j].asOf /\ j \in DOMAIN events
    BY <1>1, <2>3, RetiredOn DEF Standing
  <2> QED BY <1>3, <2>1, <2>4
<1>6. e.position \in Named(events, DOMAIN events)
  <2>1. PositionIds(b) = Named(events, DOMAIN events)
    BY <1>1, KnownAreNamed
  <2> QED BY <1>2, <2>1 DEF PositionBornBy, Named
<1>7. \A j \in Standing(b, DOMAIN events) : ~Closing(events[j], e.position)
  BY <1>1, <1>5, RetiredOn
<1> QED BY <1>4, <1>5, <1>6, <1>7 DEF LivesOf, OpenOnes

\* What a line that parses states of its cash.
LEMMA CashStated ==
    ASSUME NEW e, ParsesEvent(e), e.type \in CashVerbs
    PROVE  e.amount \in Nat \ {0}
<1>1. CASE e.type = "PositionOpened"
  BY <1>1 DEF ParsesEvent, ParsePositionOpened, StatesCashLeg, StatesAmount, IsPositiveNumber
<1>2. CASE e.type = "PositionClosed"
  BY <1>2 DEF ParsesEvent, ParsePositionClosed, StatesCashLeg, StatesAmount, IsPositiveNumber
<1>3. CASE e.type = "PositionTrimmed"
  BY <1>3 DEF ParsesEvent, ParsePositionTrimmed, StatesCashLeg, StatesAmount, IsPositiveNumber
<1>4. CASE e.type = "PositionAddedTo"
  BY <1>4 DEF ParsesEvent, ParsePositionAddedTo, StatesCashLeg, StatesAmount, IsPositiveNumber
<1>5. CASE e.type \in {"Deposit", "Withdraw"}
  BY <1>5 DEF ParsesEvent, ParseReserveMove, StatesCashLeg, StatesAmount, IsPositiveNumber
<1>6. CASE e.type = "Transfer"
  BY <1>6 DEF ParsesEvent, ParseTransfer, StatesAmount, IsPositiveNumber
<1> QED BY <1>1, <1>2, <1>3, <1>4, <1>5, <1>6 DEF CashVerbs

LEMMA RemovalsStated ==
    ASSUME NEW e \in Candidates, ParsesEvent(e), e.type = "PositionTrimmed"
    PROVE  e.removals \in Seq(Removals) /\ e.removals # <<>>
<1>1. ParsePositionTrimmed(e)
  BY DEF ParsesEvent
<1>2. e.removals \in Seq(Figures) /\ e.removals # <<>>
  BY <1>1, CandidatesAssumption DEF ParsePositionTrimmed
<1>3. DOMAIN e.removals = 1 .. Len(e.removals) /\ Len(e.removals) \in Nat
  BY <1>2
<1>4. \A i \in DOMAIN e.removals : e.removals[i] \in Figures
  BY <1>2, LineType
<1>5. \A i \in DOMAIN e.removals : ParseRemoval(e.removals[i])
  BY <1>1 DEF ParsePositionTrimmed, ToSet
<1>6. \A i \in 1 .. Len(e.removals) : e.removals[i] \in Removals
  BY <1>3, <1>4, <1>5 DEF ParseRemoval, IsPositiveNumber, Removals
<1> QED BY <1>2, <1>3, <1>6

\* The reserves an accepted event names are there.
LEMMA NamedAreThere ==
    ASSUME NEW b, NEW events, NEW e, Accepts(b, events, e), e.type \in CashVerbs
    PROVE  NamedBy(e) \subseteq DOMAIN b.reserves
<1>1. CASE e.type = "Transfer"
  BY <1>1, Judgement DEF NamedBy, ReserveBornBy
<1>2. CASE e.type # "Transfer"
  <2>1. ReserveBornBy(b, events, e.reserve, e.asOf)
    BY <1>2, Judgement DEF CashVerbs
  <2> QED BY <1>2, <2>1 DEF NamedBy, ReserveBornBy
<1> QED BY <1>1, <1>2

\* What the gate found in the book it held is so in the book the event is applied to: in a
\* log in order they are the same, but for what the end of the fold adds.
LEMMA AdmittedInOrder ==
    ASSUME NEW b, IsBook(b), Tidy(b), NEW f, f = Finish(b), NEW e, NEW events,
           IsAccepted(e, f, events), NothingLater(events, e)
    PROVE  Admits(b, e)
<1>1. /\ f.reserves = b.reserves /\ DOMAIN f.positions = DOMAIN b.positions
      /\ \A id : LotsOf(f, id) = LotsOf(b, id)
  BY FinishMoves
<1>2. e \in Candidates /\ ParsesEvent(e) /\ Accepts(f, events, e) /\ IsEvent(e)
  BY EventTypes DEF IsAccepted
<1>3. e.type \in CashVerbs => e.amount \in Nat \ {0}
  BY <1>2, CashStated
<1>4. e.type \in CashVerbs => NamedBy(e) \subseteq DOMAIN b.reserves
  BY <1>1, <1>2, NamedAreThere
<1>5. e.type \in Sales \cup {"PositionAddedTo"} =>
        e.position \in DOMAIN b.positions /\ ~IsRetired(f, e.position)
  BY <1>1, StillOpen
<1>6. \A id, tier, amount : CheckDebit(f, id, tier, amount) => CheckDebit(b, id, tier, amount)
  BY <1>1 DEF CheckDebit
<1>7. \A lots : CheckFunding(f, e, lots) => CheckFunding(b, e, lots)
  BY <1>6 DEF CheckFunding
<1>8. ASSUME e.type = "PositionOpened"
      PROVE  e.position \notin DOMAIN b.positions /\ CheckFunding(b, e, e.lots)
  <2>1. AcceptsOpened(f, events, e)
    BY <1>2, <1>8 DEF Accepts
  <2> QED BY <1>1, <1>7, <2>1 DEF AcceptsOpened, PositionIds
<1>9. ASSUME e.type = "PositionAddedTo" PROVE CheckFunding(b, e, <<e.lot>>)
  <2>1. AcceptsAddedTo(f, events, e)
    BY <1>2, <1>9 DEF Accepts
  <2> QED BY <1>7, <2>1 DEF AcceptsAddedTo
<1>10. ASSUME e.type = "PositionTrimmed"
       PROVE  /\ e.removals \in Seq(Removals) /\ e.removals # <<>>
              /\ \A tier \in Tiers : Held(e.removals, tier) <= Held(LotsOf(b, e.position), tier)
              /\ Quantity(e.removals) < Quantity(LotsOf(b, e.position))
  <2>1. AcceptsTrimmed(f, events, e)
    BY <1>2, <1>10 DEF Accepts
  <2>2. ~IsRetired(f, e.position)
    BY <1>5, <1>10 DEF Sales
  <2>3. TrimFits(f, e)
    BY <2>1, <2>2 DEF AcceptsTrimmed
  <2> DEFINE held == IF e.position \in DOMAIN f.positions
                     THEN f.positions[e.position].lots ELSE <<>>
  <2>4. held = LotsOf(b, e.position)
    BY <1>1 DEF LotsOf
  <2>5. /\ \A tier \in Tiers :
            Quantity(InTier(e.removals, tier)) <= Quantity(InTier(held, tier))
        /\ Quantity(e.removals) < Quantity(held)
    BY <2>3 DEF TrimFits
  <2> HIDE DEF held
  <2>6. /\ \A tier \in Tiers : Held(e.removals, tier) <= Held(LotsOf(b, e.position), tier)
        /\ Quantity(e.removals) < Quantity(LotsOf(b, e.position))
    BY <2>4, <2>5 DEF Held
  <2> QED BY <1>2, <1>10, <2>6, RemovalsStated
<1>11. ASSUME e.type = "Withdraw" PROVE CheckDebit(b, e.reserve, e.tier, e.amount)
  <2>1. AcceptsWithdraw(f, events, e)
    BY <1>2, <1>11 DEF Accepts
  <2> QED BY <1>6, <2>1 DEF AcceptsWithdraw
<1>12. ASSUME e.type = "Transfer" PROVE CheckDebit(b, e.from, e.tier, e.amount)
  <2>1. AcceptsTransfer(f, events, e)
    BY <1>2, <1>12 DEF Accepts
  <2> QED BY <1>6, <2>1 DEF AcceptsTransfer
<1>13. ASSUME e.type = "ReserveOpened" PROVE e.reserve \notin DOMAIN b.reserves
  BY <1>1, <1>2, <1>13, Judgement
<1> QED BY <1>3, <1>4, <1>5, <1>8, <1>9, <1>10, <1>11, <1>12, <1>13 DEF Admits
----------------------------------------------------------------------------
(* What is true of a log in order.                                         *)

PaidUpTo(events, k) == UNION { PaidBy(events[i]) : i \in 1 .. k }
SolventAt(events, k) ==
    IsBook(Story(events)[k]) /\ SolventWith(Story(events)[k], PaidUpTo(events, k))

\* What was bought is held or gone.
Accounted(b, events) ==
    \A id, tier :
        Held(SeededLots(id), tier) + Bought(events, id, tier) =
            Held(LotsOf(b, id), tier) + Taken(b.closedBook, id, tier)

Sure(events) ==
    /\ ClosesLast(events)
    /\ \A k \in 0 .. Len(events) : SolventAt(events, k)
    /\ Tidy(Story(events)[Len(events)])
    /\ Accounted(Story(events)[Len(events)], events)

LEMMA GenesisIsTidy ==
    ASSUME SeedIsSound
    PROVE  /\ IsBook(GenesisBook) /\ SolventWith(GenesisBook, {}) /\ Tidy(GenesisBook)
           /\ GenesisBook.closedBook = <<>>
           /\ \A id : LotsOf(GenesisBook, id) = SeededLots(id)
<1> DEFINE reserves == IndexById(Genesis.reserves)
           positions == IndexById(Genesis.positions)
           settled == [id \in DOMAIN reserves |-> SeedReserve(reserves[id])]
<1>1. /\ GenesisBook.reserves = settled /\ GenesisBook.positions = positions
      /\ GenesisBook.closedBook = <<>> /\ GenesisBook.skipped = {}
  BY DEF GenesisBook
<1> HIDE DEF settled
<1>2. IsBook(GenesisBook)
  <2>1. Parsed(<<>>)
    BY EmptyLog DEF Parsed
  <2> QED BY <2>1, SeedIsFold DEF IsFoldOf
<1>3. SolventWith(GenesisBook, {})
  <2> SUFFICES ASSUME NEW id \in DOMAIN settled PROVE Sound(settled[id], id \in {})
    BY <1>1 DEF SolventWith
  <2>1. reserves[id] \in ToSet(Genesis.reserves) /\ settled[id] = SeedReserve(reserves[id])
    BY Indexed DEF settled
  <2>2. Sound(settled[id], FALSE)
    BY <2>1, Zenon DEF SeedIsSound
  <2> QED BY <2>2 DEF Sound
<1>4. DOMAIN positions = IdsOf(Genesis.positions)
  BY Indexed
<1>5. ASSUME NEW id \in DOMAIN positions PROVE positions[id].lots # <<>>
  <2>1. positions[id] \in ToSet(Genesis.positions)
    BY <1>4, Indexed
  <2>2. ValidPosition(positions[id])
    BY <2>1, CandidatesAssumption DEF ParsesFundReview
  <2> QED BY <2>2 DEF ValidPosition, ValidLots
<1>6. \A id : LotsOf(GenesisBook, id) = SeededLots(id)
  BY <1>1, <1>4 DEF LotsOf, SeededLots
<1>7. Tidy(GenesisBook)
  <2>1. RowsAreSold(GenesisBook.closedBook)
    BY <1>1 DEF RowsAreSold
  <2> QED BY <1>1, <1>5, <2>1 DEF Tidy, LotsOf
<1> QED BY <1>1, <1>2, <1>3, <1>6, <1>7

LEMMA SureAtFirst ==
    ASSUME SeedIsSound, NEW events, events = <<>>
    PROVE  Sure(events)
<1>1. Parsed(events) /\ Len(events) = 0 /\ DOMAIN events = {}
  BY EmptyLog DEF Parsed
<1>2. Story(events)[0] = GenesisBook
  BY <1>1, StoryRuns
<1>3. ClosesLast(events)
  BY <1>1 DEF ClosesLast
<1>4. ASSUME NEW k \in 0 .. Len(events) PROVE SolventAt(events, k)
  <2>1. k = 0
    BY <1>1, <1>4
  <2>2. PaidUpTo(events, k) = {}
    BY <2>1 DEF PaidUpTo
  <2> QED BY <1>2, <2>1, <2>2, GenesisIsTidy, Zenon DEF SolventAt
<1>5. ASSUME NEW id, NEW tier
      PROVE  Held(SeededLots(id), tier) + Bought(events, id, tier) =
                Held(LotsOf(GenesisBook, id), tier) + Taken(GenesisBook.closedBook, id, tier)
  <2>1. [i \in DOMAIN events |-> BoughtBy(events[i], id, tier)] = <<>>
    BY <1>1
  <2>2. [i \in DOMAIN GenesisBook.closedBook |-> TakenBy(GenesisBook.closedBook[i], id, tier)] = <<>>
    BY GenesisIsTidy
  <2>3. Bought(events, id, tier) = Taken(GenesisBook.closedBook, id, tier)
    BY <2>1, <2>2 DEF Bought, Taken
  <2>4. LotsOf(GenesisBook, id) = SeededLots(id)
    BY GenesisIsTidy
  <2> QED BY <2>3, <2>4
<1>6. Accounted(GenesisBook, events)
  BY <1>5 DEF Accounted
<1> QED BY <1>1, <1>2, <1>3, <1>4, <1>6, GenesisIsTidy DEF Sure

\* What one more event buys is added to what was bought.
LEMMA BoughtType ==
    ASSUME NEW e, IsEvent(e), NEW id, NEW tier
    PROVE  BoughtBy(e, id, tier) \in Int
<1>1. Sized(HeldLots)
  BY LotTypes DEF Sized
<1>2. ASSUME e.type = "PositionOpened" PROVE Held(e.lots, tier) \in Nat
  BY <1>1, <1>2, HeldOf DEF IsEvent
<1>3. ASSUME e.type = "PositionAddedTo" PROVE Held(<<e.lot>>, tier) \in Nat
  <2>1. <<e.lot>> \in Seq(HeldLots)
    BY <1>3 DEF IsEvent
  <2> QED BY <1>1, <2>1, HeldOf, Zenon
<1> QED BY <1>2, <1>3 DEF BoughtBy

LEMMA BoughtMore ==
    ASSUME NEW events, Parsed(events), NEW e \in Candidates, ParsesEvent(e), NEW id, NEW tier
    PROVE  /\ Bought(Append(events, e), id, tier) = Bought(events, id, tier) + BoughtBy(e, id, tier)
           /\ Bought(events, id, tier) \in Int /\ BoughtBy(e, id, tier) \in Int
<1> DEFINE more == Append(events, e)
           a == [i \in DOMAIN events |-> BoughtBy(events[i], id, tier)]
           b == [i \in DOMAIN more |-> BoughtBy(more[i], id, tier)]
           x == BoughtBy(e, id, tier)
<1>1. /\ DOMAIN events = 1 .. Len(events) /\ Len(events) \in Nat
      /\ DOMAIN more = DOMAIN events \cup {Len(events) + 1}
      /\ more[Len(events) + 1] = e /\ \A i \in DOMAIN events : more[i] = events[i]
  BY OneMoreEvent
<1>2. x \in Int
  BY EventTypes, BoughtType
<1>3. \A i \in DOMAIN events : BoughtBy(events[i], id, tier) \in Int
  BY EventsAreTyped, BoughtType
<1>4. a \in Seq(Int) /\ Len(a) = Len(events)
  BY <1>1, <1>3
<1> HIDE DEF more
<1>5. b = Append(a, x)
  BY <1>1, <1>4
<1> HIDE DEF a, b, x
<1>6. Total(b) = Total(a) + x /\ Total(a) \in Int
  BY <1>2, <1>4, <1>5, TotalOfOneMore
<1> QED BY <1>2, <1>6, Zenon DEF Bought, a, b, x, more

\* One more event of a log in order keeps it all so.
LEMMA SureStays ==
    ASSUME SeedIsSound, NEW e, NEW events, Ordered(events), Sure(events), NEW f,
           f = Finish(Story(events)[Len(events)]), IsAccepted(e, f, events),
           NothingLater(events, e)
    PROVE  Sure(Append(events, e))
<1> DEFINE more == Append(events, e)
           n == Len(events)
           b == Story(events)[n]
           c == Story(more)[n + 1]
<1>1. /\ Parsed(events) /\ Parsed(more) /\ n \in Nat /\ Len(more) = n + 1
      /\ DOMAIN events = 1 .. n /\ DOMAIN more = DOMAIN events \cup {n + 1}
      /\ more[n + 1] = e /\ \A i \in DOMAIN events : more[i] = events[i]
      /\ e \in Candidates /\ ParsesEvent(e) /\ IsEvent(e)
  BY OneMoreEvent, EventTypes DEF IsAccepted, Admissible
<1>2. /\ ClosesLast(events) /\ \A k \in 0 .. n : SolventAt(events, k)
      /\ Tidy(b) /\ Accounted(b, events)
  BY DEF Sure
<1>3. IsBook(b) /\ SolventWith(b, PaidUpTo(events, n))
  BY <1>1, <1>2 DEF SolventAt
<1> HIDE DEF more
<1>4. \A k \in 0 .. n : Story(more)[k] = Story(events)[k]
  BY <1>1, StoryGrows
<1>5. c = Apply(b, [at |-> n + 1, event |-> e])
  <2>1. c = Apply(Story(more)[n], EntryAt(more, n + 1))
    BY <1>1, StoryRuns
  <2>2. Story(more)[n] = b
    BY <1>1, <1>4
  <2> QED BY <1>1, <2>1, <2>2 DEF EntryAt
<1>6. Admits(b, e)
  BY <1>2, <1>3, AdmittedInOrder
<1> HIDE DEF b, c, n
<1>7. IsBook(c) /\ Keeps(b, c, e)
  BY <1>1, <1>2, <1>3, <1>5, <1>6, ApplyKeeps
<1>8. Tidy(c) /\ Even(b, c, e) /\ SolventWith(c, PaidUpTo(events, n) \cup PaidBy(e))
  BY <1>3, <1>7 DEF Keeps
<1>9. ClosesLast(more)
  <2>1. ~SkippedFor(f, "provenance-absent")
    <3>1. b.skipped = {} /\ \A s \in f.skipped : s \in b.skipped \/ s.reason = "position-absent"
      BY <1>2, <1>3, FinishMoves DEF Tidy, b, n
    <3> QED BY <3>1 DEF SkippedFor
  <2> QED BY <1>2, <2>1, StillClosesLast DEF more
<1>10. ASSUME NEW k \in 0 .. n + 1 PROVE SolventAt(more, k)
  <2>1. CASE k \in 0 .. n
    <3>1. PaidUpTo(more, k) = PaidUpTo(events, k)
      <4>1. \A i \in 1 .. k : more[i] = events[i]
        BY <1>1, <2>1
      <4> QED BY <4>1 DEF PaidUpTo
    <3> QED BY <1>2, <1>4, <2>1, <3>1 DEF SolventAt
  <2>2. CASE k = n + 1
    <3>1. PaidUpTo(more, k) = PaidUpTo(events, n) \cup PaidBy(e)
      <4>1. 1 .. k = (1 .. n) \cup {n + 1}
        BY <1>1, <2>2
      <4>2. \A i \in 1 .. n : more[i] = events[i]
        BY <1>1
      <4>3. { PaidBy(more[i]) : i \in 1 .. k } =
                { PaidBy(events[i]) : i \in 1 .. n } \cup { PaidBy(e) }
        BY <1>1, <4>1, <4>2
      <4> QED BY <4>3, Zenon DEF PaidUpTo
    <3> QED BY <1>7, <1>8, <2>2, <3>1, Zenon DEF SolventAt, c
  <2> QED BY <1>1, <2>1, <2>2
<1>11. Accounted(c, more)
  <2> SUFFICES ASSUME NEW id, NEW tier
               PROVE  Held(SeededLots(id), tier) + Bought(more, id, tier) =
                        Held(LotsOf(c, id), tier) + Taken(c.closedBook, id, tier)
    BY DEF Accounted
  <2>1. Held(SeededLots(id), tier) + Bought(events, id, tier) =
            Held(LotsOf(b, id), tier) + Taken(b.closedBook, id, tier)
    BY <1>2 DEF Accounted
  <2>2. Held(LotsOf(c, id), tier) + Taken(c.closedBook, id, tier) =
            Held(LotsOf(b, id), tier) + Taken(b.closedBook, id, tier) + BoughtBy(e, id, tier)
    BY <1>8 DEF Even
  <2>3. /\ Bought(more, id, tier) = Bought(events, id, tier) + BoughtBy(e, id, tier)
        /\ Bought(events, id, tier) \in Int /\ BoughtBy(e, id, tier) \in Int
    BY <1>1, BoughtMore DEF more
  <2>4. Held(SeededLots(id), tier) \in Int
    <3>1. SeededLots(id) = LotsOf(GenesisBook, id)
      BY GenesisIsTidy
    <3> QED BY <3>1, GenesisIsTidy, LotsOfBook
  <2>5. Held(LotsOf(b, id), tier) \in Int /\ Taken(b.closedBook, id, tier) \in Int
    <3>1. IsClosedBook(b.closedBook) /\ RowsAreSold(b.closedBook)
      BY <1>2, <1>3 DEF IsBook, Tidy
    <3>2. Held(LotsOf(b, id), tier) \in Nat
      BY <1>3, LotsOfBook
    <3>3. Taken(b.closedBook, id, tier) \in Int
      BY <3>1, TakenType, Zenon
    <3> QED BY <3>2, <3>3
  <2> QED BY <2>1, <2>2, <2>3, <2>4, <2>5
<1>12. c = Story(more)[Len(more)]
  BY <1>1 DEF c
<1> QED BY <1>1, <1>8, <1>9, <1>10, <1>11, <1>12 DEF Sure, more

\* The log in order is applied as it came, and read whole at the last of the dates.
LEMMA ReadInOrder ==
    ASSUME NEW events, Parsed(events), Ordered(events)
    PROVE  FoldEvents(events) = Finish(Story(events)[Len(events)])
<1>1. /\ MaxDate \in Nat /\ \A i \in DOMAIN events : events[i].asOf \in 1 .. MaxDate
      /\ DOMAIN events = 1 .. Len(events) /\ Len(events) \in Nat
  BY DatesType DEF Parsed
<1>2. PICK n \in 0 .. Len(events) :
        /\ UpTo(events, MaxDate) = 1 .. n
        /\ FoldEventsAsOf(events, MaxDate) = Finish(Story(events)[n])
  BY <1>1, FoldInOrder
<1>3. UpTo(events, MaxDate) = 1 .. Len(events)
  BY <1>1 DEF UpTo
<1>4. n = Len(events)
  <2>1. n \in 0 .. Len(events) /\ Len(events) \in Nat
    BY <1>1
  <2>2. 1 .. n = 1 .. Len(events)
    BY <1>2, <1>3
  <2>3. ASSUME n < Len(events) PROVE FALSE
    <3>1. Len(events) \in 1 .. Len(events)
      BY <2>1, <2>3
    <3>2. Len(events) \in 1 .. n
      BY <2>2, <3>1
    <3> QED BY <2>1, <2>3, <3>2
  <2> QED BY <2>1, <2>3
<1> QED BY <1>2, <1>4 DEF FoldEvents

\* What holds of a log in order, whatever is accepted after it.
SInv == SeedIsSound /\ Ordered(log) => Sure(log)

LEMMA SInvStays ==
    ASSUME IInv, SInv, NEW e \in Candidates, Ingest(e)
    PROVE  SInv'
<1> SUFFICES ASSUME SeedIsSound, Ordered(log') PROVE Sure(log')
  BY DEF SInv
<1>1. /\ Parsed(log) /\ Admissible(log) /\ log' = Append(log, e) /\ ParsesEvent(e)
      /\ Accepts(book, log, e) /\ book = FoldEvents(log)
      /\ IsFoldOf(book, log, DOMAIN log)
  BY BookIsFold DEF IInv, Admissible, Ingest
<1>2. /\ DOMAIN log = 1 .. Len(log) /\ Len(log) \in Nat
      /\ DOMAIN log' = DOMAIN log \cup {Len(log) + 1} /\ log'[Len(log) + 1] = e
      /\ \A i \in DOMAIN log : log'[i] = log[i]
  BY <1>1, OneMoreEvent
<1>3. Ordered(log)
  <2> SUFFICES ASSUME NEW i \in DOMAIN log, NEW j \in DOMAIN log, i < j
               PROVE  log[i].asOf <= log[j].asOf
    BY DEF Ordered
  <2>1. i \in DOMAIN log' /\ j \in DOMAIN log' /\ log'[i] = log[i] /\ log'[j] = log[j]
    BY <1>2
  <2> QED BY <2>1 DEF Ordered
<1>4. NothingLater(log, e)
  <2> SUFFICES ASSUME NEW i \in DOMAIN log PROVE log[i].asOf <= e.asOf
    BY DEF NothingLater
  <2>1. /\ i \in DOMAIN log' /\ Len(log) + 1 \in DOMAIN log' /\ i < Len(log) + 1
        /\ log'[i] = log[i] /\ log'[Len(log) + 1] = e
    BY <1>2
  <2>2. log'[i].asOf <= log'[Len(log) + 1].asOf
    BY <2>1 DEF Ordered
  <2> QED BY <2>1, <2>2
<1>5. Sure(log) /\ book = Finish(Story(log)[Len(log)])
  BY <1>1, <1>3, ReadInOrder DEF SInv
<1>6. IsAccepted(e, book, log)
  BY <1>1 DEF IsAccepted
<1>7. Sure(Append(log, e))
  BY <1>3, <1>4, <1>5, <1>6, SureStays
<1> QED BY <1>1, <1>7

\* Which reserves the log had paid for several tiers with, by some day.
LEMMA PaidByThen ==
    ASSUME NEW n \in 0 .. Len(log), NEW day, UpTo(log, day) = 1 .. n, Parsed(log),
           NEW id \in PaidUpTo(log, n)
    PROVE  PaidForTiers(id, day)
<1>1. PICK i \in 1 .. n : id \in PaidBy(log[i])
  BY DEF PaidUpTo
<1>2. i \in DOMAIN log /\ log[i].asOf <= day
  BY DEF UpTo
<1>3. log[i].type = "PositionOpened" /\ log[i].reserve = id /\ OfSeveralTiers(log[i].lots)
  <2>1. CASE log[i].type = "PositionOpened" /\ OfSeveralTiers(log[i].lots)
    BY <1>1, <2>1 DEF PaidBy
  <2>2. CASE ~(log[i].type = "PositionOpened" /\ OfSeveralTiers(log[i].lots))
    BY <1>1, <2>2 DEF PaidBy
  <2> QED BY <2>1, <2>2
<1> QED BY <1>2, <1>3 DEF PaidForTiers, OfSeveralTiers

\* When the seed owes nothing and nothing is backdated, the gate's word is kept: nothing it
\* accepted is discarded, what was bought of a tier is what is held of it plus what left,
\* and at whatever date the book is read no reserve is overdrawn, nor a tier of one, and its
\* tiers add up; but for a reserve without tiers that paid for several.
THEOREM OrderIsExact == Spec => []ExactInOrder
<1>1. IInv /\ SInv => ExactInOrder
  <2> SUFFICES ASSUME IInv, SInv, SeedIsSound, InOrder
               PROVE  /\ book.skipped = {} /\ QuantityConserved
                      /\ \A day \in Genesis.asOf .. MaxDate : Solvent(day)
    BY DEF ExactInOrder
  <2> DEFINE b == Story(log)[Len(log)]
  <2>1. /\ Parsed(log) /\ Ordered(log) /\ Sure(log) /\ IsFoldOf(book, log, DOMAIN log)
        /\ book = FoldEvents(log)
    BY BookIsFold DEF IInv, Admissible, InOrder, Ordered, SInv
  <2>2. book = Finish(b)
    BY <2>1, ReadInOrder
  <2>3. ClosesLast(log) /\ Tidy(b) /\ Accounted(b, log)
    BY <2>1 DEF Sure
  <2>4. \A k \in 0 .. Len(log) : SolventAt(log, k)
    BY <2>1 DEF Sure
  <2>5. IsBook(b)
    <3>1. Len(log) \in 0 .. Len(log)
      BY <2>1 DEF Parsed
    <3> QED BY <2>4, <3>1 DEF SolventAt
  <2> HIDE DEF b
  <2>6. /\ book.closedBook = b.closedBook /\ DOMAIN book.positions = DOMAIN b.positions
        /\ \A id : LotsOf(book, id) = LotsOf(b, id)
        /\ \A s \in book.skipped : s \in b.skipped \/ s.reason = "position-absent"
    BY <2>2, <2>5, FinishMoves
  <2>7. book.skipped = {}
    <3>1. \A s \in book.skipped : s.reason # "position-absent"
      BY <2>1, <2>3 DEF IsFoldOf, SkipsOf
    <3> QED BY <2>3, <2>6, <3>1 DEF Tidy
  <2>8. QuantityConserved
    <3> SUFFICES ASSUME NEW id \in PositionIds(book), NEW tier \in Tiers
                 PROVE  Held(SeededLots(id), tier) + Bought(log, id, tier) =
                            Held(OpenLots(id), tier) + Taken(book.closedBook, id, tier)
      BY DEF QuantityConserved, Bought, Taken
    <3>1. OpenLots(id) = LotsOf(b, id)
      BY <2>6 DEF OpenLots, LotsOf
    <3>2. Held(SeededLots(id), tier) + Bought(log, id, tier) =
            Held(LotsOf(b, id), tier) + Taken(b.closedBook, id, tier)
      BY <2>3 DEF Accounted
    <3> QED BY <2>6, <3>1, <3>2
  <2>9. ASSUME NEW day \in Genesis.asOf .. MaxDate PROVE Solvent(day)
    <3>1. day \in Nat
      BY CandidatesAssumption DEF ParsesFundReview, IsDate
    <3>2. PICK n \in 0 .. Len(log) :
            /\ UpTo(log, day) = 1 .. n
            /\ FoldEventsAsOf(log, day) = Finish(Story(log)[n])
      BY <2>1, <3>1, FoldInOrder
    <3>3. IsBook(Story(log)[n]) /\ SolventWith(Story(log)[n], PaidUpTo(log, n))
      BY <2>4 DEF SolventAt
    <3>4. FoldEventsAsOf(log, day).reserves = Story(log)[n].reserves
      BY <3>2, <3>3, FinishMoves
    <3>5. ASSUME NEW id \in DOMAIN Story(log)[n].reserves
          PROVE  Sound(Story(log)[n].reserves[id], PaidForTiers(id, day))
      <4>1. Sound(Story(log)[n].reserves[id], id \in PaidUpTo(log, n))
        BY <3>3 DEF SolventWith
      <4>2. id \in PaidUpTo(log, n) => PaidForTiers(id, day)
        BY <2>1, <3>2, PaidByThen
      <4> QED BY <4>1, <4>2 DEF Sound
    <3> QED BY <3>4, <3>5 DEF Solvent
  <2> QED BY <2>7, <2>8, <2>9
<1>2. Init => SInv
  BY SureAtFirst DEF Init, SInv
<1>3. IInv /\ SInv /\ [Next]_vars => SInv'
  <2> SUFFICES ASSUME IInv, SInv, [Next]_vars PROVE SInv'
    OBVIOUS
  <2>1. CASE UNCHANGED vars
    BY <2>1 DEF vars, SInv
  <2>2. CASE Next
    BY <2>2, SInvStays DEF Next
  <2> QED BY <2>1, <2>2
<1> QED BY <1>1, <1>2, <1>3, Invariant, PTL DEF Spec
=============================================================================
