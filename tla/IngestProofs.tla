----------------------------- MODULE IngestProofs -----------------------------
(***************************************************************************)
(* What Ingest promises for any number of processes, records and faults.   *)
(***************************************************************************)
EXTENDS Ingest, LogLemmas

\* Leaving records out of a list leaves the others in it, and no more.
LEMMA WithoutKeeps ==
    ASSUME NEW S, NEW list \in Seq(S), NEW gone
    PROVE  /\ Without(list, gone) \in Seq(S)
           /\ ToSet(Without(list, gone)) = ToSet(list) \ gone
<1> DEFINE n == Len(list)
           more(kept, k) == IF list[k] \in gone THEN kept ELSE Append(kept, list[k])
           fold == CHOOSE f : f = [k \in 0 .. n |-> IF k = 0 THEN <<>> ELSE more(f[k - 1], k)]
<1>1. n \in Nat /\ DOMAIN list = 1 .. n /\ \A k \in 1 .. n : list[k] \in S
  OBVIOUS
<1>2. Without(list, gone) = fold[n]
  BY DEF Without
<1>3. \A kept \in Seq(S), k \in 1 .. n : more(kept, k) \in Seq(S)
  BY <1>1
<1>4. fold \in [0 .. n -> Seq(S)] /\ fold[0] = <<>>
      /\ \A k \in 1 .. n : fold[k] = more(fold[k - 1], k)
  <2> HIDE DEF more, n
  <2> DEFINE step == [x \in Seq(S) \X (1 .. n) |-> more(x[1], x[2])]
  <2>1. step \in [Seq(S) \X (1 .. n) -> Seq(S)] /\ <<>> \in Seq(S)
    BY <1>3
  <2> HIDE DEF step
  <2>2. PICK f : IsFold(f, Seq(S), n, <<>>, step)
    BY <1>1, <2>1, FoldExists
  <2>3. \A k \in 1 .. n : k - 1 \in 0 .. n /\ f[k - 1] \in Seq(S)
    BY <1>1, <2>2 DEF IsFold
  <2>4. \A k \in 1 .. n : f[k] = more(f[k - 1], k)
    BY <2>2, <2>3 DEF step, IsFold
  <2>5. f = [k \in 0 .. n |-> IF k = 0 THEN <<>> ELSE more(f[k - 1], k)]
    BY <1>1, <2>2, <2>4 DEF IsFold
  <2>6. fold = [k \in 0 .. n |-> IF k = 0 THEN <<>> ELSE more(fold[k - 1], k)]
    BY <2>5
  <2> HIDE DEF fold
  <2>7. /\ fold[0] = <<>>
        /\ \A k \in 1 .. n : fold[k] = more(fold[k - 1], k)
    BY <1>1, <2>6
  <2>8. \A k \in 0 .. n : fold[k] \in Seq(S)
    <3> DEFINE T == { k \in 0 .. n : fold[k] \in Seq(S) }
    <3>1. 0 \in T
      <4>1. 0 \in 0 .. n /\ fold[0] = <<>>
        BY <1>1, <2>7
      <4> QED BY <2>1, <4>1
    <3>2. ASSUME NEW k \in 0 .. n - 1, k \in T PROVE k + 1 \in T
      <4>1. k + 1 \in 1 .. n /\ k + 1 - 1 = k
        BY <1>1
      <4> QED BY <1>3, <2>7, <3>2, <4>1
    <3> QED BY <1>1, <3>1, <3>2, InductionUpTo
  <2> QED BY <2>6, <2>7, <2>8
<1> HIDE DEF fold
<1> DEFINE done(k) == { list[i] : i \in 1 .. k }
           T == { k \in 0 .. n : ToSet(fold[k]) = done(k) \ gone }
<1>5. 0 \in T
  <2>1. done(0) = {} /\ ToSet(<<>>) = {}
    BY DEF ToSet
  <2> HIDE DEF done
  <2> QED BY <1>1, <1>4, <2>1
<1>6. ASSUME NEW k \in 0 .. n - 1, k \in T PROVE k + 1 \in T
  <2>1. k + 1 \in 1 .. n /\ k + 1 - 1 = k /\ k \in 0 .. n /\ k + 1 \in 0 .. n
    BY <1>1
  <2>2. fold[k + 1] = more(fold[k], k + 1) /\ fold[k] \in Seq(S) /\ list[k + 1] \in S
    BY <1>1, <1>4, <2>1
  <2>3. done(k + 1) = done(k) \cup {list[k + 1]}
    <3>1. \A i \in 1 .. k + 1 : i \in 1 .. k \/ i = k + 1
      BY <1>1
    <3>2. 1 .. k \subseteq 1 .. k + 1 /\ k + 1 \in 1 .. k + 1
      BY <1>1
    <3> QED BY <3>1, <3>2
  <2>4. ToSet(Append(fold[k], list[k + 1])) = ToSet(fold[k]) \cup {list[k + 1]}
    BY <2>2, AppendedOne
  <2> HIDE DEF done, n
  <2>5. ToSet(fold[k + 1]) = done(k + 1) \ gone
    BY <1>6, <2>2, <2>3, <2>4
  <2> QED BY <2>1, <2>5
<1>7. n \in T
  <2> HIDE DEF T
  <2>1. \A k \in 0 .. n : k \in T
    BY <1>1, <1>5, <1>6, InductionUpTo
  <2> QED BY <1>1, <2>1
<1>8. done(n) = ToSet(list)
  BY <1>1 DEF ToSet
<1> QED BY <1>1, <1>2, <1>4, <1>7, <1>8

----------------------------------------------------------------------------
WalkState == [accepted : Seq(Records), rejected : BOOLEAN]

\* Some events, no two of which the gate refuses together.
Clashless(set) == \A x, y \in set : {x, y} \notin Clashes

\* What is true of a walk through the candidates of a set.
WalkGood(events, set, acc) ==
    /\ ToSet(acc.accepted) \subseteq set
    /\ ~ acc.rejected => set \subseteq Seen(events, acc)
    /\ IsInjective(events) => IsInjective(events \o acc.accepted)
    /\ Clashless(ToSet(events)) => Clashless(Seen(events, acc))

\* One more candidate, and the walk is still a walk.
LEMMA WalkOneType ==
    ASSUME NEW events, NEW acc \in WalkState, NEW r \in Records
    PROVE  WalkOne(events, acc, r) \in WalkState
<1>1. /\ acc.accepted \in Seq(Records) /\ acc.rejected \in BOOLEAN
      /\ Append(acc.accepted, r) \in Seq(Records)
  BY LogType DEF WalkState
<1>2. /\ [acc EXCEPT !.rejected = TRUE] \in WalkState
      /\ [acc EXCEPT !.accepted = Append(@, r)] \in WalkState
  BY <1>1 DEF WalkState
<1> QED BY <1>2 DEF WalkOne

\* And what is true of it is true of one candidate more.
LEMMA WalkOneGood ==
    ASSUME NEW events \in Seq(Records), NEW set, NEW acc \in WalkState, NEW r \in Records,
           WalkGood(events, set, acc)
    PROVE  WalkGood(events, set \cup {r}, WalkOne(events, acc, r))
<1> DEFINE next == WalkOne(events, acc, r)
<1>1. /\ acc.accepted \in Seq(Records) /\ acc.rejected \in BOOLEAN
      /\ acc = [accepted |-> acc.accepted, rejected |-> acc.rejected]
  BY DEF WalkState
<1>2. CASE acc.rejected \/ r \in Seen(events, acc)
  <2>1. next = acc
    BY <1>2 DEF WalkOne
  <2>2. WalkGood(events, set \cup {r}, acc)
    BY <1>2 DEF WalkGood
  <2> QED BY <2>1, <2>2
<1>3. CASE ~ acc.rejected /\ r \notin Seen(events, acc)
           /\ \E x \in Seen(events, acc) \cup {r} : {x, r} \in Clashes
  <2>1. next = [acc EXCEPT !.rejected = TRUE]
    BY <1>3 DEF WalkOne
  <2>2. next.accepted = acc.accepted /\ next.rejected
    BY <1>1, <2>1
  <2> HIDE DEF next
  <2>3. WalkGood(events, set \cup {r}, next)
    BY <2>2 DEF WalkGood, Seen
  <2> QED BY <2>3 DEF next
<1>4. CASE ~ acc.rejected /\ r \notin Seen(events, acc)
           /\ \A x \in Seen(events, acc) \cup {r} : {x, r} \notin Clashes
  <2>1. next = [acc EXCEPT !.accepted = Append(@, r)]
    BY <1>4 DEF WalkOne
  <2>3. next.accepted = Append(acc.accepted, r) /\ next.rejected = FALSE
    BY <1>1, <1>4, <2>1
  <2> HIDE DEF next
  <2>4. ToSet(next.accepted) = ToSet(acc.accepted) \cup {r}
    BY <1>1, <2>3, AppendedOne
  <2>5. Seen(events, next) = Seen(events, acc) \cup {r}
    BY <2>4 DEF Seen
  <2>6. ASSUME IsInjective(events) PROVE IsInjective(events \o next.accepted)
    <3>1. events \o acc.accepted \in Seq(Records)
      BY <1>1, LogType
    <3>2. ToSet(events \o acc.accepted) = Seen(events, acc)
      BY <1>1, AppendedOnly DEF Seen
    <3>3. events \o next.accepted = Append(events \o acc.accepted, r)
      BY <1>1, <2>3
    <3>4. IsInjective(events \o acc.accepted)
      BY <2>6 DEF WalkGood
    <3> QED BY <1>4, <3>1, <3>2, <3>3, <3>4, StillOnce
  <2>7. ASSUME Clashless(ToSet(events)) PROVE Clashless(Seen(events, next))
    <3>1. Clashless(Seen(events, acc))
      BY <2>7 DEF WalkGood
    <3>2. \A x \in Seen(events, acc) \cup {r} : {x, r} \notin Clashes /\ {r, x} \notin Clashes
      <4>1. \A x : {r, x} = {x, r}
        OBVIOUS
      <4> QED BY <1>4, <4>1
    <3> QED BY <2>5, <3>1, <3>2 DEF Clashless
  <2>8. WalkGood(events, set \cup {r}, next)
    BY <1>4, <2>3, <2>4, <2>5, <2>6, <2>7 DEF WalkGood
  <2> QED BY <2>8 DEF next
<1> QED BY <1>1, <1>2, <1>3, <1>4

\* The whole walk.
LEMMA WalkIsGood ==
    ASSUME NEW events \in Seq(Records), NEW candidates \in Seq(Records)
    PROVE  /\ Walk(events, candidates) \in WalkState
           /\ WalkGood(events, ToSet(candidates), Walk(events, candidates))
<1> DEFINE n == Len(candidates)
           start == [accepted |-> <<>>, rejected |-> FALSE]
           more(acc, k) == WalkOne(events, acc, candidates[k])
           fold == CHOOSE f : f = [k \in 0 .. n |-> IF k = 0 THEN start ELSE more(f[k - 1], k)]
           done(k) == { candidates[i] : i \in 1 .. k }
           Good(acc, k) == acc \in WalkState /\ WalkGood(events, done(k), acc)
<1>1. /\ n \in Nat /\ DOMAIN candidates = 1 .. n
      /\ \A k \in 1 .. n : candidates[k] \in Records
  OBVIOUS
<1>2. Walk(events, candidates) = fold[n]
  BY DEF Walk
<1>3. Good(start, 0)
  <2>1. done(0) = {}
    OBVIOUS
  <2>2. start \in WalkState /\ start.accepted = <<>> /\ ~ start.rejected
    BY EmptyLog DEF WalkState
  <2>3. ToSet(<<>>) = {} /\ events \o <<>> = events
    BY DEF ToSet
  <2> HIDE DEF start, done
  <2> QED BY <2>1, <2>2, <2>3 DEF WalkGood, Seen, Clashless
<1>4. ASSUME NEW k \in 0 .. n - 1, NEW acc, Good(acc, k)
      PROVE  Good(more(acc, k + 1), k + 1)
  <2>1. k + 1 \in 1 .. n /\ candidates[k + 1] \in Records
    BY <1>1
  <2>2. done(k + 1) = done(k) \cup {candidates[k + 1]}
    <3>1. \A i \in 1 .. k + 1 : i \in 1 .. k \/ i = k + 1
      BY <1>1
    <3>2. 1 .. k \subseteq 1 .. k + 1 /\ k + 1 \in 1 .. k + 1
      BY <1>1
    <3> QED BY <3>1, <3>2
  <2> HIDE DEF done, n
  <2> QED BY <1>4, <2>1, <2>2, WalkOneType, WalkOneGood
<1>5. /\ fold[0] = start
      /\ \A k \in 1 .. n : fold[k] = more(fold[k - 1], k)
  <2> DEFINE step == [x \in WalkState \X (1 .. n) |-> more(x[1], x[2])]
  <2>1. start \in WalkState /\ \A acc \in WalkState, k \in 1 .. n : more(acc, k) \in WalkState
    BY <1>1, <1>3, WalkOneType
  <2> HIDE DEF more, n, start
  <2>2. step \in [WalkState \X (1 .. n) -> WalkState]
    BY <2>1
  <2> HIDE DEF step
  <2>3. PICK f : IsFold(f, WalkState, n, start, step)
    BY <1>1, <2>1, <2>2, FoldExists
  <2>4. \A k \in 1 .. n : k - 1 \in 0 .. n /\ f[k - 1] \in WalkState
    BY <1>1, <2>3 DEF IsFold
  <2>5. \A k \in 1 .. n : f[k] = more(f[k - 1], k)
    BY <2>3, <2>4 DEF step, IsFold
  <2>6. f = [k \in 0 .. n |-> IF k = 0 THEN start ELSE more(f[k - 1], k)]
    BY <1>1, <2>3, <2>5 DEF IsFold
  <2>7. fold = [k \in 0 .. n |-> IF k = 0 THEN start ELSE more(fold[k - 1], k)]
    BY <2>6
  <2> HIDE DEF fold
  <2> QED BY <1>1, <2>7
<1> HIDE DEF fold, Good, more, start
<1> DEFINE T == { k \in 0 .. n : Good(fold[k], k) }
<1>6. 0 \in T
  BY <1>1, <1>3, <1>5
<1>7. ASSUME NEW k \in 0 .. n - 1, k \in T PROVE k + 1 \in T
  <2>1. k + 1 \in 1 .. n /\ k + 1 - 1 = k /\ k + 1 \in 0 .. n
    BY <1>1
  <2>2. fold[k + 1] = more(fold[k], k + 1)
    BY <1>5, <2>1
  <2> HIDE DEF n
  <2> QED BY <1>4, <1>7, <2>1, <2>2
<1>8. n \in T
  <2> HIDE DEF T
  <2>1. \A k \in 0 .. n : k \in T
    BY <1>1, <1>6, <1>7, InductionUpTo
  <2> QED BY <1>1, <2>1
<1>9. done(n) = ToSet(candidates)
  BY <1>1 DEF ToSet
<1> HIDE DEF done, n
<1> QED BY <1>2, <1>8, <1>9 DEF Good

\* What is merged is what was there and the marks, each mark once more at the most.
LEMMA MergeKeeps ==
    ASSUME NEW existing \in Seq(Records), NEW f \in Feeds
    PROVE  /\ Merge(existing, Marks(f)) \in Seq(Records)
           /\ ToSet(existing) \subseteq ToSet(Merge(existing, Marks(f)))
<1>1. Marks(f) \in Seq(Records)
  BY IngestAssumption
<1>2. Without(Marks(f), ToSet(existing)) \in Seq(Records)
  BY <1>1, WithoutKeeps
<1> QED BY <1>2, LogType, AppendedKeeps DEF Merge

----------------------------------------------------------------------------
\* The two halves of the type invariant: the processes, and the rest.
LocalsOK ==
    /\ \A p \in Spines : pc[p] \in SpineSteps \cup {"idle"}
    /\ \A f \in Feeds : pc[f] \in FeedSteps \cup {"idle"}
    /\ DOMAIN pc = Processes
    /\ read \in [Processes -> Seq(Records)]
    /\ prior \in [Spines -> Seq(Records)] /\ base \in [Spines -> Seq(Records)]
    /\ fd \in [Feeds -> {"none", "temp", "inbox", "archived", "replaced"}]
    /\ \A p \in Processes : pc[p] = "idle" => read[p] = <<>>
    /\ \A f \in Feeds : pc[f] \notin {"filling", "renaming"} => fd[f] = "none"

DiskOK ==
    /\ overlap \in DOMAIN MaxFaults
    /\ log \in Seq(Records) /\ digest \in Seq(Records)
    /\ inbox \in Seq(Records) \cup {NoFile, Torn}
    /\ temp \in Seq(Records) \cup {NoFile, Torn}
    /\ archive \in Seq(Seq(Records) \cup {Torn})
    /\ index \in Copy /\ head \in Copy
    /\ offered \subseteq Records
    /\ faults \in Nat /\ loud \in BOOLEAN /\ refused \subseteq {"log", "digest"}

LEMMA TypeHalves == TypeOK <=> LocalsOK /\ DiskOK
BY DEF TypeOK, LocalsOK, DiskOK

\* A process that goes to a step of its own kind leaves the others where they are.
LEMMA GoneTo ==
    ASSUME LocalsOK, NEW p \in Processes, NEW step, Goto(p, step),
           \/ p \in Spines /\ step \in SpineSteps \cup {"idle"}
           \/ p \in Feeds /\ step \in FeedSteps \cup {"idle"}
    PROVE  /\ pc'[p] = step /\ \A q \in Processes : q # p => pc'[q] = pc[q]
           /\ DOMAIN pc' = Processes
           /\ \A q \in Spines : pc'[q] \in SpineSteps \cup {"idle"}
           /\ \A f \in Feeds : pc'[f] \in FeedSteps \cup {"idle"}
<1>1. DOMAIN pc = Processes /\ Processes = Spines \cup Feeds /\ Spines \cap Feeds = {}
  BY IngestAssumption DEF LocalsOK, Processes
<1>2. /\ pc'[p] = step /\ \A q \in Processes : q # p => pc'[q] = pc[q]
      /\ DOMAIN pc' = Processes
  BY <1>1 DEF Goto
<1>3. ASSUME NEW q \in Spines PROVE pc'[q] \in SpineSteps \cup {"idle"}
  BY <1>1, <1>2 DEF LocalsOK
<1>4. ASSUME NEW f \in Feeds PROVE pc'[f] \in FeedSteps \cup {"idle"}
  BY <1>1, <1>2 DEF LocalsOK
<1> QED BY <1>2, <1>3, <1>4

\* A process that ends is idle and holds nothing.
LEMMA Forgotten ==
    ASSUME LocalsOK, NEW p \in Processes, Forget(p)
    PROVE  /\ LocalsOK' /\ pc'[p] = "idle" /\ \A q \in Processes : q # p => pc'[q] = pc[q]
<1>1. /\ Goto(p, "idle") /\ read' = [read EXCEPT ![p] = <<>>]
      /\ prior' = [s \in Spines |-> IF s = p THEN <<>> ELSE prior[s]]
      /\ base' = [s \in Spines |-> IF s = p THEN <<>> ELSE base[s]]
      /\ fd' = [f \in Feeds |-> IF f = p THEN "none" ELSE fd[f]]
  BY DEF Forget
<1>2. /\ pc'[p] = "idle" /\ \A q \in Processes : q # p => pc'[q] = pc[q]
      /\ DOMAIN pc' = Processes
      /\ \A q \in Spines : pc'[q] \in SpineSteps \cup {"idle"}
      /\ \A f \in Feeds : pc'[f] \in FeedSteps \cup {"idle"}
  BY <1>1, GoneTo DEF Processes
<1>3. read' \in [Processes -> Seq(Records)]
  BY <1>1, EmptyLog, Replaced, Zenon DEF LocalsOK
<1>4. \A s \in Spines : prior[s] \in Seq(Records) /\ base[s] \in Seq(Records)
  BY DEF LocalsOK
<1>5. prior' \in [Spines -> Seq(Records)] /\ base' \in [Spines -> Seq(Records)]
  BY <1>1, <1>4, EmptyLog
<1>6. fd' \in [Feeds -> {"none", "temp", "inbox", "archived", "replaced"}]
  BY <1>1 DEF LocalsOK
<1>7. ASSUME NEW q \in Processes, pc'[q] = "idle" PROVE read'[q] = <<>>
  BY <1>1, <1>2, <1>7 DEF LocalsOK
<1>8. ASSUME NEW f \in Feeds, pc'[f] \notin {"filling", "renaming"} PROVE fd'[f] = "none"
  BY <1>1, <1>2, <1>8 DEF LocalsOK, Processes
<1> QED BY <1>2, <1>3, <1>5, <1>6, <1>7, <1>8 DEF LocalsOK

\* A spine that goes on keeps the types when what it writes down has them.
LEMMA SpineGoesOn ==
    ASSUME LocalsOK, NEW p \in Spines, NEW step \in SpineSteps, Goto(p, step),
           read' \in [Processes -> Seq(Records)], prior' \in [Spines -> Seq(Records)],
           base' \in [Spines -> Seq(Records)], UNCHANGED fd,
           \A q \in Processes : q # p => read'[q] = read[q]
    PROVE  LocalsOK'
<1>1. p \in Processes /\ step # "idle" /\ p \notin Feeds
  BY IngestAssumption DEF Processes, SpineSteps
<1>2. /\ pc'[p] = step /\ \A q \in Processes : q # p => pc'[q] = pc[q]
      /\ DOMAIN pc' = Processes
      /\ \A q \in Spines : pc'[q] \in SpineSteps \cup {"idle"}
      /\ \A f \in Feeds : pc'[f] \in FeedSteps \cup {"idle"}
  BY <1>1, GoneTo
<1>3. \A q \in Processes : pc'[q] = "idle" => read'[q] = <<>>
  BY <1>1, <1>2 DEF LocalsOK
<1>4. \A f \in Feeds : pc'[f] = pc[f]
  BY <1>1, <1>2 DEF Processes
<1> QED BY <1>2, <1>3, <1>4 DEF LocalsOK

\* And so does a feed.
LEMMA FeedGoesOn ==
    ASSUME LocalsOK, NEW f \in Feeds, NEW step \in FeedSteps, Goto(f, step),
           read' \in [Processes -> Seq(Records)], UNCHANGED <<prior, base>>,
           fd' \in [Feeds -> {"none", "temp", "inbox", "archived", "replaced"}],
           \A q \in Processes : q # f => read'[q] = read[q],
           \A g \in Feeds : g # f => fd'[g] = fd[g],
           step = "opening" => fd'[f] = "none"
    PROVE  LocalsOK'
<1>1. f \in Processes /\ step # "idle"
  BY DEF Processes, FeedSteps
<1>2. /\ pc'[f] = step /\ \A q \in Processes : q # f => pc'[q] = pc[q]
      /\ DOMAIN pc' = Processes
      /\ \A q \in Spines : pc'[q] \in SpineSteps \cup {"idle"}
      /\ \A g \in Feeds : pc'[g] \in FeedSteps \cup {"idle"}
  BY <1>1, GoneTo
<1>3. \A q \in Processes : pc'[q] = "idle" => read'[q] = <<>>
  BY <1>1, <1>2 DEF LocalsOK
<1>4. ASSUME NEW g \in Feeds, pc'[g] \notin {"filling", "renaming"} PROVE fd'[g] = "none"
  BY <1>2, <1>4 DEF LocalsOK, FeedSteps, Processes
<1> QED BY <1>2, <1>3, <1>4 DEF LocalsOK

\* What a walk accepts is records.
LEMMA AcceptedType ==
    ASSUME LocalsOK, NEW p \in Spines
    PROVE  /\ prior[p] \in Seq(Records) /\ read[p] \in Seq(Records) /\ base[p] \in Seq(Records)
           /\ Accepted(p) \in Seq(Records)
<1>1. prior[p] \in Seq(Records) /\ read[p] \in Seq(Records) /\ base[p] \in Seq(Records)
  BY DEF LocalsOK, Processes
<1>2. Walk(prior[p], read[p]) \in WalkState
  BY <1>1, WalkIsGood
<1> QED BY <1>1, <1>2 DEF Accepted, WalkState

\* Every step of a spine keeps the types.
LEMMA SpineTypes ==
    ASSUME TypeOK, NEW p \in Spines, UNCHANGED overlap,
           ReadInbox(p) \/ AdvanceSpine(p) \/ StageRefused(p) \/ CaptureFails(p)
    PROVE  TypeOK'
<1>0. /\ LocalsOK /\ DiskOK /\ p \in Processes
      /\ log \in Seq(Records) /\ digest \in Seq(Records)
      /\ read \in [Processes -> Seq(Records)]
      /\ prior \in [Spines -> Seq(Records)] /\ base \in [Spines -> Seq(Records)]
  BY TypeHalves DEF TypeOK, Processes
<1> SUFFICES LocalsOK' /\ DiskOK'
  BY TypeHalves DEF TypeOK, LocalsOK, DiskOK
<1>1. CASE ReadInbox(p)
  <2>1. /\ inbox \in Seq(Records) /\ Goto(p, "loading") /\ read' = [read EXCEPT ![p] = inbox]
        /\ UNCHANGED <<disk, git, prior, base, fd, offered, faults, loud, refused>>
    BY <1>0, <1>1 DEF ReadInbox, DiskOK
  <2>2. read' \in [Processes -> Seq(Records)]
    BY <1>0, <2>1, Replaced, Zenon
  <2>3. LocalsOK'
    BY <1>0, <2>1, <2>2, SpineGoesOn DEF SpineSteps
  <2> QED BY <1>0, <2>1, <2>3 DEF DiskOK, disk, git
<1>2. CASE LoadLog(p)
  <2>1. UNCHANGED <<disk, git, offered, faults, refused>>
    BY <1>2 DEF LoadLog
  <2>2. CASE Forget(p) /\ loud' = (loud \/ Walk(log, read[p]).rejected)
    <3>1. Walk(log, read[p]).rejected \in BOOLEAN
      BY <1>0, WalkIsGood DEF WalkState
    <3>2. LocalsOK'
      BY <1>0, <2>2, Forgotten
    <3> QED BY <1>0, <2>1, <2>2, <3>1, <3>2 DEF DiskOK, disk, git
  <2>3. CASE /\ prior' = [prior EXCEPT ![p] = log] /\ Goto(p, "appending")
             /\ UNCHANGED <<read, base, fd, loud>>
    <3>1. prior' \in [Spines -> Seq(Records)]
      BY <1>0, <2>3, Replaced, Zenon
    <3>2. LocalsOK'
      BY <1>0, <2>3, <3>1, SpineGoesOn DEF SpineSteps
    <3> QED BY <1>0, <2>1, <2>3, <3>2 DEF DiskOK, disk, git
  <2> QED BY <1>2, <2>2, <2>3 DEF LoadLog
<1>3. CASE Reread(p)
  <2>1. /\ Goto(p, "publishing") /\ base' = [base EXCEPT ![p] = log]
        /\ UNCHANGED <<disk, git, read, prior, fd, offered, faults, loud, refused>>
    BY <1>3 DEF Reread
  <2>2. base' \in [Spines -> Seq(Records)]
    BY <1>0, <2>1, Replaced, Zenon
  <2>3. LocalsOK'
    BY <1>0, <2>1, <2>2, SpineGoesOn DEF SpineSteps
  <2> QED BY <1>0, <2>1, <2>3 DEF DiskOK, disk, git
<1>4. CASE WriteLog(p)
  <2>1. /\ Goto(p, "digesting") /\ log' = base[p] \o Accepted(p)
        /\ UNCHANGED <<inbox, temp, archive, git, read, prior, base, fd,
                       offered, faults, loud, refused>>
    BY <1>4 DEF WriteLog
  <2>2. log' \in Seq(Records)
    BY <1>0, <2>1, AcceptedType, LogType
  <2>3. LocalsOK'
    BY <1>0, <2>1, SpineGoesOn DEF SpineSteps
  <2> QED BY <1>0, <2>1, <2>2, <2>3 DEF DiskOK, git
<1>5. CASE WriteDigest(p)
  <2>1. /\ Goto(p, "staging log") /\ digest' = prior[p] \o Accepted(p)
        /\ UNCHANGED <<disk, index, head, read, prior, base, fd, offered, faults, loud, refused>>
    BY <1>5 DEF WriteDigest
  <2>2. digest' \in Seq(Records)
    BY <1>0, <2>1, AcceptedType, LogType
  <2>3. LocalsOK'
    BY <1>0, <2>1, SpineGoesOn DEF SpineSteps
  <2> QED BY <1>0, <2>1, <2>2, <2>3 DEF DiskOK, disk
<1>6. CASE StageLog(p) \/ StageDigest(p) \/ Commit(p)
  <2>1. /\ \E step \in SpineSteps : Goto(p, step)
        /\ UNCHANGED <<disk, digest, read, prior, base, fd, offered, faults, loud, refused>>
    BY <1>6 DEF StageLog, StageDigest, Commit, SpineSteps
  <2>2. index' \in Copy /\ head' \in Copy
    BY <1>0, <1>6 DEF DiskOK, Copy, StageLog, StageDigest, Commit
  <2>3. LocalsOK'
    BY <1>0, <2>1, SpineGoesOn
  <2> QED BY <1>0, <2>1, <2>2, <2>3 DEF DiskOK, disk
<1>7. CASE Archive(p)
  <2>1. UNCHANGED <<log, temp, git, offered, faults, refused>>
    BY <1>7 DEF Archive
  <2>2. CASE inbox = NoFile
    <3>1. loud' = TRUE /\ UNCHANGED <<inbox, archive>> /\ Forget(p)
      BY <1>7, <2>2 DEF Archive
    <3>2. LocalsOK'
      BY <1>0, <3>1, Forgotten
    <3> QED BY <1>0, <2>1, <3>1, <3>2 DEF DiskOK, git
  <2>3. CASE inbox # NoFile
    <3>1. /\ archive' = Append(archive, inbox) /\ inbox' = NoFile /\ Goto(p, "idle")
          /\ read' = [read EXCEPT ![p] = <<>>] /\ prior' = [prior EXCEPT ![p] = <<>>]
          /\ base' = [base EXCEPT ![p] = <<>>]
          /\ fd' = [f \in Feeds |-> IF fd[f] = "inbox" THEN "archived" ELSE fd[f]]
          /\ UNCHANGED loud
      BY <1>7, <2>3 DEF Archive
    <3>2. inbox \in Seq(Records) \cup {Torn} /\ archive \in Seq(Seq(Records) \cup {Torn})
      BY <1>0, <2>3 DEF DiskOK
    <3>3. archive' \in Seq(Seq(Records) \cup {Torn})
      BY <3>1, <3>2, LogType
    <3>4. /\ read' \in [Processes -> Seq(Records)]
          /\ prior' \in [Spines -> Seq(Records)] /\ base' \in [Spines -> Seq(Records)]
      BY <1>0, <3>1, EmptyLog, Replaced, Zenon
    <3>5. fd' \in [Feeds -> {"none", "temp", "inbox", "archived", "replaced"}]
      BY <1>0, <3>1 DEF LocalsOK
    <3>6. /\ pc'[p] = "idle" /\ \A q \in Processes : q # p => pc'[q] = pc[q]
          /\ DOMAIN pc' = Processes
          /\ \A q \in Spines : pc'[q] \in SpineSteps \cup {"idle"}
          /\ \A f \in Feeds : pc'[f] \in FeedSteps \cup {"idle"}
      BY <1>0, <3>1, GoneTo
    <3>7. ASSUME NEW q \in Processes, pc'[q] = "idle" PROVE read'[q] = <<>>
      BY <1>0, <3>1, <3>6, <3>7 DEF LocalsOK
    <3>8. ASSUME NEW f \in Feeds, pc'[f] \notin {"filling", "renaming"} PROVE fd'[f] = "none"
      <4>1. f # p /\ f \in Processes
        BY IngestAssumption DEF Processes
      <4> QED BY <1>0, <3>1, <3>6, <3>8, <4>1 DEF LocalsOK
    <3>9. LocalsOK'
      BY <3>4, <3>5, <3>6, <3>7, <3>8 DEF LocalsOK
    <3> QED BY <1>0, <2>1, <3>1, <3>3, <3>9 DEF DiskOK, git
  <2> QED BY <2>2, <2>3
<1>8. CASE StageRefused(p) \/ CaptureFails(p)
  <2>1. /\ \E step \in SpineSteps : Goto(p, step)
        /\ UNCHANGED <<disk, git, read, prior, base, fd, offered, loud>>
        /\ refused' \in {refused, refused \cup {"log"}, refused \cup {"digest"}}
        /\ faults' = faults + 1
    BY <1>8 DEF StageRefused, CaptureFails, SpineSteps
  <2>2. LocalsOK'
    BY <1>0, <2>1, SpineGoesOn
  <2>3. faults' \in Nat /\ refused' \subseteq {"log", "digest"}
    BY <1>0, <2>1 DEF DiskOK
  <2> QED BY <1>0, <2>1, <2>2, <2>3 DEF DiskOK, disk, git
<1> QED BY <1>1, <1>2, <1>3, <1>4, <1>5, <1>6, <1>7, <1>8 DEF AdvanceSpine

\* Every step of a feed keeps the types.
LEMMA FeedTypes ==
    ASSUME TypeOK, NEW f \in Feeds, UNCHANGED overlap, ReadForMerge(f) \/ AdvanceFeed(f)
    PROVE  TypeOK'
<1>0. /\ LocalsOK /\ DiskOK /\ f \in Processes
      /\ read \in [Processes -> Seq(Records)] /\ read[f] \in Seq(Records)
      /\ fd \in [Feeds -> {"none", "temp", "inbox", "archived", "replaced"}]
  BY TypeHalves DEF TypeOK, Processes
<1> SUFFICES LocalsOK' /\ DiskOK'
  BY TypeHalves DEF TypeOK, LocalsOK, DiskOK
<1>1. CASE ReadForMerge(f)
  <2>1. /\ Goto(f, "opening") /\ read' = [read EXCEPT ![f] = Existing]
        /\ UNCHANGED <<disk, git, prior, base, fd, offered, faults, loud, refused>>
        /\ inbox # Torn /\ pc[f] = "idle"
    BY <1>1 DEF ReadForMerge, MayStart
  <2>2. Existing \in Seq(Records)
    BY <1>0, <2>1, EmptyLog DEF DiskOK, Existing
  <2>3. read' \in [Processes -> Seq(Records)]
    BY <1>0, <2>1, <2>2, Replaced, Zenon
  <2>4. fd[f] = "none"
    BY <1>0, <2>1 DEF LocalsOK
  <2>5. LocalsOK'
    BY <1>0, <2>1, <2>3, <2>4, FeedGoesOn DEF FeedSteps
  <2> QED BY <1>0, <2>1, <2>5 DEF DiskOK, disk, git
<1>2. CASE OpenTemp(f)
  <2>1. /\ Goto(f, "filling") /\ temp' = Torn /\ fd' = [fd EXCEPT ![f] = "temp"]
        /\ UNCHANGED <<log, inbox, archive, git, read, prior, base, offered, faults, loud, refused>>
    BY <1>2 DEF OpenTemp
  <2>2. LocalsOK'
    BY <1>0, <2>1, FeedGoesOn DEF FeedSteps
  <2> QED BY <1>0, <2>1, <2>2 DEF DiskOK, git
<1>3. CASE FillTemp(f)
  <2> DEFINE next == Merge(read[f], Marks(f))
  <2>1. /\ Goto(f, "renaming")
        /\ temp' = IF fd[f] = "temp" THEN next ELSE temp
        /\ inbox' = IF fd[f] = "inbox" THEN next ELSE inbox
        /\ offered' = IF fd[f] = "inbox" THEN offered \cup ToSet(next) ELSE offered
        /\ UNCHANGED <<log, archive, git, read, prior, base, fd, faults, loud, refused>>
    BY <1>3 DEF FillTemp
  <2>2. next \in Seq(Records)
    BY <1>0, MergeKeeps
  <2>3. ToSet(next) \subseteq Records
    BY <2>2, MembersType
  <2> HIDE DEF next
  <2>4. LocalsOK'
    BY <1>0, <2>1, FeedGoesOn DEF FeedSteps
  <2> QED BY <1>0, <2>1, <2>2, <2>3, <2>4 DEF DiskOK, git
<1>4. CASE RenameTemp(f)
  <2>1. UNCHANGED <<log, archive, git, faults, refused>>
    BY <1>4 DEF RenameTemp
  <2>2. CASE temp = NoFile
    <3>1. Forget(f) /\ loud' = TRUE /\ UNCHANGED <<inbox, temp, offered>>
      BY <1>4, <2>2 DEF RenameTemp
    <3>2. LocalsOK'
      BY <1>0, <3>1, Forgotten
    <3> QED BY <1>0, <2>1, <3>1, <3>2 DEF DiskOK, git
  <2>3. CASE temp # NoFile
    <3>1. /\ inbox' = temp /\ temp' = NoFile
          /\ offered' = IF temp = Torn THEN offered ELSE offered \cup ToSet(temp)
          /\ fd' = [g \in Feeds |-> CASE g = f -> "none"
                                      [] g # f /\ fd[g] = "temp" -> "inbox"
                                      [] g # f /\ fd[g] = "inbox" -> "replaced"
                                      [] OTHER -> fd[g]]
          /\ Goto(f, "idle") /\ read' = [read EXCEPT ![f] = <<>>]
          /\ UNCHANGED <<prior, base, loud>>
      BY <1>4, <2>3 DEF RenameTemp
    <3>2. temp # Torn => temp \in Seq(Records)
      BY <1>0, <2>3 DEF DiskOK
    <3>3. offered' \subseteq Records
      BY <1>0, <3>1, <3>2, MembersType DEF DiskOK
    <3>4. read' \in [Processes -> Seq(Records)]
      BY <1>0, <3>1, EmptyLog, Replaced, Zenon
    <3>5. ASSUME NEW g \in Feeds
          PROVE  /\ fd'[g] \in {"none", "temp", "inbox", "archived", "replaced"}
                 /\ g = f => fd'[g] = "none"
                 /\ g # f /\ fd[g] = "none" => fd'[g] = "none"
      BY <1>0, <3>1
    <3>6. fd' \in [Feeds -> {"none", "temp", "inbox", "archived", "replaced"}]
      BY <3>1, <3>5
    <3>7. /\ pc'[f] = "idle" /\ \A q \in Processes : q # f => pc'[q] = pc[q]
          /\ DOMAIN pc' = Processes
          /\ \A q \in Spines : pc'[q] \in SpineSteps \cup {"idle"}
          /\ \A g \in Feeds : pc'[g] \in FeedSteps \cup {"idle"}
      BY <1>0, <3>1, GoneTo
    <3>8. ASSUME NEW q \in Processes, pc'[q] = "idle" PROVE read'[q] = <<>>
      BY <1>0, <3>1, <3>7, <3>8 DEF LocalsOK
    <3>9. ASSUME NEW g \in Feeds, pc'[g] \notin {"filling", "renaming"} PROVE fd'[g] = "none"
      BY <1>0, <3>5, <3>7, <3>9 DEF LocalsOK, Processes
    <3>10. LocalsOK'
      BY <1>0, <3>1, <3>4, <3>6, <3>7, <3>8, <3>9 DEF LocalsOK
    <3> QED BY <1>0, <2>1, <3>1, <3>3, <3>10 DEF DiskOK, git
  <2> QED BY <2>2, <2>3
<1> QED BY <1>1, <1>2, <1>3, <1>4 DEF AdvanceFeed

\* And every other step.
LEMMA OtherTypes ==
    ASSUME TypeOK, UNCHANGED overlap,
           \/ \E r \in HandRecords : Drop(r) \/ TakeBack(r)
           \/ \E p \in Processes : ReadTornInbox(p) \/ Crash(p) \/ WriteFails(p)
    PROVE  TypeOK'
<1>0. LocalsOK /\ DiskOK
  BY TypeHalves
<1> SUFFICES LocalsOK' /\ DiskOK'
  BY TypeHalves DEF TypeOK, LocalsOK, DiskOK
<1>1. ASSUME NEW r \in HandRecords, Drop(r) PROVE LocalsOK' /\ DiskOK'
  <2>1. /\ inbox # Torn /\ inbox' = Append(Existing, r) /\ offered' = offered \cup {r}
        /\ UNCHANGED <<log, temp, archive, git, locals, faults, loud, refused>>
    BY <1>1 DEF Drop
  <2>2. r \in Records /\ Existing \in Seq(Records)
    <3>1. r \in Records
      BY DEF Records
    <3>2. Existing \in Seq(Records)
      BY <1>0, <2>1, EmptyLog DEF DiskOK, Existing
    <3> QED BY <3>1, <3>2
  <2>3. inbox' \in Seq(Records)
    BY <2>1, <2>2, LogType
  <2>4. LocalsOK'
    BY <1>0, <2>1 DEF LocalsOK, locals
  <2> QED BY <1>0, <2>1, <2>2, <2>3, <2>4 DEF DiskOK, git
<1>2. ASSUME NEW r \in HandRecords, TakeBack(r) PROVE LocalsOK' /\ DiskOK'
  <2>1. /\ inbox \notin {NoFile, Torn} /\ inbox' = Without(inbox, {r}) /\ offered' = offered \ {r}
        /\ UNCHANGED <<log, temp, archive, git, locals, faults, loud, refused>>
    BY <1>2 DEF TakeBack
  <2>2. inbox \in Seq(Records)
    BY <1>0, <2>1 DEF DiskOK
  <2>3. inbox' \in Seq(Records)
    BY <2>1, <2>2, WithoutKeeps
  <2>4. LocalsOK'
    BY <1>0, <2>1 DEF LocalsOK, locals
  <2> QED BY <1>0, <2>1, <2>3, <2>4 DEF DiskOK, git
<1>3. ASSUME NEW p \in Processes, ReadTornInbox(p) PROVE LocalsOK' /\ DiskOK'
  <2>1. loud' = TRUE /\ UNCHANGED <<disk, git, locals, offered, faults, refused>>
    BY <1>3 DEF ReadTornInbox
  <2>2. LocalsOK'
    BY <1>0, <2>1 DEF LocalsOK, locals
  <2> QED BY <1>0, <2>1, <2>2 DEF DiskOK, disk, git
<1>4. ASSUME NEW p \in Processes, Crash(p) \/ WriteFails(p) PROVE LocalsOK' /\ DiskOK'
  <2>1. /\ Forget(p) /\ UNCHANGED <<disk, git, offered, refused>>
        /\ faults' = faults + 1 /\ loud' = TRUE
    BY <1>4 DEF Crash, WriteFails, Fault
  <2>2. LocalsOK'
    BY <1>0, <2>1, Forgotten
  <2> QED BY <1>0, <2>1, <2>2 DEF DiskOK, disk, git
<1> QED BY <1>1, <1>2, <1>3, <1>4

\* The types hold whoever overlaps and whatever fails.
THEOREM TypeCorrect == Spec => []TypeOK
<1>1. Init => TypeOK
  <2> SUFFICES ASSUME Init PROVE TypeOK
    OBVIOUS
  <2>1. /\ log \in Seq(Records) /\ digest \in Seq(Records) /\ archive \in Seq(Seq(Records) \cup {Torn})
    BY EmptyLog DEF Init
  <2>2. index \in Copy /\ head \in Copy
    BY EmptyLog DEF Init, Copy
  <2>3. /\ read \in [Processes -> Seq(Records)]
        /\ prior \in [Spines -> Seq(Records)] /\ base \in [Spines -> Seq(Records)]
    BY EmptyLog DEF Init
  <2>4. DiskOK
    BY <2>1, <2>2 DEF Init, DiskOK
  <2>5. LocalsOK
    BY <2>3 DEF Init, LocalsOK, Processes
  <2> QED BY <2>4, <2>5, TypeHalves
<1>2. TypeOK /\ [Next]_<<vars, overlap>> => TypeOK'
  <2> SUFFICES ASSUME TypeOK, [Next]_<<vars, overlap>> PROVE TypeOK'
    OBVIOUS
  <2>1. CASE UNCHANGED <<vars, overlap>>
    BY <2>1 DEF TypeOK, vars, disk, git, locals
  <2>2. CASE Next
    BY <2>2, SpineTypes, FeedTypes, OtherTypes DEF Next, Step
  <2> QED BY <2>1, <2>2
<1> QED BY <1>1, <1>2, PTL DEF Spec
----------------------------------------------------------------------------
\* One spine at a time: the schedule starts no two, or there is only one.
Lone == ~ overlap \/ \A p, q \in Spines : p = q
SpinesAlone == \A p, q \in Spines : pc[p] # "idle" /\ pc[q] # "idle" => p = q

\* What a spine relies on at each step, of the log, the digest and git's index.
SpineHolds(p) ==
    /\ pc[p] \in {"appending", "publishing"} =>
        prior[p] = log /\ ~ Walk(prior[p], read[p]).rejected
    /\ pc[p] = "publishing" => base[p] = log
    /\ pc[p] = "digesting" => log = prior[p] \o Accepted(p)
    /\ pc[p] \in {"staging log", "staging digest"} => digest = log
    /\ pc[p] = "staging digest" /\ refused = {} => index.log = log
    /\ pc[p] = "committing" /\ refused = {} => index.log = index.digest

\* The inductive invariant of the log and of what git holds.
LogInv ==
    Lone => /\ SpinesAlone /\ \A p \in Spines : SpineHolds(p)
            /\ LogIsSound /\ HeadIsPast /\ IsPrefix(index.log, log)

\* One process at a time.
Alone == \A p, q \in Processes : pc[p] # "idle" /\ pc[q] # "idle" => p = q

\* What a feed knows of the inbox, and that its file is still its own.
FeedKeeps(f) ==
    /\ pc[f] \in {"opening", "filling"} => read[f] = Existing
    /\ pc[f] = "filling" => fd[f] = "temp"
    /\ pc[f] = "renaming" => temp \in Seq(Records) /\ InInbox \subseteq ToSet(temp)

\* A spine works on the inbox as it is, and once it has written, all of it is logged.
SpineKeeps(p) ==
    /\ pc[p] \in {"loading", "appending", "publishing"} => read[p] = inbox /\ inbox # NoFile
    /\ pc[p] \in {"digesting", "staging log", "staging digest", "committing", "archiving"} =>
        inbox # NoFile /\ InInbox \subseteq ToSet(log)

\* The inductive invariant of the inbox, when the processes run one at a time.
KeepInv ==
    ~ overlap =>
        /\ Alone /\ (\A f \in Feeds : FeedKeeps(f)) /\ \A p \in Spines : SpineKeeps(p)
        /\ NoneLost /\ ArchivedIsLogged /\ InboxWhole

\* What is neither the log nor git's leaves the invariant, whoever ends meanwhile.
LEMMA LogFrame ==
    ASSUME LogInv, UNCHANGED <<overlap, log, digest, index, head, refused>>,
           \A q \in Spines :
             \/ pc'[q] = "idle"
             \/ pc'[q] = "archiving" /\ pc[q] # "idle"
             \/ /\ pc'[q] = pc[q] /\ prior'[q] = prior[q]
                /\ base'[q] = base[q] /\ read'[q] = read[q]
    PROVE  LogInv'
<1> SUFFICES ASSUME Lone
             PROVE  /\ SpinesAlone' /\ (\A p \in Spines : SpineHolds(p)')
                    /\ LogIsSound' /\ HeadIsPast' /\ IsPrefix(index.log, log)'
  BY DEF LogInv, Lone
<1>1. /\ SpinesAlone /\ (\A p \in Spines : SpineHolds(p))
      /\ LogIsSound /\ HeadIsPast /\ IsPrefix(index.log, log)
  BY DEF LogInv
<1>2. SpinesAlone'
  BY <1>1 DEF SpinesAlone
<1>3. ASSUME NEW p \in Spines PROVE SpineHolds(p)'
  BY <1>1 DEF SpineHolds, Accepted
<1>4. LogIsSound' /\ HeadIsPast' /\ IsPrefix(index.log, log)'
  BY <1>1 DEF LogIsSound, LoggedOnce, NoClash, HeadIsPast
<1> QED BY <1>2, <1>3, <1>4

\* A spine that goes on is still the only one.
LEMMA SpineStillAlone ==
    ASSUME LocalsOK, SpinesAlone, NEW p \in Spines, pc[p] # "idle",
           NEW step \in SpineSteps, Goto(p, step)
    PROVE  /\ SpinesAlone' /\ pc'[p] = step
           /\ \A q \in Spines : q # p => pc'[q] = "idle"
<1>1. /\ pc'[p] = step /\ \A q \in Processes : q # p => pc'[q] = pc[q]
  BY GoneTo DEF Processes
<1>2. \A q \in Spines : q # p => pc'[q] = "idle"
  BY <1>1 DEF SpinesAlone, Processes
<1> QED BY <1>1, <1>2 DEF SpinesAlone

\* What a walk accepts can stand beside what is in the log.
LEMMA AppendSound ==
    ASSUME LocalsOK, LogIsSound, NEW p \in Spines, prior[p] = log
    PROVE  IsInjective(log \o Accepted(p)) /\ Clashless(ToSet(log \o Accepted(p)))
<1>1. log \in Seq(Records) /\ read[p] \in Seq(Records) /\ Accepted(p) \in Seq(Records)
  BY AcceptedType
<1>2. WalkGood(log, ToSet(read[p]), Walk(log, read[p]))
  BY <1>1, WalkIsGood
<1>3. IsInjective(log) /\ Clashless(ToSet(log))
  BY DEF LogIsSound, LoggedOnce, NoClash, Clashless
<1>4. ToSet(log \o Accepted(p)) = Seen(log, Walk(log, read[p]))
  BY <1>1, AppendedOnly DEF Seen, Accepted
<1>5. IsInjective(log \o Accepted(p))
  BY <1>2, <1>3 DEF WalkGood, Accepted
<1>6. Clashless(ToSet(log \o Accepted(p)))
  BY <1>2, <1>3, <1>4 DEF WalkGood
<1> QED BY <1>5, <1>6

\* The steps of a spine that write nothing of the log or of git.
LEMMA SpineReadsLog ==
    ASSUME TypeOK, LogInv, NEW p \in Spines, UNCHANGED overlap,
           ReadInbox(p) \/ LoadLog(p) \/ Reread(p) \/ CaptureFails(p) \/ Archive(p)
    PROVE  LogInv'
<1>0. LocalsOK /\ p \in Processes
  BY TypeHalves DEF Processes
<1>1. CASE ReadInbox(p)
  <2>1. /\ MayStart(p) /\ Goto(p, "loading") /\ read' = [read EXCEPT ![p] = inbox]
        /\ UNCHANGED <<log, digest, index, head, prior, base, refused>>
    BY <1>1 DEF ReadInbox, disk, git
  <2> SUFFICES ASSUME Lone
               PROVE  /\ SpinesAlone' /\ (\A q \in Spines : SpineHolds(q)')
                      /\ LogIsSound' /\ HeadIsPast' /\ IsPrefix(index.log, log)'
    BY DEF LogInv, Lone
  <2>2. pc'[p] = "loading" /\ \A q \in Processes : q # p => pc'[q] = pc[q]
    BY <1>0, <2>1, GoneTo DEF SpineSteps
  <2>3. \A q \in Spines : q # p => pc'[q] = "idle"
    BY <2>1, <2>2 DEF Lone, MayStart, Processes
  <2>4. SpinesAlone'
    BY <2>3 DEF SpinesAlone
  <2>5. ASSUME NEW q \in Spines PROVE SpineHolds(q)'
    BY <2>2, <2>3 DEF SpineHolds
  <2>6. LogIsSound' /\ HeadIsPast' /\ IsPrefix(index.log, log)'
    BY <2>1 DEF LogInv, LogIsSound, LoggedOnce, NoClash, HeadIsPast
  <2> QED BY <2>4, <2>5, <2>6
<1>2. CASE LoadLog(p)
  <2>1. pc[p] = "loading" /\ UNCHANGED <<log, digest, index, head, refused>>
    BY <1>2 DEF LoadLog, disk, git
  <2>2. CASE Forget(p)
    <3>1. ASSUME NEW q \in Spines, q # p
          PROVE  pc'[q] = pc[q] /\ prior'[q] = prior[q] /\ base'[q] = base[q] /\ read'[q] = read[q]
      <4>1. pc'[q] = pc[q]
        BY <1>0, <2>2, <3>1, Forgotten DEF Processes
      <4> QED BY <1>0, <2>2, <3>1, <4>1 DEF Forget, LocalsOK, Processes
    <3>2. pc'[p] = "idle"
      BY <1>0, <2>2, Forgotten
    <3> QED BY <2>1, <3>1, <3>2, LogFrame
  <2>3. CASE /\ ~ Walk(log, read[p]).rejected /\ prior' = [prior EXCEPT ![p] = log]
             /\ Goto(p, "appending") /\ UNCHANGED <<read, base>>
    <3> SUFFICES ASSUME Lone
                 PROVE  /\ SpinesAlone' /\ (\A q \in Spines : SpineHolds(q)')
                        /\ LogIsSound' /\ HeadIsPast' /\ IsPrefix(index.log, log)'
      BY DEF LogInv, Lone
    <3>1. /\ SpinesAlone' /\ pc'[p] = "appending"
          /\ \A q \in Spines : q # p => pc'[q] = "idle"
      BY <1>0, <2>1, <2>3, SpineStillAlone DEF LogInv, SpineSteps
    <3>2. prior'[p] = log
      BY <1>0, <2>3 DEF LocalsOK
    <3>3. ASSUME NEW q \in Spines PROVE SpineHolds(q)'
      BY <2>1, <2>3, <3>1, <3>2 DEF SpineHolds
    <3>4. LogIsSound' /\ HeadIsPast' /\ IsPrefix(index.log, log)'
      BY <2>1 DEF LogInv, LogIsSound, LoggedOnce, NoClash, HeadIsPast
    <3> QED BY <3>1, <3>3, <3>4
  <2> QED BY <1>2, <2>2, <2>3 DEF LoadLog
<1>3. CASE Reread(p)
  <2>1. /\ pc[p] = "appending" /\ Goto(p, "publishing") /\ base' = [base EXCEPT ![p] = log]
        /\ UNCHANGED <<log, digest, index, head, refused, read, prior>>
    BY <1>3 DEF Reread, disk, git
  <2> SUFFICES ASSUME Lone
               PROVE  /\ SpinesAlone' /\ (\A q \in Spines : SpineHolds(q)')
                      /\ LogIsSound' /\ HeadIsPast' /\ IsPrefix(index.log, log)'
    BY DEF LogInv, Lone
  <2>2. /\ SpinesAlone' /\ pc'[p] = "publishing"
        /\ \A q \in Spines : q # p => pc'[q] = "idle"
    BY <1>0, <2>1, SpineStillAlone DEF LogInv, SpineSteps
  <2>3. base'[p] = log
    BY <1>0, <2>1 DEF LocalsOK
  <2>4. prior[p] = log /\ ~ Walk(prior[p], read[p]).rejected
    BY <2>1 DEF LogInv, SpineHolds
  <2>5. ASSUME NEW q \in Spines PROVE SpineHolds(q)'
    BY <2>1, <2>2, <2>3, <2>4 DEF SpineHolds
  <2>6. LogIsSound' /\ HeadIsPast' /\ IsPrefix(index.log, log)'
    BY <2>1 DEF LogInv, LogIsSound, LoggedOnce, NoClash, HeadIsPast
  <2> QED BY <2>2, <2>5, <2>6
<1>4. CASE CaptureFails(p) \/ Archive(p)
  <2>1. UNCHANGED <<log, digest, index, head, refused>>
    BY <1>4 DEF CaptureFails, Archive, disk, git
  <2>2. \/ Goto(p, "archiving") /\ pc[p] # "idle" /\ UNCHANGED <<read, prior, base>>
        \/ Forget(p)
        \/ /\ Goto(p, "idle") /\ read' = [read EXCEPT ![p] = <<>>]
           /\ prior' = [prior EXCEPT ![p] = <<>>] /\ base' = [base EXCEPT ![p] = <<>>]
    BY <1>4 DEF CaptureFails, Archive
  <2>3. (Goto(p, "archiving") /\ pc[p] # "idle") \/ Goto(p, "idle")
    BY <2>2 DEF Forget
  <2>4. /\ (pc'[p] = "archiving" /\ pc[p] # "idle") \/ pc'[p] = "idle"
        /\ \A q \in Processes : q # p => pc'[q] = pc[q]
    BY <1>0, <2>3, GoneTo DEF SpineSteps
  <2>5. ASSUME NEW q \in Spines, q # p
        PROVE  prior'[q] = prior[q] /\ base'[q] = base[q] /\ read'[q] = read[q]
    BY <1>0, <2>2, <2>5 DEF Forget, LocalsOK, Processes
  <2> QED BY <2>1, <2>4, <2>5, LogFrame DEF Processes
<1> QED BY <1>1, <1>2, <1>3, <1>4

\* The steps of a spine that write the log, the digest or git.
LEMMA SpineWritesLog ==
    ASSUME TypeOK, LogInv, NEW p \in Spines, UNCHANGED overlap,
           \/ WriteLog(p) \/ WriteDigest(p) \/ StageLog(p) \/ StageDigest(p) \/ Commit(p)
           \/ StageRefused(p)
    PROVE  LogInv'
<1>0. /\ LocalsOK /\ p \in Processes /\ log \in Seq(Records)
      /\ index \in Copy /\ head \in Copy
  BY TypeHalves DEF Processes, TypeOK
<1> SUFFICES ASSUME Lone
             PROVE  /\ SpinesAlone' /\ (\A q \in Spines : SpineHolds(q)')
                    /\ LogIsSound' /\ HeadIsPast' /\ IsPrefix(index.log, log)'
  BY DEF LogInv, Lone
<1>1. /\ SpinesAlone /\ SpineHolds(p) /\ LogIsSound /\ HeadIsPast /\ IsPrefix(index.log, log)
  BY DEF LogInv
<1>2. ASSUME NEW step \in SpineSteps, Goto(p, step), pc[p] # "idle", SpineHolds(p)'
      PROVE  SpinesAlone' /\ \A q \in Spines : SpineHolds(q)'
  <2>1. /\ SpinesAlone' /\ \A q \in Spines : q # p => pc'[q] = "idle"
    BY <1>0, <1>1, <1>2, SpineStillAlone
  <2> QED BY <1>2, <2>1 DEF SpineHolds
<1>3. CASE WriteLog(p)
  <2>1. /\ pc[p] = "publishing" /\ Goto(p, "digesting") /\ log' = base[p] \o Accepted(p)
        /\ UNCHANGED <<digest, index, head, read, prior, base, refused>>
    BY <1>3 DEF WriteLog, git
  <2>2. prior[p] = log /\ base[p] = log
    BY <1>1, <2>1 DEF SpineHolds
  <2>3. pc'[p] = "digesting"
    BY <1>0, <2>1, GoneTo DEF SpineSteps
  <2>4. Accepted(p)' = Accepted(p)
    BY <2>1 DEF Accepted
  <2>5. SpineHolds(p)'
    BY <2>1, <2>2, <2>3, <2>4 DEF SpineHolds
  <2>6. LogIsSound'
    BY <1>0, <1>1, <2>1, <2>2, AppendSound DEF LogIsSound, LoggedOnce, NoClash, Clashless
  <2>7. Accepted(p) \in Seq(Records) /\ index.log \in Seq(Records) /\ head.log \in Seq(Records)
    BY <1>0, AcceptedType DEF Copy
  <2>8. IsPrefix(index.log, log') /\ IsPrefix(head.log, log')
    BY <1>0, <1>1, <2>1, <2>2, <2>7, PastGrows DEF HeadIsPast
  <2> QED BY <1>1, <1>2, <2>1, <2>5, <2>6, <2>8 DEF HeadIsPast, SpineSteps
<1>4. CASE WriteDigest(p)
  <2>1. /\ pc[p] = "digesting" /\ Goto(p, "staging log") /\ digest' = prior[p] \o Accepted(p)
        /\ UNCHANGED <<log, index, head, read, prior, base, refused>>
    BY <1>4 DEF WriteDigest, disk
  <2>2. pc'[p] = "staging log"
    BY <1>0, <2>1, GoneTo DEF SpineSteps
  <2>3. SpineHolds(p)'
    BY <1>1, <2>1, <2>2 DEF SpineHolds
  <2>4. LogIsSound' /\ HeadIsPast' /\ IsPrefix(index.log, log)'
    BY <1>1, <2>1 DEF LogIsSound, LoggedOnce, NoClash, HeadIsPast
  <2> QED BY <1>2, <2>1, <2>3, <2>4 DEF SpineSteps
<1>5. CASE StageLog(p)
  <2>1. /\ pc[p] = "staging log" /\ Goto(p, "staging digest")
        /\ index' = [index EXCEPT !.log = log]
        /\ UNCHANGED <<log, digest, head, read, prior, base, refused>>
    BY <1>5 DEF StageLog, disk
  <2>2. pc'[p] = "staging digest" /\ index'.log = log
    BY <1>0, <2>1, GoneTo DEF SpineSteps, Copy
  <2>3. SpineHolds(p)'
    BY <1>1, <2>1, <2>2 DEF SpineHolds
  <2>4. LogIsSound' /\ HeadIsPast'
    BY <1>1, <2>1 DEF LogIsSound, LoggedOnce, NoClash, HeadIsPast
  <2>5. IsPrefix(log, log)
    BY <1>0 DEF IsPrefix
  <2> QED BY <1>2, <2>1, <2>2, <2>3, <2>4, <2>5 DEF SpineSteps
<1>6. CASE StageDigest(p)
  <2>1. /\ pc[p] = "staging digest" /\ Goto(p, "committing")
        /\ index' = [index EXCEPT !.digest = digest]
        /\ UNCHANGED <<log, digest, head, read, prior, base, refused>>
    BY <1>6 DEF StageDigest, disk
  <2>2. pc'[p] = "committing" /\ index'.digest = digest /\ index'.log = index.log
    BY <1>0, <2>1, GoneTo DEF SpineSteps, Copy
  <2>3. SpineHolds(p)'
    BY <1>1, <2>1, <2>2 DEF SpineHolds
  <2>4. LogIsSound' /\ HeadIsPast' /\ IsPrefix(index.log, log)'
    BY <1>1, <2>1, <2>2 DEF LogIsSound, LoggedOnce, NoClash, HeadIsPast
  <2> QED BY <1>2, <2>1, <2>3, <2>4 DEF SpineSteps
<1>7. CASE Commit(p)
  <2>1. /\ pc[p] = "committing" /\ Goto(p, "archiving") /\ head' = index
        /\ UNCHANGED <<log, digest, index, read, prior, base, refused>>
    BY <1>7 DEF Commit, disk
  <2>2. pc'[p] = "archiving"
    BY <1>0, <2>1, GoneTo DEF SpineSteps
  <2>3. SpineHolds(p)'
    BY <2>2 DEF SpineHolds
  <2>4. LogIsSound' /\ HeadIsPast' /\ IsPrefix(index.log, log)'
    BY <1>1, <2>1 DEF LogIsSound, LoggedOnce, NoClash, HeadIsPast, SpineHolds
  <2> QED BY <1>2, <2>1, <2>3, <2>4 DEF SpineSteps
<1>8. CASE StageRefused(p)
  <2>1. /\ \/ pc[p] = "staging log" /\ Goto(p, "staging digest")
           \/ pc[p] = "staging digest" /\ Goto(p, "committing")
        /\ refused' # {} /\ UNCHANGED <<log, digest, index, head, read, prior, base>>
    BY <1>8 DEF StageRefused, disk, git
  <2>2. \/ pc[p] = "staging log" /\ pc'[p] = "staging digest"
        \/ pc[p] = "staging digest" /\ pc'[p] = "committing"
    BY <1>0, <2>1, GoneTo DEF SpineSteps
  <2>3. SpineHolds(p)'
    BY <1>1, <2>1, <2>2 DEF SpineHolds
  <2>4. LogIsSound' /\ HeadIsPast' /\ IsPrefix(index.log, log)'
    BY <1>1, <2>1 DEF LogIsSound, LoggedOnce, NoClash, HeadIsPast
  <2> QED BY <1>2, <2>1, <2>3, <2>4 DEF SpineSteps
<1> QED BY <1>3, <1>4, <1>5, <1>6, <1>7, <1>8

\* Every other step reads the log or leaves it alone.
LEMMA OthersLeaveLog ==
    ASSUME TypeOK, LogInv, UNCHANGED overlap,
           \/ \E f \in Feeds : ReadForMerge(f) \/ AdvanceFeed(f)
           \/ \E r \in HandRecords : Drop(r) \/ TakeBack(r)
           \/ \E p \in Processes : ReadTornInbox(p) \/ Crash(p) \/ WriteFails(p)
    PROVE  LogInv'
<1>0. LocalsOK /\ Processes = Spines \cup Feeds /\ Spines \cap Feeds = {}
  BY TypeHalves, IngestAssumption DEF Processes
<1>1. ASSUME NEW p \in Processes, Forget(p), UNCHANGED <<log, digest, index, head, refused>>
      PROVE  LogInv'
  <2>1. pc'[p] = "idle" /\ \A q \in Processes : q # p => pc'[q] = pc[q]
    BY <1>0, <1>1, Forgotten
  <2>2. ASSUME NEW q \in Spines, q # p
        PROVE  prior'[q] = prior[q] /\ base'[q] = base[q] /\ read'[q] = read[q]
    BY <1>0, <1>1, <2>2 DEF Forget, LocalsOK
  <2> QED BY <1>0, <1>1, <2>1, <2>2, LogFrame
<1>2. ASSUME NEW f \in Feeds, ReadForMerge(f) \/ AdvanceFeed(f) PROVE LogInv'
  <2>1. UNCHANGED <<log, digest, index, head, refused>>
    BY <1>2 DEF ReadForMerge, AdvanceFeed, OpenTemp, FillTemp, RenameTemp, disk, git
  <2>2. CASE Forget(f)
    BY <1>0, <1>1, <2>1, <2>2
  <2>3. CASE /\ \E step : Goto(f, step)
             /\ UNCHANGED <<prior, base>> /\ \A q \in Processes : q # f => read'[q] = read[q]
    <3>1. \A q \in Spines : q # f /\ q \in Processes
      BY <1>0
    <3>2. \A q \in Spines : pc'[q] = pc[q]
      BY <1>0, <2>3, <3>1 DEF Goto, LocalsOK
    <3> QED BY <2>1, <2>3, <3>1, <3>2, LogFrame
  <2>4. \/ Forget(f)
        \/ /\ \E step : Goto(f, step)
           /\ UNCHANGED <<prior, base>>
           /\ UNCHANGED read \/ \E x : read' = [read EXCEPT ![f] = x]
    BY <1>2 DEF ReadForMerge, AdvanceFeed, OpenTemp, FillTemp, RenameTemp
  <2> QED BY <1>0, <2>2, <2>3, <2>4 DEF LocalsOK
<1>3. ASSUME NEW r \in HandRecords, Drop(r) \/ TakeBack(r) PROVE LogInv'
  <2>1. UNCHANGED <<log, digest, index, head, refused, pc, prior, base, read>>
    BY <1>3 DEF Drop, TakeBack, git, locals
  <2> QED BY <2>1, LogFrame
<1>4. ASSUME NEW p \in Processes, ReadTornInbox(p) PROVE LogInv'
  <2>1. UNCHANGED <<log, digest, index, head, refused, pc, prior, base, read>>
    BY <1>4 DEF ReadTornInbox, disk, git, locals
  <2> QED BY <2>1, LogFrame
<1>5. ASSUME NEW p \in Processes, Crash(p) \/ WriteFails(p) PROVE LogInv'
  <2>1. Forget(p) /\ UNCHANGED <<log, digest, index, head, refused>>
    BY <1>5 DEF Crash, WriteFails, disk, git
  <2> QED BY <1>1, <2>1
<1> QED BY <1>2, <1>3, <1>4, <1>5

\* The invariant of the log holds whenever one spine at a time runs.
THEOREM LogInvariant == Spec => []LogInv
<1>1. Init => LogInv
  <2> SUFFICES ASSUME Init PROVE LogInv
    OBVIOUS
  <2>1. SpinesAlone /\ \A p \in Spines : SpineHolds(p)
    BY DEF Init, SpinesAlone, SpineHolds, Processes
  <2>2. log = <<>> /\ index.log = <<>> /\ head.log = <<>> /\ head.digest = <<>>
    BY DEF Init
  <2>3. IsPrefix(<<>>, <<>>) /\ IsInjective(<<>>) /\ ToSet(<<>>) = {}
    BY DEF IsPrefix, IsInjective, ToSet
  <2> QED BY <2>1, <2>2, <2>3 DEF LogInv, LogIsSound, LoggedOnce, NoClash, HeadIsPast
<1>2. TypeOK /\ LogInv /\ [Next]_<<vars, overlap>> => LogInv'
  <2> SUFFICES ASSUME TypeOK, LogInv, [Next]_<<vars, overlap>> PROVE LogInv'
    OBVIOUS
  <2>1. CASE UNCHANGED <<vars, overlap>>
    <3>1. UNCHANGED <<overlap, log, digest, index, head, refused, pc, prior, base, read>>
      BY <2>1 DEF vars, disk, git, locals
    <3> QED BY <3>1, LogFrame
  <2>2. CASE Next
    BY <2>2, SpineReadsLog, SpineWritesLog, OthersLeaveLog DEF Next, Step, AdvanceSpine
  <2> QED BY <2>1, <2>2
<1> QED BY <1>1, <1>2, TypeCorrect, PTL DEF Spec

\* However often a record is dropped and wherever a run dies, it is logged once, and no
\* two are logged that the gate refuses together, as long as one spine at a time runs.
THEOREM SoundLog == Spec => [](Lone => LogIsSound)
<1>1. LogInv => (Lone => LogIsSound)
  BY DEF LogInv
<1> QED BY <1>1, LogInvariant, PTL

\* What git holds is a past of the log, with the digest that describes it.
THEOREM CommitsThePast == Spec => [](Lone => HeadIsPast)
<1>1. LogInv => (Lone => HeadIsPast)
  BY DEF LogInv
<1> QED BY <1>1, LogInvariant, PTL
----------------------------------------------------------------------------
\* The part of KeepInv that is about the processes, and the part about the files.
ProcessesKeep ==
    Alone /\ (\A f \in Feeds : FeedKeeps(f)) /\ \A p \in Spines : SpineKeeps(p)
FilesKeep == NoneLost /\ ArchivedIsLogged /\ InboxWhole

LEMMA KeepHalves == KeepInv <=> (~ overlap => ProcessesKeep /\ FilesKeep)
BY DEF KeepInv, ProcessesKeep, FilesKeep

\* When the one process that is under way ends, none is.
LEMMA LastEnds ==
    ASSUME Alone, NEW p \in Processes, pc[p] # "idle", pc'[p] = "idle",
           \A q \in Processes : q # p => pc'[q] = pc[q]
    PROVE  ProcessesKeep'
<1>1. \A q \in Processes : pc'[q] = "idle"
  BY DEF Alone
<1> QED BY <1>1 DEF ProcessesKeep, Alone, FeedKeeps, SpineKeeps, Processes

\* A process that goes on, or starts, does so alone.
LEMMA OneGoesOn ==
    ASSUME LocalsOK, Alone, NEW p \in Processes, NEW step, Goto(p, step),
           pc[p] # "idle" \/ \A q \in Processes : pc[q] = "idle",
           \/ p \in Spines /\ step \in SpineSteps /\ SpineKeeps(p)'
           \/ p \in Feeds /\ step \in FeedSteps /\ FeedKeeps(p)'
    PROVE  ProcessesKeep'
<1>1. /\ pc'[p] = step /\ \A q \in Processes : q # p => pc'[q] = pc[q]
  BY GoneTo
<1>2. \A q \in Processes : q # p => pc'[q] = "idle"
  BY <1>1 DEF Alone
<1>3. Spines \cap Feeds = {} /\ Processes = Spines \cup Feeds
  BY IngestAssumption DEF Processes
<1>4. Alone'
  BY <1>2 DEF Alone
<1>5. ASSUME NEW q \in Spines PROVE SpineKeeps(q)'
  BY <1>2, <1>3, <1>5 DEF SpineKeeps
<1>6. ASSUME NEW f \in Feeds PROVE FeedKeeps(f)'
  BY <1>2, <1>3, <1>6 DEF FeedKeeps
<1> QED BY <1>4, <1>5, <1>6 DEF ProcessesKeep

\* What is neither the log, nor the inbox, nor the archive leaves the files kept.
LEMMA FilesFrame ==
    ASSUME FilesKeep, UNCHANGED <<log, inbox, archive, offered>>
    PROVE  FilesKeep'
BY DEF FilesKeep, NoneLost, InInbox, ArchivedIsLogged, InboxWhole

\* A spine takes the whole inbox to the log, and archives it then.
LEMMA SpineKeepsInbox ==
    ASSUME TypeOK, LogInv, KeepInv, NEW p \in Spines, UNCHANGED overlap,
           ReadInbox(p) \/ AdvanceSpine(p) \/ StageRefused(p) \/ CaptureFails(p)
    PROVE  KeepInv'
<1>0. /\ LocalsOK /\ DiskOK /\ p \in Processes /\ p \notin Feeds
      /\ log \in Seq(Records) /\ read[p] \in Seq(Records)
  BY TypeHalves, IngestAssumption DEF Processes, TypeOK
<1> SUFFICES ASSUME ~ overlap PROVE ProcessesKeep' /\ FilesKeep'
  BY KeepHalves DEF KeepInv, ProcessesKeep, FilesKeep
<1>1. ProcessesKeep /\ FilesKeep /\ Alone /\ SpineKeeps(p) /\ SpineHolds(p)
  BY KeepHalves DEF ProcessesKeep, LogInv, Lone
<1>2. CASE ReadInbox(p)
  <2>1. /\ \A q \in Processes : pc[q] = "idle"
        /\ inbox \notin {NoFile, Torn} /\ Goto(p, "loading")
        /\ read' = [read EXCEPT ![p] = inbox]
        /\ UNCHANGED <<log, inbox, archive, offered>>
    BY <1>2 DEF ReadInbox, MayStart, disk
  <2>2. pc'[p] = "loading" /\ read'[p] = inbox
    BY <1>0, <2>1, GoneTo DEF SpineSteps, LocalsOK
  <2>3. SpineKeeps(p)'
    BY <2>1, <2>2 DEF SpineKeeps
  <2>4. ProcessesKeep'
    BY <1>0, <1>1, <2>1, <2>3, OneGoesOn DEF SpineSteps
  <2> QED BY <1>1, <2>1, <2>4, FilesFrame
<1>3. CASE LoadLog(p)
  <2>1. pc[p] = "loading" /\ UNCHANGED <<log, inbox, archive, offered>>
    BY <1>3 DEF LoadLog, disk
  <2>2. FilesKeep'
    BY <1>1, <2>1, FilesFrame
  <2>3. CASE Forget(p)
    <3>1. ProcessesKeep'
      BY <1>0, <1>1, <2>1, <2>3, Forgotten, LastEnds
    <3> QED BY <2>2, <3>1
  <2>4. CASE Goto(p, "appending") /\ UNCHANGED read
    <3>1. pc'[p] = "appending"
      BY <1>0, <2>4, GoneTo DEF SpineSteps
    <3>2. SpineKeeps(p)'
      BY <1>1, <2>1, <2>4, <3>1 DEF SpineKeeps
    <3>3. ProcessesKeep'
      BY <1>0, <1>1, <2>1, <2>4, <3>2, OneGoesOn DEF SpineSteps
    <3> QED BY <2>2, <3>3
  <2> QED BY <1>3, <2>3, <2>4 DEF LoadLog
<1>4. CASE Reread(p)
  <2>1. /\ pc[p] = "appending" /\ Goto(p, "publishing")
        /\ UNCHANGED <<log, inbox, archive, offered, read>>
    BY <1>4 DEF Reread, disk
  <2>2. pc'[p] = "publishing"
    BY <1>0, <2>1, GoneTo DEF SpineSteps
  <2>3. SpineKeeps(p)'
    BY <1>1, <2>1, <2>2 DEF SpineKeeps
  <2>4. ProcessesKeep'
    BY <1>0, <1>1, <2>1, <2>3, OneGoesOn DEF SpineSteps
  <2> QED BY <1>1, <2>1, <2>4, FilesFrame
<1>5. CASE WriteLog(p)
  <2>1. /\ pc[p] = "publishing" /\ Goto(p, "digesting") /\ log' = base[p] \o Accepted(p)
        /\ UNCHANGED <<inbox, archive, offered>>
    BY <1>5 DEF WriteLog
  <2>2. /\ base[p] = log /\ prior[p] = log /\ ~ Walk(log, read[p]).rejected
        /\ read[p] = inbox /\ inbox # NoFile
    BY <1>1, <2>1 DEF SpineHolds, SpineKeeps
  <2>3. Accepted(p) \in Seq(Records)
    BY <1>0, AcceptedType
  <2>4. ToSet(log') = ToSet(log) \cup ToSet(Accepted(p))
    BY <1>0, <2>1, <2>2, <2>3, AppendedOnly
  <2>5. ToSet(read[p]) \subseteq ToSet(log')
    <3>1. WalkGood(log, ToSet(read[p]), Walk(log, read[p]))
      BY <1>0, WalkIsGood
    <3> QED BY <2>2, <2>4, <3>1 DEF WalkGood, Seen, Accepted
  <2>6. pc'[p] = "digesting"
    BY <1>0, <2>1, GoneTo DEF SpineSteps
  <2>7. SpineKeeps(p)'
    BY <2>1, <2>2, <2>5, <2>6 DEF SpineKeeps, InInbox
  <2>8. ProcessesKeep'
    BY <1>0, <1>1, <2>1, <2>7, OneGoesOn DEF SpineSteps
  <2>9. FilesKeep'
    BY <1>1, <2>1, <2>4 DEF FilesKeep, NoneLost, InInbox, ArchivedIsLogged, InboxWhole
  <2> QED BY <2>8, <2>9
<1>6. CASE WriteDigest(p) \/ StageLog(p) \/ StageDigest(p) \/ Commit(p)
           \/ StageRefused(p) \/ CaptureFails(p)
  <2>1. UNCHANGED <<log, inbox, archive, offered>>
    BY <1>6 DEF WriteDigest, StageLog, StageDigest, Commit, StageRefused, CaptureFails, disk
  <2>2. PICK step \in {"staging log", "staging digest", "committing", "archiving"} :
            Goto(p, step)
    BY <1>6 DEF WriteDigest, StageLog, StageDigest, Commit, StageRefused, CaptureFails
  <2>3. pc[p] \in {"digesting", "staging log", "staging digest", "committing"}
    BY <1>6 DEF WriteDigest, StageLog, StageDigest, Commit, StageRefused, CaptureFails
  <2>4. pc'[p] = step /\ step \in SpineSteps
    BY <1>0, <2>2, GoneTo DEF SpineSteps
  <2>5. SpineKeeps(p)'
    BY <1>1, <2>1, <2>3, <2>4 DEF SpineKeeps, InInbox
  <2>6. ProcessesKeep'
    BY <1>0, <1>1, <2>2, <2>3, <2>4, <2>5, OneGoesOn
  <2> QED BY <1>1, <2>1, <2>6, FilesFrame
<1>7. CASE Archive(p)
  <2>1. pc[p] = "archiving" /\ inbox # NoFile /\ InInbox \subseteq ToSet(log)
    BY <1>1, <1>7 DEF Archive, SpineKeeps
  <2>2. /\ archive' = Append(archive, inbox) /\ inbox' = NoFile
        /\ Goto(p, "idle") /\ UNCHANGED <<log, offered>>
    BY <1>7, <2>1 DEF Archive
  <2>3. ProcessesKeep'
    BY <1>0, <1>1, <2>1, <2>2, GoneTo, LastEnds
  <2>4. inbox \in Seq(Records) /\ inbox # Torn /\ ToSet(inbox) \subseteq ToSet(log)
    BY <1>0, <1>1, <2>1 DEF FilesKeep, InboxWhole, DiskOK, InInbox
  <2>5. ArchivedIsLogged'
    <3>1. archive \in Seq(Seq(Records) \cup {Torn})
      BY <1>0 DEF DiskOK
    <3>2. /\ DOMAIN archive' = 1 .. Len(archive) + 1 /\ DOMAIN archive = 1 .. Len(archive)
          /\ Len(archive) \in Nat /\ archive'[Len(archive) + 1] = inbox
          /\ \A i \in 1 .. Len(archive) : archive'[i] = archive[i]
      BY <2>2, <3>1
    <3>3. \A i \in 1 .. Len(archive) + 1 : i \in 1 .. Len(archive) \/ i = Len(archive) + 1
      BY <3>2
    <3> QED BY <1>1, <2>2, <2>4, <3>2, <3>3 DEF FilesKeep, ArchivedIsLogged
  <2>6. NoneLost' /\ InboxWhole'
    BY <1>1, <2>1, <2>2, IngestAssumption DEF FilesKeep, NoneLost, InInbox, InboxWhole
  <2> QED BY <2>3, <2>5, <2>6 DEF FilesKeep
<1> QED BY <1>2, <1>3, <1>4, <1>5, <1>6, <1>7 DEF AdvanceSpine

\* A feed publishes the inbox it read with its marks behind it.
LEMMA FeedKeepsInbox ==
    ASSUME TypeOK, KeepInv, NEW f \in Feeds, UNCHANGED overlap,
           ReadForMerge(f) \/ AdvanceFeed(f)
    PROVE  KeepInv'
<1>0. /\ LocalsOK /\ DiskOK /\ f \in Processes /\ f \notin Spines
      /\ read \in [Processes -> Seq(Records)] /\ read[f] \in Seq(Records)
      /\ NoFile # Torn /\ NoFile \notin Seq(Records) /\ Torn \notin Seq(Records)
  BY TypeHalves, IngestAssumption DEF Processes, TypeOK
<1> SUFFICES ASSUME ~ overlap PROVE ProcessesKeep' /\ FilesKeep'
  BY KeepHalves DEF KeepInv, ProcessesKeep, FilesKeep
<1>1. ProcessesKeep /\ FilesKeep /\ Alone /\ FeedKeeps(f)
  BY KeepHalves DEF ProcessesKeep
<1>2. CASE ReadForMerge(f)
  <2>1. /\ \A q \in Processes : pc[q] = "idle"
        /\ Goto(f, "opening") /\ read' = [read EXCEPT ![f] = Existing]
        /\ UNCHANGED <<log, inbox, archive, offered>>
    BY <1>2 DEF ReadForMerge, MayStart, disk
  <2>2. pc'[f] = "opening" /\ read'[f] = Existing
    BY <1>0, <2>1, GoneTo DEF FeedSteps
  <2>3. FeedKeeps(f)'
    BY <2>1, <2>2 DEF FeedKeeps, Existing
  <2>4. ProcessesKeep'
    BY <1>0, <1>1, <2>1, <2>3, OneGoesOn DEF FeedSteps
  <2> QED BY <1>1, <2>1, <2>4, FilesFrame
<1>3. CASE OpenTemp(f)
  <2>1. /\ pc[f] = "opening" /\ Goto(f, "filling") /\ fd' = [fd EXCEPT ![f] = "temp"]
        /\ UNCHANGED <<log, inbox, archive, offered, read>>
    BY <1>3 DEF OpenTemp
  <2>2. pc'[f] = "filling" /\ fd'[f] = "temp"
    BY <1>0, <2>1, GoneTo DEF FeedSteps, LocalsOK
  <2>3. FeedKeeps(f)'
    BY <1>1, <2>1, <2>2 DEF FeedKeeps, Existing
  <2>4. ProcessesKeep'
    BY <1>0, <1>1, <2>1, <2>3, OneGoesOn DEF FeedSteps
  <2> QED BY <1>1, <2>1, <2>4, FilesFrame
<1>4. CASE FillTemp(f)
  <2> DEFINE next == Merge(read[f], Marks(f))
  <2>1. /\ pc[f] = "filling" /\ read[f] = Existing /\ fd[f] = "temp"
    BY <1>1, <1>4 DEF FillTemp, FeedKeeps
  <2>2. /\ Goto(f, "renaming") /\ temp' = next
        /\ UNCHANGED <<log, inbox, archive, offered>>
    BY <1>4, <2>1 DEF FillTemp
  <2>3. next \in Seq(Records) /\ ToSet(read[f]) \subseteq ToSet(next)
    BY <1>0, MergeKeeps
  <2> HIDE DEF next
  <2>4. InInbox \subseteq ToSet(next)
    BY <1>1, <2>1, <2>3 DEF InInbox, Existing
  <2>5. pc'[f] = "renaming"
    BY <1>0, <2>2, GoneTo DEF FeedSteps
  <2>6. FeedKeeps(f)'
    BY <2>2, <2>3, <2>4, <2>5 DEF FeedKeeps, InInbox
  <2>7. ProcessesKeep'
    BY <1>0, <1>1, <2>1, <2>2, <2>6, OneGoesOn DEF FeedSteps
  <2> QED BY <1>1, <2>2, <2>7, FilesFrame
<1>5. CASE RenameTemp(f)
  <2>1. pc[f] = "renaming" /\ temp \in Seq(Records) /\ InInbox \subseteq ToSet(temp)
    BY <1>1, <1>5 DEF RenameTemp, FeedKeeps
  <2>2. /\ inbox' = temp /\ offered' = offered \cup ToSet(temp) /\ Goto(f, "idle")
        /\ UNCHANGED <<log, archive>>
    BY <1>0, <1>5, <2>1 DEF RenameTemp
  <2>3. ProcessesKeep'
    BY <1>0, <1>1, <2>1, <2>2, GoneTo, LastEnds
  <2>4. InInbox' = ToSet(temp)
    BY <1>0, <2>1, <2>2 DEF InInbox
  <2>5. FilesKeep'
    BY <1>0, <1>1, <2>1, <2>2, <2>4 DEF FilesKeep, NoneLost, ArchivedIsLogged, InboxWhole
  <2> QED BY <2>3, <2>5
<1> QED BY <1>2, <1>3, <1>4, <1>5 DEF AdvanceFeed

\* The operator edits an inbox that no process works on; who ends leaves it as it is.
LEMMA OthersKeepInbox ==
    ASSUME TypeOK, KeepInv, UNCHANGED overlap,
           \/ \E r \in HandRecords : Drop(r) \/ TakeBack(r)
           \/ \E p \in Processes : ReadTornInbox(p) \/ Crash(p) \/ WriteFails(p)
    PROVE  KeepInv'
<1>0. /\ LocalsOK /\ DiskOK
      /\ NoFile # Torn /\ NoFile \notin Seq(Records) /\ Torn \notin Seq(Records)
  BY TypeHalves, IngestAssumption
<1> SUFFICES ASSUME ~ overlap PROVE ProcessesKeep' /\ FilesKeep'
  BY KeepHalves DEF KeepInv, ProcessesKeep, FilesKeep
<1>1. ProcessesKeep /\ FilesKeep /\ Alone
  BY KeepHalves DEF ProcessesKeep
<1>2. ASSUME Idle, UNCHANGED locals PROVE ProcessesKeep'
  <2>1. \A q \in Processes : pc'[q] = "idle"
    BY <1>2 DEF Idle, locals
  <2> QED BY <2>1 DEF ProcessesKeep, Alone, FeedKeeps, SpineKeeps, Processes
<1>3. ASSUME NEW r \in HandRecords, Drop(r) PROVE ProcessesKeep' /\ FilesKeep'
  <2>1. /\ Idle /\ inbox # Torn /\ inbox' = Append(Existing, r) /\ offered' = offered \cup {r}
        /\ UNCHANGED <<log, archive, locals>>
    BY <1>3 DEF Drop
  <2>2. r \in Records /\ Existing \in Seq(Records)
    <3>1. r \in Records
      BY DEF Records
    <3>2. Existing \in Seq(Records)
      BY <1>0, <2>1, EmptyLog DEF DiskOK, Existing
    <3> QED BY <3>1, <3>2
  <2>3. inbox' \in Seq(Records) /\ ToSet(inbox') = ToSet(Existing) \cup {r}
    BY <2>1, <2>2, LogType, AppendedOne
  <2>4. InInbox' = InInbox \cup {r}
    <3>1. InInbox' = ToSet(inbox')
      BY <1>0, <2>3 DEF InInbox
    <3>2. InInbox = ToSet(Existing)
      BY <2>1 DEF InInbox, Existing, ToSet
    <3> QED BY <2>3, <3>1, <3>2
  <2>5. FilesKeep'
    BY <1>0, <1>1, <2>1, <2>3, <2>4 DEF FilesKeep, NoneLost, ArchivedIsLogged, InboxWhole
  <2> QED BY <1>2, <2>1, <2>5
<1>4. ASSUME NEW r \in HandRecords, TakeBack(r) PROVE ProcessesKeep' /\ FilesKeep'
  <2>1. /\ Idle /\ inbox \notin {NoFile, Torn} /\ inbox' = Without(inbox, {r})
        /\ offered' = offered \ {r} /\ UNCHANGED <<log, archive, locals>>
    BY <1>4 DEF TakeBack
  <2>2. inbox \in Seq(Records)
    BY <1>0, <2>1 DEF DiskOK
  <2>3. inbox' \in Seq(Records) /\ ToSet(inbox') = ToSet(inbox) \ {r}
    BY <2>1, <2>2, WithoutKeeps
  <2>4. InInbox' = InInbox \ {r}
    BY <1>0, <2>1, <2>3 DEF InInbox
  <2>5. FilesKeep'
    BY <1>0, <1>1, <2>1, <2>3, <2>4 DEF FilesKeep, NoneLost, ArchivedIsLogged, InboxWhole
  <2> QED BY <1>2, <2>1, <2>5
<1>5. ASSUME NEW p \in Processes, ReadTornInbox(p) PROVE ProcessesKeep' /\ FilesKeep'
  <2>1. inbox = Torn
    BY <1>5 DEF ReadTornInbox
  <2> QED BY <1>1, <2>1 DEF FilesKeep, InboxWhole
<1>6. ASSUME NEW p \in Processes, Crash(p) \/ WriteFails(p) PROVE ProcessesKeep' /\ FilesKeep'
  <2>1. pc[p] # "idle" /\ Forget(p) /\ UNCHANGED <<log, inbox, archive, offered>>
    BY <1>6 DEF Crash, WriteFails, disk
  <2>2. ProcessesKeep'
    BY <1>0, <1>1, <2>1, Forgotten, LastEnds
  <2> QED BY <1>1, <2>1, <2>2, FilesFrame
<1> QED BY <1>3, <1>4, <1>5, <1>6

\* The invariant of the inbox, of processes that run one at a time.
THEOREM KeepInvariant == Spec => []KeepInv
<1>1. Init => KeepInv
  <2> SUFFICES ASSUME Init PROVE KeepInv
    OBVIOUS
  <2>1. ProcessesKeep
    BY DEF Init, ProcessesKeep, Alone, FeedKeeps, SpineKeeps, Processes
  <2>2. FilesKeep
    BY IngestAssumption DEF Init, FilesKeep, NoneLost, InInbox, ArchivedIsLogged, InboxWhole
  <2> QED BY <2>1, <2>2, KeepHalves
<1>2. TypeOK /\ LogInv /\ KeepInv /\ [Next]_<<vars, overlap>> => KeepInv'
  <2> SUFFICES ASSUME TypeOK, LogInv, KeepInv, [Next]_<<vars, overlap>> PROVE KeepInv'
    OBVIOUS
  <2>1. CASE UNCHANGED <<vars, overlap>>
    BY <2>1 DEF vars, disk, git, locals, KeepInv, Alone, FeedKeeps, SpineKeeps, Existing,
                InInbox, NoneLost, ArchivedIsLogged, InboxWhole
  <2>2. CASE Next
    BY <2>2, SpineKeepsInbox, FeedKeepsInbox, OthersKeepInbox DEF Next, Step
  <2> QED BY <2>1, <2>2
<1> QED BY <1>1, <1>2, TypeCorrect, LogInvariant, PTL DEF Spec

\* A record that reached the inbox is there until it is in the log, whatever crashes or
\* fails, is archived once it is logged, and the inbox is never half an array.
THEOREM NoneIsLost == Spec => []NothingLost
<1>1. KeepInv => NothingLost
  BY DEF KeepInv, NothingLost
<1> QED BY <1>1, KeepInvariant, PTL

\* The log only grows, and by the whole inbox or by nothing.
THEOREM WholeInboxOrNothing == Spec => AllOrNothing
<1>1. TypeOK /\ LogInv /\ KeepInv /\ KeepInv' /\ [Next]_<<vars, overlap>> =>
        [~ overlap => /\ IsPrefix(log, log')
                      /\ log' # log => InInbox \subseteq ToSet(log')]_log
  <2> SUFFICES ASSUME TypeOK, LogInv, KeepInv, [Next]_<<vars, overlap>>, ~ overlap, log' # log
               PROVE  IsPrefix(log, log') /\ InInbox \subseteq ToSet(log')
    OBVIOUS
  <2>1. PICK p \in Spines : WriteLog(p)
    <3>1. Next
      BY DEF vars, disk
    <3>2. PICK p \in Spines : ReadInbox(p) \/ AdvanceSpine(p) \/ StageRefused(p) \/ CaptureFails(p)
      BY <3>1 DEF Next, Step, ReadForMerge, AdvanceFeed, OpenTemp, FillTemp, RenameTemp,
                  Drop, TakeBack, ReadTornInbox, Crash, WriteFails, disk
    <3>3. WriteLog(p)
      BY <3>2 DEF ReadInbox, AdvanceSpine, StageRefused, CaptureFails, LoadLog, Reread,
                  WriteDigest, StageLog, StageDigest, Commit, Archive, disk
    <3> QED BY <3>3
  <2>2. /\ LocalsOK /\ log \in Seq(Records) /\ read[p] \in Seq(Records)
        /\ SpineHolds(p) /\ SpineKeeps(p)
    BY TypeHalves, AcceptedType DEF TypeOK, KeepInv, LogInv, Lone
  <2>3. /\ log' = log \o Accepted(p) /\ prior[p] = log /\ ~ Walk(log, read[p]).rejected
        /\ read[p] = inbox /\ UNCHANGED inbox
    BY <2>1, <2>2 DEF WriteLog, SpineHolds, SpineKeeps
  <2>4. Accepted(p) \in Seq(Records)
    BY <2>2, AcceptedType
  <2>5. IsPrefix(log, log') /\ ToSet(log') = ToSet(log) \cup ToSet(Accepted(p))
    BY <2>2, <2>3, <2>4, AppendedKeeps, AppendedOnly
  <2>6. WalkGood(log, ToSet(read[p]), Walk(log, read[p]))
    BY <2>2, WalkIsGood
  <2>7. InInbox \subseteq ToSet(log')
    BY <2>3, <2>5, <2>6 DEF WalkGood, Seen, Accepted, InInbox
  <2> QED BY <2>5, <2>7
<1> QED BY <1>1, TypeCorrect, LogInvariant, KeepInvariant, PTL DEF Spec, AllOrNothing
===============================================================================
