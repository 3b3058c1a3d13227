------------------------ MODULE GatewayRoutes_proofs ------------------------
(***************************************************************************)
(* Proofs about GatewayRoutes, for every set of listeners, whatever their  *)
(* ports, protocols and names, for all lists of routes, and for every      *)
(* order in which collapse() visits the listeners.                         *)
(*                                                                         *)
(* The rules go through folds over lists.  A fold is followed from its     *)
(* beginning with UpTo, an induction over a set of numbers: its invariant  *)
(* is that set, and FoldExists is what makes the fold's value known.       *)
(***************************************************************************)
EXTENDS GatewayRoutes, FiniteSetTheorems, WellFoundedInduction, TLAPS

\* Numbers and lists.

\* Induction over numbers, as a statement about sets.
LEMMA LeastNumber ==
    ASSUME NEW S \in SUBSET Nat, S # {}
    PROVE  \E n \in S : \A m \in S : n <= m
<1>1. IsWellFoundedOn(OpToRel(<, Nat), Nat)
  BY NatLessThanWellFounded
<1>2. PICK n \in S : \A m \in S : ~(<<m, n>> \in OpToRel(<, Nat))
  BY <1>1, WFMin
<1>3. \A m, k \in Nat : <<m, k>> \in OpToRel(<, Nat) <=> m < k
  BY DEF OpToRel
<1>4. \A m \in S : m \in Nat /\ n \in Nat /\ ~(m < n)
  BY <1>2, <1>3
<1>5. \A m \in S : n <= m
  BY <1>4
<1> QED BY <1>5

\* The same, step by step up to a bound.
LEMMA UpTo ==
    ASSUME NEW N \in Nat, NEW S, 0 \in S, \A n \in 0 .. N - 1 : n \in S => n + 1 \in S
    PROVE  \A n \in 0 .. N : n \in S
<1> SUFFICES ASSUME NEW x \in 0 .. N, x \notin S PROVE FALSE
  OBVIOUS
<1> DEFINE Bad == {n \in 0 .. N : n \notin S}
<1>1. Bad \in SUBSET Nat /\ Bad # {}
  OBVIOUS
<1>2. PICK n \in Bad : \A m \in Bad : n <= m
  <2> HIDE DEF Bad
  <2> QED BY <1>1, LeastNumber
<1>3. n # 0 /\ n \in 0 .. N
  BY <1>2
<1>4. n - 1 \in 0 .. N - 1 /\ ~(n <= n - 1) /\ n = (n - 1) + 1
  BY <1>3
<1>5. n - 1 \in S
  BY <1>2, <1>4
<1>6. n \in S
  BY <1>4, <1>5
<1> QED BY <1>2, <1>6

\* The greatest of some positions, which is where a fold makes its last step.
LEMMA MaxFacts ==
    ASSUME NEW N \in Nat, NEW s \in SUBSET (1 .. N), s # {}
    PROVE  Max(s) \in s /\ \A y \in s : y <= Max(s)
<1> DEFINE T == {N - y : y \in s}
<1>1. T \in SUBSET Nat /\ T # {}
  <2>1. \A y \in s : y \in 1 .. N /\ N - y \in Nat
    OBVIOUS
  <2> QED BY <2>1
<1>2. PICK t \in T : \A u \in T : t <= u
  <2> HIDE DEF T
  <2> QED BY <1>1, LeastNumber
<1>3. PICK m \in s : t = N - m
  BY <1>2
<1>4. \A y \in s : N - m <= N - y
  BY <1>2, <1>3
<1>5. \A y \in s : m >= y
  BY <1>4
<1>6. \E x \in s : \A y \in s : x >= y
  BY <1>5
<1>7. Max(s) \in s /\ \A y \in s : Max(s) >= y
  BY <1>6 DEF Max
<1> QED BY <1>7

\* What FoldLeft() computes: a value for each set of positions.
IsFold(f, X, op, base, N, seq) ==
    /\ f \in [SUBSET (1 .. N) -> X]
    /\ \A s \in SUBSET (1 .. N) : f[s] = IF s = {} THEN base ELSE op[<<f[s \ {Max(s)}], seq[Max(s)]>>]

\* There is such a function.
LEMMA FoldExists ==
    ASSUME NEW X, NEW R, NEW op \in [X \X R -> X], NEW base \in X,
           NEW N \in Nat, NEW seq \in [1 .. N -> R]
    PROVE  \E f : IsFold(f, X, op, base, N, seq)
<1> DEFINE Folds(f, k) == \A s \in SUBSET (1 .. k) :
              f[s] = IF s = {} THEN base ELSE op[<<f[s \ {Max(s)}], seq[Max(s)]>>]
           K == {k \in 0 .. N : \E f \in [SUBSET (1 .. k) -> X] : Folds(f, k)}
<1>1. 0 \in K
  <2> DEFINE f == [s \in SUBSET (1 .. 0) |-> base]
  <2>1. f \in [SUBSET (1 .. 0) -> X]
    OBVIOUS
  <2>2. \A s \in SUBSET (1 .. 0) : s = {} /\ f[s] = base
    OBVIOUS
  <2>3. Folds(f, 0)
    <3> HIDE DEF f
    <3> QED BY <2>2
  <2>4. \E h \in [SUBSET (1 .. 0) -> X] : Folds(h, 0)
    <3> HIDE DEF f, Folds
    <3> QED BY <2>1, <2>3
  <2>5. 0 \in 0 .. N
    OBVIOUS
  <2> HIDE DEF Folds
  <2> QED BY <2>4, <2>5
<1>2. ASSUME NEW k \in 0 .. N - 1, k \in K PROVE k + 1 \in K
  <2>1. PICK f \in [SUBSET (1 .. k) -> X] : Folds(f, k)
    BY <1>2
  <2> DEFINE g == [s \in SUBSET (1 .. k + 1) |->
                     IF k + 1 \in s THEN op[<<f[s \ {k + 1}], seq[k + 1]>>] ELSE f[s]]
  <2>2. \A s \in SUBSET (1 .. k + 1) : IF k + 1 \in s THEN s \ {k + 1} \in SUBSET (1 .. k) ELSE s \in SUBSET (1 .. k)
    OBVIOUS
  <2>3. k + 1 \in 1 .. N
    OBVIOUS
  <2>4. g \in [SUBSET (1 .. k + 1) -> X]
    <3> SUFFICES ASSUME NEW s \in SUBSET (1 .. k + 1) PROVE g[s] \in X
      BY DEF g
    <3>1. CASE k + 1 \in s
      <4>1. f[s \ {k + 1}] \in X /\ seq[k + 1] \in R
        BY <2>2, <2>3, <3>1
      <4> QED BY <3>1, <4>1
    <3>2. CASE k + 1 \notin s
      BY <2>2, <3>2
    <3> QED BY <3>1, <3>2
  <2>5. Folds(g, k + 1)
    <3> SUFFICES ASSUME NEW s \in SUBSET (1 .. k + 1)
                 PROVE  g[s] = IF s = {} THEN base ELSE op[<<g[s \ {Max(s)}], seq[Max(s)]>>]
      OBVIOUS
    <3>1. CASE k + 1 \in s
      <4>2. Max(s) = k + 1
        <5> HIDE DEF g, Folds, K
        <5>1. k + 1 \in Nat /\ s # {}
          BY <3>1
        <5>2. Max(s) \in s /\ \A y \in s : y <= Max(s)
          BY <5>1, MaxFacts
        <5>3. Max(s) \in 1 .. k + 1 /\ k + 1 <= Max(s)
          BY <3>1, <5>2
        <5> QED BY <5>3
      <4>3. s \ {k + 1} \in SUBSET (1 .. k + 1) /\ k + 1 \notin s \ {k + 1}
        OBVIOUS
      <4>4. g[s \ {k + 1}] = f[s \ {k + 1}]
        BY <4>3
      <4>5. g[s] = op[<<f[s \ {k + 1}], seq[k + 1]>>]
        BY <3>1
      <4> HIDE DEF g
      <4> QED BY <3>1, <4>2, <4>4, <4>5
    <3>2. CASE k + 1 \notin s
      <4>1. s \in SUBSET (1 .. k)
        BY <2>2, <3>2
      <4>2. g[s] = f[s]
        BY <3>2
      <4>3. CASE s = {}
        BY <2>1, <4>1, <4>2, <4>3
      <4>4. CASE s # {}
        <5>1. g[s \ {Max(s)}] = f[s \ {Max(s)}]
          BY <3>2
        <5>2. f[s] = op[<<f[s \ {Max(s)}], seq[Max(s)]>>]
          BY <2>1, <4>1, <4>4
        <5> HIDE DEF g
        <5> QED BY <4>2, <4>4, <5>1, <5>2
      <4> QED BY <4>3, <4>4
    <3> QED BY <3>1, <3>2
  <2>6. k + 1 \in 0 .. N
    OBVIOUS
  <2> HIDE DEF g, Folds
  <2> QED BY <2>4, <2>5, <2>6
<1>3. N \in K
  <2> HIDE DEF Folds, K
  <2>1. \A n \in 0 .. N : n \in K
    BY <1>1, <1>2, UpTo
  <2> QED BY <2>1
<1>4. PICK f \in [SUBSET (1 .. N) -> X] : Folds(f, N)
  BY <1>3
<1>5. IsFold(f, X, op, base, N, seq)
  BY <1>4 DEF IsFold
<1> QED BY <1>5

\* The last step of a fold over the first k + 1 elements.
LEMMA UpToIsNew ==
    ASSUME NEW k \in Nat
    PROVE  /\ k + 1 \in 1 .. k + 1 /\ (1 .. k + 1) # {} /\ (1 .. k + 1) \ {k + 1} = 1 .. k
           /\ Max(1 .. k + 1) = k + 1
<1>1. k + 1 \in Nat /\ (1 .. k + 1) # {} /\ k + 1 \in 1 .. k + 1
  OBVIOUS
<1>2. Max(1 .. k + 1) \in 1 .. k + 1 /\ \A y \in 1 .. k + 1 : y <= Max(1 .. k + 1)
  BY <1>1, MaxFacts
<1>3. Max(1 .. k + 1) = k + 1
  BY <1>1, <1>2
<1> QED BY <1>1, <1>3

\* Two lists, one after the other, have the elements of each.
LEMMA ConcatElements ==
    ASSUME NEW T, NEW a \in Seq(T), NEW b \in Seq(T)
    PROVE  a \o b \in Seq(T) /\ ToSet(a \o b) = ToSet(a) \cup ToSet(b)
<1>1. /\ a \o b \in Seq(T) /\ Len(a \o b) = Len(a) + Len(b)
      /\ \A i \in 1 .. Len(a) : (a \o b)[i] = a[i]
      /\ \A i \in 1 .. Len(b) : (a \o b)[Len(a) + i] = b[i]
  OBVIOUS
<1>2. ToSet(a) \cup ToSet(b) \subseteq ToSet(a \o b)
  <2>1. \A i \in 1 .. Len(a) : i \in 1 .. Len(a \o b)
    BY <1>1
  <2>2. \A i \in 1 .. Len(b) : Len(a) + i \in 1 .. Len(a \o b)
    BY <1>1
  <2> QED BY <1>1, <2>1, <2>2 DEF ToSet
<1>3. ToSet(a \o b) \subseteq ToSet(a) \cup ToSet(b)
  <2> SUFFICES ASSUME NEW i \in 1 .. Len(a \o b) PROVE (a \o b)[i] \in ToSet(a) \cup ToSet(b)
    BY <1>1 DEF ToSet
  <2>1. CASE i <= Len(a)
    BY <1>1, <2>1 DEF ToSet
  <2>2. CASE i > Len(a)
    <3>1. i - Len(a) \in 1 .. Len(b) /\ Len(a) + (i - Len(a)) = i
      BY <1>1, <2>2
    <3>2. (a \o b)[i] = b[i - Len(a)]
      BY <1>1, <3>1
    <3> QED BY <3>1, <3>2 DEF ToSet
  <2> QED BY <2>1, <2>2
<1> QED BY <1>1, <1>2, <1>3

\* So have any number of lists.
LEMMA FlattenSeqElements ==
    ASSUME NEW T, NEW seqs \in Seq(Seq(T))
    PROVE  /\ FlattenSeq(seqs) \in Seq(T)
           /\ ToSet(FlattenSeq(seqs)) = UNION {ToSet(seqs[i]) : i \in DOMAIN seqs}
<1>1. CASE Len(seqs) = 0
  BY <1>1 DEF FlattenSeq, ToSet
<1>2. CASE Len(seqs) # 0
  <2> DEFINE N == Len(seqs)
             op == [p \in Seq(T) \X Seq(T) |-> p[1] \o p[2]]
  <2>1. N \in Nat \ {0} /\ seqs \in [1 .. N -> Seq(T)] /\ <<>> \in Seq(T)
    BY <1>2
  <2>2. op \in [Seq(T) \X Seq(T) -> Seq(T)]
    OBVIOUS
  <2>3. PICK fold : IsFold(fold, Seq(T), op, <<>>, N, seqs)
    <3>1. N \in Nat /\ seqs \in [1 .. N -> Seq(T)] /\ <<>> \in Seq(T)
      BY <2>1
    <3> HIDE DEF op, N
    <3> QED BY <3>1, <2>2, FoldExists
  <2> DEFINE F(f) == f = [i \in 1 .. N |-> IF i = 1 THEN seqs[i] ELSE f[i - 1] \o seqs[i]]
             g == [i \in 1 .. N |-> fold[1 .. i]]
  <2>4. \A k \in 0 .. N - 1 : fold[1 .. k + 1] = fold[1 .. k] \o seqs[k + 1] /\ fold[1 .. k] \in Seq(T)
    <3> SUFFICES ASSUME NEW k \in 0 .. N - 1
                 PROVE  fold[1 .. k + 1] = fold[1 .. k] \o seqs[k + 1] /\ fold[1 .. k] \in Seq(T)
      OBVIOUS
    <3>1. k \in Nat /\ (1 .. k + 1) \in SUBSET (1 .. N) /\ (1 .. k) \in SUBSET (1 .. N) /\ k + 1 \in 1 .. N
      BY <2>1
    <3>2. fold[1 .. k + 1] = op[<<fold[1 .. k], seqs[k + 1]>>]
      <4> HIDE DEF op, N
      <4> QED BY <2>3, <3>1, UpToIsNew DEF IsFold
    <3>3. fold[1 .. k] \in Seq(T) /\ seqs[k + 1] \in Seq(T)
      <4> HIDE DEF op, N
      <4> QED BY <2>1, <2>3, <3>1 DEF IsFold
    <3> QED BY <3>2, <3>3
  <2>5. fold[1 .. 0] = <<>>
    <3>1. 1 .. 0 = {} /\ {} \in SUBSET (1 .. N)
      OBVIOUS
    <3> HIDE DEF op, N
    <3> QED BY <2>3, <3>1 DEF IsFold
  <2>6. F(g)
    <3> SUFFICES ASSUME NEW i \in 1 .. N PROVE g[i] = IF i = 1 THEN seqs[i] ELSE g[i - 1] \o seqs[i]
      OBVIOUS
    <3>1. i - 1 \in 0 .. N - 1 /\ (i - 1) + 1 = i /\ g[i] = fold[1 .. i]
      BY <2>1
    <3>2. fold[1 .. i] = fold[1 .. i - 1] \o seqs[i]
      BY <2>4, <3>1
    <3>3. CASE i = 1
      <4>1. seqs[i] \in Seq(T)
        BY <2>1
      <4>2. fold[1 .. i - 1] = <<>>
        BY <2>5, <3>3
      <4> QED BY <3>1, <3>2, <3>3, <4>1, <4>2
    <3>4. CASE i # 1
      <4>1. i - 1 \in 1 .. N
        BY <2>1, <3>4
      <4> QED BY <3>1, <3>2, <3>4, <4>1
    <3> QED BY <3>3, <3>4
  <2> DEFINE flatten == CHOOSE f : F(f)
  <2>7. F(flatten)
    <3> HIDE DEF F, g
    <3> QED BY <2>6
  <2>8. FlattenSeq(seqs) = flatten[N]
    BY <1>2 DEF FlattenSeq
  <2> DEFINE All(k) == UNION {ToSet(seqs[i]) : i \in 1 .. k}
             S == {k \in 0 .. N - 1 : flatten[k + 1] \in Seq(T) /\ ToSet(flatten[k + 1]) = All(k + 1)}
  <2>9. 0 \in S
    <3>1. flatten[1] = seqs[1]
      <4> HIDE DEF flatten
      <4> QED BY <2>1, <2>7
    <3>2. seqs[1] \in Seq(T) /\ 0 \in 0 .. N - 1 /\ 1 .. 1 = {1}
      BY <2>1
    <3> HIDE DEF flatten, F
    <3> QED BY <3>1, <3>2
  <2>10. ASSUME NEW k \in 0 .. (N - 1) - 1, k \in S PROVE k + 1 \in S
    <3>1. /\ k + 1 \in 0 .. N - 1 /\ k + 2 \in 1 .. N /\ k + 2 # 1 /\ (k + 2) - 1 = k + 1 /\ (k + 1) + 1 = k + 2
          /\ 1 .. k + 2 = (1 .. k + 1) \cup {k + 2}
      BY <2>1
    <3>2. flatten[k + 2] = flatten[k + 1] \o seqs[k + 2]
      <4> HIDE DEF flatten
      <4> QED BY <2>7, <3>1
    <3>3. seqs[k + 2] \in Seq(T)
      BY <2>1, <3>1
    <3>4. flatten[k + 1] \in Seq(T) /\ ToSet(flatten[k + 1]) = All(k + 1)
      BY <2>10
    <3>5. flatten[k + 2] \in Seq(T) /\ ToSet(flatten[k + 2]) = ToSet(flatten[k + 1]) \cup ToSet(seqs[k + 2])
      <4> HIDE DEF flatten
      <4>1. \A a, b \in Seq(T) : a \o b \in Seq(T) /\ ToSet(a \o b) = ToSet(a) \cup ToSet(b)
        BY ConcatElements
      <4> QED BY <3>2, <3>3, <3>4, <4>1
    <3>6. All(k + 2) = All(k + 1) \cup ToSet(seqs[k + 2])
      BY <3>1
    <3> HIDE DEF flatten, F, All
    <3> QED BY <3>1, <3>4, <3>5, <3>6
  <2>11. \A n \in 0 .. N - 1 : n \in S
    <3>1. N - 1 \in Nat
      BY <2>1
    <3> HIDE DEF S, N
    <3> QED BY <2>9, <2>10, <3>1, UpTo
  <2>12. N - 1 \in S /\ (N - 1) + 1 = N /\ DOMAIN seqs = 1 .. N
    <3>1. N - 1 \in 0 .. N - 1 /\ (N - 1) + 1 = N /\ DOMAIN seqs = 1 .. N
      BY <2>1
    <3> HIDE DEF S, N
    <3> QED BY <2>11, <3>1
  <2> HIDE DEF flatten, N
  <2> QED BY <2>8, <2>12
<1> QED BY <1>1, <1>2
-----------------------------------------------------------------------------
\* Rules with one match, and how sortRouteRules() compares them.

\* A rule with one match, which is what splitMatches() makes.
Single == {rule \in Rule : Len(rule.matches) = 1}

\* What such a rule has.
LEMMA MatchFields ==
    ASSUME NEW rule \in Single
    PROVE  /\ rule.matches \in Seq(Match) /\ Len(rule.matches) = 1 /\ rule.matches = <<rule.matches[1]>>
           /\ rule.matches[1] \in Match
           /\ rule.matches[1].headers \in SUBSET Criteria /\ rule.matches[1].query \in SUBSET Criteria
           /\ rule.matches[1].path \in Paths \cup {NoPath}
           /\ rule.matches[1].path # NoPath => rule.matches[1].path.value \in Seq(Segments)
<1>1. rule.matches \in Seq(Match) /\ Len(rule.matches) = 1
  BY DEF Single, Rule
<1>2. rule.matches[1] \in Match /\ rule.matches = <<rule.matches[1]>>
  BY <1>1
<1>3. \A match \in Match : /\ match.headers \in SUBSET Criteria /\ match.query \in SUBSET Criteria
                           /\ match.path \in Paths \cup {NoPath}
                           /\ match.path # NoPath => match.path.value \in Seq(Segments)
  BY DEF Match, Paths
<1> QED BY <1>1, <1>2, <1>3

\* A match with a path has nothing else if it has one criterion.
LEMMA OnlyPath ==
    ASSUME NEW match, match.path # NoPath
    PROVE  criteriaCount(match) = 1 <=> match.method = NoMethod /\ match.headers = {} /\ match.query = {}
<1> DEFINE has == {c \in {"headers", "query"} : match[c] # {}}
                  \cup {c \in {"method"} : match[c] # NoMethod}
                  \cup {c \in {"path"} : match[c] # NoPath}
<1>1. criteriaCount(match) = Cardinality(has)
  BY DEF criteriaCount
<1>2. "path" \in has
  OBVIOUS
<1>3. IsFiniteSet(has)
  <2>1. IsFiniteSet({"headers"} \cup {"query"})
    BY FS_Singleton, FS_AddElement
  <2>2. IsFiniteSet((({"headers"} \cup {"query"}) \cup {"method"}) \cup {"path"})
    BY <2>1, FS_AddElement
  <2>3. has \subseteq (({"headers"} \cup {"query"}) \cup {"method"}) \cup {"path"}
    OBVIOUS
  <2> QED BY <2>2, <2>3, FS_Subset
<1>4. (\E c : has = {c}) <=> match.method = NoMethod /\ match.headers = {} /\ match.query = {}
  OBVIOUS
<1> HIDE DEF has
<1>5. Cardinality(has) = 1 <=> \E c : has = {c}
  BY <1>3, FS_Singleton
<1> QED BY <1>1, <1>4, <1>5

\* A catch-all has the empty prefix, and nothing else.
LEMMA CatchallMatch ==
    ASSUME NEW rule \in Single
    PROVE  isCatchall(rule) <=> LET match == rule.matches[1] IN
              /\ match.path # NoPath /\ match.path.type = "Prefix" /\ match.path.value = <<>>
              /\ match.method = NoMethod /\ match.headers = {} /\ match.query = {}
BY OnlyPath, MatchFields DEF isCatchall, IsPath

\* A bare prefix is a match with a prefix and nothing else.
LEMMA BareMatch ==
    ASSUME NEW rule \in Single
    PROVE  BarePrefix(rule) <=> LET match == rule.matches[1] IN
              /\ match.path # NoPath /\ match.path.type = "Prefix"
              /\ match.method = NoMethod /\ match.headers = {} /\ match.query = {}
BY OnlyPath, MatchFields DEF BarePrefix, IsPath

\* Criteria can be counted.
LEMMA CountsOfCriteria ==
    ASSUME NEW rule \in Single
    PROVE  /\ Cardinality(rule.matches[1].headers) \in Nat /\ Cardinality(rule.matches[1].query) \in Nat
           /\ Cardinality({}) = 0
<1>1. IsFiniteSet(rule.matches[1].headers) /\ IsFiniteSet(rule.matches[1].query)
  BY MatchFields, FS_Subset, RoutesAssumption
<1> QED BY <1>1, FS_CardinalityType, FS_EmptySet

\* Only a catch-all is behind a catch-all.
LEMMA LessThanCatchalls ==
    ASSUME NEW rule1 \in Single, NEW rule2 \in Single, isCatchall(rule1), Less(rule1, rule2)
    PROVE  isCatchall(rule2)
<1> SUFFICES ASSUME ~isCatchall(rule2) PROVE FALSE
  OBVIOUS
<1> DEFINE i == rule1.matches[1]
           j == rule2.matches[1]
<1>1. /\ i.path # NoPath /\ i.path.type = "Prefix" /\ i.path.value = <<>>
      /\ i.method = NoMethod /\ i.headers = {} /\ i.query = {}
  BY CatchallMatch
<1>2. ~(Cardinality(i.query) > Cardinality(j.query))
  BY <1>1, CountsOfCriteria
<1>3. IsPath(j, "Prefix") => Len(j.path.value) \in Nat
  BY MatchFields DEF IsPath
<1>4. ~(Len(i.path.value) > Len(j.path.value)) \/ ~IsPath(j, "Prefix")
  BY <1>1, <1>3
<1>5. \/ IsPath(i, "Exact") /\ j.path = NoPath
      \/ IsPath(i, "Prefix") /\ IsPath(j, "Prefix") /\ Len(i.path.value) > Len(j.path.value)
      \/ i.method # NoMethod /\ j.path = NoPath /\ j.method = NoMethod
      \/ IF i.headers # {} /\ j.headers # {}
         THEN Cardinality(i.headers) > Cardinality(j.headers)
         ELSE j.query # {} /\ Cardinality(i.query) > Cardinality(j.query)
  BY DEF Less
<1> HIDE DEF i, j
<1> QED BY <1>1, <1>2, <1>4, <1>5 DEF IsPath

Longer(rule1, rule2) == Len(rule1.matches[1].path.value) >= Len(rule2.matches[1].path.value)

\* Bare prefixes go by their lengths.
LEMMA LessThanBare ==
    ASSUME NEW rule1 \in Single, NEW rule2 \in Single, BarePrefix(rule1), BarePrefix(rule2)
    PROVE  IF Less(rule1, rule2) THEN Longer(rule1, rule2) ELSE Longer(rule2, rule1)
<1> DEFINE i == rule1.matches[1]
           j == rule2.matches[1]
<1>1. /\ i.path # NoPath /\ i.path.type = "Prefix" /\ i.method = NoMethod /\ i.headers = {} /\ i.query = {}
      /\ j.path # NoPath /\ j.path.type = "Prefix" /\ j.method = NoMethod /\ j.headers = {} /\ j.query = {}
  BY BareMatch
<1>2. Len(i.path.value) \in Nat /\ Len(j.path.value) \in Nat
  <2>1. i.path.value \in Seq(Segments) /\ j.path.value \in Seq(Segments)
    BY <1>1, MatchFields
  <2> HIDE DEF i, j
  <2> QED BY <2>1
<1>3. isCatchall(rule2) => j.path.value = <<>>
  BY CatchallMatch
<1>4. isCatchall(rule2) => Len(j.path.value) = 0
  BY <1>3
<1>5. Less(rule1, rule2) <=> isCatchall(rule2) \/ Len(i.path.value) > Len(j.path.value)
  BY <1>1 DEF Less, IsPath
<1>6. /\ Longer(rule1, rule2) <=> Len(i.path.value) >= Len(j.path.value)
      /\ Longer(rule2, rule1) <=> Len(j.path.value) >= Len(i.path.value)
  BY DEF Longer
<1> DEFINE m == Len(i.path.value)
           n == Len(j.path.value)
<1> HIDE DEF m, n
<1>7. /\ m \in Nat /\ n \in Nat
      /\ isCatchall(rule2) => n = 0
      /\ Less(rule1, rule2) <=> isCatchall(rule2) \/ m > n
      /\ Longer(rule1, rule2) <=> m >= n
      /\ Longer(rule2, rule1) <=> n >= m
  BY <1>2, <1>4, <1>5, <1>6 DEF m, n
<1>8. Less(rule1, rule2) => m >= n
  BY <1>7
<1>9. ~Less(rule1, rule2) => n >= m
  BY <1>7
<1> QED BY <1>7, <1>8, <1>9

-----------------------------------------------------------------------------
\* combineRouteRules().

\* No two rules that only their backends tell apart.
Unmergeable(rules) == \A i, j \in DOMAIN rules : i # j => ~shouldMerge(rules[i], rules[j])

\* The cases of one rule.
CaseOf(rule) == {<<match, rule.filters, backend>> :
                    match \in ToSet(rule.matches), backend \in ToSet(rule.backends)}

\* The cases of a list are those of its rules.
LEMMA CasesOfRules ==
    ASSUME NEW rules
    PROVE  Cases(rules) = UNION {CaseOf(rules[i]) : i \in DOMAIN rules}
BY DEF Cases, CaseOf, ToSet

\* A step of combineRouteRules().
Adding(output, rule) ==
    IF \E i \in DOMAIN output : shouldMerge(output[i], rule)
    THEN LET i == SelectInSeq(output, LAMBDA other : shouldMerge(other, rule))
         IN [output EXCEPT ![i].backends = @ \o rule.backends]
    ELSE Append(output, rule)

\* Such rules stay such when they get other backends.
LEMMA RuleFields ==
    /\ \A rule \in Single : /\ rule.matches \in Seq(Match) /\ Len(rule.matches) = 1 /\ rule.filters \in Filters
                            /\ rule.backends \in Seq(Backends) /\ rule.matches[1] \in Match
    /\ \A rule \in Single, more \in Seq(Backends) :
          LET both == [rule EXCEPT !.backends = more] IN
          both \in Single /\ both.matches = rule.matches /\ both.filters = rule.filters /\ both.backends = more
<1>1. \A rule \in Single : /\ rule.matches \in Seq(Match) /\ Len(rule.matches) = 1 /\ rule.filters \in Filters
                            /\ rule.backends \in Seq(Backends)
  BY DEF Single, Rule
<1>2. \A rule \in Single : rule.matches[1] \in Match
  BY <1>1
<1>3. \A rule \in Single, more \in Seq(Backends) :
          LET both == [rule EXCEPT !.backends = more] IN
          both \in Single /\ both.matches = rule.matches /\ both.filters = rule.filters /\ both.backends = more
  BY DEF Single, Rule
<1> QED BY <1>1, <1>2, <1>3

\* The rule that a rule is added to.
LEMMA SelectInSeqFinds ==
    ASSUME NEW output \in Seq(Single), NEW rule,
           \E i \in DOMAIN output : shouldMerge(output[i], rule)
    PROVE  LET i == SelectInSeq(output, LAMBDA other : shouldMerge(other, rule))
           IN i \in DOMAIN output /\ shouldMerge(output[i], rule)
<1> DEFINE I == {i \in 1 .. Len(output) : shouldMerge(output[i], rule)}
<1>1. I \in SUBSET Nat /\ I # {}
  OBVIOUS
<1>2. \E x \in I : \A y \in I : x <= y
  <2> HIDE DEF I
  <2> QED BY <1>1, LeastNumber
<1>3. Min(I) \in I
  <2> HIDE DEF I
  <2> QED BY <1>2 DEF Min
<1>4. SelectInSeq(output, LAMBDA other : shouldMerge(other, rule)) = Min(I)
  BY <1>1 DEF SelectInSeq
<1> QED BY <1>3, <1>4

\* The step loses no case, adds those of the rule, and leaves nothing to merge.
LEMMA AddingKeeps ==
    ASSUME NEW output \in Seq(Single), NEW rule \in Single
    PROVE  /\ Adding(output, rule) \in Seq(Single)
           /\ Unmergeable(output) => Unmergeable(Adding(output, rule))
           /\ Cases(Adding(output, rule)) = Cases(output) \cup CaseOf(rule)
<1>1. CASE \E i \in DOMAIN output : shouldMerge(output[i], rule)
  <2> DEFINE i == SelectInSeq(output, LAMBDA other : shouldMerge(other, rule))
             both == [output[i] EXCEPT !.backends = @ \o rule.backends]
  <2>1. i \in DOMAIN output /\ shouldMerge(output[i], rule)
    BY <1>1, SelectInSeqFinds
  <2>2. Adding(output, rule) = [output EXCEPT ![i] = both]
    BY <1>1 DEF Adding
  <2> HIDE DEF i
  <2>3. output[i] \in Single /\ output[i].backends \in Seq(Backends) /\ rule.backends \in Seq(Backends)
    BY <2>1, RuleFields
  <2>4. output[i].backends \o rule.backends \in Seq(Backends)
    BY <2>3
  <2>5. /\ both \in Single /\ both.matches = output[i].matches /\ both.filters = output[i].filters
        /\ both.backends = output[i].backends \o rule.backends
    BY <2>3, <2>4, RuleFields
  <2>6. rule.matches = output[i].matches /\ rule.filters = output[i].filters
    BY <2>1 DEF shouldMerge
  <2> HIDE DEF both
  <2> DEFINE new == [output EXCEPT ![i] = both]
  <2>7. new \in Seq(Single) /\ DOMAIN new = DOMAIN output /\ new[i] = both
        /\ \A j \in DOMAIN output : j # i => new[j] = output[j]
    BY <2>1, <2>5
  <2> HIDE DEF new
  <2>8. Unmergeable(output) => Unmergeable(new)
    BY <2>5, <2>7 DEF Unmergeable, shouldMerge
  <2>9. CaseOf(both) = CaseOf(output[i]) \cup CaseOf(rule)
    <3>1. ToSet(both.backends) = ToSet(output[i].backends) \cup ToSet(rule.backends)
      BY <2>3, <2>5, ConcatElements
    <3> QED BY <2>5, <2>6, <3>1 DEF CaseOf
  <2>10. Cases(new) = Cases(output) \cup CaseOf(rule)
    <3>1. UNION {CaseOf(new[j]) : j \in DOMAIN new} = (UNION {CaseOf(output[j]) : j \in DOMAIN output}) \cup CaseOf(rule)
      BY <2>1, <2>7, <2>9
    <3> QED BY <3>1, CasesOfRules
  <2> QED BY <2>2, <2>7, <2>8, <2>10 DEF new
<1>2. CASE ~ \E i \in DOMAIN output : shouldMerge(output[i], rule)
  <2> DEFINE new == Append(output, rule)
  <2>1. Adding(output, rule) = new
    BY <1>2 DEF Adding
  <2>2. /\ new \in Seq(Single) /\ DOMAIN new = DOMAIN output \cup {Len(output) + 1}
        /\ Len(output) + 1 \notin DOMAIN output /\ new[Len(output) + 1] = rule
        /\ \A j \in DOMAIN output : new[j] = output[j]
    OBVIOUS
  <2> HIDE DEF new
  <2>3. Unmergeable(output) => Unmergeable(new)
    BY <1>2, <2>2 DEF Unmergeable, shouldMerge
  <2>4. Cases(new) = Cases(output) \cup CaseOf(rule)
    <3>1. UNION {CaseOf(new[j]) : j \in DOMAIN new} = (UNION {CaseOf(output[j]) : j \in DOMAIN output}) \cup CaseOf(rule)
      BY <2>2
    <3> QED BY <3>1, CasesOfRules
  <2> QED BY <2>1, <2>2, <2>3, <2>4
<1> QED BY <1>1, <1>2

\* So does combineRouteRules().
LEMMA CombineKeeps ==
    ASSUME NEW rules \in Seq(Single)
    PROVE  /\ combineRouteRules(rules) \in Seq(Single) /\ Unmergeable(combineRouteRules(rules))
           /\ Cases(combineRouteRules(rules)) = Cases(rules)
<1> DEFINE N == Len(rules)
           op == [p \in Seq(Single) \X Single |-> Adding(p[1], p[2])]
           F(f) == f = [s \in SUBSET DOMAIN rules |->
                          IF s = {} THEN <<>> ELSE Adding(f[s \ {Max(s)}], rules[Max(s)])]
           all == CHOOSE f : F(f)
<1>1. N \in Nat /\ rules \in [1 .. N -> Single] /\ DOMAIN rules = 1 .. N /\ <<>> \in Seq(Single)
  OBVIOUS
<1> HIDE DEF N
<1>2. op \in [Seq(Single) \X Single -> Seq(Single)]
  BY AddingKeeps
<1>3. PICK fold : IsFold(fold, Seq(Single), op, <<>>, N, rules)
  <2> HIDE DEF op
  <2> QED BY <1>1, <1>2, FoldExists
<1>4. F(fold)
  <2>1. fold \in [SUBSET (1 .. N) -> Seq(Single)]
    BY <1>3 DEF IsFold
  <2> SUFFICES ASSUME NEW s \in SUBSET (1 .. N)
               PROVE  fold[s] = IF s = {} THEN <<>> ELSE Adding(fold[s \ {Max(s)}], rules[Max(s)])
    BY <1>1, <2>1
  <2>2. fold[s] = IF s = {} THEN <<>> ELSE op[<<fold[s \ {Max(s)}], rules[Max(s)]>>]
    <3> HIDE DEF op
    <3> QED BY <1>3 DEF IsFold
  <2>3. CASE s # {}
    <3>1. Max(s) \in 1 .. N
      BY <1>1, <2>3, MaxFacts
    <3>2. fold[s \ {Max(s)}] \in Seq(Single) /\ rules[Max(s)] \in Single
      BY <1>1, <2>1, <3>1
    <3> QED BY <2>2, <2>3, <3>2
  <2> QED BY <2>2, <2>3
<1>5. F(all)
  <2> HIDE DEF F
  <2> QED BY <1>4
<1>6. combineRouteRules(rules) = all[1 .. N]
  BY <1>1 DEF combineRouteRules, FoldLeft, MapThenFoldSet, Adding
<1> HIDE DEF all
<1>7. all[1 .. 0] = <<>>
  <2>1. 1 .. 0 = {} /\ {} \in SUBSET (1 .. N)
    OBVIOUS
  <2> QED BY <1>1, <1>5, <2>1
<1>8. \A k \in 0 .. N - 1 : all[1 .. k + 1] = Adding(all[1 .. k], rules[k + 1])
  <2> SUFFICES ASSUME NEW k \in 0 .. N - 1 PROVE all[1 .. k + 1] = Adding(all[1 .. k], rules[k + 1])
    OBVIOUS
  <2>1. k \in Nat /\ (1 .. k + 1) \in SUBSET (1 .. N)
    BY <1>1
  <2>2. (1 .. k + 1) # {} /\ (1 .. k + 1) \ {k + 1} = 1 .. k /\ Max(1 .. k + 1) = k + 1
    BY <2>1, UpToIsNew
  <2>3. all[1 .. k + 1] = Adding(all[(1 .. k + 1) \ {Max(1 .. k + 1)}], rules[Max(1 .. k + 1)])
    BY <1>1, <1>5, <2>1, <2>2
  <2> QED BY <2>2, <2>3
<1> HIDE DEF F, op
<1> DEFINE S == {k \in 0 .. N : /\ all[1 .. k] \in Seq(Single) /\ Unmergeable(all[1 .. k])
                                /\ Cases(all[1 .. k]) = UNION {CaseOf(rules[i]) : i \in 1 .. k}}
<1>9. 0 \in S
  <2>1. Cases(<<>>) = UNION {CaseOf(rules[i]) : i \in 1 .. 0}
    BY CasesOfRules
  <2>2. Unmergeable(<<>>) /\ 0 \in 0 .. N
    BY <1>1 DEF Unmergeable
  <2> QED BY <1>1, <1>7, <2>1, <2>2
<1>10. ASSUME NEW k \in 0 .. N - 1, k \in S PROVE k + 1 \in S
  <2>1. k + 1 \in 0 .. N /\ k + 1 \in 1 .. N /\ 1 .. k + 1 = (1 .. k) \cup {k + 1}
    BY <1>1
  <2>2. rules[k + 1] \in Single
    BY <1>1, <2>1
  <2>3. /\ all[1 .. k] \in Seq(Single) /\ Unmergeable(all[1 .. k])
        /\ Cases(all[1 .. k]) = UNION {CaseOf(rules[i]) : i \in 1 .. k}
    BY <1>10
  <2>4. /\ all[1 .. k + 1] \in Seq(Single) /\ Unmergeable(all[1 .. k + 1])
        /\ Cases(all[1 .. k + 1]) = Cases(all[1 .. k]) \cup CaseOf(rules[k + 1])
    BY <1>8, <2>2, <2>3, AddingKeeps
  <2>5. UNION {CaseOf(rules[i]) : i \in 1 .. k + 1} = (UNION {CaseOf(rules[i]) : i \in 1 .. k}) \cup CaseOf(rules[k + 1])
    BY <2>1
  <2> QED BY <2>1, <2>3, <2>4, <2>5
<1>11. N \in S
  <2>1. N \in 0 .. N
    BY <1>1
  <2> HIDE DEF S
  <2> QED BY <1>1, <1>9, <1>10, <2>1, UpTo
<1> QED BY <1>1, <1>6, <1>11, CasesOfRules

-----------------------------------------------------------------------------
\* sortRouteRules().

\* Where the elements are after an insertion.
LEMMA InsertAtFacts ==
    ASSUME NEW T, NEW s \in Seq(T), NEW p \in 1 .. Len(s) + 1, NEW e \in T
    PROVE  LET new == InsertAt(s, p, e) IN
           /\ new \in Seq(T) /\ Len(new) = Len(s) + 1 /\ new[p] = e
           /\ \A i \in 1 .. p - 1 : new[i] = s[i]
           /\ \A i \in p + 1 .. Len(s) + 1 : new[i] = s[i - 1]
<1> DEFINE a == SubSeq(s, 1, p - 1)
           b == SubSeq(s, p, Len(s))
           c == a \o <<e>>
           new == c \o b
<1>1. p - 1 \in 0 .. Len(s) /\ p \in Nat /\ Len(s) \in Nat
  OBVIOUS
<1>2. a \in Seq(T) /\ Len(a) = p - 1 /\ \A i \in 1 .. p - 1 : a[i] = s[i]
  BY <1>1
<1>3. b \in Seq(T) /\ Len(b) = Len(s) - p + 1 /\ \A i \in 1 .. Len(s) - p + 1 : b[i] = s[p + i - 1]
  BY <1>1
<1> HIDE DEF a, b
<1>4. c \in Seq(T) /\ Len(c) = p /\ c[p] = e /\ \A i \in 1 .. p - 1 : c[i] = s[i]
  BY <1>1, <1>2
<1> HIDE DEF c
<1>5. /\ new \in Seq(T) /\ Len(new) = Len(s) + 1
      /\ \A i \in 1 .. p : new[i] = c[i]
      /\ \A i \in 1 .. Len(s) - p + 1 : new[p + i] = b[i]
  <2>1. c \in Seq(T) /\ b \in Seq(T)
    BY <1>3, <1>4
  <2>2. /\ new \in Seq(T) /\ Len(new) = Len(c) + Len(b)
        /\ \A i \in 1 .. Len(c) : new[i] = c[i]
        /\ \A i \in 1 .. Len(b) : new[Len(c) + i] = b[i]
    BY <2>1
  <2> HIDE DEF new
  <2>3. Len(new) = Len(s) + 1
    BY <1>1, <1>3, <1>4, <2>2
  <2>4. \A i \in 1 .. p : new[i] = c[i]
    BY <1>4, <2>2
  <2>5. \A i \in 1 .. Len(s) - p + 1 : new[p + i] = b[i]
    BY <1>3, <1>4, <2>2
  <2> QED BY <2>2, <2>3, <2>4, <2>5
<1> HIDE DEF new
<1>7. \A i \in p + 1 .. Len(s) + 1 : new[i] = s[i - 1]
  <2> SUFFICES ASSUME NEW i \in p + 1 .. Len(s) + 1 PROVE new[i] = s[i - 1]
    OBVIOUS
  <2>1. i - p \in 1 .. Len(s) - p + 1 /\ p + (i - p) = i /\ p + (i - p) - 1 = i - 1
    BY <1>1
  <2>2. new[p + (i - p)] = b[i - p] /\ b[i - p] = s[p + (i - p) - 1]
    BY <1>3, <1>5, <2>1
  <2> QED BY <2>1, <2>2
<1>8. new[p] = e /\ \A i \in 1 .. p - 1 : new[i] = s[i]
  <2>1. p \in 1 .. p /\ \A i \in 1 .. p - 1 : i \in 1 .. p
    BY <1>1
  <2> QED BY <1>4, <1>5, <2>1
<1>9. InsertAt(s, p, e) = new
  BY DEF InsertAt, new, a, b, c
<1> QED BY <1>5, <1>7, <1>8, <1>9

\* Each pair of rules, the earlier one first, is in Q.
Ordered(rules, Q) == \A i, j \in DOMAIN rules : i < j => <<rules[i], rules[j]>> \in Q

\* An insertion keeps an order that the new element fits into where it is put.
LEMMA InsertAtOrdered ==
    ASSUME NEW T, NEW s \in Seq(T), NEW p \in 1 .. Len(s) + 1, NEW e \in T, NEW Q, Ordered(s, Q),
           \A k \in 1 .. p - 1 : <<s[k], e>> \in Q,
           \A k \in p .. Len(s) : <<e, s[k]>> \in Q
    PROVE  Ordered(InsertAt(s, p, e), Q)
<1> DEFINE new == InsertAt(s, p, e)
<1>1. /\ new \in Seq(T) /\ Len(new) = Len(s) + 1 /\ new[p] = e
      /\ \A i \in 1 .. p - 1 : new[i] = s[i]
      /\ \A i \in p + 1 .. Len(s) + 1 : new[i] = s[i - 1]
  BY InsertAtFacts
<1> HIDE DEF new
<1> SUFFICES ASSUME NEW i \in 1 .. Len(s) + 1, NEW j \in 1 .. Len(s) + 1, i < j
             PROVE  <<new[i], new[j]>> \in Q
  BY <1>1 DEF Ordered, new
<1>2. \A k, l \in 1 .. Len(s) : k < l => <<s[k], s[l]>> \in Q
  BY DEF Ordered
<1>3. p \in Nat /\ Len(s) \in Nat /\ i \in Nat /\ j \in Nat
  OBVIOUS
<1>4. CASE j < p
  <2>1. i \in 1 .. p - 1 /\ j \in 1 .. p - 1 /\ i \in 1 .. Len(s) /\ j \in 1 .. Len(s)
    BY <1>3, <1>4
  <2> QED BY <1>1, <1>2, <2>1
<1>5. CASE j = p
  <2>1. i \in 1 .. p - 1
    BY <1>3, <1>5
  <2> QED BY <1>1, <1>5, <2>1
<1>6. CASE j > p
  <2>1. j \in p + 1 .. Len(s) + 1 /\ j - 1 \in p .. Len(s) /\ j - 1 \in 1 .. Len(s)
    BY <1>3, <1>6
  <2>2. CASE i < p
    <3>1. i \in 1 .. p - 1 /\ i \in 1 .. Len(s) /\ i < j - 1
      BY <1>3, <1>6, <2>2
    <3> QED BY <1>1, <1>2, <2>1, <3>1
  <2>3. CASE i = p
    BY <1>1, <2>1, <2>3
  <2>4. CASE i > p
    <3>1. i \in p + 1 .. Len(s) + 1 /\ i - 1 \in 1 .. Len(s) /\ i - 1 < j - 1
      BY <1>3, <2>4
    <3> QED BY <1>1, <1>2, <2>1, <3>1
  <2> QED BY <1>3, <2>2, <2>3, <2>4
<1> QED BY <1>3, <1>4, <1>5, <1>6

\* An insertion adds one element.
LEMMA InsertAtElements ==
    ASSUME NEW T, NEW s \in Seq(T), NEW p \in 1 .. Len(s) + 1, NEW e \in T
    PROVE  ToSet(InsertAt(s, p, e)) = ToSet(s) \cup {e}
<1> DEFINE new == InsertAt(s, p, e)
<1>1. /\ new \in Seq(T) /\ Len(new) = Len(s) + 1 /\ new[p] = e
      /\ \A i \in 1 .. p - 1 : new[i] = s[i]
      /\ \A i \in p + 1 .. Len(s) + 1 : new[i] = s[i - 1]
  BY InsertAtFacts
<1>2. DOMAIN new = 1 .. Len(s) + 1 /\ DOMAIN s = 1 .. Len(s) /\ Len(s) \in Nat /\ p \in Nat
  BY <1>1
<1> HIDE DEF new
<1>3. ToSet(new) \subseteq ToSet(s) \cup {e}
  <2> SUFFICES ASSUME NEW i \in 1 .. Len(s) + 1 PROVE new[i] \in ToSet(s) \cup {e}
    BY <1>2 DEF ToSet
  <2>1. CASE i < p
    <3>1. i \in 1 .. p - 1 /\ i \in 1 .. Len(s)
      BY <1>2, <2>1
    <3> QED BY <1>1, <1>2, <3>1 DEF ToSet
  <2>2. CASE i > p
    <3>1. i \in p + 1 .. Len(s) + 1 /\ i - 1 \in 1 .. Len(s)
      BY <1>2, <2>2
    <3> QED BY <1>1, <1>2, <3>1 DEF ToSet
  <2>3. CASE i = p
    BY <1>1, <2>3
  <2> QED BY <1>2, <2>1, <2>2, <2>3
<1>4. e \in ToSet(new)
  BY <1>1, <1>2 DEF ToSet
<1>5. ToSet(s) \subseteq ToSet(new)
  <2> SUFFICES ASSUME NEW i \in 1 .. Len(s) PROVE s[i] \in ToSet(new)
    BY <1>2 DEF ToSet
  <2>1. CASE i < p
    <3>1. i \in 1 .. p - 1 /\ i \in 1 .. Len(s) + 1
      BY <1>2, <2>1
    <3> QED BY <1>1, <1>2, <3>1 DEF ToSet
  <2>2. CASE ~(i < p)
    <3>1. i + 1 \in p + 1 .. Len(s) + 1 /\ i + 1 \in 1 .. Len(s) + 1 /\ (i + 1) - 1 = i
      BY <1>2, <2>2
    <3> QED BY <1>1, <1>2, <3>1 DEF ToSet
  <2> QED BY <2>1, <2>2
<1> QED BY <1>3, <1>4, <1>5 DEF new

\* The orders that the proof needs: rules differ by more than their backends, behind
\* a catch-all are catch-alls only, and of bare prefixes a longer is first.
Differ == {pair \in Single \X Single : ~shouldMerge(pair[1], pair[2])}
CatchallsLast == {pair \in Single \X Single : isCatchall(pair[1]) => isCatchall(pair[2])}
LongestFirst == {pair \in Single \X Single : Longer(pair[1], pair[2])}

\* A step of sortRouteRules().
Inserting(sorted, rule) ==
    LET stay == {k \in DOMAIN sorted : ~Less(rule, sorted[k])}
    IN InsertAt(sorted, 1 + (IF stay = {} THEN 0 ELSE Max(stay)), rule)

\* Although the comparison is not an order, the step keeps the three orders.
LEMMA InsertingKeeps ==
    ASSUME NEW sorted \in Seq(Single), NEW rule \in Single
    PROVE  LET new == Inserting(sorted, rule) IN
           /\ new \in Seq(Single) /\ ToSet(new) = ToSet(sorted) \cup {rule}
           /\ Ordered(sorted, Differ) /\ (\A i \in DOMAIN sorted : ~shouldMerge(sorted[i], rule)) => Ordered(new, Differ)
           /\ Ordered(sorted, CatchallsLast) => Ordered(new, CatchallsLast)
           /\ (\A r \in ToSet(sorted) \cup {rule} : BarePrefix(r)) /\ Ordered(sorted, LongestFirst) => Ordered(new, LongestFirst)
<1> DEFINE N == Len(sorted)
           stay == {k \in 1 .. N : ~Less(rule, sorted[k])}
           p == 1 + (IF stay = {} THEN 0 ELSE Max(stay))
<1>1. N \in Nat /\ DOMAIN sorted = 1 .. N /\ \A k \in 1 .. N : sorted[k] \in Single
  OBVIOUS
<1>2. Inserting(sorted, rule) = InsertAt(sorted, p, rule)
  BY <1>1 DEF Inserting
<1>3. /\ p \in 1 .. N + 1
      /\ \A k \in p .. N : Less(rule, sorted[k])
      /\ p > 1 => ~Less(rule, sorted[p - 1])
  <2>1. CASE stay = {}
    BY <1>1, <2>1
  <2>2. CASE stay # {}
    <3>1. stay \in SUBSET (1 .. N)
      OBVIOUS
    <3> DEFINE m == Max(stay)
    <3>2. m \in stay /\ \A y \in stay : y <= m
      <4> HIDE DEF stay, N
      <4> QED BY <1>1, <2>2, <3>1, MaxFacts
    <3>3. p = 1 + m
      BY <2>2
    <3> HIDE DEF m
    <3>4. m \in 1 .. N /\ ~Less(rule, sorted[m]) /\ p - 1 = m /\ p \in 1 .. N + 1
      BY <1>1, <3>2, <3>3
    <3>5. \A k \in p .. N : k \in 1 .. N /\ ~(k <= m)
      BY <1>1, <3>3, <3>4
    <3> HIDE DEF p, N
    <3>6. \A k \in p .. N : k \notin stay
      <4> HIDE DEF stay
      <4> QED BY <3>2, <3>5
    <3>7. \A k \in p .. N : Less(rule, sorted[k])
      BY <3>5, <3>6
    <3> QED BY <3>4, <3>7
  <2> QED BY <2>1, <2>2
<1> HIDE DEF p, stay
<1> DEFINE new == InsertAt(sorted, p, rule)
<1>4. new \in Seq(Single) /\ ToSet(new) = ToSet(sorted) \cup {rule}
  BY <1>3, InsertAtFacts, InsertAtElements
<1>5. \A k \in p .. N : k \in 1 .. N
  BY <1>1, <1>3
<1>6. \A k \in 1 .. p - 1 : k \in 1 .. N /\ p - 1 \in 1 .. N /\ p > 1 /\ (k < p - 1 \/ k = p - 1)
  BY <1>1, <1>3
<1>7. ASSUME Ordered(sorted, Differ), \A i \in DOMAIN sorted : ~shouldMerge(sorted[i], rule)
      PROVE  Ordered(new, Differ)
  <2>1. \A k \in 1 .. p - 1 : <<sorted[k], rule>> \in Differ
    BY <1>1, <1>6, <1>7 DEF Differ
  <2>2. \A k \in p .. N : <<rule, sorted[k]>> \in Differ
    BY <1>1, <1>5, <1>7 DEF Differ, shouldMerge
  <2> QED BY <1>3, <1>7, <2>1, <2>2, InsertAtOrdered
<1>8. ASSUME Ordered(sorted, CatchallsLast)
      PROVE  Ordered(new, CatchallsLast)
  <2>1. \A k \in 1 .. p - 1 : <<sorted[k], rule>> \in CatchallsLast
    <3> SUFFICES ASSUME NEW k \in 1 .. p - 1 PROVE ~isCatchall(sorted[k])
      BY <1>1, <1>6 DEF CatchallsLast
    <3>1. ~isCatchall(sorted[p - 1])
      BY <1>3, <1>6 DEF Less
    <3>2. k < p - 1 => <<sorted[k], sorted[p - 1]>> \in CatchallsLast
      BY <1>1, <1>6, <1>8 DEF Ordered
    <3> QED BY <1>6, <3>1, <3>2 DEF CatchallsLast
  <2>2. \A k \in p .. N : <<rule, sorted[k]>> \in CatchallsLast
    BY <1>1, <1>3, <1>5, LessThanCatchalls DEF CatchallsLast
  <2> QED BY <1>3, <1>8, <2>1, <2>2, InsertAtOrdered
<1>9. ASSUME \A r \in ToSet(sorted) \cup {rule} : BarePrefix(r), Ordered(sorted, LongestFirst)
      PROVE  Ordered(new, LongestFirst)
  <2>1. BarePrefix(rule) /\ \A k \in 1 .. N : BarePrefix(sorted[k])
    BY <1>1, <1>9 DEF ToSet
  <2>2. \A k \in 1 .. p - 1 : <<sorted[k], rule>> \in LongestFirst
    <3> SUFFICES ASSUME NEW k \in 1 .. p - 1 PROVE Longer(sorted[k], rule)
      BY <1>1, <1>6 DEF LongestFirst
    <3>1. Longer(sorted[p - 1], rule)
      BY <1>1, <1>3, <1>6, <2>1, LessThanBare
    <3>2. CASE k < p - 1
      <4>1. <<sorted[k], sorted[p - 1]>> \in LongestFirst
        BY <1>1, <1>6, <1>9, <3>2 DEF Ordered
      <4>2. Longer(sorted[k], sorted[p - 1])
        BY <4>1 DEF LongestFirst
      <4>3. \A r \in Single : BarePrefix(r) => Len(r.matches[1].path.value) \in Nat
        BY BareMatch, MatchFields
      <4>4. /\ Len(sorted[k].matches[1].path.value) \in Nat /\ Len(rule.matches[1].path.value) \in Nat
            /\ Len(sorted[p - 1].matches[1].path.value) \in Nat
        BY <1>1, <1>6, <2>1, <4>3
      <4> DEFINE x == Len(sorted[k].matches[1].path.value)
                 y == Len(sorted[p - 1].matches[1].path.value)
                 z == Len(rule.matches[1].path.value)
      <4>5. x >= y /\ y >= z
        BY <3>1, <4>2 DEF Longer
      <4>6. x \in Nat /\ y \in Nat /\ z \in Nat
        BY <4>4
      <4>7. x >= z
        <5> HIDE DEF x, y, z
        <5> QED BY <4>5, <4>6
      <4> QED BY <4>7 DEF Longer
    <3> QED BY <1>6, <3>1, <3>2
  <2>3. \A k \in p .. N : <<rule, sorted[k]>> \in LongestFirst
    BY <1>1, <1>3, <1>5, <2>1, LessThanBare DEF LongestFirst
  <2> QED BY <1>3, <1>9, <2>2, <2>3, InsertAtOrdered
<1> QED BY <1>2, <1>4, <1>7, <1>8, <1>9

\* sortRouteRules() loses no rule and establishes the orders.
LEMMA SortKeeps ==
    ASSUME NEW rules \in Seq(Single), Unmergeable(rules)
    PROVE  LET sorted == sortRouteRules(rules) IN
           /\ sorted \in Seq(Single) /\ ToSet(sorted) = ToSet(rules)
           /\ Ordered(sorted, Differ) /\ Ordered(sorted, CatchallsLast)
           /\ (\A rule \in ToSet(rules) : BarePrefix(rule)) => Ordered(sorted, LongestFirst)
<1> DEFINE N == Len(rules)
           op == [p \in Seq(Single) \X Single |-> Inserting(p[1], p[2])]
           F(f) == f = [s \in SUBSET DOMAIN rules |->
                          IF s = {} THEN <<>> ELSE Inserting(f[s \ {Max(s)}], rules[Max(s)])]
           all == CHOOSE f : F(f)
           Bare == \A rule \in ToSet(rules) : BarePrefix(rule)
<1>1. N \in Nat /\ rules \in [1 .. N -> Single] /\ DOMAIN rules = 1 .. N /\ <<>> \in Seq(Single)
  OBVIOUS
<1> HIDE DEF N
<1>2. op \in [Seq(Single) \X Single -> Seq(Single)]
  <2>1. \A sorted \in Seq(Single), rule \in Single : Inserting(sorted, rule) \in Seq(Single)
    BY InsertingKeeps
  <2> QED BY <2>1
<1>3. PICK fold : IsFold(fold, Seq(Single), op, <<>>, N, rules)
  <2> HIDE DEF op
  <2> QED BY <1>1, <1>2, FoldExists
<1>4. F(fold)
  <2>1. fold \in [SUBSET (1 .. N) -> Seq(Single)]
    BY <1>3 DEF IsFold
  <2> SUFFICES ASSUME NEW s \in SUBSET (1 .. N)
               PROVE  fold[s] = IF s = {} THEN <<>> ELSE Inserting(fold[s \ {Max(s)}], rules[Max(s)])
    BY <1>1, <2>1
  <2>2. fold[s] = IF s = {} THEN <<>> ELSE op[<<fold[s \ {Max(s)}], rules[Max(s)]>>]
    <3> HIDE DEF op
    <3> QED BY <1>3 DEF IsFold
  <2>3. CASE s # {}
    <3>1. Max(s) \in 1 .. N
      BY <1>1, <2>3, MaxFacts
    <3>2. fold[s \ {Max(s)}] \in Seq(Single) /\ rules[Max(s)] \in Single
      BY <1>1, <2>1, <3>1
    <3> QED BY <2>2, <2>3, <3>2
  <2> QED BY <2>2, <2>3
<1>5. F(all)
  <2> HIDE DEF F
  <2> QED BY <1>4
<1>6. sortRouteRules(rules) = all[1 .. N]
  BY <1>1 DEF sortRouteRules, FoldLeft, MapThenFoldSet, Inserting
<1> HIDE DEF all
<1>7. all[1 .. 0] = <<>>
  <2>1. 1 .. 0 = {} /\ {} \in SUBSET (1 .. N)
    OBVIOUS
  <2> QED BY <1>1, <1>5, <2>1
<1>8. \A k \in 0 .. N - 1 : all[1 .. k + 1] = Inserting(all[1 .. k], rules[k + 1])
  <2> SUFFICES ASSUME NEW k \in 0 .. N - 1 PROVE all[1 .. k + 1] = Inserting(all[1 .. k], rules[k + 1])
    OBVIOUS
  <2>1. k \in Nat /\ (1 .. k + 1) \in SUBSET (1 .. N)
    BY <1>1
  <2>2. (1 .. k + 1) # {} /\ (1 .. k + 1) \ {k + 1} = 1 .. k /\ Max(1 .. k + 1) = k + 1
    BY <2>1, UpToIsNew
  <2>3. all[1 .. k + 1] = Inserting(all[(1 .. k + 1) \ {Max(1 .. k + 1)}], rules[Max(1 .. k + 1)])
    BY <1>1, <1>5, <2>1, <2>2
  <2> QED BY <2>2, <2>3
<1> HIDE DEF F, op
<1> DEFINE Good(sorted, k) ==
              /\ sorted \in Seq(Single) /\ ToSet(sorted) = {rules[i] : i \in 1 .. k}
              /\ Ordered(sorted, Differ) /\ Ordered(sorted, CatchallsLast)
              /\ Bare => Ordered(sorted, LongestFirst)
           S == {k \in 0 .. N : Good(all[1 .. k], k)}
<1>9. 0 \in S
  <2>1. Good(<<>>, 0)
    BY DEF Ordered, ToSet
  <2>2. 0 \in 0 .. N
    BY <1>1
  <2> HIDE DEF Good
  <2> QED BY <1>7, <2>1, <2>2
<1>10. ASSUME NEW k \in 0 .. N - 1, k \in S PROVE k + 1 \in S
  <2> DEFINE sorted == all[1 .. k]
             rule == rules[k + 1]
             new == Inserting(sorted, rule)
  <2>1. k + 1 \in 0 .. N /\ k + 1 \in 1 .. N /\ 1 .. k + 1 = (1 .. k) \cup {k + 1} /\ k + 1 \notin 1 .. k
        /\ \A i \in 1 .. k : i \in 1 .. N
    BY <1>1
  <2>2. rule \in Single
    BY <1>1, <2>1
  <2>3. Good(sorted, k)
    BY <1>10
  <2>4. all[1 .. k + 1] = new
    BY <1>8
  <2> HIDE DEF sorted, rule
  <2>5. /\ new \in Seq(Single) /\ ToSet(new) = ToSet(sorted) \cup {rule}
        /\ Ordered(sorted, Differ) /\ (\A i \in DOMAIN sorted : ~shouldMerge(sorted[i], rule)) => Ordered(new, Differ)
        /\ Ordered(sorted, CatchallsLast) => Ordered(new, CatchallsLast)
        /\ (\A r \in ToSet(sorted) \cup {rule} : BarePrefix(r)) /\ Ordered(sorted, LongestFirst) => Ordered(new, LongestFirst)
    BY <2>2, <2>3, InsertingKeeps
  <2> HIDE DEF new
  <2>6. ToSet(new) = {rules[i] : i \in 1 .. k + 1}
    BY <2>1, <2>3, <2>5 DEF rule
  <2>7. \A i \in DOMAIN sorted : ~shouldMerge(sorted[i], rule)
    <3> SUFFICES ASSUME NEW i \in DOMAIN sorted PROVE ~shouldMerge(sorted[i], rule)
      OBVIOUS
    <3>1. sorted[i] \in ToSet(sorted)
      BY DEF ToSet
    <3>2. PICK j \in 1 .. k : sorted[i] = rules[j]
      BY <2>3, <3>1
    <3> QED BY <1>1, <2>1, <3>2 DEF Unmergeable, rule
  <2>8. Bare => \A r \in ToSet(sorted) \cup {rule} : BarePrefix(r)
    <3>1. ToSet(sorted) \cup {rule} \subseteq ToSet(rules)
      BY <1>1, <2>1, <2>3 DEF ToSet, rule
    <3> QED BY <3>1
  <2>9. Good(new, k + 1)
    <3> HIDE DEF Bare
    <3> QED BY <2>3, <2>5, <2>6, <2>7, <2>8
  <2> HIDE DEF Good
  <2> QED BY <2>1, <2>4, <2>9
<1>11. N \in S
  <2>1. N \in 0 .. N
    BY <1>1
  <2> HIDE DEF S
  <2> QED BY <1>1, <1>9, <1>10, <2>1, UpTo
<1>12. Good(all[1 .. N], N)
  <2> HIDE DEF Good
  <2> QED BY <1>11
<1>13. ToSet(rules) = {rules[i] : i \in 1 .. N}
  BY <1>1 DEF ToSet
<1> QED BY <1>6, <1>12, <1>13

\* Bare prefixes with one value are one match.
LEMMA SameBare ==
    ASSUME NEW rule1 \in Single, NEW rule2 \in Single, BarePrefix(rule1), BarePrefix(rule2),
           rule1.matches[1].path.value = rule2.matches[1].path.value
    PROVE  rule1.matches = rule2.matches
<1> DEFINE i == rule1.matches[1]
           j == rule2.matches[1]
<1>1. /\ i.path # NoPath /\ i.path.type = "Prefix" /\ i.method = NoMethod /\ i.headers = {} /\ i.query = {}
      /\ j.path # NoPath /\ j.path.type = "Prefix" /\ j.method = NoMethod /\ j.headers = {} /\ j.query = {}
  BY BareMatch
<1>2. i \in Match /\ j \in Match /\ rule1.matches = <<i>> /\ rule2.matches = <<j>> /\ i.path.value = j.path.value
  BY MatchFields
<1> HIDE DEF i, j
<1>3. i.path \in Paths /\ j.path \in Paths
  BY <1>1, <1>2 DEF Match
<1>4. i.path = j.path
  BY <1>1, <1>2, <1>3 DEF Paths
<1>5. i = j
  BY <1>1, <1>2, <1>4 DEF Match
<1> QED BY <1>2, <1>5

\* What the orders mean for the rules that are reached.
LEMMA OrderedReaches ==
    ASSUME NEW rules \in Seq(Single), Ordered(rules, Differ), Ordered(rules, CatchallsLast),
           (\A rule \in ToSet(rules) : BarePrefix(rule)) => Ordered(rules, LongestFirst),
           NEW j \in DOMAIN rules
    PROVE  /\ Len(rules[j].matches) = 1
           /\ \A i \in 1 .. j - 1 :
                 Covers(rules[i].matches[1], rules[j].matches[1]) =>
                     IF rules[i].matches = rules[j].matches THEN rules[i].filters # rules[j].filters
                     ELSE ~isCatchall(rules[i]) /\ \E k \in DOMAIN rules : ~BarePrefix(rules[k])
<1>1. \A k \in DOMAIN rules : rules[k] \in Single
  OBVIOUS
<1>2. Len(rules[j].matches) = 1
  BY <1>1, MatchFields
<1> SUFFICES ASSUME NEW i \in 1 .. j - 1, Covers(rules[i].matches[1], rules[j].matches[1])
             PROVE  IF rules[i].matches = rules[j].matches THEN rules[i].filters # rules[j].filters
                    ELSE ~isCatchall(rules[i]) /\ \E k \in DOMAIN rules : ~BarePrefix(rules[k])
  BY <1>2
<1>3. i \in DOMAIN rules /\ i < j
  OBVIOUS
<1>4. rules[i] \in Single /\ rules[j] \in Single
  BY <1>1, <1>3
<1>5. CASE rules[i].matches = rules[j].matches
  <2>1. <<rules[i], rules[j]>> \in Differ
    BY <1>3 DEF Ordered
  <2> QED BY <1>5, <2>1 DEF Differ, shouldMerge
<1>6. CASE rules[i].matches # rules[j].matches
  <2>1. ~isCatchall(rules[i])
    <3> SUFFICES ASSUME isCatchall(rules[i]) PROVE FALSE
      OBVIOUS
    <3>1. <<rules[i], rules[j]>> \in CatchallsLast
      BY <1>3 DEF Ordered
    <3>2. isCatchall(rules[j])
      BY <3>1 DEF CatchallsLast
    <3>3. BarePrefix(rules[i]) /\ BarePrefix(rules[j])
      BY <1>4, <3>2, CatchallMatch, BareMatch
    <3>4. rules[i].matches[1].path.value = rules[j].matches[1].path.value
      BY <1>4, <3>2, CatchallMatch
    <3> QED BY <1>4, <1>6, <3>3, <3>4, SameBare
  <2>2. \E k \in DOMAIN rules : ~BarePrefix(rules[k])
    <3> SUFFICES ASSUME \A k \in DOMAIN rules : BarePrefix(rules[k]) PROVE FALSE
      OBVIOUS
    <3> DEFINE v == rules[i].matches[1].path.value
               w == rules[j].matches[1].path.value
    <3>1. BarePrefix(rules[i]) /\ BarePrefix(rules[j])
      BY <1>3
    <3>2. rules[i].matches[1].path # NoPath /\ rules[j].matches[1].path # NoPath
      BY <1>4, <3>1, BareMatch
    <3>3. v \in Seq(Segments) /\ w \in Seq(Segments)
      BY <1>4, <3>2, MatchFields
    <3>4. Ordered(rules, LongestFirst)
      BY DEF ToSet
    <3>5. Len(v) >= Len(w)
      BY <1>3, <3>4 DEF Ordered, LongestFirst, Longer
    <3>6. v = w \/ IsPrefix(v, w)
      BY <3>2 DEF Covers
    <3> HIDE DEF v, w
    <3>7. v = w
      <4> SUFFICES ASSUME IsPrefix(v, w) PROVE v = w
        BY <3>6
      <4>1. Len(v) <= Len(w) /\ SubSeq(v, 1, Len(v)) = SubSeq(w, 1, Len(v))
        BY DEF IsPrefix
      <4>2. Len(v) = Len(w)
        BY <3>3, <3>5, <4>1
      <4>3. SubSeq(v, 1, Len(v)) = v /\ SubSeq(w, 1, Len(w)) = w
        BY <3>3
      <4> QED BY <4>1, <4>2, <4>3
    <3> QED BY <1>4, <1>6, <3>1, <3>7, SameBare DEF v, w
  <2> QED BY <1>6, <2>1, <2>2
<1> QED BY <1>5, <1>6
-----------------------------------------------------------------------------
\* Host names.

\* The labels of pattern but the first are the last of name.
Ends(name, pattern) ==
    /\ Len(name) >= Len(pattern)
    /\ \A k \in 0 .. Len(pattern) - 2 : name[Len(name) - k] = pattern[Len(pattern) - k]

\* hostnameMatchesWildcardHostname() compares just those.
LEMMA WildcardMatches ==
    ASSUME NEW T, NEW host \in Seq(T), NEW wildcard \in Seq(T), wildcard # <<>>
    PROVE  hostnameMatchesWildcardHostname(host, wildcard) <=> Ends(host, wildcard)
<1> DEFINE m == Len(host)
           n == Len(wildcard)
           a == Reverse(Tail(wildcard))
           b == Reverse(host)
<1>1. m \in Nat /\ n \in Nat \ {0}
  OBVIOUS
<1>2. Tail(wildcard) \in Seq(T) /\ Len(Tail(wildcard)) = n - 1 /\ \A i \in 1 .. n - 1 : Tail(wildcard)[i] = wildcard[i + 1]
  OBVIOUS
<1> HIDE DEF m, n
<1>3. a \in Seq(T) /\ Len(a) = n - 1 /\ \A i \in 1 .. n - 1 : a[i] = wildcard[n - (i - 1)]
  <2>1. a = [i \in 1 .. n - 1 |-> Tail(wildcard)[((n - 1) - i) + 1]]
    BY <1>2 DEF Reverse
  <2>2. \A i \in 1 .. n - 1 : ((n - 1) - i) + 1 \in 1 .. n - 1 /\ (((n - 1) - i) + 1) + 1 = n - (i - 1)
    BY <1>1
  <2>3. n - 1 \in Nat
    BY <1>1
  <2>4. \A i \in 1 .. n - 1 : Tail(wildcard)[((n - 1) - i) + 1] \in T
    BY <1>2, <2>2
  <2>5. \A i \in 1 .. n - 1 : a[i] = wildcard[n - (i - 1)]
    BY <1>2, <2>1, <2>2
  <2>6. a \in [1 .. n - 1 -> T]
    BY <2>1, <2>4
  <2> HIDE DEF a
  <2> QED BY <2>3, <2>5, <2>6
<1>4. b \in Seq(T) /\ Len(b) = m /\ \A i \in 1 .. m : b[i] = host[m - (i - 1)]
  <2>1. b = [i \in 1 .. m |-> host[(m - i) + 1]]
    BY DEF Reverse, m
  <2>2. \A i \in 1 .. m : (m - i) + 1 \in 1 .. m /\ (m - i) + 1 = m - (i - 1)
    BY <1>1
  <2>3. \A i \in 1 .. m : host[(m - i) + 1] \in T
    BY <2>2 DEF m
  <2>4. \A i \in 1 .. m : b[i] = host[m - (i - 1)]
    BY <2>1, <2>2
  <2>5. b \in [1 .. m -> T]
    BY <2>1, <2>3
  <2> HIDE DEF b
  <2> QED BY <1>1, <2>4, <2>5
<1> HIDE DEF a, b
<1>5. hostnameMatchesWildcardHostname(host, wildcard) <=>
         /\ n - 1 <= m /\ SubSeq(a, 1, n - 1) = SubSeq(b, 1, n - 1)
         /\ m >= n
  BY <1>3, <1>4 DEF hostnameMatchesWildcardHostname, IsSuffix, IsPrefix, a, b, m, n
<1> SUFFICES ASSUME m >= n
             PROVE  SubSeq(a, 1, n - 1) = SubSeq(b, 1, n - 1) <=> \A k \in 0 .. n - 2 : host[m - k] = wildcard[n - k]
  BY <1>1, <1>5 DEF Ends, m, n
<1>6. \A i \in 1 .. n - 1 : i \in 1 .. m
  BY <1>1
<1>7. SubSeq(a, 1, n - 1) = SubSeq(b, 1, n - 1) <=> \A i \in 1 .. n - 1 : a[i] = b[i]
  <2>1. n - 1 \in Nat /\ n - 1 <= Len(a) /\ n - 1 <= Len(b)
    BY <1>1, <1>3, <1>4
  <2>2. SubSeq(a, 1, n - 1) = [i \in 1 .. n - 1 |-> a[i]] /\ SubSeq(b, 1, n - 1) = [i \in 1 .. n - 1 |-> b[i]]
    BY <1>3, <1>4, <2>1
  <2> QED BY <2>2
<1>8. (\A i \in 1 .. n - 1 : a[i] = b[i]) <=> \A i \in 1 .. n - 1 : host[m - (i - 1)] = wildcard[n - (i - 1)]
  BY <1>3, <1>4, <1>6
<1>9. (\A i \in 1 .. n - 1 : host[m - (i - 1)] = wildcard[n - (i - 1)]) <=> \A k \in 0 .. n - 2 : host[m - k] = wildcard[n - k]
  <2>1. \A i \in 1 .. n - 1 : i - 1 \in 0 .. n - 2
    BY <1>1
  <2>2. \A k \in 0 .. n - 2 : k + 1 \in 1 .. n - 1 /\ (k + 1) - 1 = k
    BY <1>1
  <2> QED BY <2>1, <2>2
<1> QED BY <1>7, <1>8, <1>9

\* So does the reading of wildcards that the property has.
LEMMA StandsForNames ==
    ASSUME NEW T, NEW name \in Seq(T), NEW pattern \in Seq(T), pattern # <<>>
    PROVE  Stands(name, pattern) <=> name = pattern \/ (Head(pattern) = "*" /\ Ends(name, pattern))
<1> DEFINE m == Len(name)
           n == Len(pattern)
           t == Tail(pattern)
<1>1. m \in Nat /\ n \in Nat \ {0}
  OBVIOUS
<1>2. t \in Seq(T) /\ Len(t) = n - 1 /\ \A i \in 1 .. n - 1 : t[i] = pattern[i + 1]
  OBVIOUS
<1>3. \A i \in 1 .. m : /\ SubSeq(name, i + 1, m) \in Seq(T) /\ Len(SubSeq(name, i + 1, m)) = m - i
                        /\ \A j \in 1 .. m - i : SubSeq(name, i + 1, m)[j] = name[i + j]
  <2> SUFFICES ASSUME NEW i \in 1 .. m
               PROVE  /\ SubSeq(name, i + 1, m) \in Seq(T) /\ Len(SubSeq(name, i + 1, m)) = m - i
                      /\ \A j \in 1 .. m - i : SubSeq(name, i + 1, m)[j] = name[i + j]
    OBVIOUS
  <2>1. i + 1 \in 1 .. m + 1 /\ m - i \in Nat
    BY <1>1
  <2>2. \A j \in 1 .. m - i : (i + 1) + j - 1 = i + j
    BY <1>1
  <2> QED BY <1>1, <2>1, <2>2
<1> HIDE DEF m, n, t
<1>4. ASSUME NEW i \in 1 .. m, SubSeq(name, i + 1, m) = t
      PROVE  Ends(name, pattern)
  <2>1. m - i = n - 1
    BY <1>2, <1>3, <1>4
  <2>2. m >= n
    BY <1>1, <2>1
  <2>3. ASSUME NEW k \in 0 .. n - 2
        PROVE  name[m - k] = pattern[n - k]
    <3>1. (n - 1) - k \in 1 .. n - 1 /\ i + ((n - 1) - k) = m - k /\ ((n - 1) - k) + 1 = n - k
      BY <1>1, <2>1
    <3>2. t[(n - 1) - k] = name[i + ((n - 1) - k)]
      BY <1>3, <1>4, <2>1, <3>1
    <3>3. t[(n - 1) - k] = pattern[((n - 1) - k) + 1]
      BY <1>2, <3>1
    <3> QED BY <3>1, <3>2, <3>3
  <2> QED BY <2>2, <2>3 DEF Ends, m, n
<1>5. ASSUME Ends(name, pattern)
      PROVE  \E i \in 1 .. m : SubSeq(name, i + 1, m) = t
  <2> DEFINE i == m - (n - 1)
  <2>1. m >= n /\ \A k \in 0 .. n - 2 : name[m - k] = pattern[n - k]
    BY <1>5 DEF Ends, m, n
  <2>2. i \in 1 .. m /\ m - i = n - 1
    BY <1>1, <2>1
  <2> DEFINE u == SubSeq(name, i + 1, m)
  <2>3. u \in Seq(T) /\ Len(u) = n - 1 /\ \A j \in 1 .. n - 1 : u[j] = name[i + j]
    <3> HIDE DEF i
    <3> QED BY <1>3, <2>2
  <2>4. ASSUME NEW j \in 1 .. n - 1
        PROVE  u[j] = t[j]
    <3>1. (n - 1) - j \in 0 .. n - 2 /\ m - ((n - 1) - j) = i + j /\ n - ((n - 1) - j) = j + 1
      BY <1>1
    <3>2. name[m - ((n - 1) - j)] = pattern[n - ((n - 1) - j)]
      BY <2>1, <3>1
    <3> HIDE DEF u, i
    <3> QED BY <1>2, <2>3, <3>1, <3>2
  <2>5. u = t
    <3> HIDE DEF u
    <3>1. u \in [1 .. n - 1 -> T] /\ t \in [1 .. n - 1 -> T]
      BY <1>2, <2>3
    <3>2. \A j \in 1 .. n - 1 : u[j] = t[j]
      BY <2>4
    <3>3. u = [j \in 1 .. n - 1 |-> u[j]] /\ t = [j \in 1 .. n - 1 |-> t[j]]
      BY <3>1
    <3> QED BY <3>2, <3>3
  <2> QED BY <2>2, <2>5
<1> QED BY <1>4, <1>5 DEF Stands, m, t

\* What a listener's name and a route's have in common stands for the names that
\* both stand for, and is the more specific of them.
LEMMA CommonStands ==
    ASSUME NEW T, NEW name \in Seq(T), name # <<>>, Head(name) # "*",
           NEW host \in Seq(T), host # <<>>, NEW listener \in Seq(T), listener # <<>>
    PROVE  /\ (\E h \in Common(host, listener) : Stands(name, h)) <=>
                 /\ Stands(name, host) /\ Stands(name, listener)
                 /\ ~(Head(listener) = "*" /\ Head(host) = "*" /\ Len(listener) > Len(host))
           /\ \A h \in Common(host, listener) :
                 Stands(name, h) => h = IF listener = name THEN listener ELSE host
<1>1. /\ Stands(name, host) <=> name = host \/ (Head(host) = "*" /\ Ends(name, host))
      /\ Stands(name, listener) <=> name = listener \/ (Head(listener) = "*" /\ Ends(name, listener))
  BY StandsForNames
<1>2. CASE listener = host
  <2>1. Common(host, listener) = {host}
    BY <1>2 DEF Common
  <2> QED BY <1>2, <2>1
<1>3. CASE listener # host /\ Head(listener) = "*"
  <2>1. Common(host, listener) = IF Ends(host, listener) THEN {host} ELSE {}
    BY <1>3, WildcardMatches DEF Common
  <2>2. Stands(name, listener) <=> Ends(name, listener)
    BY <1>1, <1>3
  <2>3. ASSUME Ends(host, listener), Stands(name, host)
        PROVE  Ends(name, listener)
    <3>1. CASE name = host
      BY <2>3, <3>1
    <3>2. CASE Ends(name, host)
      <4>1. /\ Len(name) >= Len(host) /\ Len(host) >= Len(listener)
            /\ Len(name) \in Nat /\ Len(host) \in Nat /\ Len(listener) \in Nat
        BY <2>3, <3>2 DEF Ends
      <4>2. \A k \in 0 .. Len(listener) - 2 : k \in 0 .. Len(host) - 2
        BY <4>1
      <4>3. \A k \in 0 .. Len(listener) - 2 : name[Len(name) - k] = listener[Len(listener) - k]
        BY <2>3, <3>2, <4>2 DEF Ends
      <4>4. Len(name) >= Len(listener)
        BY <4>1
      <4> QED BY <4>3, <4>4 DEF Ends
    <3> QED BY <1>1, <2>3, <3>1, <3>2
  <2>4. ASSUME Ends(host, listener) PROVE ~(Len(listener) > Len(host))
    <3>1. Len(host) >= Len(listener) /\ Len(host) \in Nat /\ Len(listener) \in Nat
      BY <2>4 DEF Ends
    <3> QED BY <3>1
  <2>5. ASSUME Stands(name, host), Ends(name, listener), ~(Head(host) = "*" /\ Len(listener) > Len(host))
        PROVE  Ends(host, listener)
    <3>1. CASE name = host
      BY <2>5, <3>1
    <3>2. CASE (Head(host) = "*" /\ Ends(name, host))
      <4>1. /\ Len(name) >= Len(host) /\ Len(host) >= Len(listener)
            /\ Len(name) \in Nat /\ Len(host) \in Nat /\ Len(listener) \in Nat
        BY <2>5, <3>2 DEF Ends
      <4>2. \A k \in 0 .. Len(listener) - 2 : k \in 0 .. Len(host) - 2
        BY <4>1
      <4>3. \A k \in 0 .. Len(listener) - 2 : host[Len(host) - k] = listener[Len(listener) - k]
        BY <2>5, <3>2, <4>2 DEF Ends
      <4> QED BY <4>1, <4>3 DEF Ends
    <3> QED BY <1>1, <2>5, <3>1, <3>2
  <2>6. \A h \in Common(host, listener) : h = host /\ listener # name
    BY <1>3, <2>1
  <2> QED BY <1>3, <2>1, <2>2, <2>3, <2>4, <2>5, <2>6
<1>4. CASE listener # host /\ Head(listener) # "*" /\ Head(host) = "*"
  <2>1. Common(host, listener) = IF Ends(listener, host) THEN {listener} ELSE {}
    <3>1. hostnameMatchesWildcardHostname(listener, host) <=> Ends(listener, host)
      BY WildcardMatches
    <3>2. Common(host, listener) = IF hostnameMatchesWildcardHostname(listener, host) THEN {listener} ELSE {}
      BY <1>4 DEF Common
    <3> QED BY <3>1, <3>2
  <2>2. Stands(name, listener) <=> name = listener
    BY <1>1, <1>4
  <2>3. Stands(name, host) <=> Ends(name, host)
    BY <1>1, <1>4
  <2>4. (\E h \in Common(host, listener) : Stands(name, h)) <=> Ends(listener, host) /\ name = listener
    BY <2>1, <2>2
  <2>5. (Ends(listener, host) /\ name = listener) <=> Stands(name, host) /\ Stands(name, listener)
    BY <2>2, <2>3
  <2>6. \A h \in Common(host, listener) : Stands(name, h) => h = listener /\ listener = name
    BY <2>1, <2>2
  <2> QED BY <1>4, <2>4, <2>5, <2>6
<1>5. CASE listener # host /\ Head(listener) # "*" /\ Head(host) # "*"
  <2>1. Common(host, listener) = {}
    BY <1>5 DEF Common
  <2> QED BY <1>1, <1>5, <2>1
<1> QED BY <1>2, <1>3, <1>4, <1>5

-----------------------------------------------------------------------------
\* preprocessHTTPRoutes().

\* splitMatches() keeps the cases of rules, and gives each rule one match.
LEMMA SplitKeeps ==
    ASSUME NEW rules \in Seq(Rule)
    PROVE  splitMatches(rules) \in Seq(Single) /\ Cases(splitMatches(rules)) = Cases(rules)
<1> DEFINE parts(rule) == [j \in DOMAIN rule.matches |-> [rule EXCEPT !.matches = <<rule.matches[j]>>]]
           seqs == [i \in DOMAIN rules |-> parts(rules[i])]
<1>1. ASSUME NEW rule \in Rule
      PROVE  /\ parts(rule) \in Seq(Single)
             /\ UNION {CaseOf(part) : part \in ToSet(parts(rule))} = CaseOf(rule)
  <2>1. rule.matches \in Seq(Match)
    BY DEF Rule
  <2>2. ASSUME NEW j \in DOMAIN rule.matches
        PROVE  LET part == [rule EXCEPT !.matches = <<rule.matches[j]>>] IN
               /\ part \in Single /\ part.matches = <<rule.matches[j]>>
               /\ part.filters = rule.filters /\ part.backends = rule.backends
    <3>1. rule.matches[j] \in Match
      BY <2>1
    <3>2. <<rule.matches[j]>> \in Seq(Match) /\ Len(<<rule.matches[j]>>) = 1
      BY <3>1
    <3> QED BY <3>2 DEF Rule, Single
  <2>3. parts(rule) \in Seq(Single) /\ DOMAIN parts(rule) = DOMAIN rule.matches
    <3>1. Len(rule.matches) \in Nat /\ DOMAIN rule.matches = 1 .. Len(rule.matches)
      BY <2>1
    <3>2. parts(rule) \in [1 .. Len(rule.matches) -> Single]
      BY <2>2, <3>1
    <3> HIDE DEF parts
    <3> QED BY <3>1, <3>2
  <2>4. \A j \in DOMAIN rule.matches :
           CaseOf(parts(rule)[j]) = {<<rule.matches[j], rule.filters, backend>> : backend \in ToSet(rule.backends)}
    <3> SUFFICES ASSUME NEW j \in DOMAIN rule.matches
                 PROVE  CaseOf(parts(rule)[j]) = {<<rule.matches[j], rule.filters, backend>> : backend \in ToSet(rule.backends)}
      OBVIOUS
    <3> DEFINE part == parts(rule)[j]
    <3>1. part.matches = <<rule.matches[j]>> /\ part.filters = rule.filters /\ part.backends = rule.backends
      BY <2>2
    <3> HIDE DEF part
    <3>2. ToSet(part.matches) = {rule.matches[j]}
      BY <3>1 DEF ToSet
    <3>3. CaseOf(part) = {<<rule.matches[j], rule.filters, backend>> : backend \in ToSet(rule.backends)}
      BY <3>1, <3>2 DEF CaseOf
    <3> QED BY <3>3 DEF part
  <2> HIDE DEF parts
  <2>5. UNION {CaseOf(part) : part \in ToSet(parts(rule))} =
          UNION {{<<rule.matches[j], rule.filters, backend>> : backend \in ToSet(rule.backends)} : j \in DOMAIN rule.matches}
    BY <2>3, <2>4 DEF ToSet
  <2>6. CaseOf(rule) =
          UNION {{<<rule.matches[j], rule.filters, backend>> : backend \in ToSet(rule.backends)} : j \in DOMAIN rule.matches}
    BY DEF CaseOf, ToSet
  <2> QED BY <2>3, <2>5, <2>6
<1>2. splitMatches(rules) = FlattenSeq(seqs)
  BY DEF splitMatches
<1> HIDE DEF parts
<1>3. DOMAIN rules = 1 .. Len(rules) /\ Len(rules) \in Nat /\ \A i \in DOMAIN rules : rules[i] \in Rule
  OBVIOUS
<1>4. seqs \in Seq(Seq(Single)) /\ DOMAIN seqs = DOMAIN rules
  <2>1. seqs \in [1 .. Len(rules) -> Seq(Single)]
    BY <1>1, <1>3
  <2> HIDE DEF seqs
  <2> QED BY <1>3, <2>1
<1>5. /\ FlattenSeq(seqs) \in Seq(Single)
      /\ ToSet(FlattenSeq(seqs)) = UNION {ToSet(seqs[i]) : i \in DOMAIN seqs}
  <2> HIDE DEF seqs
  <2> QED BY <1>4, FlattenSeqElements
<1>6. \A list : Cases(list) = UNION {CaseOf(rule) : rule \in ToSet(list)}
  BY DEF Cases, CaseOf
<1>7. Cases(FlattenSeq(seqs)) = UNION {UNION {CaseOf(rule) : rule \in ToSet(seqs[i])} : i \in DOMAIN seqs}
  <2> HIDE DEF seqs
  <2> QED BY <1>5, <1>6
<1>8. \A i \in DOMAIN rules : UNION {CaseOf(rule) : rule \in ToSet(seqs[i])} = CaseOf(rules[i])
  BY <1>1, <1>3
<1>9. Cases(FlattenSeq(seqs)) = UNION {CaseOf(rules[i]) : i \in DOMAIN rules}
  <2> HIDE DEF seqs
  <2> QED BY <1>4, <1>7, <1>8
<1> QED BY <1>2, <1>5, <1>9, CasesOfRules

\* The rules for a host have the cases of the routes with that host.
LEMMA RulesForHost ==
    ASSUME routes \in Seq(Route), NEW listener, NEW host, NEW https
    PROVE  LET with == {i \in DOMAIN routes : i \in https /\ host \in ComputeHosts(routes[i].hosts, Hostname[listener])} IN
           /\ RulesFor(listener, host, https) \in Seq(Single)
           /\ Cases(RulesFor(listener, host, https)) = UNION {Cases(routes[i].rules) : i \in with}
<1> DEFINE with == {i \in DOMAIN routes : i \in https /\ host \in ComputeHosts(routes[i].hosts, Hostname[listener])}
           seqs == [i \in DOMAIN routes |-> IF i \in with THEN splitMatches(routes[i].rules) ELSE <<>>]
<1>1. RulesFor(listener, host, https) = FlattenSeq(seqs)
  <2>1. seqs = [i \in DOMAIN routes |-> IF i \in https /\ host \in ComputeHosts(routes[i].hosts, Hostname[listener])
                                        THEN splitMatches(routes[i].rules) ELSE <<>>]
    OBVIOUS
  <2> QED BY <2>1 DEF RulesFor
<1>2. /\ DOMAIN routes = 1 .. Len(routes) /\ Len(routes) \in Nat
      /\ \A i \in DOMAIN routes : routes[i].rules \in Seq(Rule)
  <2>1. \A route \in Route : route.rules \in Seq(Rule)
    BY DEF Route
  <2>2. \A i \in DOMAIN routes : routes[i] \in Route
    OBVIOUS
  <2> QED BY <2>1, <2>2
<1>3. with \subseteq DOMAIN routes
  OBVIOUS
<1> HIDE DEF with
<1>4. \A i \in DOMAIN routes : splitMatches(routes[i].rules) \in Seq(Single) /\ <<>> \in Seq(Single)
  BY <1>2, SplitKeeps
<1>5. seqs \in Seq(Seq(Single)) /\ DOMAIN seqs = DOMAIN routes
  <2>1. seqs \in [1 .. Len(routes) -> Seq(Single)]
    BY <1>2, <1>4
  <2> HIDE DEF seqs
  <2> QED BY <1>2, <2>1
<1>6. /\ FlattenSeq(seqs) \in Seq(Single)
      /\ ToSet(FlattenSeq(seqs)) = UNION {ToSet(seqs[i]) : i \in DOMAIN seqs}
  <2> HIDE DEF seqs
  <2> QED BY <1>5, FlattenSeqElements
<1>7. \A list : Cases(list) = UNION {CaseOf(rule) : rule \in ToSet(list)}
  BY DEF Cases, CaseOf
<1>8. Cases(FlattenSeq(seqs)) = UNION {Cases(seqs[i]) : i \in DOMAIN routes}
  <2>1. Cases(FlattenSeq(seqs)) = UNION {UNION {CaseOf(rule) : rule \in ToSet(seqs[i])} : i \in DOMAIN seqs}
    <3> HIDE DEF seqs
    <3> QED BY <1>6, <1>7
  <2> HIDE DEF seqs
  <2> QED BY <1>5, <1>7, <2>1
<1>9. \A i \in DOMAIN routes : Cases(seqs[i]) = IF i \in with THEN Cases(routes[i].rules) ELSE {}
  <2>1. Cases(<<>>) = {}
    BY CasesOfRules
  <2> QED BY <1>2, <2>1, SplitKeeps
<1>10. UNION {Cases(seqs[i]) : i \in DOMAIN routes} = UNION {Cases(routes[i].rules) : i \in with}
  <2> HIDE DEF seqs
  <2> QED BY <1>3, <1>9
<1> QED BY <1>1, <1>6, <1>8, <1>10 DEF with

\* Combined and sorted they still have, and they have the orders.
LEMMA PreprocessedRules ==
    ASSUME routes \in Seq(Route), NEW listener, NEW https
    PROVE  LET rules == preprocessHTTPRoutes(listener, https) IN
           /\ DOMAIN rules = UNION {ComputeHosts(routes[i].hosts, Hostname[listener]) : i \in https}
           /\ \A host \in DOMAIN rules :
                 /\ rules[host] \in Seq(Single) /\ Cases(rules[host]) = Cases(RulesFor(listener, host, https))
                 /\ Ordered(rules[host], Differ) /\ Ordered(rules[host], CatchallsLast)
                 /\ (\A rule \in ToSet(rules[host]) : BarePrefix(rule)) => Ordered(rules[host], LongestFirst)
<1> DEFINE hosts == UNION {ComputeHosts(routes[i].hosts, Hostname[listener]) : i \in https}
           made(host) == sortRouteRules(combineRouteRules(RulesFor(listener, host, https)))
<1>1. preprocessHTTPRoutes(listener, https) = [host \in hosts |-> made(host)]
  BY DEF preprocessHTTPRoutes
<1>2. ASSUME NEW host \in hosts
      PROVE  /\ made(host) \in Seq(Single) /\ Cases(made(host)) = Cases(RulesFor(listener, host, https))
             /\ Ordered(made(host), Differ) /\ Ordered(made(host), CatchallsLast)
             /\ (\A rule \in ToSet(made(host)) : BarePrefix(rule)) => Ordered(made(host), LongestFirst)
  <2> DEFINE rules == RulesFor(listener, host, https)
             combined == combineRouteRules(rules)
             sorted == sortRouteRules(combined)
  <2>1. rules \in Seq(Single)
    BY RulesForHost
  <2> HIDE DEF rules
  <2>2. combined \in Seq(Single) /\ Unmergeable(combined) /\ Cases(combined) = Cases(rules)
    BY <2>1, CombineKeeps
  <2> HIDE DEF combined
  <2>3. /\ sorted \in Seq(Single) /\ ToSet(sorted) = ToSet(combined)
        /\ Ordered(sorted, Differ) /\ Ordered(sorted, CatchallsLast)
        /\ (\A rule \in ToSet(combined) : BarePrefix(rule)) => Ordered(sorted, LongestFirst)
    BY <2>2, SortKeeps
  <2> HIDE DEF sorted
  <2>4. Cases(sorted) = Cases(combined)
    BY <2>3 DEF Cases
  <2>5. made(host) = sorted
    BY DEF sorted, combined, rules
  <2> HIDE DEF made
  <2> QED BY <2>2, <2>3, <2>4, <2>5 DEF rules
<1> HIDE DEF hosts, made
<1> QED BY <1>1, <1>2 DEF hosts

\* ComputeHosts() finds the host names that the property is about.
LEMMA HostsServed ==
    ASSUME NEW listener \in Listeners, NEW route, route.hosts \in SUBSET Hosts, NEW name \in Names
    PROVE  \A h : h \in ComputeHosts(route.hosts, Hostname[listener]) /\ Stands(name, h) <=>
                     h \in Under(listener, name, route)
<1> DEFINE T == Labels \cup {"*"}
           p == IF Hostname[listener] = NoHost THEN AllHosts ELSE Hostname[listener]
           hosts == route.hosts
           all == IF hosts = {} THEN {p} ELSE hosts
           chosen(host) == IF p = name THEN p ELSE host
           both == {host \in all : Stands(name, host) /\ Stands(name, p) /\ ~Narrows(listener, host)}
<1>1. \A host \in Hosts : host \in Seq(T) /\ host # <<>>
  BY DEF Hosts
<1>2. name \in Seq(T) /\ name # <<>> /\ Head(name) # "*"
  BY <1>1, HostsAssumption
<1>3. AllHosts \in Seq(T) /\ AllHosts # <<>> /\ Len(AllHosts) = 1 /\ Head(AllHosts) = "*"
  BY DEF AllHosts
<1>4. p \in Seq(T) /\ p # <<>>
  BY <1>1, <1>3, HostsAssumption
<1>5. Stands(name, AllHosts)
  <2>1. Len(name) >= 1
    BY <1>2
  <2>2. Ends(name, AllHosts)
    BY <1>3, <2>1 DEF Ends
  <2> QED BY <1>2, <1>3, <2>2, StandsForNames
<1>6. Under(listener, name, route) = {chosen(host) : host \in both}
  BY DEF Under
<1>7. \A host \in all : host \in Seq(T) /\ host # <<>>
  <2> HIDE DEF p, T
  <2> QED BY <1>1, <1>4
<1>8. \A host \in all : Narrows(listener, host) <=> Head(p) = "*" /\ Head(host) = "*" /\ Len(p) > Len(host)
  <2> SUFFICES ASSUME NEW host \in all
               PROVE  Narrows(listener, host) <=> Head(p) = "*" /\ Head(host) = "*" /\ Len(p) > Len(host)
    OBVIOUS
  <2>1. CASE Hostname[listener] = NoHost
    <3>1. Len(host) \in Nat \ {0}
      BY <1>7
    <3>2. Len(p) = 1
      BY <1>3, <2>1
    <3>3. ~(Len(p) > Len(host))
      <4> HIDE DEF p, all
      <4> QED BY <3>1, <3>2
    <3> QED BY <2>1, <3>3 DEF Narrows
  <2>2. CASE Hostname[listener] # NoHost
    BY <2>2 DEF Narrows
  <2> QED BY <2>1, <2>2
<1>9. ComputeHosts(hosts, Hostname[listener]) = IF hosts = {} THEN {p} ELSE UNION {Common(host, p) : host \in hosts}
  BY DEF ComputeHosts
<1> HIDE DEF p, T
<1>10. ASSUME NEW host \in all, NEW h
      PROVE  (IF hosts = {} THEN h = p ELSE h \in Common(host, p)) /\ Stands(name, h) <=>
                host \in both /\ h = chosen(host)
  <2>1. CASE hosts = {}
    <3>1. host = p /\ ~(Len(p) > Len(host))
      <4>1. host = p
        BY <2>1
      <4>2. Len(p) \in Nat
        BY <1>4
      <4> QED BY <4>1, <4>2
    <3>2. ~Narrows(listener, host)
      BY <1>8, <3>1
    <3> QED BY <2>1, <3>1, <3>2
  <2>2. CASE hosts # {}
    <3>1. host \in Seq(T) /\ host # <<>> /\ host \in hosts
      BY <1>1, <2>2
    <3>2. /\ (\E g \in Common(host, p) : Stands(name, g)) <=>
                /\ Stands(name, host) /\ Stands(name, p)
                /\ ~(Head(p) = "*" /\ Head(host) = "*" /\ Len(p) > Len(host))
          /\ \A g \in Common(host, p) : Stands(name, g) => g = chosen(host)
      BY <1>2, <1>4, <3>1, CommonStands
    <3>3. (\E g \in Common(host, p) : Stands(name, g)) <=> host \in both
      BY <1>8, <3>2
    <3> HIDE DEF both, chosen
    <3> QED BY <2>2, <3>2, <3>3
  <2> QED BY <2>1, <2>2
<1> SUFFICES ASSUME NEW h
             PROVE  h \in ComputeHosts(hosts, Hostname[listener]) /\ Stands(name, h) <=>
                       \E host \in both : h = chosen(host)
  BY <1>6
<1>11. h \in ComputeHosts(hosts, Hostname[listener]) <=>
          \E host \in all : IF hosts = {} THEN h = p ELSE h \in Common(host, p)
  BY <1>9
<1>12. both \subseteq all
  OBVIOUS
<1> HIDE DEF both, all, chosen, hosts
<1> QED BY <1>10, <1>11, <1>12
-----------------------------------------------------------------------------
\* Listeners.

\* What each stage may rely on the earlier ones to have done.
StagesMakeSense ==
    /\ stage \in {"collapse", "write", "done", "error"} => DOMAIN raw = gateway
    /\ DOMAIN collapsed # {} => DOMAIN raw = gateway
    /\ stage \in {"write", "done", "error"} => gateway \subseteq Sources(collapsed)
    /\ stage = "done" => written = DOMAIN collapsed

\* Only compatible listeners are joined.
Joined == \A c \in DOMAIN collapsed : \A l \in collapsed[c] : compatibleListeners(l, c)

\* Two that are compatible are left only if some listener is not compatible
\* with them.
Apart == \A c, d \in DOMAIN collapsed : c # d /\ compatibleListeners(c, d) =>
             \E l \in gateway : ~compatibleListeners(l, c)

IInv == TypeOK /\ StagesMakeSense /\ Joined /\ Apart
-----------------------------------------------------------------------------
\* Being compatible is an equivalence, although it is defined by cases: HTTPS and
\* TLS are one protocol to it.
LEMMA CompatibleIsEquivalence ==
    /\ \A l : compatibleListeners(l, l)
    /\ \A l, m : compatibleListeners(l, m) => compatibleListeners(m, l)
    /\ \A l, m, n : compatibleListeners(l, m) /\ compatibleListeners(m, n) => compatibleListeners(l, n)
BY DEF compatibleListeners

\* What collapse() makes of the collapsed listeners: the next listener is joined
\* where it is compatible, and is left as one of them where it has to be.
LEMMA CollapseFacts ==
    ASSUME TypeOK, NEW listener, collapse(listener)
    PROVE  /\ listener \in gateway /\ listener \notin DOMAIN collapsed
           /\ DOMAIN collapsed' = IF \/ DOMAIN collapsed = {}
                                     \/ \E c \in DOMAIN collapsed : ~compatibleListeners(listener, c)
                                  THEN DOMAIN collapsed \cup {listener} ELSE DOMAIN collapsed
           /\ \A c \in DOMAIN collapsed :
                 collapsed'[c] = IF compatibleListeners(listener, c) THEN collapsed[c] \cup {listener}
                                 ELSE collapsed[c]
           /\ listener \in DOMAIN collapsed' => collapsed'[listener] = {listener}
<1>1. listener \in gateway /\ listener \notin DOMAIN collapsed
  BY DEF collapse, TypeOK, Sources
<1> DEFINE apart == {l \in DOMAIN collapsed : ~compatibleListeners(listener, l)}
           left == IF DOMAIN collapsed = {} \/ apart # {}
                   THEN DOMAIN collapsed \cup {listener} ELSE DOMAIN collapsed
           next == [l \in left |-> IF l = listener THEN {listener}
                                   ELSE IF l \in apart THEN collapsed[l] ELSE collapsed[l] \cup {listener}]
<1>2. collapsed' = next
  BY DEF collapse
<1>3. DOMAIN next = left /\ \A l \in left :
         next[l] = IF l = listener THEN {listener}
                   ELSE IF l \in apart THEN collapsed[l] ELSE collapsed[l] \cup {listener}
  OBVIOUS
<1> HIDE DEF next
<1> QED BY <1>1, <1>2, <1>3

\* collapse() keeps the invariant.
LEMMA CollapseStep ==
    ASSUME IInv, NEW listener, collapse(listener)
    PROVE  IInv'
<1>1. TypeOK /\ StagesMakeSense /\ Joined /\ Apart
  BY DEF IInv
<1>2. /\ listener \in gateway /\ listener \notin DOMAIN collapsed
      /\ DOMAIN collapsed' = IF \/ DOMAIN collapsed = {}
                                \/ \E c \in DOMAIN collapsed : ~compatibleListeners(listener, c)
                             THEN DOMAIN collapsed \cup {listener} ELSE DOMAIN collapsed
      /\ \A c \in DOMAIN collapsed :
            collapsed'[c] = IF compatibleListeners(listener, c) THEN collapsed[c] \cup {listener}
                            ELSE collapsed[c]
      /\ listener \in DOMAIN collapsed' => collapsed'[listener] = {listener}
  BY <1>1, CollapseFacts
<1>3. /\ UNCHANGED <<gateway, routes, clusters, raw, written>>
      /\ stage = "collapse"
      /\ stage' = IF Sources(collapsed') = gateway THEN "write" ELSE stage
  BY DEF collapse
<1>4. \A c \in DOMAIN collapsed' : c = listener \/ c \in DOMAIN collapsed
  BY <1>2
<1>5. DOMAIN raw = gateway
  BY <1>1, <1>3 DEF StagesMakeSense
<1>6. \A c \in DOMAIN collapsed' : c \in collapsed'[c] /\ collapsed'[c] \subseteq gateway
  BY <1>1, <1>2, <1>4 DEF TypeOK
<1>7. TypeOK'
  BY <1>1, <1>2, <1>3, <1>4, <1>5, <1>6 DEF TypeOK
<1>8. Sources(collapsed)' = Sources(collapsed')
  BY DEF Sources
<1>9. StagesMakeSense'
  BY <1>3, <1>5, <1>8 DEF StagesMakeSense
<1>10. Joined'
  <2> SUFFICES ASSUME NEW c \in DOMAIN collapsed', NEW l \in collapsed'[c]
               PROVE  compatibleListeners(l, c)
    BY DEF Joined, compatibleListeners
  <2>1. CASE c = listener
    BY <1>2, <2>1, CompatibleIsEquivalence
  <2>2. CASE c \in DOMAIN collapsed
    BY <1>1, <1>2, <2>2 DEF Joined
  <2> QED BY <1>4, <2>1, <2>2
<1>11. Apart'
  <2> SUFFICES ASSUME NEW c \in DOMAIN collapsed', NEW d \in DOMAIN collapsed', c # d,
                      compatibleListeners(c, d)
               PROVE  \E l \in gateway : ~compatibleListeners(l, c)
    BY <1>3 DEF Apart, compatibleListeners
  <2>1. CASE c # listener /\ d # listener
    BY <1>1, <1>4, <2>1 DEF Apart
  <2>2. CASE c = listener \/ d = listener
    \* The listener stays, so some other is not compatible with it.
    <3>1. PICK e \in DOMAIN collapsed : ~compatibleListeners(listener, e)
      BY <1>2, <1>4, <2>2
    <3>2. compatibleListeners(listener, c)
      BY <2>2, CompatibleIsEquivalence
    <3>3. e \in gateway
      BY <1>1 DEF TypeOK
    <3> QED BY <3>1, <3>2, <3>3, CompatibleIsEquivalence
  <2> QED BY <2>1, <2>2
<1> QED BY <1>7, <1>9, <1>10, <1>11 DEF IInv

\* The other actions keep it too.
LEMMA RoutesToClustersStep == ASSUME IInv, routesToClusters PROVE IInv'
BY DEF IInv, TypeOK, StagesMakeSense, Joined, Apart, Sources, compatibleListeners, routesToClusters

\* The rules of one more listener: it is one of the gateway's.
LEMMA PreprocessStep == ASSUME IInv, NEW l \in Listeners, preprocessRoutes(l) PROVE IInv'
<1>1. TypeOK /\ StagesMakeSense /\ Joined /\ Apart
  BY DEF IInv
<1>2. /\ UNCHANGED <<gateway, routes, clusters, collapsed, written>>
      /\ stage = "preprocess" /\ l \in gateway
  BY DEF preprocessRoutes
<1>3. \/ stage' = "panic" /\ UNCHANGED raw
      \/ /\ DOMAIN raw' = DOMAIN raw \cup {l}
         /\ stage' = IF DOMAIN raw' = gateway THEN "collapse" ELSE stage
  BY DEF preprocessRoutes
<1>4. TypeOK'
  BY <1>1, <1>2, <1>3 DEF TypeOK
<1>5. StagesMakeSense'
  BY <1>1, <1>2, <1>3 DEF StagesMakeSense
<1>6. Joined' /\ Apart'
  BY <1>1, <1>2 DEF Joined, Apart, compatibleListeners
<1> QED BY <1>4, <1>5, <1>6 DEF IInv

\* One more collapsed listener is written, or its protocol is not known.
LEMMA WriteStep == ASSUME IInv, NEW l \in Listeners, executeListenerTemplate(l) PROVE IInv'
<1>1. TypeOK /\ StagesMakeSense /\ Joined /\ Apart
  BY DEF IInv
<1>2. /\ UNCHANGED <<gateway, routes, clusters, raw, collapsed>>
      /\ stage = "write" /\ l \in DOMAIN collapsed
      /\ \/ stage' = "error" /\ UNCHANGED written
         \/ /\ written' = written \cup {l}
            /\ stage' = IF written' = DOMAIN collapsed THEN "done" ELSE stage
  BY DEF executeListenerTemplate
<1>3. TypeOK'
  BY <1>1, <1>2 DEF TypeOK
<1>4. StagesMakeSense'
  BY <1>1, <1>2 DEF StagesMakeSense, Sources
<1>5. Joined' /\ Apart'
  BY <1>1, <1>2 DEF Joined, Apart, compatibleListeners
<1> QED BY <1>3, <1>4, <1>5 DEF IInv

\* It holds before anything is collapsed.
LEMMA IInvInit == ASSUME Init PROVE IInv
<1>1. DOMAIN raw = {} /\ DOMAIN collapsed = {}
  BY DEF Init
<1> QED BY <1>1 DEF Init, IInv, TypeOK, StagesMakeSense, Joined, Apart

\* Every step keeps it.
LEMMA IInvStep == ASSUME IInv, [Next]_vars PROVE IInv'
<1>1. CASE routesToClusters
  BY <1>1, RoutesToClustersStep
<1>2. CASE \E l \in Listeners : preprocessRoutes(l) \/ collapse(l) \/ executeListenerTemplate(l)
  BY <1>2, PreprocessStep, CollapseStep, WriteStep
<1>3. CASE UNCHANGED vars
  BY <1>3 DEF vars, IInv, TypeOK, StagesMakeSense, Joined, Apart, Sources, compatibleListeners
<1> QED BY <1>1, <1>2, <1>3 DEF Next

\* It is an invariant.
LEMMA Invariance == Spec => []IInv
<1>1. Init => IInv
  BY IInvInit
<1>2. IInv /\ [Next]_vars => IInv'
  BY IInvStep
<1> QED BY <1>1, <1>2, PTL DEF Spec

\* The listeners of each stage are those of the gateway: rules are computed for
\* them, joined to one of them, and written for those that are left
\* (GWProxyToEnvoyConfig in internal/envoy/resource.go).
THEOREM TypeCorrect == Spec => []TypeOK
<1>1. IInv => TypeOK
  BY DEF IInv
<1> QED BY <1>1, Invariance, PTL

\* In whatever order collapse() visits the listeners, each is served among
\* compatible ones, and is in the configuration in the end; two compatible ones
\* are left apart only where some listener is not compatible with them.
THEOREM RoutesServedHolds == Spec => []RoutesServed
<1>1. IInv => RoutesServed
  <2> SUFFICES ASSUME IInv, stage \in {"write", "done", "error"}
               PROVE  /\ \A l \in gateway : \E c \in DOMAIN collapsed : l \in collapsed[c]
                      /\ Joined /\ Apart
                      /\ stage = "done" => written = DOMAIN collapsed
    BY DEF RoutesServed, Joined, Apart
  <2> QED BY DEF IInv, StagesMakeSense, Sources
<1> QED BY <1>1, Invariance, PTL
-----------------------------------------------------------------------------
\* From the routes to the rules.

\* What routesToClusters() makes.
AllBackends == UNION {ToSet(rule.backends) : rule \in UNION {ToSet(routes[i].rules) : i \in DOMAIN routes}}

\* The clusters and the rules are what the routes say, from when they are made.
Preprocessed ==
    /\ stage # "clusters" => clusters = AllBackends
    /\ DOMAIN raw # {} => stage # "clusters"
    /\ \A l \in DOMAIN raw : raw[l] = preprocessHTTPRoutes(l, HTTPRoutesFor(l))

\* No rules are made yet.
LEMMA PreprocessedInit == ASSUME Init PROVE Preprocessed
BY DEF Init, Preprocessed

\* Routes do not change, so what is made of them stays true.
LEMMA PreprocessedStep == ASSUME Preprocessed, [Next]_vars PROVE Preprocessed'
<1>1. routes' = routes
  BY DEF Next, vars, routesToClusters, preprocessRoutes, collapse, executeListenerTemplate
<1>2. AllBackends' = AllBackends
  BY <1>1 DEF AllBackends
<1>3. \A l : preprocessHTTPRoutes(l, HTTPRoutesFor(l))' = preprocessHTTPRoutes(l, HTTPRoutesFor(l))
  BY <1>1 DEF preprocessHTTPRoutes, HTTPRoutesFor, filterReferentRoutes, RulesFor
<1>4. CASE routesToClusters
  BY <1>2, <1>3, <1>4 DEF Preprocessed, routesToClusters, AllBackends
<1>5. ASSUME NEW l \in Listeners, preprocessRoutes(l) PROVE Preprocessed'
  <2>1. stage = "preprocess" /\ stage' # "clusters" /\ clusters' = clusters
    BY <1>5 DEF preprocessRoutes
  <2>2. \/ UNCHANGED raw
        \/ raw' = [m \in DOMAIN raw \cup {l} |-> IF m = l THEN preprocessHTTPRoutes(m, HTTPRoutesFor(m)) ELSE raw[m]]
    BY <1>5 DEF preprocessRoutes
  <2>3. \A m \in DOMAIN raw' : raw'[m] = preprocessHTTPRoutes(m, HTTPRoutesFor(m))
    BY <2>2 DEF Preprocessed
  <2> QED BY <1>2, <1>3, <2>1, <2>3 DEF Preprocessed
<1>6. CASE \/ \E l \in Listeners : collapse(l) \/ executeListenerTemplate(l)
           \/ UNCHANGED vars
  <2>1. UNCHANGED <<clusters, raw>> /\ (stage' # "clusters" <=> stage # "clusters")
    BY <1>6 DEF vars, collapse, executeListenerTemplate
  <2> QED BY <1>2, <1>3, <2>1 DEF Preprocessed
<1> QED BY <1>4, <1>5, <1>6 DEF Next

\* RulesComplete, for some listeners and one request's host name.
LEMMA CompleteFromRoutes ==
    ASSUME TypeOK, Preprocessed, NEW listeners \in SUBSET DOMAIN raw, NEW name \in Names
    PROVE  LET due == {pair \in listeners \X ToSet(routes) :
                          pair[2].http /\ pair[2].sections \cap {AnySection, pair[1]} # {}}
               wanted == Closest(name, UNION {Under(pair[1], name, pair[2]) : pair \in due})
               domain == Closest(name, UNION {DOMAIN raw[l] : l \in listeners})
               found == UNION {UNION {Cases(raw[l][host]) : host \in DOMAIN raw[l] \cap domain} : l \in listeners}
           IN /\ found = UNION {Cases(pair[2].rules) :
                                   pair \in {p \in due : Under(p[1], name, p[2]) \cap wanted # {}}}
              /\ {case[3] : case \in found} \subseteq clusters
<1> DEFINE due == {pair \in listeners \X ToSet(routes) :
                      pair[2].http /\ pair[2].sections \cap {AnySection, pair[1]} # {}}
           names == UNION {Under(pair[1], name, pair[2]) : pair \in due}
           domains == UNION {DOMAIN raw[l] : l \in listeners}
           wanted == Closest(name, names)
           domain == Closest(name, domains)
           found == UNION {UNION {Cases(raw[l][host]) : host \in DOMAIN raw[l] \cap domain} : l \in listeners}
           answers == UNION {Cases(pair[2].rules) : pair \in {p \in due : Under(p[1], name, p[2]) \cap wanted # {}}}
           hosts(l, i) == ComputeHosts(routes[i].hosts, Hostname[l])
           under(l, i) == Under(l, name, routes[i])
<1>1. listeners \subseteq Listeners /\ routes \in Seq(Route)
  BY RoutesAssumption DEF TypeOK
<1>2. \A l : HTTPRoutesFor(l) = {i \in DOMAIN routes : routes[i].http /\ routes[i].sections \cap {AnySection, l} # {}}
  BY DEF HTTPRoutesFor, filterReferentRoutes, refersToSection
<1>3. \A l, i : <<l, routes[i]>> \in due <=> l \in listeners /\ routes[i] \in ToSet(routes) /\ routes[i].http
                                                /\ routes[i].sections \cap {AnySection, l} # {}
  OBVIOUS
<1>4. \A pair \in due : pair[1] \in listeners /\ \E i \in HTTPRoutesFor(pair[1]) : pair[2] = routes[i]
  BY <1>2 DEF ToSet
<1>5. \A l \in listeners : \A i \in HTTPRoutesFor(l) :
         i \in DOMAIN routes /\ \E pair \in due : pair[1] = l /\ pair[2] = routes[i]
  <2> SUFFICES ASSUME NEW l \in listeners, NEW i \in HTTPRoutesFor(l)
               PROVE  i \in DOMAIN routes /\ \E pair \in due : pair[1] = l /\ pair[2] = routes[i]
    OBVIOUS
  <2>1. i \in DOMAIN routes /\ routes[i] \in ToSet(routes)
    BY <1>2 DEF ToSet
  <2>2. <<l, routes[i]>> \in due
    BY <1>2, <1>3, <2>1
  <2> HIDE DEF due
  <2> QED BY <2>1, <2>2
<1> HIDE DEF due
<1>6. \A l \in listeners : \A h : h \in DOMAIN raw[l] <=> \E i \in HTTPRoutesFor(l) : h \in hosts(l, i)
  <2> SUFFICES ASSUME NEW l \in listeners
               PROVE  DOMAIN raw[l] = UNION {hosts(l, i) : i \in HTTPRoutesFor(l)}
    OBVIOUS
  <2>1. raw[l] = preprocessHTTPRoutes(l, HTTPRoutesFor(l))
    BY DEF Preprocessed
  <2> QED BY <1>1, <2>1, PreprocessedRules
<1>7. \A l \in listeners : \A h \in DOMAIN raw[l] : \A x :
         x \in Cases(raw[l][h]) <=> \E i \in HTTPRoutesFor(l) : h \in hosts(l, i) /\ x \in Cases(routes[i].rules)
  <2> SUFFICES ASSUME NEW l \in listeners, NEW h \in DOMAIN raw[l], NEW x
               PROVE  x \in Cases(raw[l][h]) <=> \E i \in HTTPRoutesFor(l) : h \in hosts(l, i) /\ x \in Cases(routes[i].rules)
    OBVIOUS
  <2> DEFINE with == {i \in DOMAIN routes : i \in HTTPRoutesFor(l) /\ h \in hosts(l, i)}
  <2>1. raw[l] = preprocessHTTPRoutes(l, HTTPRoutesFor(l))
    BY DEF Preprocessed
  <2>2. Cases(raw[l][h]) = Cases(RulesFor(l, h, HTTPRoutesFor(l)))
    BY <1>1, <2>1, PreprocessedRules
  <2>3. Cases(RulesFor(l, h, HTTPRoutesFor(l))) = UNION {Cases(routes[i].rules) : i \in with}
    BY <1>1, RulesForHost
  <2>4. \A i : i \in with <=> i \in HTTPRoutesFor(l) /\ h \in hosts(l, i)
    BY <1>5
  <2> HIDE DEF with
  <2> QED BY <2>2, <2>3, <2>4
<1>8. \A l \in listeners : \A i \in HTTPRoutesFor(l) : \A h : h \in hosts(l, i) /\ Stands(name, h) <=> h \in under(l, i)
  <2> SUFFICES ASSUME NEW l \in listeners, NEW i \in HTTPRoutesFor(l)
               PROVE  \A h : h \in hosts(l, i) /\ Stands(name, h) <=> h \in under(l, i)
    OBVIOUS
  <2>1. routes[i].hosts \in SUBSET Hosts
    <3>1. i \in DOMAIN routes
      BY <1>5
    <3>2. routes[i] \in Route
      BY <1>1, <3>1
    <3> QED BY <3>2 DEF Route
  <2> QED BY <1>1, <2>1, HostsServed
<1> HIDE DEF hosts
<1>9. \A h : h \in domains /\ Stands(name, h) <=> h \in names
  <2> SUFFICES ASSUME NEW h PROVE h \in domains /\ Stands(name, h) <=> h \in names
    OBVIOUS
  <2>1. h \in domains <=> \E l \in listeners : \E i \in HTTPRoutesFor(l) : h \in hosts(l, i)
    BY <1>6
  <2>2. h \in names <=> \E l \in listeners : \E i \in HTTPRoutesFor(l) : h \in under(l, i)
    <3>1. h \in names <=> \E pair \in due : h \in Under(pair[1], name, pair[2])
      OBVIOUS
    <3> QED BY <1>4, <1>5, <3>1
  <2> QED BY <1>8, <2>1, <2>2
<1> HIDE DEF names, domains, under
<1>10. domain = wanted /\ wanted \subseteq names
  <2>1. \A n : n \in names => n \in domains /\ Stands(name, n)
    BY <1>9
  <2>2. Stands(name, name)
    BY DEF Stands
  <2> QED BY <1>9, <2>1, <2>2 DEF Closest
<1> HIDE DEF domain, wanted
<1>11. \A x : x \in found <=> \E l \in listeners : \E i \in HTTPRoutesFor(l) :
                                  x \in Cases(routes[i].rules) /\ \E h \in hosts(l, i) : h \in wanted
  <2> SUFFICES ASSUME NEW x
               PROVE  x \in found <=> \E l \in listeners : \E i \in HTTPRoutesFor(l) :
                                         x \in Cases(routes[i].rules) /\ \E h \in hosts(l, i) : h \in wanted
    OBVIOUS
  <2>1. x \in found <=> \E l \in listeners : \E h \in DOMAIN raw[l] : h \in wanted /\ x \in Cases(raw[l][h])
    BY <1>10
  <2> HIDE DEF found
  <2> QED BY <1>6, <1>7, <2>1
<1>12. \A l \in listeners : \A i \in HTTPRoutesFor(l) :
          (\E h \in hosts(l, i) : h \in wanted) <=> Under(l, name, routes[i]) \cap wanted # {}
  <2>1. \A h \in wanted : Stands(name, h)
    BY <1>9, <1>10
  <2> QED BY <1>8, <2>1 DEF under
<1>13. \A x : x \in answers <=> \E l \in listeners : \E i \in HTTPRoutesFor(l) :
                                    x \in Cases(routes[i].rules) /\ Under(l, name, routes[i]) \cap wanted # {}
  <2> SUFFICES ASSUME NEW x
               PROVE  x \in answers <=> \E l \in listeners : \E i \in HTTPRoutesFor(l) :
                                           x \in Cases(routes[i].rules) /\ Under(l, name, routes[i]) \cap wanted # {}
    OBVIOUS
  <2>1. x \in answers <=> \E pair \in due : Under(pair[1], name, pair[2]) \cap wanted # {} /\ x \in Cases(pair[2].rules)
    OBVIOUS
  <2> HIDE DEF answers
  <2> QED BY <1>4, <1>5, <2>1
<1>14. found = answers
  <2> HIDE DEF found, answers
  <2> QED BY <1>11, <1>12, <1>13
<1>15. {case[3] : case \in found} \subseteq clusters
  <2> HIDE DEF found
  <2> SUFFICES ASSUME NEW case \in found PROVE case[3] \in AllBackends
    <3>1. listeners = {} \/ clusters = AllBackends
      BY DEF Preprocessed
    <3>2. found = {} \/ listeners # {}
      BY <1>11
    <3> QED BY <3>1, <3>2
  <2>1. PICK l \in listeners : \E i \in HTTPRoutesFor(l) : case \in Cases(routes[i].rules)
    BY <1>11
  <2>2. PICK i \in HTTPRoutesFor(l) : case \in Cases(routes[i].rules)
    BY <2>1
  <2>3. i \in DOMAIN routes
    BY <1>5, <2>2
  <2>4. PICK rule \in ToSet(routes[i].rules) : case \in CaseOf(rule)
    BY <2>2 DEF Cases, CaseOf
  <2>5. case[3] \in ToSet(rule.backends)
    BY <2>4 DEF CaseOf
  <2> QED BY <2>3, <2>4, <2>5 DEF AllBackends
<1> QED BY <1>14, <1>15 DEF due, names, domains, wanted, domain, under

\* So it is an invariant.
LEMMA PreprocessedInvariance == Spec => [](TypeOK /\ Preprocessed)
<1>1. Init => Preprocessed
  BY PreprocessedInit
<1>2. Preprocessed /\ [Next]_vars => Preprocessed'
  BY PreprocessedStep
<1> QED BY <1>1, <1>2, TypeCorrect, PTL DEF Spec

\* However host names overlap, and however rules are split, combined and sorted,
\* a request that Envoy answers with the virtual host of the most specific domain
\* finds the matches and backends of just the routes that have its host name by
\* that domain, and each backend has a cluster, at a listener as it was declared
\* and at one that others are collapsed into (preprocessHTTPRoutes(), collapse()
\* and routesToClusters() in internal/envoy/resource.go).
THEOREM RulesCompleteHolds == Spec => []RulesComplete
<1>1. TypeOK /\ Preprocessed /\ IInv => RulesComplete
  <2> SUFFICES ASSUME TypeOK, Preprocessed, IInv PROVE RulesComplete
    OBVIOUS
  <2> DEFINE all == {{l} : l \in DOMAIN raw} \cup {collapsed[c] : c \in DOMAIN collapsed}
  <2>1. \A listeners \in all : listeners \in SUBSET DOMAIN raw
    <3>1. DOMAIN collapsed # {} => DOMAIN raw = gateway
      BY DEF IInv, StagesMakeSense
    <3>2. \A c \in DOMAIN collapsed : collapsed[c] \subseteq gateway
      BY DEF TypeOK
    <3> QED BY <3>1, <3>2
  <2>2. all = {{l} : l \in DOMAIN raw} \cup {collapsed[c] : c \in DOMAIN collapsed}
    OBVIOUS
  <2> HIDE DEF all
  <2> SUFFICES ASSUME NEW listeners \in all, NEW name \in Names
               PROVE  LET due == {pair \in listeners \X ToSet(routes) :
                                     pair[2].http /\ pair[2].sections \cap {AnySection, pair[1]} # {}}
                          wanted == Closest(name, UNION {Under(pair[1], name, pair[2]) : pair \in due})
                          domain == Closest(name, UNION {DOMAIN raw[l] : l \in listeners})
                          found == UNION {UNION {Cases(raw[l][host]) : host \in DOMAIN raw[l] \cap domain} : l \in listeners}
                      IN /\ found = UNION {Cases(pair[2].rules) :
                                              pair \in {p \in due : Under(p[1], name, p[2]) \cap wanted # {}}}
                         /\ {case[3] : case \in found} \subseteq clusters
    BY <2>2, Zenon DEF RulesComplete
  <2>3. listeners \in SUBSET DOMAIN raw
    BY <2>1
  <2> QED BY <2>3, CompleteFromRoutes
<1> QED BY <1>1, Invariance, PreprocessedInvariance, PTL

\* Although the comparison of sortRouteRules() is not transitive, no catch-all
\* hides a rule, nor does anything where all rules are bare prefixes, for as many
\* rules as the insertion sort that is modelled is used for.
THEOREM RulesReachedHolds == Spec => []RulesReached
<1>1. TypeOK /\ Preprocessed => RulesReached
  <2> SUFFICES ASSUME TypeOK, Preprocessed, NEW l \in DOMAIN raw, NEW host \in DOMAIN raw[l], NEW j \in DOMAIN raw[l][host]
               PROVE  LET rules == raw[l][host] IN
                      /\ Len(rules[j].matches) = 1
                      /\ \A i \in 1 .. j - 1 :
                            Covers(rules[i].matches[1], rules[j].matches[1]) =>
                                IF rules[i].matches = rules[j].matches THEN rules[i].filters # rules[j].filters
                                ELSE ~isCatchall(rules[i]) /\ \E k \in DOMAIN rules : ~BarePrefix(rules[k])
    BY DEF RulesReached
  <2> DEFINE rules == raw[l][host]
  <2>1. routes \in Seq(Route)
    BY RoutesAssumption DEF TypeOK
  <2>2. raw[l] = preprocessHTTPRoutes(l, HTTPRoutesFor(l))
    BY DEF Preprocessed
  <2>3. /\ rules \in Seq(Single) /\ Ordered(rules, Differ) /\ Ordered(rules, CatchallsLast)
        /\ (\A rule \in ToSet(rules) : BarePrefix(rule)) => Ordered(rules, LongestFirst)
    BY <2>1, <2>2, PreprocessedRules
  <2>4. j \in DOMAIN rules
    OBVIOUS
  <2> HIDE DEF rules
  <2>5. /\ Len(rules[j].matches) = 1
        /\ \A i \in 1 .. j - 1 :
              Covers(rules[i].matches[1], rules[j].matches[1]) =>
                  IF rules[i].matches = rules[j].matches THEN rules[i].filters # rules[j].filters
                  ELSE ~isCatchall(rules[i]) /\ \E k \in DOMAIN rules : ~BarePrefix(rules[k])
    BY <2>3, <2>4, OrderedReaches
  <2> QED BY <2>5 DEF rules
<1> QED BY <1>1, PreprocessedInvariance, PTL
=============================================================================
