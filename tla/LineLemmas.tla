----------------------------- MODULE LineLemmas -----------------------------
(***************************************************************************)
(* Facts about a line: a sequence that lists nobody twice, such as the     *)
(* scheduler's waiting table or the mutation gate.                         *)
(***************************************************************************)
EXTENDS SequencesExt, SequenceTheorems, TLAPS

Once(w) == \A i, j \in DOMAIN w : w[i] = w[j] => i = j
HeadIs(w, x) == w # <<>> /\ Head(w) = x
LastIs(w, x) == w # <<>> /\ w[Len(w)] = x

\* The elements a removal keeps, and where they go.
LEMMA RemoveAtElements ==
    ASSUME NEW S, NEW w \in Seq(S), NEW k \in 1..Len(w)
    PROVE  /\ RemoveAt(w, k) \in Seq(S)
           /\ Len(RemoveAt(w, k)) = Len(w) - 1
           /\ \A i \in 1..(Len(w) - 1) :
                 RemoveAt(w, k)[i] = IF i < k THEN w[i] ELSE w[i + 1]
<1> DEFINE l == SubSeq(w, 1, k - 1)
           r == SubSeq(w, k + 1, Len(w))
<1>1. Len(w) \in Nat /\ k \in Nat /\ 1 <= k /\ k <= Len(w)
  OBVIOUS
<1>2. l \in Seq(S) /\ Len(l) = k - 1 /\ \A i \in 1..(k - 1) : l[i] = w[i]
  BY <1>1
<1>3. r \in Seq(S) /\ Len(r) = Len(w) - k /\ \A i \in 1..(Len(w) - k) : r[i] = w[k + i]
  BY <1>1
<1> HIDE DEF l, r
<1>4. l \o r \in Seq(S) /\ Len(l \o r) = Len(w) - 1
  <2>1. l \o r \in Seq(S) /\ Len(l \o r) = Len(l) + Len(r)
    BY <1>2, <1>3, ConcatProperties
  <2> QED
    BY <2>1, <1>1, <1>2, <1>3
<1>5. ASSUME NEW i \in 1..(Len(w) - 1)
      PROVE  (l \o r)[i] = IF i < k THEN w[i] ELSE w[i + 1]
  <2>1. (l \o r)[i] = IF i <= Len(l) THEN l[i] ELSE r[i - Len(l)]
    BY <1>1, <1>2, <1>3, ConcatProperties
  <2>2. CASE i < k
    BY <2>1, <2>2, <1>1, <1>2
  <2>3. CASE ~(i < k)
    <3>1. i - Len(l) \in 1..(Len(w) - k) /\ k + (i - Len(l)) = i + 1 /\ ~(i <= Len(l))
      BY <2>3, <1>1, <1>2
    <3> QED
      BY <2>1, <2>3, <3>1, <1>3
  <2> QED
    BY <2>2, <2>3
<1> QED
  BY <1>4, <1>5 DEF RemoveAt, l, r

\* Removing a place removes who stood there, and keeps the others once.
LEMMA RemovePlace ==
    ASSUME NEW S, NEW w \in Seq(S), Once(w), NEW k \in DOMAIN w
    PROVE  LET v == RemoveAt(w, k)
           IN  v \in Seq(S) /\ Once(v) /\ Range(v) = Range(w) \ {w[k]}
<1> DEFINE q == w[k]
           v == RemoveAt(w, k)
<1>1. k \in DOMAIN w /\ w[k] = q
  OBVIOUS
<1>2. DOMAIN w = 1..Len(w) /\ Len(w) \in Nat
  OBVIOUS
<1>3. /\ v \in Seq(S) /\ Len(v) = Len(w) - 1
      /\ \A i \in 1..(Len(w) - 1) : v[i] = IF i < k THEN w[i] ELSE w[i + 1]
  BY <1>1, <1>2, RemoveAtElements
<1> HIDE DEF v
<1>4. DOMAIN v = 1..(Len(w) - 1)
  BY <1>2, <1>3
<1>5. ASSUME NEW i \in DOMAIN v
      PROVE  /\ i \in DOMAIN w /\ i + 1 \in DOMAIN w
             /\ v[i] = IF i < k THEN w[i] ELSE w[i + 1]
  BY <1>2, <1>3, <1>4
<1>6. Once(v)
  <2>1. ASSUME NEW i \in DOMAIN v, NEW j \in DOMAIN v, v[i] = v[j] PROVE i = j
    <3>1. (IF i < k THEN i ELSE i + 1) = (IF j < k THEN j ELSE j + 1)
      BY <2>1, <1>5 DEF Once
    <3> QED
      BY <3>1, <1>1, <1>2, <1>4
  <2> QED
    BY <2>1 DEF Once
<1>7. ASSUME NEW x \in Range(v) PROVE x \in Range(w) /\ x # q
  <2>1. PICK i \in DOMAIN v : x = v[i]
    BY DEF Range
  <2>2. x \in Range(w)
    BY <2>1, <1>5 DEF Range
  <2>3. (IF i < k THEN i ELSE i + 1) # k
    BY <1>1, <1>2, <1>4
  <2>4. x # q
    BY <2>1, <2>3, <1>1, <1>5 DEF Once
  <2> QED
    BY <2>2, <2>4
<1>8. ASSUME NEW x \in Range(w), x # q PROVE x \in Range(v)
  <2>1. PICK j \in DOMAIN w : x = w[j]
    BY DEF Range
  <2>2. j # k
    BY <2>1, <1>1, <1>8
  <2>3. CASE j < k
    <3>1. j \in DOMAIN v /\ v[j] = w[j]
      BY <2>3, <1>1, <1>2, <1>3, <1>4
    <3> QED
      BY <3>1, <2>1 DEF Range
  <2>4. CASE j > k
    <3>1. j - 1 \in DOMAIN v /\ v[j - 1] = w[j]
      BY <2>4, <1>1, <1>2, <1>3, <1>4
    <3> QED
      BY <3>1, <2>1 DEF Range
  <2> QED
    BY <2>2, <2>3, <2>4, <1>1, <1>2
<1> QED
  BY <1>3, <1>6, <1>7, <1>8 DEF v

\* Whoever joins the line stands in it once.
LEMMA AppendLine ==
    ASSUME NEW S, NEW w \in Seq(S), Once(w), NEW q \in S, q \notin Range(w)
    PROVE  /\ Append(w, q) \in Seq(S)
           /\ Once(Append(w, q)) /\ Range(Append(w, q)) = Range(w) \cup {q}
<1>1. /\ Append(w, q) \in Seq(S) /\ Len(w) \in Nat /\ Len(Append(w, q)) = Len(w) + 1
      /\ Append(w, q)[Len(w) + 1] = q
      /\ \A i \in 1..Len(w) : Append(w, q)[i] = w[i]
      /\ DOMAIN w = 1..Len(w) /\ DOMAIN Append(w, q) = 1..(Len(w) + 1)
  BY AppendProperties
<1> QED
  BY <1>1 DEF Once, Range

\* Whoever joins stands last, and whoever stood first still does.
LEMMA AppendEnds ==
    ASSUME NEW S, NEW w \in Seq(S), NEW q \in S
    PROVE  /\ LastIs(Append(w, q), q)
           /\ \A x : HeadIs(w, x) => HeadIs(Append(w, q), x)
<1>1. /\ Append(w, q) \in Seq(S) /\ Len(Append(w, q)) = Len(w) + 1
      /\ Append(w, q)[Len(w) + 1] = q /\ Append(w, q) # <<>>
  BY AppendProperties
<1>2. w # <<>> => Head(Append(w, q)) = Head(w)
  BY HeadTailAppend
<1> QED
  BY <1>1, <1>2 DEF LastIs, HeadIs

\* Whoever stands first or last still does when somebody else has left.
LEMMA RemoveEnds ==
    ASSUME NEW S, NEW w \in Seq(S), NEW k \in DOMAIN w
    PROVE  LET v == RemoveAt(w, k)
           IN  \A x : x # w[k] => /\ HeadIs(w, x) => HeadIs(v, x)
                                  /\ LastIs(w, x) => LastIs(v, x)
<1> DEFINE v == RemoveAt(w, k)
<1>1. DOMAIN w = 1..Len(w) /\ Len(w) \in Nat /\ k \in 1..Len(w)
  OBVIOUS
<1>2. /\ v \in Seq(S) /\ Len(v) = Len(w) - 1
      /\ \A i \in 1..(Len(w) - 1) : v[i] = IF i < k THEN w[i] ELSE w[i + 1]
  BY <1>1, RemoveAtElements
<1> HIDE DEF v
<1>3. ASSUME NEW x, x # w[k], HeadIs(w, x) PROVE HeadIs(v, x)
  <2>1. w[1] = x /\ k # 1 /\ Len(w) > 1
    BY <1>1, <1>3 DEF HeadIs
  <2>2. v[1] = x /\ v # <<>>
    BY <1>1, <1>2, <2>1
  <2> QED
    BY <1>2, <2>2 DEF HeadIs
<1>4. ASSUME NEW x, x # w[k], LastIs(w, x) PROVE LastIs(v, x)
  <2>1. w[Len(w)] = x /\ k # Len(w) /\ Len(w) > 1
    BY <1>1, <1>4 DEF LastIs
  <2>2. v[Len(w) - 1] = x /\ v # <<>>
    BY <1>1, <1>2, <2>1
  <2> QED
    BY <1>2, <2>2 DEF LastIs
<1> QED
  BY <1>3, <1>4 DEF v

\* The first leaves; whoever else stands last still does.
LEMMA TailLine ==
    ASSUME NEW S, NEW w \in Seq(S), Once(w), w # <<>>
    PROVE  /\ Tail(w) \in Seq(S) /\ Once(Tail(w)) /\ Range(Tail(w)) = Range(w) \ {Head(w)}
           /\ \A x : x # Head(w) /\ LastIs(w, x) => LastIs(Tail(w), x)
<1> DEFINE v == Tail(w)
<1>1. /\ DOMAIN w = 1..Len(w) /\ Len(w) \in Nat /\ Len(w) > 0 /\ Head(w) = w[1]
      /\ v \in Seq(S) /\ Len(v) = Len(w) - 1 /\ DOMAIN v = 1..(Len(w) - 1)
      /\ \A i \in 1..(Len(w) - 1) : v[i] = w[i + 1]
  BY HeadTailProperties
<1> HIDE DEF v
<1>2. ASSUME NEW i \in DOMAIN v
      PROVE  i \in Nat /\ i + 1 \in DOMAIN w /\ i + 1 # 1 /\ v[i] = w[i + 1]
  BY <1>1
<1>3. Once(v)
  <2>1. ASSUME NEW i \in DOMAIN v, NEW j \in DOMAIN v, v[i] = v[j] PROVE i = j
    <3>1. i + 1 = j + 1 /\ i \in Nat /\ j \in Nat
      BY <1>2, <2>1 DEF Once
    <3> QED
      BY <3>1
  <2> QED
    BY <2>1 DEF Once
<1>4. ASSUME NEW x \in Range(v) PROVE x \in Range(w) /\ x # Head(w)
  <2>1. PICK i \in DOMAIN v : x = v[i]
    BY DEF Range
  <2>2. x = w[i + 1] /\ x # w[1]
    BY <1>1, <1>2, <2>1 DEF Once
  <2> QED
    BY <1>1, <1>2, <2>2 DEF Range
<1>5. ASSUME NEW x \in Range(w), x # Head(w) PROVE x \in Range(v)
  <2>1. PICK i \in DOMAIN w : x = w[i]
    BY DEF Range
  <2>2. i - 1 \in DOMAIN v /\ v[i - 1] = x
    BY <1>1, <1>5, <2>1
  <2> QED
    BY <2>2 DEF Range
<1>6. ASSUME NEW x, x # Head(w), LastIs(w, x) PROVE LastIs(v, x)
  <2>1. Len(w) > 1 /\ v[Len(w) - 1] = x /\ v # <<>>
    BY <1>1, <1>6 DEF LastIs
  <2> QED
    BY <1>1, <2>1 DEF LastIs
<1> QED
  BY <1>1, <1>3, <1>4, <1>5, <1>6 DEF v

\* One who stands both first and last stands alone.
LEMMA AloneInLine ==
    ASSUME NEW S, NEW w \in Seq(S), Once(w), NEW x, HeadIs(w, x)
    PROVE  /\ x \in Range(w)
           /\ LastIs(w, x) => Range(w) = {x}
<1>1. DOMAIN w = 1..Len(w) /\ Len(w) \in Nat /\ Len(w) > 0 /\ w[1] = x
  BY DEF HeadIs
<1>2. ASSUME LastIs(w, x) PROVE Len(w) = 1
  BY <1>1, <1>2 DEF LastIs, Once
<1> QED
  BY <1>1, <1>2 DEF Range

\* x stands ahead of y.
Before(w, x, y) == \E i, j \in DOMAIN w : i < j /\ w[i] = x /\ w[j] = y

\* Whoever stands ahead of y stands in the line, and y is not its head; the
\* head stands ahead of everybody else.
LEMMA BeforeEnds ==
    ASSUME NEW S, NEW w \in Seq(S), NEW x, NEW y
    PROVE  /\ Before(w, x, y) => x \in Range(w) /\ y \in Range(w)
           /\ Before(w, x, y) /\ Once(w) => ~HeadIs(w, y)
           /\ HeadIs(w, x) /\ y \in Range(w) /\ y # x => Before(w, x, y)
<1>1. DOMAIN w = 1..Len(w) /\ Len(w) \in Nat /\ (w # <<>> => 1 \in DOMAIN w /\ Head(w) = w[1])
  OBVIOUS
<1>2. Before(w, x, y) => x \in Range(w) /\ y \in Range(w)
  BY DEF Before, Range
<1>3. ASSUME Before(w, x, y), Once(w), HeadIs(w, y) PROVE FALSE
  <2>1. PICK i \in DOMAIN w, j \in DOMAIN w : i < j /\ w[i] = x /\ w[j] = y
    BY <1>3 DEF Before
  <2>2. j = 1
    BY <1>1, <1>3, <2>1 DEF HeadIs, Once
  <2> QED
    BY <1>1, <2>1, <2>2
<1>4. ASSUME HeadIs(w, x), y \in Range(w), y # x PROVE Before(w, x, y)
  <2>1. PICK j \in DOMAIN w : w[j] = y
    BY <1>4 DEF Range
  <2>2. 1 \in DOMAIN w /\ w[1] = x /\ 1 < j
    BY <1>1, <1>4, <2>1 DEF HeadIs
  <2> QED
    BY <2>1, <2>2 DEF Before
<1> QED
  BY <1>2, <1>3, <1>4

\* Leaving the line swaps nobody, and whoever joins it is behind all others.
LEMMA BeforeKept ==
    ASSUME NEW S, NEW w \in Seq(S), NEW x, NEW y
    PROVE  /\ \A k \in DOMAIN w : Before(RemoveAt(w, k), x, y) => Before(w, x, y)
           /\ w # <<>> /\ Before(Tail(w), x, y) => Before(w, x, y)
           /\ \A q \in S : Before(Append(w, q), x, y) => Before(w, x, y) \/ (y = q /\ x \in Range(w))
<1>1. DOMAIN w = 1..Len(w) /\ Len(w) \in Nat
  OBVIOUS
<1>2. ASSUME NEW k \in DOMAIN w, Before(RemoveAt(w, k), x, y) PROVE Before(w, x, y)
  <2> DEFINE v == RemoveAt(w, k)
             P(n) == IF n < k THEN n ELSE n + 1
  <2>1. /\ v \in Seq(S) /\ Len(v) = Len(w) - 1
        /\ \A i \in 1..(Len(w) - 1) : v[i] = IF i < k THEN w[i] ELSE w[i + 1]
    BY <1>1, RemoveAtElements
  <2>2. PICK i \in DOMAIN v, j \in DOMAIN v : i < j /\ v[i] = x /\ v[j] = y
    BY <1>2 DEF Before
  <2> HIDE DEF v
  <2>3. i \in 1..(Len(w) - 1) /\ j \in 1..(Len(w) - 1)
    BY <1>1, <2>1, <2>2
  <2>4. P(i) \in DOMAIN w /\ P(j) \in DOMAIN w /\ P(i) < P(j) /\ w[P(i)] = x /\ w[P(j)] = y
    BY <1>1, <2>1, <2>2, <2>3
  <2> QED
    BY <2>4 DEF Before
<1>3. ASSUME w # <<>>, Before(Tail(w), x, y) PROVE Before(w, x, y)
  <2> DEFINE v == Tail(w)
  <2>1. /\ v \in Seq(S) /\ DOMAIN v = 1..(Len(w) - 1)
        /\ \A i \in 1..(Len(w) - 1) : v[i] = w[i + 1]
    BY <1>3, HeadTailProperties
  <2>2. PICK i \in DOMAIN v, j \in DOMAIN v : i < j /\ v[i] = x /\ v[j] = y
    BY <1>3 DEF Before
  <2> HIDE DEF v
  <2>3. i + 1 \in DOMAIN w /\ j + 1 \in DOMAIN w /\ i + 1 < j + 1 /\ w[i + 1] = x /\ w[j + 1] = y
    BY <1>1, <2>1, <2>2
  <2> QED
    BY <2>3 DEF Before
<1>4. ASSUME NEW q \in S, Before(Append(w, q), x, y)
      PROVE  Before(w, x, y) \/ (y = q /\ x \in Range(w))
  <2> DEFINE v == Append(w, q)
  <2>1. /\ DOMAIN v = 1..(Len(w) + 1) /\ v[Len(w) + 1] = q
        /\ \A i \in 1..Len(w) : v[i] = w[i]
    BY <1>1, AppendProperties
  <2>2. PICK i \in DOMAIN v, j \in DOMAIN v : i < j /\ v[i] = x /\ v[j] = y
    BY <1>4 DEF Before
  <2> HIDE DEF v
  <2>3. i \in DOMAIN w /\ w[i] = x
    BY <1>1, <2>1, <2>2
  <2>4. CASE j = Len(w) + 1
    BY <2>1, <2>2, <2>3, <2>4 DEF Range
  <2>5. CASE j # Len(w) + 1
    <3>1. j \in DOMAIN w /\ w[j] = y
      BY <1>1, <2>1, <2>2, <2>5
    <3> QED
      BY <2>2, <2>3, <3>1 DEF Before
  <2> QED
    BY <2>4, <2>5
<1> QED
  BY <1>2, <1>3, <1>4
=============================================================================
