--------------------------- MODULE ScannerProofs ---------------------------
(***************************************************************************)
(* Scanner: the watchlist, the releases and the batches of its instances,  *)
(* for any number of instances, repositories and tags, any back-off and    *)
(* any batch size.                                                         *)
(***************************************************************************)
EXTENDS Scanner, FiniteSetTheorems, WellFoundedInduction, TLAPS

\* Sets of natural numbers.
LEMMA LeastElement ==
  ASSUME NEW T \in SUBSET Nat, T # {}
  PROVE  \E n \in T : \A k \in T : n <= k
<1>1. IsWellFoundedOn(OpToRel(<, Nat), Nat)
  BY NatLessThanWellFounded
<1>2. PICK n \in T : \A k \in T : ~(<<k, n>> \in OpToRel(<, Nat))
  BY <1>1, WFMin, Zenon
<1>3. ASSUME NEW k \in T, k < n PROVE FALSE
  <2>1. <<k, n>> \in Nat \X Nat /\ <<k, n>>[1] < <<k, n>>[2]
    BY <1>3
  <2>2. <<k, n>> \in OpToRel(<, Nat)
    BY <2>1 DEF OpToRel
  <2> QED  BY <1>2, <2>2
<1> QED  BY <1>3

LEMMA InductionOnSets ==
  ASSUME NEW T \in SUBSET Nat, 0 \in T, \A n \in T : n + 1 \in T
  PROVE  T = Nat
<1> SUFFICES ASSUME Nat \ T # {} PROVE FALSE
  OBVIOUS
<1>1. PICK n \in Nat \ T : \A k \in Nat \ T : n <= k
  BY LeastElement
<1>2. n # 0 /\ n - 1 \in Nat /\ n - 1 < n
  BY <1>1
<1>3. n - 1 \in T
  BY <1>1, <1>2
<1>4. (n - 1) + 1 = n
  BY <1>1
<1> QED  BY <1>1, <1>3, <1>4

\* What Only builds, member by member.
More(S, seq, i) == IF seq[i] \in S THEN <<seq[i]>> ELSE <<>>
Builds(f, S, seq) ==
  /\ f[0] = <<>>
  /\ \A i \in 1..Len(seq) : f[i] = f[i - 1] \o More(S, seq, i)

LEMMA OnlyRecursion ==
  ASSUME NEW K, NEW S, NEW seq \in Seq(K)
  PROVE  \E f : Only(S, seq) = f[Len(seq)] /\ Builds(f, S, seq)
<1> DEFINE N == Len(seq)
           upto[i \in 0..N] == IF i = 0 THEN <<>> ELSE upto[i - 1] \o More(S, seq, i)
           Val(g, i) == IF i = 0 THEN <<>> ELSE g[i - 1] \o More(S, seq, i)
           Upto(g, n) == g = [i \in 0..n |-> Val(g, i)]
           Defined == {n \in Nat : \E g : Upto(g, n)}
<1>1. Only(S, seq) = upto[N]
  BY DEF Only, More
<1>2. N \in Nat
  OBVIOUS
<1> HIDE DEF N
<1>3. 0 \in Defined
  <2>1. Upto([i \in {0} |-> <<>>], 0)
    OBVIOUS
  <2> QED  BY <2>1
<1>4. ASSUME NEW n \in Defined PROVE n + 1 \in Defined
  <2>1. PICK g : Upto(g, n)
    BY <1>4
  <2>2. n \in Nat /\ n + 1 \in Nat
    OBVIOUS
  <2> DEFINE h == [i \in 0..(n + 1) |-> Val(g, i)]
  <2> HIDE DEF Val
  <2>3. \A i \in 0..n : h[i] = g[i]
    <3>1. \A i \in 0..n : i \in 0..(n + 1)
      BY <2>2
    <3>2. \A i \in 0..n : h[i] = Val(g, i)
      BY <3>1
    <3> HIDE DEF h
    <3>3. \A i \in 0..n : g[i] = Val(g, i)
      BY <2>1, Zenon
    <3> QED  BY <3>2, <3>3
  <2>4. \A i \in 0..(n + 1) : i # 0 => i - 1 \in 0..n
    BY <2>2
  <2>5. h = [i \in 0..(n + 1) |-> Val(h, i)]
    <3> HIDE DEF h
    <3>1. \A i \in 0..(n + 1) : Val(g, i) = Val(h, i)
      BY <2>3, <2>4 DEF Val
    <3> QED  BY <3>1, Zenon DEF h
  <2> QED  BY <2>2, <2>5
<1>5. Defined = Nat
  <2>1. Defined \in SUBSET Nat
    OBVIOUS
  <2> HIDE DEF Defined
  <2> QED  BY <1>3, <1>4, <2>1, InductionOnSets
<1>6. \E g : Upto(g, N)
  BY <1>2, <1>5
<1>7. Upto(upto, N)
  BY <1>6, Zenon
<1> HIDE DEF upto
<1>8. \A i \in 0..N : upto[i] = Val(upto, i)
  <2> HIDE DEF Val
  <2> QED  BY <1>7
<1>9. upto[0] = <<>> /\ \A i \in 1..N : upto[i] = upto[i - 1] \o More(S, seq, i)
  <2>1. 0 \in 0..N /\ \A i \in 1..N : i \in 0..N /\ i # 0
    BY <1>2
  <2> QED  BY <1>8, <2>1
<1> QED  BY <1>1, <1>9 DEF N, Builds

\* DueRepos and Without have the right repositories of the queue, and all of them.
LEMMA OnlyOf ==
  ASSUME NEW K, NEW S, NEW seq \in Seq(K)
  PROVE  /\ Only(S, seq) \in Seq(K)
         /\ ToSet(Only(S, seq)) = ToSet(seq) \intersect S
<1> DEFINE N == Len(seq)
           Kept(t, n) ==
             /\ t \in Seq(K)
             /\ \A j \in 1..Len(t) : t[j] \in S /\ \E i \in 1..n : t[j] = seq[i]
             /\ \A i \in 1..n : seq[i] \in S => \E j \in 1..Len(t) : t[j] = seq[i]
<1>1. PICK f : Only(S, seq) = f[N] /\ Builds(f, S, seq)
  BY OnlyRecursion
<1> DEFINE Good == {n \in Nat : n <= N => Kept(f[n], n)}
<1>2. N \in Nat
  OBVIOUS
<1>3. 0 \in Good
  <2>1. <<>> \in Seq(K) /\ 1..Len(<<>>) = {} /\ 1..0 = {}
    OBVIOUS
  <2>2. Kept(f[0], 0)
    BY <1>1, <2>1 DEF Builds
  <2> QED  BY <2>2
<1>4. ASSUME NEW n \in Good PROVE n + 1 \in Good
  <2> SUFFICES ASSUME n + 1 <= N PROVE Kept(f[n + 1], n + 1)
    OBVIOUS
  <2>1. n \in Nat /\ n + 1 \in 1..N /\ n <= N /\ (n + 1) - 1 = n
    BY <1>2
  <2>2. f[n + 1] = f[n] \o More(S, seq, n + 1)
    BY <1>1, <2>1 DEF Builds
  <2>3. Kept(f[n], n)
    BY <2>1
  <2>4. seq[n + 1] \in K
    BY <2>1
  <2>5. CASE seq[n + 1] \in S
    <3>1. f[n + 1] = Append(f[n], seq[n + 1])
      BY <2>2, <2>3, <2>4, <2>5 DEF More
    <3>2. \A t \in Seq(K), x \in K :
            /\ Append(t, x) \in Seq(K) /\ Len(Append(t, x)) = Len(t) + 1
            /\ \A j \in 1..Len(t) : Append(t, x)[j] = t[j]
            /\ Append(t, x)[Len(t) + 1] = x
      OBVIOUS
    <3>3. /\ f[n + 1] \in Seq(K) /\ Len(f[n + 1]) = Len(f[n]) + 1 /\ Len(f[n]) \in Nat
          /\ \A j \in 1..Len(f[n]) : f[n + 1][j] = f[n][j]
          /\ f[n + 1][Len(f[n]) + 1] = seq[n + 1]
      BY <2>3, <2>4, <3>1, <3>2
    <3>4. ASSUME NEW j \in 1..Len(f[n + 1])
          PROVE  f[n + 1][j] \in S /\ \E i \in 1..(n + 1) : f[n + 1][j] = seq[i]
      <4>1. CASE j \in 1..Len(f[n])
        <5>1. f[n][j] \in S /\ \E i \in 1..n : f[n][j] = seq[i]
          BY <2>3, <4>1
        <5>2. f[n + 1][j] = f[n][j]
          BY <3>3, <4>1
        <5>3. \A i \in 1..n : i \in 1..(n + 1)
          BY <2>1
        <5> QED  BY <5>1, <5>2, <5>3
      <4>2. CASE j = Len(f[n]) + 1
        BY <2>1, <2>5, <3>3, <4>2
      <4> QED  BY <3>3, <4>1, <4>2
    <3>5. ASSUME NEW i \in 1..(n + 1), seq[i] \in S
          PROVE  \E j \in 1..Len(f[n + 1]) : f[n + 1][j] = seq[i]
      <4>1. CASE i \in 1..n
        <5>1. PICK j \in 1..Len(f[n]) : f[n][j] = seq[i]
          BY <2>3, <3>5, <4>1
        <5> QED  BY <3>3, <5>1
      <4>2. CASE i = n + 1
        BY <3>3, <4>2
      <4> QED  BY <2>1, <4>1, <4>2
    <3> QED  BY <3>3, <3>4, <3>5
  <2>6. CASE seq[n + 1] \notin S
    <3>1. f[n + 1] = f[n]
      BY <2>2, <2>3, <2>6 DEF More
    <3> QED  BY <2>1, <2>3, <2>6, <3>1
  <2> QED  BY <2>5, <2>6
<1>5. Good = Nat
  <2>1. Good \in SUBSET Nat
    OBVIOUS
  <2> HIDE DEF Good
  <2> QED  BY <1>3, <1>4, <2>1, InductionOnSets
<1>6. Kept(f[N], N)
  BY <1>2, <1>5
<1>7. DOMAIN f[N] = 1..Len(f[N]) /\ DOMAIN seq = 1..N
  BY <1>6
<1>8. ToSet(f[N]) = ToSet(seq) \intersect S
  <2>1. ToSet(f[N]) = {f[N][i] : i \in 1..Len(f[N])} /\ ToSet(seq) = {seq[i] : i \in 1..N}
    BY <1>7 DEF ToSet
  <2>2. \A j \in 1..Len(f[N]) : f[N][j] \in ToSet(seq) \intersect S
    BY <1>6, <2>1
  <2>3. \A i \in 1..N : seq[i] \in S => seq[i] \in ToSet(f[N])
    BY <1>6, <2>1
  <2> HIDE DEF N
  <2> QED  BY <2>1, <2>2, <2>3
<1> QED  BY <1>1, <1>6, <1>8

\* Fewer kinds, fewer members.
LEMMA OnlyShorter ==
  ASSUME NEW K, NEW S, NEW T, NEW seq \in Seq(K), ToSet(seq) \intersect S \subseteq T
  PROVE  Len(Only(S, seq)) <= Len(Only(T, seq))
<1> DEFINE N == Len(seq)
<1>1. PICK f : Only(S, seq) = f[N] /\ Builds(f, S, seq)
  BY OnlyRecursion
<1>2. PICK g : Only(T, seq) = g[N] /\ Builds(g, T, seq)
  BY OnlyRecursion
<1> DEFINE Kept(n) == f[n] \in Seq(K) /\ g[n] \in Seq(K) /\ Len(f[n]) <= Len(g[n])
           Good == {n \in Nat : n <= N => Kept(n)}
<1>3. N \in Nat
  OBVIOUS
<1>4. 0 \in Good
  <2>1. <<>> \in Seq(K) /\ Len(<<>>) <= Len(<<>>)
    OBVIOUS
  <2>2. Kept(0)
    BY <1>1, <1>2, <2>1 DEF Builds
  <2> QED  BY <2>2
<1>5. ASSUME NEW n \in Good PROVE n + 1 \in Good
  <2> SUFFICES ASSUME n + 1 <= N PROVE Kept(n + 1)
    OBVIOUS
  <2>1. n \in Nat /\ n + 1 \in 1..N /\ n <= N /\ (n + 1) - 1 = n
    BY <1>3
  <2>2. f[n + 1] = f[n] \o More(S, seq, n + 1) /\ g[n + 1] = g[n] \o More(T, seq, n + 1)
    BY <1>1, <1>2, <2>1 DEF Builds
  <2>3. Kept(n)
    BY <2>1
  <2>4. seq[n + 1] \in K /\ (seq[n + 1] \in S => seq[n + 1] \in T)
    BY <2>1 DEF ToSet
  <2>5. /\ More(S, seq, n + 1) \in Seq(K) /\ More(T, seq, n + 1) \in Seq(K)
        /\ Len(More(S, seq, n + 1)) <= Len(More(T, seq, n + 1))
    BY <2>4 DEF More
  <2>6. \A t, u \in Seq(K) : t \o u \in Seq(K) /\ Len(t \o u) = Len(t) + Len(u)
    OBVIOUS
  <2>7. \A t \in Seq(K) : Len(t) \in Nat
    OBVIOUS
  <2>8. /\ f[n + 1] \in Seq(K) /\ Len(f[n + 1]) = Len(f[n]) + Len(More(S, seq, n + 1))
        /\ g[n + 1] \in Seq(K) /\ Len(g[n + 1]) = Len(g[n]) + Len(More(T, seq, n + 1))
    BY <2>2, <2>3, <2>5, <2>6
  <2>9. /\ Len(f[n]) \in Nat /\ Len(g[n]) \in Nat
        /\ Len(More(S, seq, n + 1)) \in Nat /\ Len(More(T, seq, n + 1)) \in Nat
    BY <2>3, <2>5, <2>7
  <2>10. Len(f[n + 1]) <= Len(g[n + 1])
    <3>1. \A a, b, c, d \in Nat : a <= b /\ c <= d => a + c <= b + d
      OBVIOUS
    <3>2. Len(f[n]) <= Len(g[n])
      BY <2>3
    <3>3. Len(f[n]) + Len(More(S, seq, n + 1)) <= Len(g[n]) + Len(More(T, seq, n + 1))
      BY <2>5, <2>9, <3>1, <3>2
    <3> QED  BY <2>8, <3>3
  <2> QED  BY <2>8, <2>10
<1>6. Good = Nat
  <2>1. Good \in SUBSET Nat
    OBVIOUS
  <2> HIDE DEF Good
  <2> QED  BY <1>4, <1>5, <2>1, InductionOnSets
<1>7. Kept(N)
  BY <1>3, <1>6
<1> QED  BY <1>1, <1>2, <1>7

LEMMA ConcatSet ==
  ASSUME NEW K, NEW s \in Seq(K), NEW t \in Seq(K)
  PROVE  s \o t \in Seq(K) /\ ToSet(s \o t) = ToSet(s) \union ToSet(t)
<1>1. /\ s \o t \in Seq(K) /\ Len(s \o t) = Len(s) + Len(t)
      /\ \A i \in 1..(Len(s) + Len(t)) :
           (s \o t)[i] = IF i <= Len(s) THEN s[i] ELSE t[i - Len(s)]
      /\ Len(s) \in Nat /\ Len(t) \in Nat
  OBVIOUS
<1>2. \A u \in Seq(K) : ToSet(u) = {u[i] : i \in 1..Len(u)}
  BY DEF ToSet
<1>3. ASSUME NEW x \in ToSet(s) \union ToSet(t) PROVE x \in ToSet(s \o t)
  <2>1. CASE x \in ToSet(s)
    <3>1. PICK i \in 1..Len(s) : x = s[i]
      BY <1>2, <2>1
    <3>2. i \in 1..Len(s \o t) /\ (s \o t)[i] = x
      BY <1>1, <3>1
    <3> QED  BY <1>1, <1>2, <3>2
  <2>2. CASE x \in ToSet(t)
    <3>1. PICK i \in 1..Len(t) : x = t[i]
      BY <1>2, <2>2
    <3>2. i + Len(s) \in 1..Len(s \o t) /\ (s \o t)[i + Len(s)] = x
      BY <1>1, <3>1
    <3> QED  BY <1>1, <1>2, <3>2
  <2> QED  BY <2>1, <2>2
<1>4. ASSUME NEW x \in ToSet(s \o t) PROVE x \in ToSet(s) \union ToSet(t)
  <2>1. PICK i \in 1..Len(s \o t) : x = (s \o t)[i]
    BY <1>1, <1>2
  <2>2. CASE i <= Len(s)
    <3>1. i \in 1..Len(s) /\ x = s[i]
      BY <1>1, <2>1, <2>2
    <3> QED  BY <1>2, <3>1
  <2>3. CASE ~(i <= Len(s))
    <3>1. i - Len(s) \in 1..Len(t) /\ x = t[i - Len(s)]
      BY <1>1, <2>1, <2>3
    <3> QED  BY <1>2, <3>1
  <2> QED  BY <2>2, <2>3
<1> QED  BY <1>1, <1>3, <1>4

LEMMA PartOf ==
  ASSUME NEW K, NEW s \in Seq(K), NEW m \in 1..(Len(s) + 1), NEW n \in 0..Len(s)
  PROVE  SubSeq(s, m, n) \in Seq(K) /\ ToSet(SubSeq(s, m, n)) \subseteq ToSet(s)
<1> DEFINE part == SubSeq(s, m, n)
<1>1. /\ part \in Seq(K)
      /\ \A i \in 1..Len(part) : m + i - 1 \in 1..Len(s) /\ part[i] = s[m + i - 1]
  OBVIOUS
<1> HIDE DEF part
<1>2. ToSet(s) = {s[i] : i \in 1..Len(s)} /\ ToSet(part) = {part[i] : i \in 1..Len(part)}
  BY <1>1 DEF ToSet
<1>3. ToSet(part) \subseteq ToSet(s)
  BY <1>1, <1>2
<1> QED  BY <1>1, <1>3 DEF part

\* startWatchingTx puts the row behind the rows that are due.
LEMMA InsertedAt ==
  ASSUME NEW K, NEW s \in Seq(K), NEW n \in 1..(Len(s) + 1), NEW x \in K
  PROVE  InsertAt(s, n, x) \in Seq(K) /\ ToSet(InsertAt(s, n, x)) \subseteq ToSet(s) \union {x}
<1> DEFINE before == SubSeq(s, 1, n - 1)
           after == SubSeq(s, n, Len(s))
<1>1. /\ before \in Seq(K) /\ ToSet(before) \subseteq ToSet(s)
      /\ after \in Seq(K) /\ ToSet(after) \subseteq ToSet(s)
  <2>1. Len(s) \in Nat /\ n - 1 \in 0..Len(s) /\ 1 \in 1..(Len(s) + 1) /\ Len(s) \in 0..Len(s)
    OBVIOUS
  <2> QED  BY <2>1, PartOf
<1>2. <<x>> \in Seq(K) /\ ToSet(<<x>>) = {x}
  BY DEF ToSet
<1>3. InsertAt(s, n, x) = (before \o <<x>>) \o after
  BY DEF InsertAt
<1> HIDE DEF before, after
<1>4. \A t, u \in Seq(K) : t \o u \in Seq(K) /\ ToSet(t \o u) = ToSet(t) \union ToSet(u)
  BY ConcatSet
<1>5. before \o <<x>> \in Seq(K) /\ ToSet(before \o <<x>>) \subseteq ToSet(s) \union {x}
  <2>1. /\ before \o <<x>> \in Seq(K)
        /\ ToSet(before \o <<x>>) = ToSet(before) \union ToSet(<<x>>)
    BY <1>1, <1>2, <1>4
  <2> QED  BY <1>1, <1>2, <2>1
<1>6. /\ (before \o <<x>>) \o after \in Seq(K)
      /\ ToSet((before \o <<x>>) \o after) \subseteq ToSet(s) \union {x}
  <2> DEFINE most == before \o <<x>>
  <2> HIDE DEF most
  <2>1. most \in Seq(K) /\ ToSet(most) \subseteq ToSet(s) \union {x}
    BY <1>5 DEF most
  <2>2. most \o after \in Seq(K) /\ ToSet(most \o after) = ToSet(most) \union ToSet(after)
    BY <1>1, <1>4, <2>1
  <2>3. most \o after \in Seq(K) /\ ToSet(most \o after) \subseteq ToSet(s) \union {x}
    BY <1>1, <2>1, <2>2
  <2> QED  BY <2>3 DEF most
<1> QED  BY <1>3, <1>6

LEMMA Requeued ==
  ASSUME TypeOK, NEW r \in Repos,
         queue' = IF r \in ToSet(DueRepos) THEN queue
                  ELSE InsertAt(Without({r}), Len(DueRepos) + 1, r)
  PROVE  queue' \in Seq(Repos) /\ Watched' \subseteq Watched \union {r}
<1>q. queue \in Seq(Repos)
  BY DEF TypeOK
<1>1. CASE r \in ToSet(DueRepos)
  BY <1>q, <1>1 DEF Watched
<1>2. CASE r \notin ToSet(DueRepos)
  <2>1. DueRepos \in Seq(Repos) /\ ToSet(DueRepos) = Watched \intersect Due
    BY <1>q, OnlyOf DEF DueRepos, Watched
  <2>2. Without({r}) \in Seq(Repos) /\ ToSet(Without({r})) \subseteq Watched
    BY <1>q, OnlyOf DEF Without, Watched
  <2>3. Watched \intersect Due \subseteq Repos \ {r}
    BY <1>2, <2>1 DEF Due
  <2>4. Len(DueRepos) <= Len(Without({r}))
    BY <1>q, <2>3, OnlyShorter DEF DueRepos, Without, Watched
  <2>5. Len(DueRepos) + 1 \in 1..(Len(Without({r})) + 1)
    BY <2>1, <2>2, <2>4
  <2>6. queue' = InsertAt(Without({r}), Len(DueRepos) + 1, r)
    BY <1>2
  <2>7. queue' \in Seq(Repos) /\ ToSet(queue') \subseteq ToSet(Without({r})) \union {r}
    <3>1. \A s \in Seq(Repos) : \A n \in 1..(Len(s) + 1) :
            /\ InsertAt(s, n, r) \in Seq(Repos)
            /\ ToSet(InsertAt(s, n, r)) \subseteq ToSet(s) \union {r}
      BY InsertedAt
    <3> QED  BY <2>2, <2>5, <2>6, <3>1
  <2> QED  BY <2>2, <2>7 DEF Watched
<1> QED  BY <1>1, <1>2

\* ClaimDue takes rows that are due, and writes them back.
LEMMA BatchOf ==
  ASSUME TypeOK, NEW skipped
  PROVE  LET batch == FirstOf(Only(Due \ skipped, queue))
         IN  batch \in Seq(Repos) /\ ToSet(batch) \subseteq Watched \intersect Due
<1> DEFINE rows == Only(Due \ skipped, queue)
<1>1. rows \in Seq(Repos) /\ ToSet(rows) \subseteq Watched \intersect Due
  <2>1. queue \in Seq(Repos)
    BY DEF TypeOK
  <2> QED  BY <2>1, OnlyOf DEF Watched
<1> HIDE DEF rows
<1>2. /\ 1 \in 1..(Len(rows) + 1)
      /\ (IF Len(rows) < BatchSize THEN Len(rows) ELSE BatchSize) \in 0..Len(rows)
  BY <1>1, BoundsAssumption
<1>3. FirstOf(rows) \in Seq(Repos) /\ ToSet(FirstOf(rows)) \subseteq ToSet(rows)
  BY <1>1, <1>2, PartOf DEF FirstOf
<1> QED  BY <1>1, <1>3 DEF rows

LEMMA OrderOf ==
  ASSUME NEW K, NEW s \in Seq(K), NEW order \in SetToSeqs(ToSet(s))
  PROVE  order \in Seq(K) /\ ToSet(order) \subseteq ToSet(s)
<1>1. ToSet(s) = {s[i] : i \in 1..Len(s)} /\ ToSet(s) \subseteq K /\ Len(s) \in Nat
  BY DEF ToSet
<1>2. IsFiniteSet(ToSet(s))
  <2>1. IsFiniteSet(1..Len(s))
    BY <1>1, FS_Interval
  <2>2. s \in Surjection(1..Len(s), ToSet(s))
    BY <1>1 DEF Surjection
  <2> QED  BY <2>1, <2>2, FS_Surjection
<1>3. Cardinality(ToSet(s)) \in Nat
  BY <1>2, FS_CardinalityType
<1>4. order \in [1..Cardinality(ToSet(s)) -> ToSet(s)]
  BY DEF SetToSeqs
<1>5. order \in Seq(ToSet(s))
  BY <1>3, <1>4
<1>6. order \in Seq(K)
  BY <1>1, <1>5
<1>7. ToSet(order) \subseteq ToSet(s)
  BY <1>4 DEF ToSet
<1> QED  BY <1>6, <1>7

-----------------------------------------------------------------------------
\* An instance that is past the lookup has a repository in hand, and the tag it
\* is going to store or to announce.
LoopOK ==
  \A s \in Scanners :
    /\ pc[s] # "lookup" => hand[s] # <<>>
    /\ pc[s] \in {"store", "detect"} => got[s] # NoTag

\* The tags in the table and in the hands are known releases.
SeenOK ==
  /\ \A r \in Repos : last_seen[r] # NoTag => <<r, last_seen[r]>> \in releases
  /\ \A s \in Scanners : \A i \in 1..Len(hand[s]) :
       hand[s][i].seen # NoTag => <<hand[s][i].repo, hand[s][i].seen>> \in releases

\* While a reservation holds, the repository is not due.
ReservedOK ==
  \A s \in Scanners : \A i \in 1..Len(hand[s]) :
    hand[s][i].held /\ hand[s][i].repo \in Watched => left[hand[s][i].repo] > 0

\* No two instances hold one reservation.
Apart ==
  \A s, q \in Scanners : s # q =>
    \A i \in 1..Len(hand[s]), j \in 1..Len(hand[q]) :
      hand[s][i].held /\ hand[q][j].held => hand[s][i].repo # hand[q][j].repo

IInv ==
  /\ TypeOK
  /\ LoopOK
  /\ AnnouncedOnce
  /\ SeenOK
  /\ ReservedOK
  /\ Apart

-----------------------------------------------------------------------------
\* A step that claims nothing: what is in hand afterwards was in hand before.
Kept ==
  \A q \in Scanners : \A i \in 1..Len(hand'[q]) : \E j \in 1..Len(hand[q]) :
    /\ hand'[q][i].repo = hand[q][j].repo
    /\ hand'[q][i].seen = hand[q][j].seen
    /\ hand'[q][i].held => hand[q][j].held

\* One instance goes on with its batch.
GoesOn(s) ==
  /\ hand' \in [Scanners -> Seq(Claims)]
  /\ pc' \in [Scanners -> {"lookup", "fetch", "store", "detect"}]
  /\ got' \in [Scanners -> Tags \union {NoTag}]
  /\ Kept
  /\ \A q \in Scanners \ {s} : hand'[q] = hand[q] /\ pc'[q] = pc[q] /\ got'[q] = got[q]
  /\ \/ pc'[s] = "lookup"
     \/ hand'[s] # <<>> /\ (pc'[s] \in {"store", "detect"} => got'[s] # NoTag)

LEMMA LapseOf ==
  ASSUME TypeOK, NEW R, Lapse(R)
  PROVE  /\ hand' \in [Scanners -> Seq(Claims)]
         /\ Kept
         /\ \A s \in Scanners : hand[s] # <<>> => hand'[s] # <<>>
         /\ \A s \in Scanners : \A i \in 1..Len(hand'[s]) :
              hand'[s][i].held => hand'[s][i].repo \notin R
<1>t. hand \in [Scanners -> Seq(Claims)]
  BY DEF TypeOK
<1>1. ASSUME NEW s \in Scanners
      PROVE  /\ hand'[s] \in Seq(Claims) /\ Len(hand'[s]) = Len(hand[s])
             /\ \A i \in 1..Len(hand[s]) :
                  /\ hand'[s][i].repo = hand[s][i].repo
                  /\ hand'[s][i].seen = hand[s][i].seen
                  /\ hand'[s][i].held <=> hand[s][i].held /\ hand[s][i].repo \notin R
  <2> DEFINE lapsed(c) == IF c.repo \in R THEN [c EXCEPT !.held = FALSE] ELSE c
  <2>1. \A c \in Claims : /\ lapsed(c) \in Claims
                          /\ lapsed(c).repo = c.repo /\ lapsed(c).seen = c.seen
                          /\ lapsed(c).held <=> c.held /\ c.repo \notin R
    BY DEF Claims
  <2>2. hand'[s] = [i \in 1..Len(hand[s]) |-> lapsed(hand[s][i])]
    BY DEF Lapse
  <2>3. hand[s] \in Seq(Claims) /\ Len(hand[s]) \in Nat
        /\ \A i \in 1..Len(hand[s]) : hand[s][i] \in Claims
    BY <1>t
  <2> HIDE DEF lapsed
  <2>4. \A i \in 1..Len(hand[s]) : hand'[s][i] = lapsed(hand[s][i])
    BY <2>2
  <2>5. hand'[s] \in [1..Len(hand[s]) -> Claims]
    BY <2>1, <2>2, <2>3
  <2>6. hand'[s] \in Seq(Claims) /\ Len(hand'[s]) = Len(hand[s])
    BY <2>3, <2>5
  <2> QED  BY <2>1, <2>3, <2>4, <2>6
<1>2. hand' \in [Scanners -> Seq(Claims)]
  <2>1. DOMAIN hand' = Scanners /\ hand' = [s \in Scanners |-> hand'[s]]
    BY DEF Lapse
  <2> QED  BY <1>1, <2>1
<1>3. \A s \in Scanners : hand[s] # <<>> => hand'[s] # <<>>
  <2> TAKE s \in Scanners
  <2>1. hand[s] \in Seq(Claims) /\ hand'[s] \in Seq(Claims)
    BY <1>t, <1>2
  <2>2. \A u \in Seq(Claims) : u = <<>> <=> Len(u) = 0
    OBVIOUS
  <2> QED  BY <1>1, <2>1, <2>2
<1>4. Kept
  BY <1>1 DEF Kept
<1>5. \A s \in Scanners : \A i \in 1..Len(hand'[s]) :
        hand'[s][i].held => hand'[s][i].repo \notin R
  BY <1>1
<1> QED  BY <1>2, <1>3, <1>4, <1>5

LEMMA HandIs ==
  ASSUME TypeOK
  PROVE  /\ \A s \in Scanners : hand[s] \in Seq(Claims) /\ Len(hand[s]) \in Nat
         /\ \A s \in Scanners : \A i \in 1..Len(hand[s]) : hand[s][i] \in Claims
         /\ \A s \in Scanners : hand[s] # <<>> =>
              Repo(s) \in Repos /\ Head(hand[s]) \in Claims
<1>1. \A s \in Scanners : hand[s] \in Seq(Claims)
  BY DEF TypeOK
<1>2. \A u \in Seq(Claims) : /\ Len(u) \in Nat
                             /\ \A i \in 1..Len(u) : u[i] \in Claims
                             /\ u # <<>> => Head(u) \in Claims
  OBVIOUS
<1>3. \A c \in Claims : c.repo \in Repos
  BY DEF Claims
<1> QED  BY <1>1, <1>2, <1>3 DEF Repo

LEMMA DoneOf ==
  ASSUME TypeOK, NEW s \in Scanners, hand[s] # <<>>, Done(s)
  PROVE  GoesOn(s)
<1>t. /\ hand \in [Scanners -> Seq(Claims)]
      /\ pc \in [Scanners -> {"lookup", "fetch", "store", "detect"}]
      /\ got \in [Scanners -> Tags \union {NoTag}]
  BY DEF TypeOK
<1>1. hand' = [hand EXCEPT ![s] = Tail(hand[s])]
  BY DEF Done
<1>2. /\ Tail(hand[s]) \in Seq(Claims)
      /\ \A i \in 1..Len(Tail(hand[s])) :
           i + 1 \in 1..Len(hand[s]) /\ Tail(hand[s])[i] = hand[s][i + 1]
  <2>1. \A u \in Seq(Claims) : u # <<>> =>
          /\ Tail(u) \in Seq(Claims)
          /\ \A i \in 1..Len(Tail(u)) : i + 1 \in 1..Len(u) /\ Tail(u)[i] = u[i + 1]
    OBVIOUS
  <2> QED  BY <1>t, <2>1
<1>3. hand'[s] = Tail(hand[s]) /\ \A q \in Scanners \ {s} : hand'[q] = hand[q]
  BY <1>t, <1>1
<1>4. hand' \in [Scanners -> Seq(Claims)]
  BY <1>t, <1>1, <1>2
<1>5. Kept
  <2> SUFFICES ASSUME NEW q \in Scanners, NEW i \in 1..Len(hand'[q])
               PROVE  \E j \in 1..Len(hand[q]) :
                        /\ hand'[q][i].repo = hand[q][j].repo
                        /\ hand'[q][i].seen = hand[q][j].seen
                        /\ hand'[q][i].held => hand[q][j].held
    BY DEF Kept
  <2>1. CASE q # s
    BY <1>3, <2>1
  <2>2. CASE q = s
    <3>1. i + 1 \in 1..Len(hand[s]) /\ hand'[s][i] = hand[s][i + 1]
      BY <1>2, <1>3, <2>2
    <3> QED  BY <2>2, <3>1
  <2> QED  BY <2>1, <2>2
<1>6. /\ pc' \in [Scanners -> {"lookup", "fetch", "store", "detect"}]
      /\ got' \in [Scanners -> Tags \union {NoTag}]
      /\ pc'[s] = "lookup"
      /\ \A q \in Scanners \ {s} : pc'[q] = pc[q] /\ got'[q] = got[q]
  BY <1>t DEF Done
<1> QED  BY <1>3, <1>4, <1>5, <1>6 DEF GoesOn

LEMMA ProceedOf ==
  ASSUME TypeOK, NEW s \in Scanners, hand[s] # <<>>,
         NEW step \in {"fetch", "store", "detect"}, NEW tag \in Tags \union {NoTag},
         step # "fetch" => tag # NoTag,
         Proceed(s, step, tag)
  PROVE  GoesOn(s)
<1>t. /\ hand \in [Scanners -> Seq(Claims)]
      /\ pc \in [Scanners -> {"lookup", "fetch", "store", "detect"}]
      /\ got \in [Scanners -> Tags \union {NoTag}]
  BY DEF TypeOK
<1>1. /\ pc' \in [Scanners -> {"lookup", "fetch", "store", "detect"}]
      /\ got' \in [Scanners -> Tags \union {NoTag}]
      /\ hand' = hand /\ pc'[s] = step /\ got'[s] = tag
      /\ \A q \in Scanners \ {s} : pc'[q] = pc[q] /\ got'[q] = got[q]
  BY <1>t DEF Proceed
<1>2. Kept
  BY <1>1 DEF Kept
<1> QED  BY <1>t, <1>1, <1>2 DEF GoesOn

LEMMA CompareOf ==
  ASSUME TypeOK, NEW s \in Scanners, hand[s] # <<>>, NEW tag \in Tags \union {NoTag},
         Compare(s, tag)
  PROVE  GoesOn(s)
<1>1. CASE tag \in {NoTag, Head(hand[s]).seen}
  BY <1>1, DoneOf DEF Compare
<1>2. CASE tag \notin {NoTag, Head(hand[s]).seen}
  <2>1. Proceed(s, "detect", tag) /\ tag # NoTag
    BY <1>2 DEF Compare
  <2> QED  BY <2>1, ProceedOf
<1> QED  BY <1>1, <1>2

\* Every step of scanRepo, an error and a crash.
LEMMA ScanSteps ==
  ASSUME TypeOK, LoopOK, NEW s \in Scanners, scanRepo(s) \/ ScanFails(s) \/ Crash(s)
  PROVE  GoesOn(s) /\ UNCHANGED <<queue, left, latest>>
<1>t. /\ cached \in [Repos -> Tags \union {NoTag}]
      /\ latest \in [Repos -> Tags \union {NoTag}]
      /\ hand \in [Scanners -> Seq(Claims)]
      /\ pc \in [Scanners -> {"lookup", "fetch", "store", "detect"}]
      /\ got \in [Scanners -> Tags \union {NoTag}]
  BY DEF TypeOK
<1>h. pc[s] # "lookup" => hand[s] # <<>>
  BY DEF LoopOK
<1>r. hand[s] # <<>> => Repo(s) \in Repos
  BY HandIs
<1>1. CASE CacheHit(s)
  <2>1. hand[s] # <<>> /\ Compare(s, cached[Repo(s)])
    BY <1>1 DEF CacheHit
  <2>2. GoesOn(s)
    BY <1>t, <1>r, <2>1, CompareOf
  <2> QED  BY <1>1, <2>2 DEF CacheHit, table
<1>2. CASE CacheMiss(s)
  <2>1. hand[s] # <<>> /\ Proceed(s, "fetch", NoTag)
    BY <1>2 DEF CacheMiss
  <2>2. GoesOn(s)
    BY <2>1, ProceedOf
  <2> QED  BY <1>2, <2>2 DEF CacheMiss, table
<1>3. CASE FetchTag(s)
  <2>1. hand[s] # <<>>
    BY <1>h, <1>3 DEF FetchTag
  <2>2. CASE latest[Repo(s)] = NoTag
    BY <1>3, <2>1, <2>2, DoneOf DEF FetchTag, table
  <2>3. CASE latest[Repo(s)] # NoTag
    <3>1. Proceed(s, "store", latest[Repo(s)]) /\ latest[Repo(s)] \in Tags \union {NoTag}
      BY <1>t, <1>r, <1>3, <2>1, <2>3 DEF FetchTag
    <3>2. GoesOn(s)
      BY <2>1, <2>3, <3>1, ProceedOf
    <3> QED  BY <1>3, <3>2 DEF FetchTag, table
  <2> QED  BY <2>2, <2>3
<1>4. CASE CacheSet(s)
  <2>1. hand[s] # <<>> /\ Compare(s, got[s])
    BY <1>h, <1>4 DEF CacheSet
  <2>2. GoesOn(s)
    BY <1>t, <2>1, CompareOf
  <2> QED  BY <1>4, <2>2 DEF CacheSet, table
<1>5. CASE MarkReleaseDetected(s)
  <2>1. hand[s] # <<>> /\ Done(s)
    BY <1>h, <1>5 DEF MarkReleaseDetected
  <2> QED  BY <1>5, <2>1, DoneOf DEF MarkReleaseDetected
<1>6. CASE ScanFails(s)
  <2>1. hand[s] # <<>> /\ Done(s)
    BY <1>h, <1>6 DEF ScanFails
  <2> QED  BY <1>6, <2>1, DoneOf DEF ScanFails, table
<1>7. CASE Crash(s)
  <2>1. /\ hand' = [hand EXCEPT ![s] = <<>>] /\ pc' = [pc EXCEPT ![s] = "lookup"]
        /\ got' = [got EXCEPT ![s] = NoTag]
    BY <1>7 DEF Crash
  <2>2. <<>> \in Seq(Claims) /\ 1..Len(<<>>) = {}
    OBVIOUS
  <2>3. hand'[s] = <<>> /\ \A q \in Scanners \ {s} : hand'[q] = hand[q]
    BY <1>t, <2>1
  <2>4. Kept
    BY <2>2, <2>3 DEF Kept
  <2>5. hand' \in [Scanners -> Seq(Claims)]
    BY <1>t, <2>1, <2>2
  <2> QED  BY <1>t, <1>7, <2>1, <2>3, <2>4, <2>5 DEF Crash, GoesOn, table
<1> QED  BY <1>1, <1>2, <1>3, <1>4, <1>5, <1>6, <1>7 DEF scanRepo

\* ClaimDue: the batch is new, and what it takes was due.
LEMMA ClaimOf ==
  ASSUME TypeOK, NEW s \in Scanners, ClaimDue(s)
  PROVE  /\ hand[s] = <<>>
         /\ queue' \in Seq(Repos) /\ Watched' \subseteq Watched
         /\ left' \in [Repos -> 0..Backoff]
         /\ hand' \in [Scanners -> Seq(Claims)] /\ hand'[s] # <<>>
         /\ \A q \in Scanners \ {s} : hand'[q] = hand[q]
         /\ \A i \in 1..Len(hand'[s]) :
              /\ hand'[s][i].repo \in Watched /\ left[hand'[s][i].repo] = 0
              /\ left'[hand'[s][i].repo] > 0
              /\ hand'[s][i].seen = last_seen[hand'[s][i].repo]
         /\ \A r \in Repos : left[r] > 0 => left'[r] > 0
<1>t. /\ hand \in [Scanners -> Seq(Claims)] /\ queue \in Seq(Repos)
      /\ left \in [Repos -> 0..Backoff]
      /\ last_seen \in [Repos -> Tags \union {NoTag}]
  BY DEF TypeOK
<1>1. PICK skipped \in SUBSET MaybeLocked(s) :
        LET batch == FirstOf(Only(Due \ skipped, queue)) IN
          /\ batch # <<>>
          /\ Claim(s, batch)
          /\ \E order \in SetToSeqs(ToSet(batch)) :
               queue' = Without(ToSet(batch)) \o order
          /\ left' = [r \in Repos |-> IF r \in ToSet(batch) THEN Backoff ELSE left[r]]
  BY DEF ClaimDue
<1> DEFINE batch == FirstOf(Only(Due \ skipped, queue))
<1>2. batch \in Seq(Repos) /\ ToSet(batch) \subseteq Watched \intersect Due
  BY BatchOf
<1>3. /\ batch # <<>> /\ Claim(s, batch)
      /\ left' = [r \in Repos |-> IF r \in ToSet(batch) THEN Backoff ELSE left[r]]
  BY <1>1
<1>4. PICK order \in SetToSeqs(ToSet(batch)) : queue' = Without(ToSet(batch)) \o order
  BY <1>1
<1> HIDE DEF batch
<1>5. queue' \in Seq(Repos) /\ Watched' \subseteq Watched
  <2>1. order \in Seq(Repos) /\ ToSet(order) \subseteq Watched
    BY <1>2, OrderOf
  <2>2. Without(ToSet(batch)) \in Seq(Repos) /\ ToSet(Without(ToSet(batch))) \subseteq Watched
    BY <1>t, OnlyOf DEF Without, Watched
  <2>3. \A t, u \in Seq(Repos) : t \o u \in Seq(Repos) /\ ToSet(t \o u) = ToSet(t) \union ToSet(u)
    BY ConcatSet
  <2>4. queue' \in Seq(Repos) /\ ToSet(queue') \subseteq Watched
    BY <1>4, <2>1, <2>2, <2>3
  <2> QED  BY <2>4 DEF Watched
<1>6. /\ left' \in [Repos -> 0..Backoff]
      /\ \A r \in Repos : left[r] > 0 => left'[r] > 0
      /\ \A r \in ToSet(batch) : left'[r] > 0
  <2>1. Backoff \in 0..Backoff /\ Backoff > 0
    BY BoundsAssumption
  <2>2. ToSet(batch) \subseteq Repos
    BY <1>2 DEF Due
  <2> QED  BY <1>t, <1>3, <2>1, <2>2
<1>7. /\ Len(batch) \in Nat /\ Len(batch) > 0
      /\ \A i \in 1..Len(batch) : batch[i] \in Repos /\ batch[i] \in ToSet(batch)
  <2>1. \A u \in Seq(Repos) : /\ Len(u) \in Nat /\ (u # <<>> => Len(u) > 0)
                              /\ \A i \in 1..Len(u) : u[i] \in Repos /\ u[i] \in ToSet(u)
    BY DEF ToSet
  <2> QED  BY <1>2, <1>3, <2>1
<1> DEFINE claim(r) == [repo |-> r, seen |-> last_seen[r], held |-> TRUE]
<1>8. hand' = [hand EXCEPT ![s] = [i \in 1..Len(batch) |-> claim(batch[i])]]
  BY <1>3 DEF Claim
<1>9. \A r \in Repos : claim(r) \in Claims /\ claim(r).repo = r /\ claim(r).seen = last_seen[r]
  BY <1>t DEF Claims
<1> HIDE DEF claim
<1>10. /\ hand'[s] = [i \in 1..Len(batch) |-> claim(batch[i])]
       /\ \A q \in Scanners \ {s} : hand'[q] = hand[q]
  BY <1>t, <1>8
<1>11. hand'[s] \in [1..Len(batch) -> Claims]
  BY <1>7, <1>9, <1>10
<1>12. hand'[s] \in Seq(Claims) /\ Len(hand'[s]) = Len(batch)
  BY <1>7, <1>11
<1>13. hand' \in [Scanners -> Seq(Claims)]
  BY <1>t, <1>8, <1>10, <1>12
<1>14. hand'[s] # <<>>
  BY <1>7, <1>12
<1>15. \A i \in 1..Len(hand'[s]) :
         hand'[s][i].repo = batch[i] /\ hand'[s][i].seen = last_seen[batch[i]]
  BY <1>7, <1>9, <1>10, <1>12
<1>16. \A i \in 1..Len(batch) : /\ batch[i] \in Watched /\ left[batch[i]] = 0
                                /\ left'[batch[i]] > 0
  BY <1>2, <1>6, <1>7 DEF Due
<1>17. hand[s] = <<>>
  BY DEF ClaimDue
<1>18. \A i \in 1..Len(hand'[s]) :
         /\ hand'[s][i].repo \in Watched /\ left[hand'[s][i].repo] = 0
         /\ left'[hand'[s][i].repo] > 0
         /\ hand'[s][i].seen = last_seen[hand'[s][i].repo]
  <2> SUFFICES ASSUME NEW i \in 1..Len(batch)
               PROVE  /\ hand'[s][i].repo \in Watched /\ left[hand'[s][i].repo] = 0
                      /\ left'[hand'[s][i].repo] > 0
                      /\ hand'[s][i].seen = last_seen[hand'[s][i].repo]
    BY <1>12
  <2>1. hand'[s][i].repo = batch[i] /\ hand'[s][i].seen = last_seen[batch[i]]
    BY <1>12, <1>15
  <2> QED  BY <1>16, <2>1
<1> QED  BY <1>5, <1>6, <1>10, <1>13, <1>14, <1>17, <1>18

-----------------------------------------------------------------------------
LEMMA TypeStep == TypeOK /\ LoopOK /\ [Next]_vars => TypeOK'
<1> SUFFICES ASSUME TypeOK, LoopOK, [Next]_vars PROVE TypeOK'
  OBVIOUS
<1>t. /\ queue \in Seq(Repos)
      /\ left \in [Repos -> 0..Backoff]
      /\ last_seen \in [Repos -> Tags \union {NoTag}]
      /\ releases \subseteq Repos \X Tags
      /\ events \in [Repos \X Tags -> Nat]
      /\ cached \in [Repos -> Tags \union {NoTag}]
      /\ ttl \in [Repos -> 0..CacheTTL]
      /\ latest \in [Repos -> Tags \union {NoTag}]
      /\ hand \in [Scanners -> Seq(Claims)]
      /\ pc \in [Scanners -> {"lookup", "fetch", "store", "detect"}]
      /\ got \in [Scanners -> Tags \union {NoTag}]
      /\ faults \in 0..MaxFaults
  BY DEF TypeOK
<1>b. /\ 0 \in 0..Backoff /\ 0 \in 0..CacheTTL /\ CacheTTL \in 0..CacheTTL
      /\ NoTag \in Tags \union {NoTag}
  BY BoundsAssumption
<1>1. ASSUME NEW r \in Repos, StartWatching(r) PROVE TypeOK'
  <2>1. queue' \in Seq(Repos)
    BY <1>1, Requeued DEF StartWatching
  <2>2. hand' \in [Scanners -> Seq(Claims)]
    BY <1>1, LapseOf DEF StartWatching
  <2>3. left' \in [Repos -> 0..Backoff] /\ last_seen' \in [Repos -> Tags \union {NoTag}]
    BY <1>t, <1>b, <1>1 DEF StartWatching
  <2> QED  BY <1>t, <1>1, <2>1, <2>2, <2>3 DEF TypeOK, StartWatching, found, redis
<1>2. ASSUME NEW r \in Repos, StopWatching(r) PROVE TypeOK'
  <2>1. queue' \in Seq(Repos)
    BY <1>t, <1>2, OnlyOf DEF StopWatching, Without
  <2>2. left' \in [Repos -> 0..Backoff] /\ last_seen' \in [Repos -> Tags \union {NoTag}]
    BY <1>t, <1>b, <1>2 DEF StopWatching
  <2> QED  BY <1>t, <1>2, <2>1, <2>2 DEF TypeOK, StopWatching, found, redis, loop
<1>3. ASSUME NEW r \in Repos, GitHubChanges(r) PROVE TypeOK'
  <2>1. Published[r] \subseteq Tags
    BY PublishedAssumption
  <2>2. latest' \in [Repos -> Tags \union {NoTag}]
    BY <1>t, <1>3, <2>1 DEF GitHubChanges
  <2> QED  BY <1>t, <1>3, <2>2 DEF TypeOK, GitHubChanges, table, found, redis, loop
<1>4. ASSUME NEW s \in Scanners, ClaimDue(s) PROVE TypeOK'
  <2>1. /\ queue' \in Seq(Repos) /\ left' \in [Repos -> 0..Backoff]
        /\ hand' \in [Scanners -> Seq(Claims)]
    BY <1>4, ClaimOf
  <2> QED  BY <1>t, <1>4, <2>1 DEF TypeOK, ClaimDue, found, redis
<1>5. ASSUME NEW s \in Scanners, scanRepo(s) \/ ScanFails(s) \/ Crash(s) PROVE TypeOK'
  <2>1. GoesOn(s) /\ UNCHANGED <<queue, left, latest>>
    BY <1>5, ScanSteps
  <2>2. /\ hand' \in [Scanners -> Seq(Claims)]
        /\ pc' \in [Scanners -> {"lookup", "fetch", "store", "detect"}]
        /\ got' \in [Scanners -> Tags \union {NoTag}]
    BY <2>1 DEF GoesOn
  <2>3. ASSUME UNCHANGED <<table, found, redis>>, faults' \in 0..MaxFaults PROVE TypeOK'
    BY <1>t, <2>1, <2>2, <2>3 DEF TypeOK, table, found, redis
  <2>4. CASE CacheHit(s) \/ CacheMiss(s) \/ FetchTag(s)
    BY <1>t, <2>3, <2>4 DEF CacheHit, CacheMiss, FetchTag
  <2>5. CASE ScanFails(s) \/ Crash(s)
    <3>1. faults' \in 0..MaxFaults
      BY <1>t, <2>5, BoundsAssumption DEF ScanFails, Crash, Fault
    <3> QED  BY <2>3, <2>5, <3>1 DEF ScanFails, Crash
  <2>6. CASE CacheSet(s)
    <3>1. cached' \in [Repos -> Tags \union {NoTag}] /\ ttl' \in [Repos -> 0..CacheTTL]
      BY <1>t, <1>b, <2>6 DEF CacheSet, redis
    <3> QED  BY <1>t, <2>1, <2>2, <2>6, <3>1 DEF TypeOK, CacheSet, table, found
  <2>7. CASE MarkReleaseDetected(s)
    <3>1. Repo(s) \in Repos /\ got[s] \in Tags
      BY <1>t, <2>7, HandIs DEF MarkReleaseDetected, LoopOK
    <3>2. <<Repo(s), got[s]>> \in Repos \X Tags
      BY <3>1
    <3>3. CASE <<Repo(s), got[s]>> \in releases
      <4>1. UNCHANGED <<found, last_seen>>
        BY <2>7, <3>3 DEF MarkReleaseDetected
      <4> QED  BY <1>t, <2>1, <2>2, <2>7, <4>1 DEF TypeOK, MarkReleaseDetected, found, redis
    <3>4. CASE <<Repo(s), got[s]>> \notin releases
      <4>1. /\ releases' = releases \union {<<Repo(s), got[s]>>}
            /\ events' = [events EXCEPT ![<<Repo(s), got[s]>>] = @ + 1]
            /\ last_seen' = [last_seen EXCEPT ![Repo(s)] = IF Repo(s) \in Watched THEN got[s] ELSE @]
        BY <2>7, <3>4 DEF MarkReleaseDetected
      <4>2. releases' \subseteq Repos \X Tags
        BY <1>t, <3>2, <4>1
      <4>3. events' \in [Repos \X Tags -> Nat]
        <5> DEFINE x == <<Repo(s), got[s]>>
        <5>1. x \in Repos \X Tags /\ events' = [events EXCEPT ![x] = @ + 1]
          BY <3>2, <4>1
        <5> HIDE DEF x
        <5> QED  BY <1>t, <5>1
      <4>4. last_seen' \in [Repos -> Tags \union {NoTag}]
        BY <1>t, <3>1, <4>1
      <4> QED  BY <1>t, <2>1, <2>2, <2>7, <4>2, <4>3, <4>4 DEF TypeOK, MarkReleaseDetected, redis
    <3> QED  BY <3>3, <3>4
  <2> QED  BY <1>5, <2>4, <2>5, <2>6, <2>7 DEF scanRepo
<1>6. CASE Tick
  <2>1. hand' \in [Scanners -> Seq(Claims)]
    BY <1>6, LapseOf DEF Tick
  <2>2. /\ left' \in [Repos -> 0..Backoff] /\ ttl' \in [Repos -> 0..CacheTTL]
        /\ cached' \in [Repos -> Tags \union {NoTag}]
    BY <1>t, <1>b, <1>6, BoundsAssumption DEF Tick
  <2> QED  BY <1>t, <1>6, <2>1, <2>2 DEF TypeOK, Tick, found
<1>7. CASE UNCHANGED vars
  BY <1>t, <1>7 DEF TypeOK, vars, table, found, redis, loop
<1> QED  BY <1>1, <1>2, <1>3, <1>4, <1>5, <1>6, <1>7 DEF Next

LEMMA LoopStep == TypeOK /\ LoopOK /\ [Next]_vars => LoopOK'
<1> SUFFICES ASSUME TypeOK, LoopOK, [Next]_vars PROVE LoopOK'
  OBVIOUS
<1>1. ASSUME \A q \in Scanners : hand[q] # <<>> => hand'[q] # <<>>,
             UNCHANGED <<pc, got>>
      PROVE  LoopOK'
  BY <1>1 DEF LoopOK
<1>2. ASSUME NEW r \in Repos, StartWatching(r) PROVE LoopOK'
  BY <1>1, <1>2, LapseOf DEF StartWatching
<1>3. CASE Tick
  BY <1>1, <1>3, LapseOf DEF Tick
<1>4. ASSUME UNCHANGED loop PROVE LoopOK'
  BY <1>1, <1>4 DEF loop
<1>5. ASSUME NEW s \in Scanners, ClaimDue(s) PROVE LoopOK'
  <2>1. hand'[s] # <<>> /\ \A q \in Scanners \ {s} : hand'[q] = hand[q]
    BY <1>5, ClaimOf
  <2> QED  BY <1>1, <1>5, <2>1 DEF ClaimDue
<1>6. ASSUME NEW s \in Scanners, scanRepo(s) \/ ScanFails(s) \/ Crash(s) PROVE LoopOK'
  <2>1. GoesOn(s)
    BY <1>6, ScanSteps
  <2> QED  BY <2>1 DEF GoesOn, LoopOK
<1> QED
  BY <1>2, <1>3, <1>4, <1>5, <1>6 DEF Next, StopWatching, GitHubChanges, vars

LEMMA AnnouncedStep ==
  TypeOK /\ LoopOK /\ AnnouncedOnce /\ [Next]_vars => AnnouncedOnce'
<1> SUFFICES ASSUME TypeOK, LoopOK, AnnouncedOnce, [Next]_vars PROVE AnnouncedOnce'
  OBVIOUS
<1>1. ASSUME UNCHANGED found PROVE AnnouncedOnce'
  BY <1>1 DEF AnnouncedOnce, found
<1>2. ASSUME NEW s \in Scanners, MarkReleaseDetected(s) PROVE AnnouncedOnce'
  <2> DEFINE x == <<Repo(s), got[s]>>
  <2>1. x \in Repos \X Tags
    <3>1. Repo(s) \in Repos /\ got[s] \in Tags
      BY <1>2, HandIs DEF MarkReleaseDetected, LoopOK, TypeOK
    <3> QED  BY <3>1
  <2>2. CASE x \in releases
    <3>1. UNCHANGED found
      BY <1>2, <2>2 DEF MarkReleaseDetected
    <3> QED  BY <1>1, <3>1
  <2>3. CASE x \notin releases
    <3>1. releases' = releases \union {x} /\ events' = [events EXCEPT ![x] = @ + 1]
      BY <1>2, <2>3 DEF MarkReleaseDetected
    <3>2. \A y \in Repos \X Tags : events[y] = IF y \in releases THEN 1 ELSE 0
      BY DEF AnnouncedOnce
    <3>3. events \in [Repos \X Tags -> Nat]
      BY DEF TypeOK
    <3> HIDE DEF x
    <3>4. \A y \in Repos \X Tags : events'[y] = IF y \in releases' THEN 1 ELSE 0
      BY <2>1, <2>3, <3>1, <3>2, <3>3
    <3> QED  BY <3>4 DEF AnnouncedOnce
  <2> QED  BY <2>2, <2>3
<1>3. ASSUME NEW s \in Scanners, ClaimDue(s) \/ ScanFails(s) \/ Crash(s) PROVE UNCHANGED found
  BY <1>3 DEF ClaimDue, ScanFails, Crash
<1>4. ASSUME NEW s \in Scanners, CacheHit(s) \/ CacheMiss(s) \/ FetchTag(s) \/ CacheSet(s)
      PROVE  UNCHANGED found
  BY <1>4 DEF CacheHit, CacheMiss, FetchTag, CacheSet
<1>5. ASSUME NEW r \in Repos, StartWatching(r) \/ StopWatching(r) \/ GitHubChanges(r)
      PROVE  UNCHANGED found
  BY <1>5 DEF StartWatching, StopWatching, GitHubChanges
<1>6. ASSUME Tick \/ UNCHANGED vars PROVE UNCHANGED found
  BY <1>6 DEF Tick, vars
<1> QED  BY <1>1, <1>2, <1>3, <1>4, <1>5, <1>6 DEF Next, scanRepo

\* A step that claims nothing.
LEMMA KeptHands ==
  ASSUME TypeOK, TypeOK', SeenOK, ReservedOK, Apart, Kept,
         releases \subseteq releases',
         \A r \in Repos : last_seen'[r] # NoTag => <<r, last_seen'[r]>> \in releases',
         \A s \in Scanners : \A i \in 1..Len(hand'[s]) :
           hand'[s][i].held /\ hand'[s][i].repo \in Watched' =>
             /\ hand'[s][i].repo \in Watched
             /\ left[hand'[s][i].repo] > 0 => left'[hand'[s][i].repo] > 0
  PROVE  SeenOK' /\ ReservedOK' /\ Apart'
<1>1. SeenOK'
  <2>1. ASSUME NEW s \in Scanners, NEW i \in 1..Len(hand'[s]), hand'[s][i].seen # NoTag
        PROVE  <<hand'[s][i].repo, hand'[s][i].seen>> \in releases'
    <3>1. PICK j \in 1..Len(hand[s]) : /\ hand'[s][i].repo = hand[s][j].repo
                                       /\ hand'[s][i].seen = hand[s][j].seen
      BY DEF Kept
    <3> QED  BY <2>1, <3>1 DEF SeenOK
  <2> QED  BY <2>1 DEF SeenOK
<1>2. ReservedOK'
  <2> SUFFICES ASSUME NEW s \in Scanners, NEW i \in 1..Len(hand'[s]),
                      hand'[s][i].held, hand'[s][i].repo \in Watched'
               PROVE  left'[hand'[s][i].repo] > 0
    BY DEF ReservedOK
  <2>1. PICK j \in 1..Len(hand[s]) : hand'[s][i].repo = hand[s][j].repo /\ hand[s][j].held
    BY DEF Kept
  <2> QED  BY <2>1 DEF ReservedOK
<1>3. Apart'
  <2> SUFFICES ASSUME NEW s \in Scanners, NEW q \in Scanners, s # q,
                      NEW i \in 1..Len(hand'[s]), NEW j \in 1..Len(hand'[q]),
                      hand'[s][i].held, hand'[q][j].held,
                      hand'[s][i].repo = hand'[q][j].repo
               PROVE  FALSE
    BY DEF Apart
  <2>1. PICK k \in 1..Len(hand[s]) : hand'[s][i].repo = hand[s][k].repo /\ hand[s][k].held
    BY DEF Kept
  <2>2. PICK l \in 1..Len(hand[q]) : hand'[q][j].repo = hand[q][l].repo /\ hand[q][l].held
    BY DEF Kept
  <2> QED  BY <2>1, <2>2 DEF Apart
<1> QED  BY <1>1, <1>2, <1>3

LEMMA HandsStep ==
  ASSUME TypeOK, TypeOK', LoopOK, SeenOK, ReservedOK, Apart, [Next]_vars
  PROVE  SeenOK' /\ ReservedOK' /\ Apart'
<1>t. /\ left \in [Repos -> 0..Backoff]
      /\ last_seen \in [Repos -> Tags \union {NoTag}]
      /\ hand \in [Scanners -> Seq(Claims)]
  BY DEF TypeOK
<1>p. \A s \in Scanners : \A i \in 1..Len(hand'[s]) : hand'[s][i].repo \in Repos
  <2>1. hand' \in [Scanners -> Seq(Claims)]
    BY DEF TypeOK
  <2>2. \A u \in Seq(Claims) : \A i \in 1..Len(u) : u[i] \in Claims
    OBVIOUS
  <2>3. \A c \in Claims : c.repo \in Repos
    BY DEF Claims
  <2> QED  BY <2>1, <2>2, <2>3
<1>s. \A r \in Repos : last_seen[r] # NoTag => <<r, last_seen[r]>> \in releases
  BY DEF SeenOK
<1>1. ASSUME NEW r \in Repos, StartWatching(r) PROVE SeenOK' /\ ReservedOK' /\ Apart'
  <2>1. /\ Kept /\ \A s \in Scanners : \A i \in 1..Len(hand'[s]) :
                     hand'[s][i].held => hand'[s][i].repo \notin {r}
    BY <1>1, LapseOf DEF StartWatching
  <2>2. Watched' \subseteq Watched \union {r}
    BY <1>1, Requeued DEF StartWatching
  <2>3. /\ \A x \in Repos \ {r} : left'[x] = left[x]
        /\ \A x \in Repos : last_seen'[x] \in {NoTag, last_seen[x]}
        /\ releases' = releases
    BY <1>t, <1>1 DEF StartWatching, found
  <2>4. \A x \in Repos : last_seen'[x] # NoTag => <<x, last_seen'[x]>> \in releases'
    BY <1>s, <2>3
  <2>5. \A s \in Scanners : \A i \in 1..Len(hand'[s]) :
          hand'[s][i].held /\ hand'[s][i].repo \in Watched' =>
            /\ hand'[s][i].repo \in Watched
            /\ left[hand'[s][i].repo] > 0 => left'[hand'[s][i].repo] > 0
    BY <1>p, <2>1, <2>2, <2>3
  <2> QED  BY <2>1, <2>3, <2>4, <2>5, KeptHands
<1>2. ASSUME NEW r \in Repos, StopWatching(r) PROVE SeenOK' /\ ReservedOK' /\ Apart'
  <2>1. Kept
    BY <1>2 DEF StopWatching, Kept, loop
  <2>2. Watched' \subseteq Watched \ {r}
    <3>1. queue \in Seq(Repos) /\ queue' = Without({r})
      BY <1>2 DEF TypeOK, StopWatching
    <3> QED  BY <3>1, OnlyOf DEF Without, Watched
  <2>3. /\ \A x \in Repos \ {r} : left'[x] = left[x]
        /\ \A x \in Repos : last_seen'[x] \in {NoTag, last_seen[x]}
        /\ releases' = releases
    BY <1>t, <1>2 DEF StopWatching, found
  <2>4. \A x \in Repos : last_seen'[x] # NoTag => <<x, last_seen'[x]>> \in releases'
    BY <1>s, <2>3
  <2>5. \A s \in Scanners : \A i \in 1..Len(hand'[s]) :
          hand'[s][i].held /\ hand'[s][i].repo \in Watched' =>
            /\ hand'[s][i].repo \in Watched
            /\ left[hand'[s][i].repo] > 0 => left'[hand'[s][i].repo] > 0
    BY <1>p, <2>2, <2>3
  <2> QED  BY <2>1, <2>3, <2>4, <2>5, KeptHands
<1>3. CASE Tick
  <2>1. /\ Kept /\ \A s \in Scanners : \A i \in 1..Len(hand'[s]) :
                     hand'[s][i].held => hand'[s][i].repo \notin {r \in Repos : left[r] = 1}
    BY <1>3, LapseOf DEF Tick
  <2>2. Watched' = Watched /\ releases' = releases /\ last_seen' = last_seen
    BY <1>3 DEF Tick, Watched, found
  <2>3. \A x \in Repos : left[x] > 0 /\ left[x] # 1 => left'[x] > 0
    BY <1>t, <1>3 DEF Tick
  <2>4. \A s \in Scanners : \A i \in 1..Len(hand'[s]) :
          hand'[s][i].held /\ hand'[s][i].repo \in Watched' =>
            /\ hand'[s][i].repo \in Watched
            /\ left[hand'[s][i].repo] > 0 => left'[hand'[s][i].repo] > 0
    BY <1>p, <2>1, <2>2, <2>3
  <2> QED  BY <1>s, <2>1, <2>2, <2>4, KeptHands
<1>4. ASSUME Kept, UNCHANGED <<queue, left>>, releases \subseteq releases',
             \A r \in Repos : last_seen'[r] # NoTag => <<r, last_seen'[r]>> \in releases'
      PROVE  SeenOK' /\ ReservedOK' /\ Apart'
  <2>1. Watched' = Watched
    BY <1>4 DEF Watched
  <2>2. \A s \in Scanners : \A i \in 1..Len(hand'[s]) :
          hand'[s][i].held /\ hand'[s][i].repo \in Watched' =>
            /\ hand'[s][i].repo \in Watched
            /\ left[hand'[s][i].repo] > 0 => left'[hand'[s][i].repo] > 0
    BY <1>4, <2>1
  <2> QED  BY <1>4, <2>2, KeptHands
<1>5. ASSUME Kept, UNCHANGED <<table, found>> PROVE SeenOK' /\ ReservedOK' /\ Apart'
  BY <1>s, <1>4, <1>5 DEF table, found
<1>6. ASSUME NEW s \in Scanners, scanRepo(s) \/ ScanFails(s) \/ Crash(s)
      PROVE  SeenOK' /\ ReservedOK' /\ Apart'
  <2>1. Kept /\ UNCHANGED <<queue, left>>
    BY <1>6, ScanSteps DEF GoesOn
  <2>2. CASE MarkReleaseDetected(s)
    <3>1. /\ releases \subseteq releases'
          /\ \/ last_seen' = last_seen
             \/ /\ <<Repo(s), got[s]>> \in releases'
                /\ last_seen' = [last_seen EXCEPT ![Repo(s)] =
                                   IF Repo(s) \in Watched THEN got[s] ELSE @]
      BY <2>2 DEF MarkReleaseDetected, found
    <3>2. Repo(s) \in Repos
      BY <2>2, HandIs DEF MarkReleaseDetected, LoopOK
    <3>3. \A r \in Repos : last_seen'[r] # NoTag => <<r, last_seen'[r]>> \in releases'
      BY <1>t, <1>s, <3>1, <3>2
    <3> QED  BY <1>4, <2>1, <3>1, <3>3
  <2>3. CASE \/ CacheHit(s) \/ CacheMiss(s) \/ FetchTag(s) \/ CacheSet(s)
             \/ ScanFails(s) \/ Crash(s)
    BY <1>5, <2>1, <2>3 DEF CacheHit, CacheMiss, FetchTag, CacheSet, ScanFails, Crash
  <2> QED  BY <1>6, <2>2, <2>3 DEF scanRepo
<1>7. ASSUME NEW r \in Repos, GitHubChanges(r) PROVE SeenOK' /\ ReservedOK' /\ Apart'
  <2>1. Kept
    BY <1>7 DEF GitHubChanges, Kept, loop
  <2> QED  BY <1>5, <1>7, <2>1 DEF GitHubChanges
<1>8. CASE UNCHANGED vars
  <2>1. Kept
    BY <1>8 DEF vars, Kept, loop
  <2> QED  BY <1>5, <1>8, <2>1 DEF vars
\* A batch of rows that nobody holds.
<1>9. ASSUME NEW s \in Scanners, ClaimDue(s) PROVE SeenOK' /\ ReservedOK' /\ Apart'
  <2>1. /\ Watched' \subseteq Watched
        /\ \A q \in Scanners \ {s} : hand'[q] = hand[q]
        /\ \A i \in 1..Len(hand'[s]) :
             /\ hand'[s][i].repo \in Watched /\ left[hand'[s][i].repo] = 0
             /\ left'[hand'[s][i].repo] > 0
             /\ hand'[s][i].seen = last_seen[hand'[s][i].repo]
        /\ \A r \in Repos : left[r] > 0 => left'[r] > 0
    BY <1>9, ClaimOf
  <2>2. releases' = releases /\ last_seen' = last_seen
    BY <1>9 DEF ClaimDue, found
  <2>3. SeenOK'
    <3>1. ASSUME NEW q \in Scanners, NEW i \in 1..Len(hand'[q]), hand'[q][i].seen # NoTag
          PROVE  <<hand'[q][i].repo, hand'[q][i].seen>> \in releases'
      BY <1>p, <1>s, <2>1, <2>2, <3>1 DEF SeenOK
    <3> QED  BY <1>s, <2>2, <3>1 DEF SeenOK
  <2>4. ReservedOK'
    <3>1. ASSUME NEW q \in Scanners, NEW i \in 1..Len(hand'[q]),
                 hand'[q][i].held, hand'[q][i].repo \in Watched'
          PROVE  left'[hand'[q][i].repo] > 0
      BY <1>p, <2>1, <3>1 DEF ReservedOK
    <3> QED  BY <3>1 DEF ReservedOK
  <2>5. ASSUME NEW q \in Scanners \ {s}, NEW i \in 1..Len(hand'[s]), NEW j \in 1..Len(hand'[q]),
               hand'[q][j].held, hand'[s][i].repo = hand'[q][j].repo
        PROVE  FALSE
    <3>1. j \in 1..Len(hand[q]) /\ hand'[q][j] = hand[q][j]
      BY <2>1
    <3>2. hand[q][j].repo \in Watched /\ left[hand[q][j].repo] = 0
      BY <2>1, <2>5, <3>1
    <3>3. left[hand[q][j].repo] > 0
      BY <2>5, <3>1, <3>2 DEF ReservedOK
    <3> QED  BY <3>2, <3>3
  <2>6. Apart'
    <3> SUFFICES ASSUME NEW p \in Scanners, NEW q \in Scanners, p # q,
                        NEW i \in 1..Len(hand'[p]), NEW j \in 1..Len(hand'[q]),
                        hand'[p][i].held, hand'[q][j].held,
                        hand'[p][i].repo = hand'[q][j].repo
                 PROVE  FALSE
      BY DEF Apart
    <3>1. p # s /\ q # s
      BY <2>5
    <3> QED  BY <2>1, <3>1 DEF Apart
  <2> QED  BY <2>3, <2>4, <2>6
<1> QED  BY <1>1, <1>2, <1>3, <1>6, <1>7, <1>8, <1>9 DEF Next

LEMMA InitIInv == Init => IInv
<1> SUFFICES ASSUME Init PROVE IInv
  OBVIOUS
<1>1. TypeOK
  <2>1. /\ 0 \in 0..Backoff /\ 0 \in 0..CacheTTL /\ 0 \in 0..MaxFaults
        /\ <<>> \in Seq(Repos) /\ <<>> \in Seq(Claims)
    BY BoundsAssumption
  <2>2. latest \in [Repos -> Tags \union {NoTag}]
    BY DEF Init
  <2> QED  BY <2>1, <2>2 DEF Init, TypeOK
<1>2. 1..Len(<<>>) = {}
  OBVIOUS
<1>3. LoopOK /\ AnnouncedOnce /\ SeenOK /\ ReservedOK /\ Apart
  BY <1>2 DEF Init, LoopOK, AnnouncedOnce, SeenOK, ReservedOK, Apart
<1> QED  BY <1>1, <1>3 DEF IInv

\* The inductive invariant.
THEOREM Invariant == Spec => []IInv
<1>1. IInv /\ [Next]_vars => IInv'
  <2> SUFFICES ASSUME IInv, [Next]_vars PROVE IInv'
    OBVIOUS
  <2>1. TypeOK /\ LoopOK /\ AnnouncedOnce /\ SeenOK /\ ReservedOK /\ Apart
    BY DEF IInv
  <2>2. TypeOK' /\ LoopOK' /\ AnnouncedOnce'
    BY <2>1, TypeStep, LoopStep, AnnouncedStep
  <2>3. SeenOK' /\ ReservedOK' /\ Apart'
    BY <2>1, <2>2, HandsStep
  <2> QED  BY <2>2, <2>3 DEF IInv
<1> QED  BY InitIInv, <1>1, PTL DEF Spec

\* Every variable of the scanner stays in its type.
THEOREM TypeCorrect == Spec => []TypeOK
<1>1. IInv => TypeOK
  BY DEF IInv
<1> QED  BY Invariant, <1>1, PTL

\* MarkReleaseDetected writes one event for a release, whoever finds it and
\* however often.
THEOREM Announced == Spec => []AnnouncedOnce
<1>1. IInv => AnnouncedOnce
  BY DEF IInv
<1> QED  BY Invariant, <1>1, PTL

\* The tags scanRepo compares with have all been announced.
THEOREM NothingSkipped == Spec => []SkippedIsAnnounced
<1>1. IInv => SkippedIsAnnounced
  <2> SUFFICES ASSUME IInv, NEW r \in Repos,
                      NEW t \in {last_seen[r]} \union {c.seen : c \in {d \in InHand : d.repo = r}},
                      t # NoTag
               PROVE  <<r, t>> \in releases
    BY DEF SkippedIsAnnounced
  <2>1. TypeOK /\ SeenOK
    BY DEF IInv
  <2>2. CASE t = last_seen[r]
    BY <2>1, <2>2 DEF SeenOK
  <2>3. ASSUME NEW c \in InHand, c.repo = r, t = c.seen PROVE <<r, t>> \in releases
    <3>1. PICK s \in Scanners : c \in ToSet(hand[s])
      BY DEF InHand
    <3>2. PICK i \in 1..Len(hand[s]) : c = hand[s][i]
      <4>1. hand[s] \in Seq(Claims)
        BY <2>1, HandIs
      <4> QED  BY <3>1, <4>1 DEF ToSet
    <3> QED  BY <2>1, <2>3, <3>2 DEF SeenOK
  <2> QED  BY <2>2, <2>3
<1> QED  BY Invariant, <1>1, PTL

\* ClaimDue gives a repository to nobody else while its reservation holds.
THEOREM ClaimedByOne == Spec => []ClaimsAreExclusive
<1>1. IInv => ClaimsAreExclusive
  BY DEF IInv, Apart, ClaimsAreExclusive, Shared
<1> QED  BY Invariant, <1>1, PTL

-----------------------------------------------------------------------------
(* The abstract specification ReleaseFeed.                                 *)

\* Every tag on its way from GitHub to the table is one of its repository: in
\* the cache, and with the instance that has the repository in work.
OfferedOK ==
  /\ \A r \in Repos : /\ latest[r] \in Published[r] \union {NoTag}
                      /\ cached[r] \in Published[r] \union {NoTag}
  /\ \A s \in Scanners :
       pc[s] \in {"store", "detect"} => got[s] \in Published[Repo(s)]

\* A reservation that lapses does not change what is in work.
LEMMA LapseKeepsHead ==
  ASSUME TypeOK, NEW R, Lapse(R), NEW s \in Scanners, hand[s] # <<>>
  PROVE  Head(hand'[s]).repo = Head(hand[s]).repo
<1> DEFINE lapsed(c) == IF c.repo \in R THEN [c EXCEPT !.held = FALSE] ELSE c
<1>1. \A c \in Claims : lapsed(c).repo = c.repo
  BY DEF Claims
<1>2. hand'[s] = [i \in 1..Len(hand[s]) |-> lapsed(hand[s][i])]
  BY DEF Lapse
<1>3. hand[s] \in Seq(Claims) /\ Len(hand[s]) \in Nat \ {0} /\ hand[s][1] \in Claims
      /\ Head(hand[s]) = hand[s][1]
  <2>1. \A u \in Seq(Claims) : u # <<>> =>
          Len(u) \in Nat \ {0} /\ u[1] \in Claims /\ Head(u) = u[1]
    OBVIOUS
  <2> QED  BY <2>1, HandIs
<1> HIDE DEF lapsed
<1>4. hand'[s][1] = lapsed(hand[s][1]) /\ Head(hand'[s]) = hand'[s][1]
  <2>1. 1 \in 1..Len(hand[s])
    BY <1>3
  <2> QED  BY <1>2, <2>1
<1> QED  BY <1>1, <1>3, <1>4

\* MarkReleaseDetected writes the tag it was given, or changes no table.
LEMMA OfferedStep ==
  ASSUME TypeOK, LoopOK, OfferedOK, [Next]_vars
  PROVE  OfferedOK'
<1>t. /\ cached \in [Repos -> Tags \union {NoTag}]
      /\ latest \in [Repos -> Tags \union {NoTag}]
      /\ hand \in [Scanners -> Seq(Claims)]
      /\ pc \in [Scanners -> {"lookup", "fetch", "store", "detect"}]
      /\ got \in [Scanners -> Tags \union {NoTag}]
  BY DEF TypeOK
<1>o. /\ \A r \in Repos : /\ latest[r] \in Published[r] \union {NoTag}
                          /\ cached[r] \in Published[r] \union {NoTag}
      /\ \A s \in Scanners :
           pc[s] \in {"store", "detect"} => got[s] \in Published[Repo(s)]
  BY DEF OfferedOK
<1>h. \A s \in Scanners : /\ pc[s] # "lookup" => hand[s] # <<>>
                          /\ hand[s] # <<>> => Repo(s) \in Repos
  BY HandIs DEF LoopOK
\* One instance goes on: to the next of its batch, or with a tag of its own.
<1>g. ASSUME NEW s \in Scanners, UNCHANGED latest,
             \A r \in Repos : cached'[r] \in Published[r] \union {NoTag},
             \/ Done(s)
             \/ \E step : Proceed(s, step, NoTag) /\ step \notin {"store", "detect"}
             \/ \E step : \E t \in Published[Repo(s)] : Proceed(s, step, t)
      PROVE  OfferedOK'
  <2>1. \A q \in Scanners \ {s} : pc'[q] = pc[q] /\ got'[q] = got[q] /\ hand'[q] = hand[q]
    BY <1>t, <1>g DEF Done, Proceed
  <2>2. \A q \in Scanners \ {s} :
          pc'[q] \in {"store", "detect"} => got'[q] \in Published[Head(hand'[q]).repo]
    BY <1>o, <2>1 DEF Repo
  <2>3. pc'[s] \in {"store", "detect"} => got'[s] \in Published[Head(hand'[s]).repo]
    <3>1. CASE Done(s)
      BY <1>t, <3>1 DEF Done
    <3>2. ASSUME NEW step, NEW t, Proceed(s, step, t)
          PROVE  pc'[s] = step /\ got'[s] = t /\ hand'[s] = hand[s]
      BY <1>t, <3>2 DEF Proceed
    <3> QED  BY <1>g, <3>1, <3>2 DEF Repo
  <2> QED  BY <1>o, <1>g, <2>2, <2>3 DEF OfferedOK, Repo
<1>c. ASSUME NEW s \in Scanners, NEW t \in Published[Repo(s)], Compare(s, t)
      PROVE  Done(s) \/ \E step : \E u \in Published[Repo(s)] : Proceed(s, step, u)
  BY <1>c DEF Compare
<1>l. ASSUME NEW R, Lapse(R), UNCHANGED <<latest, pc, got>>,
             \A r \in Repos : cached'[r] \in Published[r] \union {NoTag}
      PROVE  OfferedOK'
  <2>1. \A s \in Scanners : hand[s] # <<>> => Head(hand'[s]).repo = Head(hand[s]).repo
    BY <1>l, LapseKeepsHead
  <2>2. \A s \in Scanners :
          pc'[s] \in {"store", "detect"} => got'[s] \in Published[Head(hand'[s]).repo]
    BY <1>o, <1>h, <1>l, <2>1 DEF Repo
  <2> QED  BY <1>o, <1>l, <2>2 DEF OfferedOK, Repo
<1>u. ASSUME UNCHANGED <<latest, redis, loop>> PROVE OfferedOK'
  BY <1>o, <1>u DEF OfferedOK, redis, loop, Repo
<1>1. ASSUME NEW r \in Repos, StartWatching(r) PROVE OfferedOK'
  BY <1>o, <1>l, <1>1 DEF StartWatching, redis
<1>2. ASSUME NEW r \in Repos, StopWatching(r) PROVE OfferedOK'
  BY <1>u, <1>2 DEF StopWatching
<1>3. ASSUME NEW r \in Repos, GitHubChanges(r) PROVE OfferedOK'
  <2>1. UNCHANGED <<redis, loop>> /\ \A x \in Repos : latest'[x] \in Published[x] \union {NoTag}
    BY <1>t, <1>o, <1>3 DEF GitHubChanges
  <2> QED  BY <1>o, <2>1 DEF OfferedOK, redis, loop, Repo
<1>4. CASE Tick
  <2>1. \A r \in Repos : cached'[r] \in Published[r] \union {NoTag}
    BY <1>o, <1>4 DEF Tick
  <2> QED  BY <1>l, <1>4, <2>1 DEF Tick
<1>5. CASE UNCHANGED vars
  BY <1>u, <1>5 DEF vars
<1>6. ASSUME NEW s \in Scanners, ClaimDue(s) PROVE OfferedOK'
  <2>1. hand[s] = <<>> /\ \A q \in Scanners \ {s} : hand'[q] = hand[q]
    BY <1>6, ClaimOf
  <2>2. UNCHANGED <<latest, redis, pc, got>>
    BY <1>6 DEF ClaimDue
  <2>3. \A q \in Scanners :
          pc'[q] \in {"store", "detect"} => got'[q] \in Published[Head(hand'[q]).repo]
    BY <1>o, <1>h, <2>1, <2>2 DEF Repo
  <2> QED  BY <1>o, <2>2, <2>3 DEF OfferedOK, redis, Repo
<1>7. ASSUME NEW s \in Scanners, CacheHit(s) PROVE OfferedOK'
  <2>1. UNCHANGED <<latest, redis>> /\ cached[Repo(s)] \in Published[Repo(s)]
    BY <1>o, <1>h, <1>7 DEF CacheHit
  <2>2. Done(s) \/ \E step : \E u \in Published[Repo(s)] : Proceed(s, step, u)
    BY <1>7, <1>c, <2>1 DEF CacheHit
  <2> QED  BY <1>g, <1>o, <2>1, <2>2 DEF redis
<1>8. ASSUME NEW s \in Scanners, CacheMiss(s) PROVE OfferedOK'
  BY <1>g, <1>o, <1>8 DEF CacheMiss, redis
<1>9. ASSUME NEW s \in Scanners, FetchTag(s) PROVE OfferedOK'
  <2>1. UNCHANGED <<latest, redis>>
    BY <1>9 DEF FetchTag
  <2>2. Done(s) \/ \E step : \E u \in Published[Repo(s)] : Proceed(s, step, u)
    BY <1>o, <1>h, <1>9 DEF FetchTag
  <2> QED  BY <1>g, <1>o, <2>1, <2>2 DEF redis
<1>10. ASSUME NEW s \in Scanners, CacheSet(s) PROVE OfferedOK'
  <2>1. latest' = latest /\ got[s] \in Published[Repo(s)]
    BY <1>o, <1>10 DEF CacheSet
  <2>2. \A r \in Repos : cached'[r] \in Published[r] \union {NoTag}
    BY <1>t, <1>o, <1>10, <2>1 DEF CacheSet, redis
  <2>3. Done(s) \/ \E step : \E u \in Published[Repo(s)] : Proceed(s, step, u)
    BY <1>10, <1>c, <2>1 DEF CacheSet
  <2> QED  BY <1>g, <2>1, <2>2, <2>3
<1>11. ASSUME NEW s \in Scanners, MarkReleaseDetected(s) \/ ScanFails(s) PROVE OfferedOK'
  BY <1>g, <1>o, <1>11 DEF MarkReleaseDetected, ScanFails, redis
<1>12. ASSUME NEW s \in Scanners, Crash(s) PROVE OfferedOK'
  <2>1. /\ UNCHANGED <<latest, redis>> /\ pc'[s] = "lookup"
        /\ \A q \in Scanners \ {s} : pc'[q] = pc[q] /\ got'[q] = got[q] /\ hand'[q] = hand[q]
    BY <1>t, <1>12 DEF Crash
  <2>2. \A q \in Scanners :
          pc'[q] \in {"store", "detect"} => got'[q] \in Published[Head(hand'[q]).repo]
    BY <1>o, <2>1 DEF Repo
  <2> QED  BY <1>o, <2>1, <2>2 DEF OfferedOK, redis, Repo
<1> QED  BY <1>1, <1>2, <1>3, <1>4, <1>5, <1>6, <1>7, <1>8, <1>9, <1>10, <1>11, <1>12
         DEF Next, scanRepo

\* The commands and the scan loops of all instances do to the releases and the
\* watchlist what ReleaseFeed allows: an event is a release of its repository
\* that was not announced before, and a row is marked with what was announced.
THEOREM ImplementsFeed == Spec => FeedSafety
<1>1. Init => Feed!FeedInit
  BY DEF Init, Feed!FeedInit
<1>2. TypeOK /\ LoopOK /\ OfferedOK /\ [Next]_vars
        => [Feed!FeedNext]_<<releases, events, last_seen>>
  <2> SUFFICES ASSUME TypeOK, LoopOK, OfferedOK, [Next]_vars
               PROVE  [Feed!FeedNext]_<<releases, events, last_seen>>
    OBVIOUS
  <2>t. last_seen \in [Repos -> Tags \union {NoTag}]
    BY DEF TypeOK
  <2>1. ASSUME NEW r \in Repos, StartWatching(r)
        PROVE  Feed!FeedNext \/ UNCHANGED <<releases, events, last_seen>>
    <3>1. UNCHANGED <<releases, events>>
      BY <2>1 DEF StartWatching, found
    <3>2. CASE r \in Watched
      BY <2>t, <2>1, <3>1, <3>2 DEF StartWatching
    <3>3. CASE r \notin Watched
      <4>1. Feed!Forget(r)
        BY <2>1, <3>1, <3>3 DEF StartWatching, Feed!Forget
      <4> QED  BY <4>1 DEF Feed!FeedNext
    <3> QED  BY <3>2, <3>3
  <2>2. ASSUME NEW r \in Repos, StopWatching(r) PROVE Feed!FeedNext
    <3>1. Feed!Forget(r)
      BY <2>2 DEF StopWatching, Feed!Forget, found
    <3> QED  BY <3>1 DEF Feed!FeedNext
  <2>3. ASSUME NEW s \in Scanners, MarkReleaseDetected(s)
        PROVE  Feed!FeedNext \/ UNCHANGED <<releases, events, last_seen>>
    <3> DEFINE r == Repo(s)
               t == got[s]
    <3>1. r \in Repos /\ t \in Tags /\ t \in Published[r]
      BY <2>3, HandIs DEF MarkReleaseDetected, LoopOK, TypeOK, OfferedOK
    <3>2. CASE <<r, t>> \in releases
      BY <2>3, <3>2 DEF MarkReleaseDetected, found
    <3>3. CASE <<r, t>> \notin releases
      <4>1. /\ releases' = releases \union {<<r, t>>}
            /\ events' = [events EXCEPT ![<<r, t>>] = @ + 1]
            /\ last_seen' = [last_seen EXCEPT ![r] = IF r \in Watched THEN t ELSE @]
        BY <2>3, <3>3 DEF MarkReleaseDetected
      <4> HIDE DEF r, t
      <4>2. last_seen' \in {last_seen, [last_seen EXCEPT ![r] = t]}
        BY <2>t, <3>1, <4>1
      <4>3. Feed!Announce(r, t)
        BY <3>1, <3>3, <4>1, <4>2 DEF Feed!Announce
      <4> QED  BY <3>1, <4>3 DEF Feed!FeedNext
    <3> QED  BY <3>2, <3>3
  <2>4. ASSUME NEW s \in Scanners,
               \/ ClaimDue(s) \/ CacheHit(s) \/ CacheMiss(s) \/ FetchTag(s)
               \/ CacheSet(s) \/ ScanFails(s) \/ Crash(s)
        PROVE  UNCHANGED <<releases, events, last_seen>>
    BY <2>4 DEF ClaimDue, CacheHit, CacheMiss, FetchTag, CacheSet, ScanFails, Crash,
                found, table
  <2>5. ASSUME NEW r \in Repos, GitHubChanges(r)
        PROVE  UNCHANGED <<releases, events, last_seen>>
    BY <2>5 DEF GitHubChanges, found, table
  <2>6. CASE Tick \/ UNCHANGED vars
    BY <2>6 DEF Tick, vars, found, table
  <2> QED  BY <2>1, <2>2, <2>3, <2>4, <2>5, <2>6 DEF Next, scanRepo
<1>3. Spec => [](TypeOK /\ LoopOK /\ OfferedOK)
  <2>1. Init => OfferedOK
    <3> SUFFICES ASSUME Init, NEW r \in Repos
                 PROVE  latest[r] \in Published[r] \union {NoTag}
      BY DEF Init, OfferedOK
    <3> QED  BY DEF Init
  <2>2. IInv => TypeOK /\ LoopOK
    BY DEF IInv
  <2>3. TypeOK /\ LoopOK /\ OfferedOK /\ [Next]_vars => OfferedOK'
    BY OfferedStep
  <2> QED  BY <2>1, <2>2, <2>3, Invariant, PTL DEF Spec
<1>4. FeedSafety <=>
        Feed!FeedInit /\ [][Feed!FeedNext]_<<releases, events, last_seen>>
  BY DEF FeedSafety, Feed!FeedSafety, Feed!feedVars
<1> QED  BY <1>1, <1>2, <1>3, <1>4, PTL DEF Spec
=============================================================================
