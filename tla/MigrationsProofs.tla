-------------------------- MODULE MigrationsProofs --------------------------
(***************************************************************************)
(* Migrations: what is recorded, what was applied and on top of what, for  *)
(* any number of processes and releases with any finite sets of files.     *)
(***************************************************************************)
EXTENDS Migrations, FiniteSetTheorems, WellFoundedInduction, TLAPS

\* Sets of natural numbers.
LEMMA LeastElement ==
  ASSUME NEW T \in SUBSET Nat, T # {}
  PROVE  \E n \in T : \A k \in T : n <= k
<1>1. IsWellFoundedOn(OpToRel(<, Nat), Nat)
  BY NatLessThanWellFounded
<1>2. PICK n \in T : \A k \in T : ~(<<k, n>> \in OpToRel(<, Nat))
  BY <1>1, WFMin, Zenon
<1>3. ASSUME NEW k \in T, k < n PROVE FALSE
  <2>1. <<k, n>> \in Nat \X Nat /\ <<k, n>>[1] < <<k, n>>[2]
    BY <1>3
  <2>2. <<k, n>> \in OpToRel(<, Nat)
    BY <2>1 DEF OpToRel
  <2> QED  BY <1>2, <2>2
<1> QED  BY <1>3

LEMMA InductionOnSets ==
  ASSUME NEW T \in SUBSET Nat, 0 \in T, \A n \in T : n + 1 \in T
  PROVE  T = Nat
<1> SUFFICES ASSUME Nat \ T # {} PROVE FALSE
  OBVIOUS
<1>1. PICK n \in Nat \ T : \A k \in Nat \ T : n <= k
  BY LeastElement
<1>2. n # 0 /\ n - 1 \in Nat /\ n - 1 < n
  BY <1>1
<1>3. n - 1 \in T
  BY <1>1, <1>2
<1>4. (n - 1) + 1 = n
  BY <1>1
<1> QED  BY <1>1, <1>3, <1>4

-----------------------------------------------------------------------------
\* What Load promises.
Sorted(s) == \A i, j \in 1..Len(s) : i < j => s[i].version < s[j].version

\* The lower version comes first.
LEMMA Earlier ==
  ASSUME NEW s, Sorted(s), NEW i \in 1..Len(s), NEW j \in 1..Len(s), Len(s) \in Nat,
         s[i].version \in Nat, s[j].version \in Nat, s[j].version < s[i].version
  PROVE  j < i
<1>1. i \in Nat /\ j \in Nat
  OBVIOUS
<1>2. CASE i = j
  BY <1>2
<1>3. CASE i < j
  <2>1. s[i].version < s[j].version
    BY <1>3 DEF Sorted
  <2> QED  BY <2>1
<1> QED  BY <1>1, <1>2, <1>3

\* Files of different versions can be put in order.
LEMMA Sortable ==
  ASSUME NEW S, IsFiniteSet(S), \A f \in S : f.version \in Nat,
         \A f, g \in S : f.version = g.version => f = g
  PROVE  \E s \in SetToSeqs(S) : Sorted(s)
<1> DEFINE Order(s, U, n) == /\ s \in [1..n -> U]
                             /\ \A i, j \in 1..n : i < j => s[i].version < s[j].version
           Good == {n \in Nat : \A U \in SUBSET S : Cardinality(U) = n => \E s : Order(s, U, n)}
<1>f. \A U \in SUBSET S : IsFiniteSet(U) /\ Cardinality(U) \in Nat
  BY FS_Subset, FS_CardinalityType
<1>1. 0 \in Good
  <2>1. \A U \in SUBSET S : Order([i \in {} |-> i], U, 0)
    OBVIOUS
  <2> QED  BY <2>1
<1>2. ASSUME NEW n \in Good PROVE n + 1 \in Good
  <2>0. n \in Nat
    OBVIOUS
  <2> SUFFICES ASSUME NEW U \in SUBSET S, Cardinality(U) = n + 1
               PROVE  \E s : Order(s, U, n + 1)
    BY <2>0
  <2>1. U # {}
    <3>1. Cardinality({}) = 0
      BY FS_EmptySet
    <3>2. n + 1 # 0
      BY <2>0
    <3> QED  BY <3>1, <3>2
  <2>2. PICK f \in U : \A g \in U : f.version <= g.version
    <3> DEFINE V == {g.version : g \in U}
    <3>1. V \in SUBSET Nat /\ V # {}
      BY <2>1
    <3>2. PICK v \in V : \A k \in V : v <= k
      <4> HIDE DEF V
      <4> QED  BY <3>1, LeastElement
    <3> QED  BY <3>2
  <2>3. U \ {f} \in SUBSET S /\ Cardinality(U \ {f}) = n
    BY <1>f, <2>0, FS_RemoveElement
  <2>4. PICK s : Order(s, U \ {f}, n)
    BY <2>3
  <2>5. \A g \in U \ {f} : f.version < g.version
    BY <2>2
  <2> DEFINE t == [i \in 1..(n + 1) |-> IF i = 1 THEN f ELSE s[i - 1]]
  <2>6. \A i \in 1..(n + 1) : i # 1 => i - 1 \in 1..n
    BY <2>0
  <2>7. t \in [1..(n + 1) -> U]
    BY <2>4, <2>6
  <2>8. ASSUME NEW i \in 1..(n + 1), NEW j \in 1..(n + 1), i < j
        PROVE  t[i].version < t[j].version
    <3>1. j # 1 /\ j - 1 \in 1..n /\ t[j] = s[j - 1]
      BY <2>0, <2>6, <2>8
    <3>2. CASE i = 1
      BY <2>4, <2>5, <3>1, <3>2
    <3>3. CASE i # 1
      <4>1. i - 1 \in 1..n /\ i - 1 < j - 1 /\ t[i] = s[i - 1]
        BY <2>6, <2>8, <3>3
      <4> QED  BY <2>4, <3>1, <4>1
    <3> QED  BY <3>2, <3>3
  <2> HIDE DEF t
  <2>9. Order(t, U, n + 1)
    BY <2>7, <2>8
  <2> QED  BY <2>9
<1>3. Good = Nat
  <2>1. Good \in SUBSET Nat
    OBVIOUS
  <2> HIDE DEF Good
  <2> QED  BY <1>1, <1>2, <2>1, InductionOnSets
<1>4. Cardinality(S) \in Nat
  BY <1>f
<1>5. PICK s : Order(s, S, Cardinality(S))
  BY <1>3, <1>4
<1>6. \A i, j \in 1..Cardinality(S) : i # j => s[i] # s[j]
  <2> TAKE i, j \in 1..Cardinality(S)
  <2>1. \A k \in 1..Cardinality(S) : s[k].version \in Nat
    BY <1>5
  <2>2. i # j => i < j \/ j < i
    BY <1>4
  <2> QED  BY <1>5, <2>1, <2>2
<1>7. s \in SetToSeqs(S)
  BY <1>5, <1>6 DEF SetToSeqs
<1>8. Len(s) = Cardinality(S)
  BY <1>4, <1>5
<1> QED  BY <1>5, <1>7, <1>8 DEF Sorted

LEMMA Loaded ==
  ASSUME NEW S, IsFiniteSet(S), \A f \in S : f.version \in Nat,
         \A f, g \in S : f.version = g.version => f = g
  PROVE  /\ Load(S) \in Seq(S) /\ Sorted(Load(S))
         /\ \A f \in S : \E i \in 1..Len(Load(S)) : Load(S)[i] = f
<1>1. Load(S) \in SetToSeqs(S) /\ Sorted(Load(S))
  <2>1. \E s \in SetToSeqs(S) : Sorted(s)
    BY Sortable
  <2>2. Load(S) = CHOOSE s \in SetToSeqs(S) : Sorted(s)
    BY DEF Load, Sorted
  <2> QED  BY <2>1, <2>2
<1> DEFINE n == Cardinality(S)
           s == Load(S)
<1>2. n \in Nat
  BY FS_CardinalityType
<1>3. s \in [1..n -> S] /\ \A i, j \in 1..n : i # j => s[i] # s[j]
  BY <1>1 DEF SetToSeqs
<1> HIDE DEF s
<1>4. s \in Seq(S) /\ Len(s) = n
  BY <1>2, <1>3
<1>5. s \in Surjection(1..n, S)
  <2>1. s \in Injection(1..n, S)
    BY <1>3 DEF Injection, IsInjective
  <2>2. IsFiniteSet(1..n) /\ Cardinality(1..n) = n
    BY <1>2, FS_Interval
  <2> QED  BY <2>1, <2>2, FS_Injection
<1>6. \A f \in S : \E i \in 1..n : s[i] = f
  BY <1>5 DEF Surjection
<1> QED  BY <1>1, <1>4, <1>6 DEF s

\* The list of a release: its own files, then those of the outbox.
LEMMA PlanOf ==
  ASSUME NEW b \in Releases
  PROVE  /\ Plans[b] \in Seq(Files[b])
         /\ \A f \in Files[b] : \E i \in 1..Len(Plans[b]) : Plans[b][i] = f
         /\ \A i \in 1..Len(Plans[b]) : \A f \in Of(b, Plans[b][i].service) :
              f.version < Plans[b][i].version => \E j \in 1..(i - 1) : Plans[b][j] = f
<1> DEFINE own == Load(Of(b, "own"))
           box == Load(Of(b, "outbox"))
<1>1. ASSUME NEW service \in {"own", "outbox"}
      PROVE  /\ Of(b, service) \subseteq Files[b]
             /\ IsFiniteSet(Of(b, service))
             /\ \A f \in Of(b, service) : f.version \in Nat /\ f.service = service
             /\ \A f, g \in Of(b, service) : f.version = g.version => f = g
  <2>1. Of(b, service) \subseteq Files[b] /\ IsFiniteSet(Files[b])
    BY FilesAssumption DEF Of
  <2>2. IsFiniteSet(Of(b, service))
    BY <2>1, FS_Subset
  <2> QED  BY <2>1, <2>2, FilesAssumption, UniqueAssumption DEF Of
<1>2. /\ own \in Seq(Of(b, "own")) /\ Sorted(own)
      /\ \A f \in Of(b, "own") : \E i \in 1..Len(own) : own[i] = f
  BY <1>1, Loaded
<1>3. /\ box \in Seq(Of(b, "outbox")) /\ Sorted(box)
      /\ \A f \in Of(b, "outbox") : \E i \in 1..Len(box) : box[i] = f
  BY <1>1, Loaded
<1>4. Plans[b] = own \o box
  BY DEF Plans
<1> HIDE DEF own, box
<1> DEFINE p == own \o box
<1>5. /\ Len(own) \in Nat /\ Len(box) \in Nat /\ Len(p) = Len(own) + Len(box)
      /\ \A i \in 1..(Len(own) + Len(box)) :
           p[i] = IF i <= Len(own) THEN own[i] ELSE box[i - Len(own)]
      /\ \A i \in 1..Len(own) : own[i] \in Of(b, "own")
      /\ \A i \in 1..Len(box) : box[i] \in Of(b, "outbox")
  BY <1>2, <1>3
<1> HIDE DEF p
<1>6. /\ \A i \in 1..Len(own) : i \in 1..Len(p) /\ p[i] = own[i]
      /\ \A i \in 1..Len(box) : Len(own) + i \in 1..Len(p) /\ p[Len(own) + i] = box[i]
  BY <1>5
<1>7. p \in Seq(Files[b])
  <2>1. own \in Seq(Files[b]) /\ box \in Seq(Files[b])
    BY <1>1, <1>2, <1>3
  <2> QED  BY <2>1 DEF p
<1>8. \A f \in Files[b] : \E i \in 1..Len(p) : p[i] = f
  <2> TAKE f \in Files[b]
  <2>1. f \in Of(b, "own") \/ f \in Of(b, "outbox")
    BY FilesAssumption DEF Of
  <2>2. CASE f \in Of(b, "own")
    BY <1>2, <1>6, <2>2
  <2>3. CASE f \in Of(b, "outbox")
    BY <1>3, <1>6, <2>3
  <2> QED  BY <2>1, <2>2, <2>3
<1>9. ASSUME NEW i \in 1..Len(p), NEW f \in Of(b, p[i].service), f.version < p[i].version
      PROVE  \E j \in 1..(i - 1) : p[j] = f
  <2>1. CASE i <= Len(own)
    <3>1. i \in 1..Len(own) /\ p[i] = own[i] /\ own[i] \in Of(b, "own")
      BY <1>5, <2>1
    <3>2. f \in Of(b, "own")
      BY <1>1, <1>9, <3>1
    <3>3. PICK j \in 1..Len(own) : own[j] = f
      BY <1>2, <3>2
    <3>4. j < i
      <4>1. own[j].version \in Nat /\ own[i].version \in Nat
        BY <1>1, <1>5, <3>1
      <4>2. own[j].version < own[i].version
        BY <1>9, <3>1, <3>3
      <4> QED  BY <1>2, <1>3, <1>5, <3>1, <4>1, <4>2, Earlier
    <3>5. j \in 1..(i - 1)
      BY <3>4
    <3> QED  BY <1>6, <3>3, <3>5
  <2>2. CASE ~(i <= Len(own))
    <3> DEFINE k == i - Len(own)
    <3>1. k \in 1..Len(box) /\ p[i] = box[k] /\ box[k] \in Of(b, "outbox")
      BY <1>5, <2>2
    <3>2. f \in Of(b, "outbox")
      BY <1>1, <1>9, <3>1
    <3>3. PICK j \in 1..Len(box) : box[j] = f
      BY <1>3, <3>2
    <3>4. j < k
      <4>1. box[j].version \in Nat /\ box[k].version \in Nat
        BY <1>1, <1>5, <3>1
      <4>2. box[j].version < box[k].version
        BY <1>9, <3>1, <3>3
      <4> HIDE DEF k
      <4> QED  BY <1>2, <1>3, <1>5, <3>1, <4>1, <4>2, Earlier
    <3>5. Len(own) + j \in 1..(i - 1)
      BY <1>5, <3>4
    <3> QED  BY <1>6, <3>3, <3>5
  <2> QED  BY <2>1, <2>2
<1>10. Plans[b] = p
  BY <1>4 DEF p
<1> QED  BY <1>7, <1>8, <1>9, <1>10

-----------------------------------------------------------------------------
\* A process that is about to apply a migration has one; one that reports
\* success has none left.
AtOK ==
  \A r \in Runners :
    /\ pc[r] \in {"apply", "commit"} => pos[r] <= Len(Plan(r))
    /\ pc[r] = "done" => pos[r] > Len(Plan(r))

\* What a process has passed is recorded as its release says.
PassedOK ==
  \A r \in Runners : \A i \in 1..Len(Plan(r)) :
    i < pos[r] => recorded[Id(Plan(r)[i])] = Plan(r)[i].sum

\* A transaction that is going to commit is the only one for its migration.
CommitOK ==
  \A r \in Runners : pc[r] = "commit" =>
    /\ recorded[Id(Current(r))] = Absent
    /\ \A q \in Runners \ {r} : pc[q] = "commit" => Id(Current(q)) # Id(Current(r))

IInv ==
  /\ TypeOK
  /\ AtOK
  /\ PassedOK
  /\ CommitOK
  /\ RecordedIsApplied

-----------------------------------------------------------------------------
\* What the list of a process holds.
LEMMA PlanFacts ==
  ASSUME TypeOK, NEW r \in Runners
  PROVE  /\ release[r] \in Releases /\ pos[r] \in Nat \ {0}
         /\ Plan(r) \in Seq(Files[release[r]]) /\ Len(Plan(r)) \in Nat
         /\ \A i \in 1..Len(Plan(r)) :
              /\ Plan(r)[i] \in AllFiles
              /\ Id(Plan(r)[i]) \in Ids
              /\ Plan(r)[i].sum \in Checksums
              /\ Plan(r)[i].sum # Absent
         /\ pos[r] <= Len(Plan(r)) =>
              /\ pos[r] \in 1..Len(Plan(r))
              /\ Current(r) = Plan(r)[pos[r]]
<1>1. release[r] \in Releases /\ pos[r] \in Nat \ {0}
  BY DEF TypeOK
<1>2. Plan(r) \in Seq(Files[release[r]])
  BY <1>1, PlanOf DEF Plan
<1>3. Len(Plan(r)) \in Nat /\ \A i \in 1..Len(Plan(r)) : Plan(r)[i] \in Files[release[r]]
  BY <1>2
<1>4. \A f \in Files[release[r]] :
        f \in AllFiles /\ Id(f) \in Ids /\ f.sum \in Checksums /\ f.sum # Absent
  BY <1>1, FilesAssumption, AbsentAssumption DEF AllFiles, Ids
<1>5. pos[r] <= Len(Plan(r)) => pos[r] \in 1..Len(Plan(r)) /\ Current(r) = Plan(r)[pos[r]]
  BY <1>1, <1>3 DEF Current
<1> QED  BY <1>1, <1>2, <1>3, <1>4, <1>5

LEMMA CurrentFacts ==
  ASSUME TypeOK, AtOK, NEW r \in Runners, pc[r] \in {"apply", "commit"}
  PROVE  /\ Current(r) \in AllFiles /\ Id(Current(r)) \in Ids
         /\ Current(r).sum \in Checksums /\ Current(r).sum # Absent
         /\ pos[r] \in 1..Len(Plan(r)) /\ Current(r) = Plan(r)[pos[r]]
<1>1. pos[r] <= Len(Plan(r))
  BY DEF AtOK
<1> QED  BY <1>1, PlanFacts

\* No step but Commit changes what is recorded and what was applied, nobody
\* changes its build.
LEMMA OnlyCommit ==
  ASSUME TypeOK, [Next]_vars
  PROVE  /\ release' = release
         /\ UNCHANGED <<recorded, schema>> \/ \E r \in Runners : Commit(r)
<1>1. CASE UNCHANGED vars
  BY <1>1 DEF vars, db
<1>2. CASE Next
  <2> PICK r \in Runners : Work(r) \/ Die(r) \/ Again(r)
    BY <1>2 DEF Next
  <2>1. CASE CreateTable(r)
    BY <2>1 DEF CreateTable, db
  <2>2. CASE TableCreated(r)
    BY <2>2 DEF TableCreated, Fail, db
  <2>3. CASE AllChecked(r)
    BY <2>3 DEF AllChecked, db
  <2>4. CASE CheckRecorded(r)
    BY <2>4 DEF CheckRecorded, Fail, db
  <2>5. CASE Apply(r)
    BY <2>5 DEF Apply, Fail, db
  <2>6. CASE Commit(r)
    BY <2>6 DEF Commit
  <2>7. CASE Die(r)
    BY <2>7 DEF Die, Fail, db
  <2>8. CASE Again(r)
    BY <2>8 DEF Again, db
  <2> QED  BY <2>1, <2>2, <2>3, <2>4, <2>5, <2>6, <2>7, <2>8 DEF Work
<1> QED  BY <1>1, <1>2

\* Where a step leaves the process that takes it, and the others.
LEMMA Moves ==
  ASSUME TypeOK, [Next]_vars
  PROVE  \/ UNCHANGED <<pc, pos>>
         \/ \E r \in Runners :
              /\ pc' = [pc EXCEPT ![r] = pc'[r]]
              /\ pc'[r] \in Stages
              /\ pos' = [pos EXCEPT ![r] = pos'[r]]
              /\ \/ pc'[r] \in {"create", "check", "failed"} /\ pos'[r] = pos[r]
                 \/ pc'[r] = "done" /\ pos'[r] = pos[r] /\ pos[r] > Len(Plan(r))
                 \/ pc'[r] = "start" /\ pos'[r] = 1
                 \/ pc'[r] = "apply" /\ pos'[r] = pos[r] /\ pos[r] <= Len(Plan(r))
                 \/ pc[r] = "check" /\ pc'[r] = "check" /\ pos'[r] = pos[r] + 1
                    /\ pos[r] <= Len(Plan(r)) /\ Row(Current(r)) = Current(r).sum
                 \/ pc[r] = "apply" /\ Apply(r) /\ pc'[r] = "commit" /\ pos'[r] = pos[r]
                    /\ Row(Current(r)) = Absent
                 \/ pc[r] = "commit" /\ Commit(r) /\ pc'[r] = "check" /\ pos'[r] = pos[r] + 1
<1>t. pc \in [Runners -> Stages] /\ pos \in [Runners -> Nat \ {0}]
  BY DEF TypeOK
<1>1. CASE UNCHANGED vars
  BY <1>1 DEF vars
<1>2. CASE Next
  <2> PICK r \in Runners : Work(r) \/ Die(r) \/ Again(r)
    BY <1>2 DEF Next
  <2>1. CASE CreateTable(r)
    BY <1>t, <2>1 DEF CreateTable, Goto, Stages
  <2>2. CASE TableCreated(r)
    BY <1>t, <2>2 DEF TableCreated, Fail, Goto, Stages
  <2>3. CASE AllChecked(r)
    BY <1>t, <2>3 DEF AllChecked, Goto, Stages
  <2>4. CASE CheckRecorded(r)
    BY <1>t, <2>4 DEF CheckRecorded, Fail, Goto, Advance, Stages
  <2>5. CASE Apply(r)
    BY <1>t, <2>5 DEF Apply, Fail, Goto, Stages, Row
  <2>6. CASE Commit(r)
    BY <1>t, <2>6 DEF Commit, Goto, Advance, Stages
  <2>7. CASE Die(r)
    BY <1>t, <2>7 DEF Die, Fail, Goto, Stages
  <2>8. CASE Again(r)
    BY <1>t, <2>8 DEF Again, Goto, Stages
  <2> QED  BY <2>1, <2>2, <2>3, <2>4, <2>5, <2>6, <2>7, <2>8 DEF Work
<1> QED  BY <1>1, <1>2

\* What a commit does to the database.
LEMMA Committed ==
  ASSUME TypeOK, AtOK, NEW r \in Runners, Commit(r)
  PROVE  /\ Id(Current(r)) \in Ids /\ Current(r) \in AllFiles
         /\ Current(r).sum \in Checksums /\ Current(r).sum # Absent
         /\ pc[r] = "commit"
         /\ \A m \in Ids : recorded'[m] = IF m = Id(Current(r)) THEN Current(r).sum
                                          ELSE recorded[m]
         /\ schema' = Append(schema, Current(r))
<1>1. pc[r] = "commit"
  BY DEF Commit
<1>2. recorded' = [recorded EXCEPT ![Id(Current(r))] = Current(r).sum]
  BY DEF Commit
<1>3. recorded \in [Ids -> Checksums \union {Absent}]
  BY DEF TypeOK
<1> QED  BY <1>1, <1>2, <1>3, CurrentFacts DEF Commit

\* A row is written once.
LEMMA RowsStay ==
  ASSUME TypeOK, AtOK, CommitOK, [Next]_vars
  PROVE  \A m \in Ids : recorded[m] # Absent => recorded'[m] = recorded[m]
<1>1. CASE UNCHANGED <<recorded, schema>>
  BY <1>1
<1>2. ASSUME NEW r \in Runners, Commit(r)
      PROVE  \A m \in Ids : recorded[m] # Absent => recorded'[m] = recorded[m]
  BY <1>2, Committed DEF CommitOK
<1> QED  BY <1>1, <1>2, OnlyCommit

-----------------------------------------------------------------------------
\* The invariant holds at the start, and every step keeps each of its parts.
LEMMA InitIInv == Init => IInv
<1> SUFFICES ASSUME Init PROVE IInv
  OBVIOUS
<1>1. TypeOK
  <2>1. recorded \in [Ids -> Checksums \union {Absent}] /\ schema \in Seq(AllFiles)
    BY DEF Init
  <2>2. pc \in [Runners -> Stages] /\ pos \in [Runners -> Nat \ {0}]
    BY DEF Init, Stages
  <2>3. release \in [Runners -> Releases] /\ table \in BOOLEAN /\ faults \in 0..MaxFaults
    <3>1. faults = 0 /\ 0 \in 0..MaxFaults
      BY BoundAssumption DEF Init
    <3>2. table = FALSE
      BY DEF Init
    <3>3. release \in [Runners -> Releases]
      BY DEF Init
    <3> QED  BY <3>1, <3>2, <3>3
  <2> QED  BY <2>1, <2>2, <2>3 DEF TypeOK
<1>2. AtOK /\ CommitOK
  BY DEF Init, AtOK, CommitOK
<1>3. PassedOK
  <2> SUFFICES ASSUME NEW r \in Runners, NEW i \in 1..Len(Plan(r)), i < pos[r] PROVE FALSE
    BY DEF PassedOK
  <2>1. pos[r] = 1 /\ Len(Plan(r)) \in Nat
    BY <1>1, PlanFacts DEF Init
  <2> QED  BY <2>1
<1>4. RecordedIsApplied
  BY DEF Init, RecordedIsApplied
<1> QED  BY <1>1, <1>2, <1>3, <1>4 DEF IInv

LEMMA TypeStep ==
  ASSUME TypeOK, AtOK, [Next]_vars
  PROVE  TypeOK'
<1>1. release' \in [Runners -> Releases]
  BY OnlyCommit DEF TypeOK
<1>2. recorded' \in [Ids -> Checksums \union {Absent}] /\ schema' \in Seq(AllFiles)
  <2>1. CASE UNCHANGED <<recorded, schema>>
    BY <2>1 DEF TypeOK
  <2>2. ASSUME NEW r \in Runners, Commit(r)
        PROVE  recorded' \in [Ids -> Checksums \union {Absent}] /\ schema' \in Seq(AllFiles)
    <3>1. Current(r) \in AllFiles /\ Current(r).sum \in Checksums
      BY <2>2, Committed
    <3>2. /\ recorded' = [recorded EXCEPT ![Id(Current(r))] = Current(r).sum]
          /\ schema' = Append(schema, Current(r))
      BY <2>2 DEF Commit
    <3>3. recorded \in [Ids -> Checksums \union {Absent}] /\ schema \in Seq(AllFiles)
      BY DEF TypeOK
    <3>4. recorded' \in [Ids -> Checksums \union {Absent}]
      BY <3>1, <3>2, <3>3
    <3>5. schema' \in Seq(AllFiles)
      <4> DEFINE f == Current(r)
      <4>1. f \in AllFiles /\ schema' = Append(schema, f)
        BY <3>1, <3>2
      <4> HIDE DEF f
      <4> QED  BY <3>3, <4>1
    <3> QED  BY <3>4, <3>5
  <2> QED  BY <2>1, <2>2, OnlyCommit
<1>3. pc' \in [Runners -> Stages] /\ pos' \in [Runners -> Nat \ {0}]
  <2>1. CASE UNCHANGED <<pc, pos>>
    BY <2>1 DEF TypeOK
  <2>2. ASSUME NEW r \in Runners, pc' = [pc EXCEPT ![r] = pc'[r]], pc'[r] \in Stages,
               pos' = [pos EXCEPT ![r] = pos'[r]],
               pos'[r] \in {pos[r], 1, pos[r] + 1}
        PROVE  pc' \in [Runners -> Stages] /\ pos' \in [Runners -> Nat \ {0}]
    <3>1. pos[r] \in Nat \ {0}
      BY DEF TypeOK
    <3>2. pos'[r] \in Nat \ {0}
      BY <2>2, <3>1
    <3>3. pc \in [Runners -> Stages] /\ pos \in [Runners -> Nat \ {0}]
      BY DEF TypeOK
    <3>4. ASSUME NEW p \in Stages PROVE [pc EXCEPT ![r] = p] \in [Runners -> Stages]
      BY <3>3
    <3>5. ASSUME NEW n \in Nat \ {0} PROVE [pos EXCEPT ![r] = n] \in [Runners -> Nat \ {0}]
      BY <3>3
    <3> QED  BY <2>2, <3>2, <3>4, <3>5
  <2> QED  BY <2>1, <2>2, Moves
<1>4. table' \in BOOLEAN /\ faults' \in 0..MaxFaults
  <2>t. table \in BOOLEAN /\ faults \in 0..MaxFaults /\ MaxFaults \in Nat
    BY BoundAssumption DEF TypeOK
  <2>1. CASE UNCHANGED vars
    BY <2>t, <2>1 DEF vars, db
  <2>2. CASE Next
    <3> PICK r \in Runners : Work(r) \/ Die(r) \/ Again(r)
      BY <2>2 DEF Next
    <3>1. CASE Work(r)
      <4>1. faults' = faults
        BY <3>1 DEF Work, CreateTable, TableCreated, AllChecked, CheckRecorded, Apply, Commit
      <4>2. table' = table \/ table' = TRUE
        BY <3>1 DEF Work, CreateTable, TableCreated, AllChecked, CheckRecorded, Apply, Commit,
                    Fail, db
      <4> QED  BY <2>t, <4>1, <4>2
    <3>2. CASE Die(r)
      BY <2>t, <3>2 DEF Die, Fail, db
    <3>3. CASE Again(r)
      BY <2>t, <3>3 DEF Again, db
    <3> QED  BY <3>1, <3>2, <3>3
  <2> QED  BY <2>1, <2>2
<1> QED  BY <1>1, <1>2, <1>3, <1>4 DEF TypeOK

\* The list of a process does not change.
LEMMA SamePlan ==
  ASSUME TypeOK, [Next]_vars, NEW r \in Runners
  PROVE  Plan(r)' = Plan(r)
BY OnlyCommit DEF Plan, Plans, Load, Of

LEMMA AtStep ==
  ASSUME TypeOK, AtOK, [Next]_vars
  PROVE  AtOK'
<1> SUFFICES ASSUME NEW q \in Runners
             PROVE  /\ pc'[q] \in {"apply", "commit"} => pos'[q] <= Len(Plan(q))
                    /\ pc'[q] = "done" => pos'[q] > Len(Plan(q))
  BY SamePlan DEF AtOK
<1>0. /\ pc[q] \in {"apply", "commit"} => pos[q] <= Len(Plan(q))
      /\ pc[q] = "done" => pos[q] > Len(Plan(q))
  BY DEF AtOK
<1>t. pc \in [Runners -> Stages] /\ pos \in [Runners -> Nat \ {0}]
  BY DEF TypeOK
<1>1. CASE UNCHANGED <<pc, pos>>
  BY <1>0, <1>1
<1>2. ASSUME NEW r \in Runners, pc' = [pc EXCEPT ![r] = pc'[r]],
             pos' = [pos EXCEPT ![r] = pos'[r]], r # q
      PROVE  pc'[q] = pc[q] /\ pos'[q] = pos[q]
  BY <1>t, <1>2
<1>3. CASE pc'[q] = pc[q] /\ pos'[q] = pos[q]
  BY <1>0, <1>3
<1> QED  BY <1>0, <1>1, <1>2, <1>3, Moves

\* Whoever passes a migration has found its row or written it, and a row stays.
LEMMA PassedStep ==
  ASSUME TypeOK, AtOK, PassedOK, CommitOK, [Next]_vars
  PROVE  PassedOK'
<1> SUFFICES ASSUME NEW q \in Runners, NEW i \in 1..Len(Plan(q)), i < pos'[q]
             PROVE  recorded'[Id(Plan(q)[i])] = Plan(q)[i].sum
  <2>1. \A q \in Runners : Plan(q)' = Plan(q)
    BY SamePlan
  <2> QED  BY <2>1 DEF PassedOK, Id
<1> DEFINE f == Plan(q)[i]
<1>f. Id(f) \in Ids /\ f.sum # Absent /\ i \in Nat /\ pos[q] \in Nat
  BY PlanFacts
<1>1. CASE i < pos[q]
  <2>1. recorded[Id(f)] = f.sum
    BY <1>1 DEF PassedOK
  <2> QED  BY <1>f, <2>1, RowsStay
<1>2. CASE ~(i < pos[q])
  <2>t. pc \in [Runners -> Stages] /\ pos \in [Runners -> Nat \ {0}]
    BY DEF TypeOK
  <2>1. pos'[q] # pos[q] /\ pos'[q] # 1
    BY <1>f, <1>2
  <2>2. PICK r \in Runners :
          /\ pos' = [pos EXCEPT ![r] = pos'[r]]
          /\ \/ pos'[r] = pos[r] \/ pos'[r] = 1
             \/ pos'[r] = pos[r] + 1 /\ pos[r] <= Len(Plan(r)) /\ Row(Current(r)) = Current(r).sum
             \/ pos'[r] = pos[r] + 1 /\ pc[r] = "commit" /\ Commit(r)
    BY <2>1, Moves
  <2>3. r = q
    BY <2>t, <2>1, <2>2
  <2>4. pos'[q] = pos[q] + 1 /\ i = pos[q]
    BY <1>f, <1>2, <2>1, <2>2, <2>3
  <2>5. f = Current(q)
    BY <2>4 DEF Current
  <2>6. CASE Row(Current(q)) = Current(q).sum
    <3>1. recorded[Id(f)] = f.sum
      BY <2>5, <2>6 DEF Row
    <3> QED  BY <1>f, <3>1, RowsStay
  <2>7. CASE Commit(q)
    BY <1>f, <2>5, <2>7, Committed
  <2> QED  BY <2>1, <2>2, <2>3, <2>6, <2>7
<1> QED  BY <1>1, <1>2

\* A second transaction for the same migration waits, and then finds the row.
LEMMA CommitStep ==
  ASSUME TypeOK, AtOK, CommitOK, [Next]_vars
  PROVE  CommitOK'
<1> DEFINE Sole(q) == /\ recorded[Id(Current(q))] = Absent
                      /\ \A s \in Runners \ {q} : pc[s] = "commit" => Id(Current(s)) # Id(Current(q))
<1>t. pc \in [Runners -> Stages] /\ pos \in [Runners -> Nat \ {0}]
  BY DEF TypeOK
<1>c. \A q \in Runners : pos'[q] = pos[q] => Current(q)' = Current(q)
  BY SamePlan DEF Current
<1>n. \A q \in Runners : pc'[q] = "commit" => pos'[q] = pos[q]
  <2> TAKE q \in Runners
  <2>1. CASE UNCHANGED <<pc, pos>>
    BY <2>1
  <2>2. CASE ~UNCHANGED <<pc, pos>>
    <3>1. PICK r \in Runners :
            /\ pos' = [pos EXCEPT ![r] = pos'[r]]
            /\ pos'[r] = pos[r] \/ pc'[r] = "start" \/ pc'[r] = "check"
      BY <2>2, Moves
    <3>2. CASE r = q
      BY <3>1, <3>2
    <3>3. CASE r # q
      BY <1>t, <3>1, <3>3
    <3> QED  BY <3>2, <3>3
  <2> QED  BY <2>1, <2>2
<1>b. \A q \in Runners : pc'[q] = "commit" /\ pc[q] # "commit" =>
        /\ pc[q] = "apply" /\ ~Blocked(q) /\ Row(Current(q)) = Absent
        /\ \A s \in Runners \ {q} : pc'[s] = pc[s]
        /\ UNCHANGED recorded
  <2> SUFFICES ASSUME NEW q \in Runners, pc'[q] = "commit", pc[q] # "commit"
               PROVE  /\ pc[q] = "apply" /\ ~Blocked(q) /\ Row(Current(q)) = Absent
                      /\ \A s \in Runners \ {q} : pc'[s] = pc[s]
                      /\ UNCHANGED recorded
    OBVIOUS
  <2>1. PICK r \in Runners :
          /\ pc' = [pc EXCEPT ![r] = pc'[r]]
          /\ \/ pc'[r] # "commit"
             \/ pc[r] = "apply" /\ Apply(r) /\ Row(Current(r)) = Absent
    BY Moves
  <2>2. r = q
    BY <1>t, <2>1
  <2>3. Apply(q)
    BY <2>1, <2>2
  <2>4. UNCHANGED recorded /\ ~Blocked(q)
    BY <2>3 DEF Apply, Fail, db
  <2> QED  BY <1>t, <2>1, <2>2, <2>4
<1>s. ASSUME NEW q \in Runners, pc[q] = "commit" PROVE Sole(q)
  BY <1>s DEF CommitOK
<1> SUFFICES ASSUME NEW q \in Runners, pc'[q] = "commit"
             PROVE  /\ recorded'[Id(Current(q))] = Absent
                    /\ \A s \in Runners \ {q} :
                         pc'[s] = "commit" => Id(Current(s)) # Id(Current(q))
  <2>1. \A q \in Runners : pc'[q] = "commit" => Current(q)' = Current(q)
    BY <1>c, <1>n
  <2>2. \A q \in Runners : pc'[q] = "commit" => Id(Current(q))' = Id(Current(q))
    BY <2>1 DEF Id
  <2> QED  BY <2>1, <2>2 DEF CommitOK
<1>1. CASE pc[q] = "commit"
  <2>1. Sole(q)
    BY <1>s, <1>1
  <2>2. recorded'[Id(Current(q))] = Absent
    <3>1. CASE UNCHANGED <<recorded, schema>>
      BY <2>1, <3>1
    <3>2. ASSUME NEW r \in Runners, Commit(r)
          PROVE  recorded'[Id(Current(q))] = Absent
      <4>1. pc[r] = "commit" /\ pc'[r] = "check"
        BY <1>t, <3>2 DEF Commit, Goto
      <4>2. r # q
        BY <4>1
      <4>3. Id(Current(q)) # Id(Current(r)) /\ Id(Current(q)) \in Ids
        BY <1>1, <2>1, <4>1, <4>2, CurrentFacts
      <4> QED  BY <2>1, <3>2, <4>3, Committed
    <3> QED  BY <3>1, <3>2, OnlyCommit
  <2>3. ASSUME NEW s \in Runners \ {q}, pc'[s] = "commit"
        PROVE  Id(Current(s)) # Id(Current(q))
    <3>1. CASE pc[s] = "commit"
      BY <2>1, <3>1
    <3>2. CASE pc[s] # "commit"
      <4>1. ~Blocked(s)
        BY <1>b, <2>3, <3>2
      <4> QED  BY <1>1, <4>1 DEF Blocked
    <3> QED  BY <3>1, <3>2
  <2> QED  BY <2>2, <2>3
<1>2. CASE pc[q] # "commit"
  <2>1. /\ ~Blocked(q) /\ Row(Current(q)) = Absent /\ UNCHANGED recorded
        /\ \A s \in Runners \ {q} : pc'[s] = pc[s]
    BY <1>b, <1>2
  <2>2. \A s \in Runners \ {q} : pc[s] = "commit" => Id(Current(s)) # Id(Current(q))
    BY <2>1 DEF Blocked
  <2> QED  BY <2>1, <2>2 DEF Row
<1> QED  BY <1>1, <1>2

LEMMA RecordedStep ==
  ASSUME TypeOK, AtOK, CommitOK, RecordedIsApplied, [Next]_vars
  PROVE  RecordedIsApplied'
<1>1. CASE UNCHANGED <<recorded, schema>>
  BY <1>1 DEF RecordedIsApplied
<1>2. ASSUME NEW r \in Runners, Commit(r)
      PROVE  RecordedIsApplied'
  <2> DEFINE f == Current(r)
             n == Len(schema)
             Times(s, m) == {i \in 1..Len(s) : Id(s[i]) = m}
  <2>1. /\ f.sum # Absent /\ schema' = Append(schema, f) /\ recorded[Id(f)] = Absent
        /\ \A m \in Ids : recorded'[m] = IF m = Id(f) THEN f.sum ELSE recorded[m]
    BY <1>2, Committed DEF CommitOK
  <2> HIDE DEF f
  <2>2. schema \in Seq(AllFiles) /\ n \in Nat
    BY DEF TypeOK
  <2>3. /\ Len(schema') = n + 1 /\ schema'[n + 1] = f
        /\ \A i \in 1..n : schema'[i] = schema[i]
    BY <2>1, <2>2
  <2> HIDE DEF n
  <2>4. n = Len(schema)
    BY DEF n
  <2>5. \A m \in Ids : Times(schema', m) = Times(schema, m) \union
                                           (IF Id(f) = m THEN {n + 1} ELSE {})
    <3>1. 1..(n + 1) = 1..n \union {n + 1}
      BY <2>2
    <3>2. \A i \in 1..n : Id(schema'[i]) = Id(schema[i])
      BY <2>3
    <3> QED  BY <2>3, <2>4, <3>1, <3>2
  <2> SUFFICES ASSUME NEW m \in Ids
               PROVE  IF recorded'[m] = Absent THEN Times(schema', m) = {}
                      ELSE \E i \in Times(schema', m) :
                             Times(schema', m) = {i} /\ schema'[i].sum = recorded'[m]
    BY DEF RecordedIsApplied, Id
  <2>6. IF recorded[m] = Absent THEN Times(schema, m) = {}
        ELSE \E i \in Times(schema, m) :
               Times(schema, m) = {i} /\ schema[i].sum = recorded[m]
    BY DEF RecordedIsApplied
  <2>7. CASE m = Id(f)
    <3>1. Times(schema', m) = {n + 1}
      BY <2>1, <2>5, <2>6, <2>7
    <3> QED  BY <2>1, <2>3, <2>7, <3>1
  <2>8. CASE m # Id(f)
    <3>1. Times(schema', m) = Times(schema, m) /\ recorded'[m] = recorded[m]
      BY <2>1, <2>5, <2>8
    <3>2. \A i \in Times(schema, m) : schema'[i] = schema[i]
      BY <2>3, <2>4
    <3> QED  BY <2>6, <3>1, <3>2
  <2> QED  BY <2>7, <2>8
<1> QED  BY <1>1, <1>2, OnlyCommit

LEMMA NextIInv == IInv /\ [Next]_vars => IInv'
BY TypeStep, AtStep, PassedStep, CommitStep, RecordedStep DEF IInv

\* The invariant above holds in every reachable state: Run of pkg/migrations,
\* called by any number of processes of any releases that may die at any point.
THEOREM Invariant == Spec => []IInv
<1>1. Init => IInv
  BY InitIInv
<1>2. IInv /\ [Next]_vars => IInv'
  BY NextIInv
<1> QED  BY <1>1, <1>2, PTL DEF Spec

\* Every variable has its type, the list of a release included.
THEOREM TypeCorrect == Spec => []TypeOK
<1>1. IInv => TypeOK
  BY DEF IInv
<1> QED  BY <1>1, Invariant, PTL

\* schema_migrations tells what is in the schema: a recorded migration has been
\* applied exactly once and with the recorded contents, and nothing else has,
\* whoever raced for it and whoever died on the way.
THEOREM RecordedApplied == Spec => []RecordedIsApplied
<1>1. IInv => RecordedIsApplied
  BY DEF IInv
<1> QED  BY <1>1, Invariant, PTL

\* What Run works on: a process commits a migration, and reports success, only
\* when what its own release wants before it is in the database, with the same
\* contents, though another release may have put it there.
LEMMA Builds == IInv => BuildsOnItsRelease
<1> SUFFICES ASSUME IInv, NEW r \in Runners PROVE
      /\ pc[r] = "done" => \A f \in Files[release[r]] : recorded[Id(f)] = f.sum
      /\ pc[r] = "commit" =>
           \A f \in Of(release[r], Current(r).service) :
             f.version < Current(r).version => recorded[Id(f)] = f.sum
  BY DEF BuildsOnItsRelease
<1>i. TypeOK /\ AtOK /\ PassedOK
  BY DEF IInv
<1>r. release[r] \in Releases /\ pos[r] \in Nat /\ Len(Plan(r)) \in Nat
      /\ Plan(r) = Plans[release[r]]
  BY <1>i, PlanFacts DEF Plan
<1>o. /\ \A f \in Files[release[r]] : \E i \in 1..Len(Plan(r)) : Plan(r)[i] = f
      /\ \A i \in 1..Len(Plan(r)) : \A f \in Of(release[r], Plan(r)[i].service) :
           f.version < Plan(r)[i].version => \E j \in 1..(i - 1) : Plan(r)[j] = f
  <2> DEFINE b == release[r]
  <2> HIDE DEF b
  <2>1. b \in Releases
    BY <1>r DEF b
  <2>2. /\ \A f \in Files[b] : \E i \in 1..Len(Plans[b]) : Plans[b][i] = f
        /\ \A i \in 1..Len(Plans[b]) : \A f \in Of(b, Plans[b][i].service) :
             f.version < Plans[b][i].version => \E j \in 1..(i - 1) : Plans[b][j] = f
    BY <2>1, PlanOf, Zenon
  <2> QED  BY <2>2, Zenon DEF b, Plan
<1>p. \A i \in 1..Len(Plan(r)) : i < pos[r] => recorded[Id(Plan(r)[i])] = Plan(r)[i].sum
  BY <1>i DEF PassedOK
<1>1. ASSUME pc[r] = "done", NEW f \in Files[release[r]]
      PROVE  recorded[Id(f)] = f.sum
  <2>1. PICK i \in 1..Len(Plan(r)) : Plan(r)[i] = f
    BY <1>1, <1>o
  <2>2. pos[r] > Len(Plan(r))
    BY <1>i, <1>1 DEF AtOK
  <2>3. i < pos[r]
    BY <1>r, <2>2
  <2> QED  BY <1>p, <2>1, <2>3
<1>2. ASSUME pc[r] = "commit", NEW f \in Of(release[r], Current(r).service),
             f.version < Current(r).version
      PROVE  recorded[Id(f)] = f.sum
  <2>1. pos[r] \in 1..Len(Plan(r)) /\ Current(r) = Plan(r)[pos[r]]
    BY <1>i, <1>2, CurrentFacts
  <2>2. PICK j \in 1..(pos[r] - 1) : Plan(r)[j] = f
    <3>1. /\ f \in Of(release[r], Plan(r)[pos[r]].service)
          /\ f.version < Plan(r)[pos[r]].version
      BY <1>2, <2>1
    <3> QED  BY <2>1, <3>1, <1>o
  <2>3. j \in 1..Len(Plan(r)) /\ j < pos[r]
    BY <1>r, <2>1
  <2> QED  BY <1>p, <2>2, <2>3
<1> QED  BY <1>1, <1>2

\* So it is in every reachable state.
THEOREM BuildsOnRelease == Spec => []BuildsOnItsRelease
BY Invariant, Builds, PTL

-----------------------------------------------------------------------------
\* Run by any number of processes at once leaves the database as if one process
\* at a time had installed one file at a time, each on top of what one release
\* wants below it: every step is a step of SchemaLedger or changes no database.
THEOREM ImplementsLedger == Spec => LedgerSafety
<1>n. (\A f : Ledger!Name(f) = Id(f)) /\ Ledger!Names = Ids
  BY DEF Ledger!Name, Ledger!Names, Id, Ids, AllFiles
<1>1. Init => Ledger!LedgerInit
  BY <1>n DEF Init, Ledger!LedgerInit
<1>2. IInv /\ [Next]_vars => [Ledger!LedgerNext]_<<recorded, schema>>
  <2> SUFFICES ASSUME IInv, [Next]_vars, NEW r \in Runners, Commit(r)
               PROVE  Ledger!LedgerNext
    BY OnlyCommit DEF IInv
  <2>i. TypeOK /\ AtOK /\ CommitOK /\ PassedOK
    BY DEF IInv
  <2> DEFINE b == release[r]
             f == Current(r)
  <2>1. pc[r] = "commit" /\ recorded[Id(f)] = Absent
    BY <2>i DEF Commit, CommitOK
  <2>2. b \in Releases /\ f \in Files[b]
    <3>1. pos[r] \in 1..Len(Plan(r)) /\ f = Plan(r)[pos[r]]
      BY <2>i, <2>1, CurrentFacts
    <3>2. b \in Releases /\ Plan(r) \in Seq(Files[b])
      BY <2>i, PlanFacts
    <3> QED  BY <3>1, <3>2
  <2>3. ASSUME NEW g \in Ledger!Below(b, f) PROVE recorded[Id(g)] = g.sum
    <3>1. g \in Of(b, f.service) /\ g.version < f.version
      BY DEF Ledger!Below, Of
    <3>2. \A h \in Of(b, f.service) : h.version < f.version => recorded[Id(h)] = h.sum
      BY <2>1, Builds DEF BuildsOnItsRelease
    <3> QED  BY <3>1, <3>2
  <2>4. /\ recorded' = [recorded EXCEPT ![Id(f)] = f.sum]
        /\ schema' = Append(schema, f)
    BY DEF Commit
  <2> HIDE DEF b, f
  <2>5. Ledger!Install(b, f)
    BY <1>n, <2>1, <2>3, <2>4 DEF Ledger!Install
  <2> QED  BY <2>2, <2>5 DEF Ledger!LedgerNext
<1>3. LedgerSafety <=> Ledger!LedgerInit /\ [][Ledger!LedgerNext]_<<recorded, schema>>
  BY DEF LedgerSafety, Ledger!LedgerSafety, Ledger!ledgerVars
<1> QED  BY <1>1, <1>2, <1>3, Invariant, PTL DEF Spec
=============================================================================
