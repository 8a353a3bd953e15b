---------------------------- MODULE DashboardProofs ----------------------------
(***************************************************************************)
(* Proofs about the stored decisions of a domain and about what the        *)
(* dashboard's readers make of them, for every number of decisions, threads *)
(* and stamps, every batch size and every retention setting.               *)
(***************************************************************************)
EXTENDS Dashboard, SequenceTheorems, FiniteSetTheorems, WellFoundedInduction, TLAPS

LEMMA SmallestNumber ==
    ASSUME NEW T \in SUBSET Nat, T # {}
    PROVE  \E x \in T : \A y \in T : x <= y
<1> DEFINE R == OpToRel(<, Nat)
<1>1. \E x \in T : \A y \in T : ~(<<y, x>> \in R)
  <2>1. IsWellFoundedOn(R, Nat)
    BY NatLessThanWellFounded
  <2> HIDE DEF R
  <2> QED
    BY <2>1, WFMin
<1>2. PICK x \in T : \A y \in T : ~(<<y, x>> \in R)
  BY <1>1
<1>3. ASSUME NEW y \in T
      PROVE  x <= y
  <2>1. x \in Nat /\ y \in Nat /\ ~(<<y, x>> \in R)
    BY <1>2
  <2>2. ~(y < x)
    BY <2>1 DEF OpToRel
  <2>3. x \in Nat /\ y \in Nat
    BY <1>2
  <2> QED
    BY <2>2, <2>3
<1> QED
  BY <1>3

-----------------------------------------------------------------------------
(* The chain of decisions *)

\* p is the last decision of a set before id, or 0 when there is none.
IsPrevious(p, id, kept) ==
    LET earlier == {n \in kept : n < id} IN
    IF earlier = {} THEN p = 0 ELSE p \in earlier /\ \A m \in earlier : m <= p

\* Every row of the table leads to the last decision kept before it.
Linked(rows, kept) ==
    /\ DOMAIN rows = DOMAIN history
    /\ \A id \in DOMAIN rows :
          rows[id] \in Row /\ IsPrevious(rows[id].supersedes, id, kept)

\* The newest decision is there, and evidence of just the decisions that are.
Whole == evidence = DOMAIN history /\ (latest > 0 => latest \in DOMAIN history)

ChainInv ==
    /\ latest \in Nat
    /\ DOMAIN history \subseteq 1 .. latest
    /\ Linked(history, DOMAIN history)
    /\ Whole

\* Relinking one row takes it out of the chain, doomed or not yet.
LEMMA RelinkKeeps ==
    ASSUME DOMAIN history \subseteq Nat,
           NEW rows, NEW kept \in SUBSET Nat, Linked(rows, kept),
           NEW x \in DOMAIN history, x # 0
    PROVE  Linked(Relink(rows, x), kept \ {x})
<1>1. /\ DOMAIN rows = DOMAIN history
      /\ \A n \in DOMAIN rows : rows[n] \in Row /\ IsPrevious(rows[n].supersedes, n, kept)
  BY DEF Linked
<1> DEFINE new == Relink(rows, x)
<1>2. DOMAIN new = DOMAIN history
  BY <1>1 DEF Relink
<1>3. ASSUME NEW id \in DOMAIN history
      PROVE  new[id] \in Row /\ IsPrevious(new[id].supersedes, id, kept \ {x})
  <2>1. new[id] = IF rows[id].supersedes = x
                  THEN [rows[id] EXCEPT !.supersedes = rows[x].supersedes] ELSE rows[id]
    BY <1>1 DEF Relink
  <2> HIDE DEF new
  <2>2. /\ rows[id] \in Row /\ IsPrevious(rows[id].supersedes, id, kept)
        /\ rows[x] \in Row /\ IsPrevious(rows[x].supersedes, x, kept)
        /\ id \in Nat /\ x \in Nat
    BY <1>1
  <2>3. CASE rows[id].supersedes = x
    <3>1. new[id] \in Row /\ new[id].supersedes = rows[x].supersedes
      BY <2>1, <2>2, <2>3 DEF Row
    <3>2. x \in kept /\ x < id /\ \A m \in kept : m < id => m <= x
      BY <2>2, <2>3 DEF IsPrevious
    <3>3. {n \in kept \ {x} : n < id} = {n \in kept : n < x}
      <4> SUFFICES ASSUME NEW n \in kept
                   PROVE  (n # x /\ n < id) <=> n < x
        OBVIOUS
      <4>1. n \in Nat /\ (n < id => n <= x)
        BY <3>2
      <4> QED
        BY <2>2, <3>2, <4>1
    <3> QED
      BY <2>2, <3>1, <3>3 DEF IsPrevious
  <2>4. CASE rows[id].supersedes # x
    <3>1. new[id] = rows[id]
      BY <2>1, <2>4
    <3>2. IsPrevious(rows[id].supersedes, id, kept \ {x})
      <4>1. CASE {n \in kept : n < id} = {}
        <5>1. {n \in kept \ {x} : n < id} = {}
          BY <4>1
        <5> QED
          BY <2>2, <4>1, <5>1 DEF IsPrevious
      <4>2. CASE {n \in kept : n < id} # {}
        <5>1. /\ rows[id].supersedes \in {n \in kept : n < id}
              /\ \A m \in {n \in kept : n < id} : m <= rows[id].supersedes
          BY <2>2, <4>2 DEF IsPrevious
        <5>2. rows[id].supersedes \in {n \in kept \ {x} : n < id}
          BY <2>4, <5>1
        <5> QED
          BY <5>1, <5>2 DEF IsPrevious
      <4> QED
        BY <4>1, <4>2
    <3> QED
      BY <2>2, <3>1, <3>2
  <2> QED
    BY <2>3, <2>4
<1> QED
  BY <1>2, <1>3 DEF Linked

\* The rows after each relinking, as far as the n-th.
Relinkings(f, n, doomed) ==
    f = [i \in 0 .. n |-> IF i = 0 THEN history ELSE Relink(f[i - 1], doomed[i])]

LEMMA RelinkingsExist ==
    ASSUME NEW doomed, NEW n \in Nat
    PROVE  \E f : Relinkings(f, n, doomed)
<1> DEFINE T == {k \in Nat : ~ \E f : Relinkings(f, k, doomed)}
<1> SUFFICES ASSUME n \in T PROVE FALSE
  OBVIOUS
<1>1. T \in SUBSET Nat /\ T # {}
  OBVIOUS
<1>2. PICK m \in T : \A k \in T : m <= k
  <2> HIDE DEF T
  <2> QED
    BY <1>1, SmallestNumber
<1>3. m \in Nat /\ ~ \E f : Relinkings(f, m, doomed)
  BY <1>2
<1>4. CASE m = 0
  <2> DEFINE f == [i \in 0 .. 0 |-> IF i = 0 THEN history ELSE Relink(history, doomed[i])]
  <2>1. f = [i \in 0 .. 0 |-> IF i = 0 THEN history ELSE Relink(f[i - 1], doomed[i])]
    OBVIOUS
  <2> QED
    BY <1>3, <1>4, <2>1 DEF Relinkings
<1>5. CASE m # 0
  <2>1. m - 1 \in Nat /\ m - 1 \notin T
    BY <1>2, <1>3, <1>5
  <2>2. PICK g : Relinkings(g, m - 1, doomed)
    BY <2>1
  <2> DEFINE f == [i \in 0 .. m |-> IF i = 0 THEN history ELSE Relink(g[i - 1], doomed[i])]
  <2>3. \A i \in 0 .. (m - 1) :
           g[i] = IF i = 0 THEN history ELSE Relink(g[i - 1], doomed[i])
    BY <2>2 DEF Relinkings
  <2>4. \A i \in 0 .. (m - 1) : f[i] = g[i]
    BY <1>3, <2>3
  <2>5. \A i \in 0 .. m :
           (IF i = 0 THEN history ELSE Relink(g[i - 1], doomed[i]))
             = (IF i = 0 THEN history ELSE Relink(f[i - 1], doomed[i]))
    <3> SUFFICES ASSUME NEW i \in 0 .. m, i # 0
                 PROVE  g[i - 1] = f[i - 1]
      BY Zenon
    <3>1. i - 1 \in 0 .. (m - 1)
      BY <1>3
    <3> QED
      BY <2>4, <3>1
  <2>6. f = [i \in 0 .. m |-> IF i = 0 THEN history ELSE Relink(f[i - 1], doomed[i])]
    BY <2>5
  <2> QED
    BY <1>3, <2>6 DEF Relinkings
<1> QED
  BY <1>4, <1>5

\* Once all doomed rows are relinked, each row leads to the last decision before it
\* that is not doomed.
LEMMA RelinkedSkipsTheDoomed ==
    ASSUME DOMAIN history \subseteq Nat \ {0}, Linked(history, DOMAIN history),
           NEW doomed \in Seq(DOMAIN history)
    PROVE  Linked(Relinked(doomed), DOMAIN history \ ToSet(doomed))
<1> DEFINE n == Len(doomed)
           f == CHOOSE g : Relinkings(g, n, doomed)
           Kept(i) == DOMAIN history \ {doomed[j] : j \in 1 .. i}
<1>1. n \in Nat /\ DOMAIN doomed = 1 .. n /\ \A i \in 1 .. n : doomed[i] \in DOMAIN history
  OBVIOUS
<1>2. Relinkings(f, n, doomed)
  BY <1>1, RelinkingsExist
<1>3. Relinked(doomed) = f[n]
  BY DEF Relinked, Relinkings
<1> HIDE DEF f, n
<1>4. f[0] = history /\ \A i \in 1 .. n : f[i] = Relink(f[i - 1], doomed[i])
  BY <1>1, <1>2 DEF Relinkings
<1>5. ASSUME NEW i \in 1 .. n, Linked(f[i - 1], Kept(i - 1))
      PROVE  Linked(f[i], Kept(i))
  <2>1. Kept(i) = Kept(i - 1) \ {doomed[i]}
    <3>1. 1 .. i = (1 .. (i - 1)) \cup {i}
      BY <1>1
    <3> QED
      BY <3>1
  <2>2. Kept(i - 1) \in SUBSET Nat /\ doomed[i] \in DOMAIN history /\ doomed[i] # 0
    BY <1>1
  <2> HIDE DEF Kept
  <2>3. Linked(Relink(f[i - 1], doomed[i]), Kept(i - 1) \ {doomed[i]})
    BY <1>5, <2>2, RelinkKeeps
  <2> QED
    BY <1>1, <1>4, <2>1, <2>3
<1>6. \A i \in 0 .. n : Linked(f[i], Kept(i))
  <2> DEFINE T == {i \in 0 .. n : ~Linked(f[i], Kept(i))}
  <2> SUFFICES ASSUME T # {} PROVE FALSE
    OBVIOUS
  <2>1. T \in SUBSET Nat
    BY <1>1
  <2>2. PICK m \in T : \A k \in T : m <= k
    <3> HIDE DEF T
    <3> QED
      BY <2>1, SmallestNumber
  <2>3. m \in 0 .. n /\ ~Linked(f[m], Kept(m))
    BY <2>2
  <2>4. Kept(0) = DOMAIN history
    <3>1. 1 .. 0 = {}
      OBVIOUS
    <3> QED
      BY <3>1
  <2>5. m # 0
    BY <1>4, <2>3, <2>4
  <2>6. m \in 1 .. n /\ m - 1 \in 0 .. n /\ ~(m <= m - 1)
    BY <1>1, <2>3, <2>5
  <2>7. Linked(f[m - 1], Kept(m - 1))
    BY <2>2, <2>6
  <2> QED
    BY <1>5, <2>3, <2>6, <2>7
<1>7. Kept(n) = DOMAIN history \ ToSet(doomed)
  BY <1>1 DEF ToSet
<1> HIDE DEF Kept
<1>8. Linked(f[n], Kept(n))
  BY <1>1, <1>6
<1> QED
  BY <1>3, <1>7, <1>8

-----------------------------------------------------------------------------
(* What retention deletes *)

Deletable == {id \in DOMAIN history : ~Protected(id)}

\* The rows of the query are decisions of the history.
LEMMA QueryAnswers ==
    ASSUME latest \in Nat, DOMAIN history \subseteq 1 .. latest,
           NEW rows \in NewestFirst
    PROVE  rows \in Seq(DOMAIN history)
<1>1. IsFiniteSet(DOMAIN history) /\ Cardinality(DOMAIN history) \in Nat
  <2>1. IsFiniteSet(1 .. latest)
    BY FS_Interval
  <2> QED
    BY <2>1, FS_Subset, FS_CardinalityType
<1>2. rows \in [1 .. Cardinality(DOMAIN history) -> DOMAIN history]
  BY DEF NewestFirst, SetToSeqs
<1> QED
  BY <1>1, <1>2

\* The indices of the rows that neither protection nor retention keeps.
Going(rows, cutoff) ==
    {i \in DOMAIN rows : /\ ~Protected(rows[i])
                         /\ \/ i > MaxPerDomain
                            \/ history[rows[i]].created < cutoff}

\* The rows chosen among the first n.
Choosings(f, n, rows, cutoff) ==
    f = [i \in 0 .. n |->
           IF i = 0 THEN <<>>
           ELSE IF i \in Going(rows, cutoff) THEN Append(f[i - 1], rows[i]) ELSE f[i - 1]]

LEMMA ChoosingsExist ==
    ASSUME NEW rows, NEW cutoff, NEW n \in Nat
    PROVE  \E f : Choosings(f, n, rows, cutoff)
<1> DEFINE T == {k \in Nat : ~ \E f : Choosings(f, k, rows, cutoff)}
           Next(i, before) == IF i = 0 THEN <<>>
                              ELSE IF i \in Going(rows, cutoff) THEN Append(before, rows[i])
                              ELSE before
<1> SUFFICES ASSUME n \in T PROVE FALSE
  OBVIOUS
<1>1. \A f, k : Choosings(f, k, rows, cutoff) <=> f = [i \in 0 .. k |-> Next(i, f[i - 1])]
  BY DEF Choosings
<1> HIDE DEF Next
<1>2. T \in SUBSET Nat /\ T # {}
  OBVIOUS
<1>3. PICK m \in T : \A k \in T : m <= k
  <2> HIDE DEF T
  <2> QED
    BY <1>2, SmallestNumber
<1>4. m \in Nat /\ ~ \E f : Choosings(f, m, rows, cutoff)
  BY <1>3
<1>5. CASE m = 0
  <2> DEFINE f == [i \in 0 .. 0 |-> Next(i, <<>>)]
  <2>1. \A i \in 0 .. 0 : Next(i, <<>>) = Next(i, f[i - 1])
    BY DEF Next
  <2>2. f = [i \in 0 .. 0 |-> Next(i, f[i - 1])]
    BY <2>1
  <2> QED
    BY <1>1, <1>4, <1>5, <2>2
<1>6. CASE m # 0
  <2>1. m - 1 \in Nat /\ m - 1 \notin T
    BY <1>3, <1>4, <1>6
  <2>2. PICK g : Choosings(g, m - 1, rows, cutoff)
    BY <2>1
  <2> DEFINE f == [i \in 0 .. m |-> Next(i, g[i - 1])]
  <2>3. \A i \in 0 .. (m - 1) : g[i] = Next(i, g[i - 1])
    BY <1>1, <2>2
  <2>4. \A i \in 0 .. (m - 1) : f[i] = g[i]
    BY <1>4, <2>3
  <2>5. \A i \in 0 .. m : Next(i, g[i - 1]) = Next(i, f[i - 1])
    <3> SUFFICES ASSUME NEW i \in 0 .. m PROVE Next(i, g[i - 1]) = Next(i, f[i - 1])
      OBVIOUS
    <3>1. CASE i = 0
      BY <3>1 DEF Next
    <3>2. CASE i # 0
      <4>1. i - 1 \in 0 .. (m - 1)
        BY <1>4, <3>2
      <4> QED
        BY <2>4, <4>1
    <3> QED
      BY <3>1, <3>2
  <2>6. f = [i \in 0 .. m |-> Next(i, f[i - 1])]
    BY <2>5
  <2> QED
    BY <1>1, <1>4, <2>6
<1> QED
  BY <1>5, <1>6

\* Retention chooses among the rows that are neither the latest nor referred to.
LEMMA EligibleIsDeletable ==
    ASSUME NEW rows \in Seq(DOMAIN history), NEW cutoff
    PROVE  Eligible(rows, cutoff) \in Seq(Deletable)
<1> DEFINE n == Len(rows)
           f == CHOOSE g : Choosings(g, n, rows, cutoff)
<1>1. n \in Nat /\ DOMAIN rows = 1 .. n /\ \A i \in 1 .. n : rows[i] \in DOMAIN history
  OBVIOUS
<1>2. Choosings(f, n, rows, cutoff)
  BY <1>1, ChoosingsExist
<1>3. Eligible(rows, cutoff) = f[n]
  BY DEF Eligible, Choosings, Going
<1> HIDE DEF f, n
<1>4. /\ f[0] = <<>>
      /\ \A i \in 1 .. n : \/ i \in Going(rows, cutoff) /\ f[i] = Append(f[i - 1], rows[i])
                           \/ f[i] = f[i - 1]
  <2>1. \A i \in 0 .. n :
           f[i] = IF i = 0 THEN <<>>
                  ELSE IF i \in Going(rows, cutoff) THEN Append(f[i - 1], rows[i]) ELSE f[i - 1]
    BY <1>2, Zenon DEF Choosings
  <2>2. 0 \in 0 .. n /\ \A i \in 1 .. n : i \in 0 .. n /\ i # 0
    BY <1>1
  <2> QED
    BY <2>1, <2>2, Zenon
<1>5. \A i \in 1 .. n : f[i - 1] \in Seq(Deletable) => f[i] \in Seq(Deletable)
  <2> SUFFICES ASSUME NEW i \in 1 .. n, f[i - 1] \in Seq(Deletable)
               PROVE  f[i] \in Seq(Deletable)
    OBVIOUS
  <2>1. CASE i \in Going(rows, cutoff) /\ f[i] = Append(f[i - 1], rows[i])
    <3>1. rows[i] \in Deletable
      BY <1>1, <2>1 DEF Going, Deletable
    <3> QED
      BY <2>1, <3>1
  <2> QED
    BY <1>4, <2>1
<1>6. \A i \in 0 .. n : f[i] \in Seq(Deletable)
  <2> DEFINE T == {i \in 0 .. n : f[i] \notin Seq(Deletable)}
  <2> SUFFICES ASSUME T # {} PROVE FALSE
    OBVIOUS
  <2>1. T \in SUBSET Nat
    BY <1>1
  <2>2. PICK m \in T : \A k \in T : m <= k
    <3> HIDE DEF T
    <3> QED
      BY <2>1, SmallestNumber
  <2>3. m \in 0 .. n /\ f[m] \notin Seq(Deletable)
    BY <2>2
  <2>4. m # 0
    <3>1. <<>> \in Seq(Deletable)
      OBVIOUS
    <3> QED
      BY <1>4, <2>3, <3>1
  <2>5. m \in 1 .. n /\ m - 1 \in 0 .. n /\ ~(m <= m - 1)
    BY <1>1, <2>3, <2>4
  <2> QED
    BY <1>5, <2>2, <2>3, <2>5
<1> QED
  BY <1>1, <1>3, <1>6

\* A batch of them is a beginning of them.
LEMMA BatchIsDeletable ==
    ASSUME NEW eligible \in Seq(Deletable)
    PROVE  Batches(eligible) \subseteq Seq(Deletable)
<1>1. ASSUME NEW n \in 1 .. BatchSize, n <= Len(eligible)
      PROVE  Batch(eligible, n) \in Seq(Deletable)
  <2>1. n \in Nat
    BY HistoryAssumption
  <2> QED
    BY <1>1, <2>1 DEF Batch
<1> QED
  BY <1>1 DEF Batches

-----------------------------------------------------------------------------
(* The steps *)

\* A decision is appended to the chain.
LEMMA SaveKeepsChain ==
    ASSUME ChainInv, SaveDecision
    PROVE  /\ ChainInv'
           /\ latest' = latest + 1
           /\ DOMAIN history' = DOMAIN history \cup {latest + 1}
<1> DEFINE new == latest + 1
<1>1. PICK stamp \in Stamps : history' = WithDecision(stamp)
  BY DEF SaveDecision
<1>2. /\ latest \in Nat /\ latest' = new /\ evidence' = evidence \cup {new}
      /\ DOMAIN history \subseteq 1 .. latest /\ new \notin DOMAIN history
      /\ evidence = DOMAIN history /\ (latest > 0 => latest \in DOMAIN history)
  BY DEF ChainInv, Whole, SaveDecision, Projected
<1>3. /\ DOMAIN history' = DOMAIN history \cup {new}
      /\ \A id \in DOMAIN history : history'[id] = history[id]
      /\ history'[new] = [created |-> stamp, supersedes |-> latest]
  BY <1>1, <1>2 DEF WithDecision
<1> HIDE DEF new
<1>4. new = latest + 1
  BY DEF new
<1>5. ASSUME NEW id \in DOMAIN history'
      PROVE  history'[id] \in Row /\ IsPrevious(history'[id].supersedes, id, DOMAIN history')
  <2>1. CASE id \in DOMAIN history
    <3>1. {n \in DOMAIN history' : n < id} = {n \in DOMAIN history : n < id}
      BY <1>2, <1>3, <1>4, <2>1
    <3>2. history[id] \in Row /\ IsPrevious(history[id].supersedes, id, DOMAIN history)
      BY <2>1 DEF ChainInv, Linked
    <3> QED
      BY <1>3, <2>1, <3>1, <3>2 DEF IsPrevious
  <2>2. CASE id = new
    <3>1. {n \in DOMAIN history' : n < id} = DOMAIN history
      <4> SUFFICES ASSUME NEW n \in DOMAIN history \cup {new}
                   PROVE  n < new <=> n \in DOMAIN history
        BY <1>3, <2>2
      <4> QED
        BY <1>2, <1>4
    <3>2. history'[id] \in Row /\ history'[id].supersedes = latest
      BY <1>2, <1>3, <2>2 DEF Row
    <3>3. IF DOMAIN history = {} THEN latest = 0
          ELSE latest \in DOMAIN history /\ \A m \in DOMAIN history : m <= latest
      BY <1>2
    <3> QED
      BY <3>1, <3>2, <3>3 DEF IsPrevious
  <2> QED
    BY <1>3, <2>1, <2>2
<1>6. latest' \in Nat /\ DOMAIN history' \subseteq 1 .. latest'
  BY <1>2, <1>3, <1>4
<1>7. Whole'
  BY <1>2, <1>3 DEF Whole
<1> QED
  BY <1>2, <1>3, <1>4, <1>5, <1>6, <1>7 DEF ChainInv, Linked

\* Retention relinks the chain around what it deletes, in whatever order of their
\* stamps, and keeps the latest decision.
LEMMA CleanUpKeepsChain ==
    ASSUME ChainInv, CleanUp
    PROVE  /\ ChainInv'
           /\ latest' = latest
           /\ DOMAIN history' \subseteq DOMAIN history
           /\ DOMAIN history \cap audit.refs \subseteq DOMAIN history'
<1>1. PICK rows \in NewestFirst, cutoff \in Stamps :
        \E doomed \in Batches(Eligible(rows, cutoff)) :
          /\ history' = [id \in DOMAIN history \ ToSet(doomed) |-> Relinked(doomed)[id]]
          /\ evidence' = evidence \ EvidenceOf(Eligible(rows, cutoff), doomed)
          /\ latest' = latest
  BY DEF CleanUp
<1>2. PICK doomed \in Batches(Eligible(rows, cutoff)) :
        /\ history' = [id \in DOMAIN history \ ToSet(doomed) |-> Relinked(doomed)[id]]
        /\ evidence' = evidence \ EvidenceOf(Eligible(rows, cutoff), doomed)
        /\ latest' = latest
  BY <1>1
<1> DEFINE kept == DOMAIN history \ ToSet(doomed)
<1>3. /\ latest \in Nat /\ DOMAIN history \subseteq 1 .. latest
      /\ DOMAIN history \subseteq Nat \ {0}
      /\ Linked(history, DOMAIN history)
      /\ evidence = DOMAIN history /\ (latest > 0 => latest \in DOMAIN history)
  BY DEF ChainInv, Whole
<1>4. doomed \in Seq(Deletable)
  BY <1>2, <1>3, QueryAnswers, EligibleIsDeletable, BatchIsDeletable
<1>5. /\ history' = [id \in kept |-> Relinked(doomed)[id]]
      /\ evidence' = DOMAIN history \ ToSet(doomed)
      /\ latest' = latest
  BY <1>2, <1>3 DEF EvidenceOf
<1>6. doomed \in Seq(DOMAIN history)
  <2>1. Deletable \subseteq DOMAIN history
    BY DEF Deletable
  <2> QED
    BY <1>4, <2>1
<1>7. latest \notin ToSet(doomed) /\ audit.refs \cap ToSet(doomed) = {}
  <2>1. \A i \in DOMAIN doomed : doomed[i] # latest /\ doomed[i] \notin audit.refs
    BY <1>4 DEF Deletable, Protected
  <2> QED
    BY <2>1 DEF ToSet
<1>8. Linked(Relinked(doomed), kept)
  BY <1>3, <1>6, RelinkedSkipsTheDoomed
<1>9. /\ DOMAIN history' = kept /\ kept \subseteq DOMAIN history
      /\ kept = DOMAIN history \ ToSet(doomed)
  BY <1>5
<1> HIDE DEF kept
<1>10. Linked(history, DOMAIN history)'
  <2>1. \A id \in kept : Relinked(doomed)[id] \in Row
                          /\ IsPrevious(Relinked(doomed)[id].supersedes, id, kept)
    BY <1>8, <1>9 DEF Linked
  <2> QED
    BY <1>5, <1>9, <2>1 DEF Linked
<1>11. Whole'
  BY <1>3, <1>5, <1>7, <1>9 DEF Whole
<1>12. DOMAIN history \cap audit.refs \subseteq DOMAIN history'
  BY <1>7, <1>9
<1> QED
  BY <1>3, <1>5, <1>9, <1>10, <1>11, <1>12 DEF ChainInv

\* Who writes decisions: the engine and retention, and no request.
LEMMA WhoTouchesHistory ==
    ASSUME [DashboardNext]_dashboardVars
    PROVE  SaveDecision \/ CleanUp \/ UNCHANGED <<latest, history, evidence>>
<1>1. ASSUME NEW t \in Threads, WriteNext(t)
      PROVE  UNCHANGED <<latest, history, evidence>>
  BY <1>1 DEF WriteNext, Write, RecordAction, SaveRule, historyVars
<1>2. ASSUME NEW t \in Threads,
             \/ \E kind \in Polls : Poll(t, kind)
             \/ Open(t) \/ Change(t) \/ Accept(t) \/ ReadNext(t) \/ Answer(t) \/ Receive(t)
      PROVE  UNCHANGED historyVars
  BY <1>2, Zenon DEF Poll, Open, Change, Send, Accept, ReadNext, Answer, Receive
<1>3. ASSUME Login \/ WrongLogin \/ Logout \/ Tick \/ Restart
      PROVE  UNCHANGED historyVars
  BY <1>3, Zenon DEF Login, WrongLogin, Logout, Tick, Restart
<1>4. ASSUME UNCHANGED historyVars
      PROVE  UNCHANGED <<latest, history, evidence>>
  BY <1>4 DEF historyVars
<1>5. CASE DashboardNext
  BY <1>1, <1>2, <1>3, <1>4, <1>5, Zenon DEF DashboardNext, Engine, Maintenance, Server
<1>6. CASE UNCHANGED dashboardVars
  BY <1>6 DEF dashboardVars, historyVars
<1> QED
  BY <1>5, <1>6

\* Time goes on and nothing comes back: a decision that is deleted stays deleted.
LEMMA HistoryMoves ==
    ASSUME ChainInv, [DashboardNext]_dashboardVars
    PROVE  /\ ChainInv'
           /\ latest <= latest'
           /\ \A id \in 1 .. latest : id \in DOMAIN history' => id \in DOMAIN history
           /\ DOMAIN history \cap audit.refs \subseteq DOMAIN history'
<1>1. latest \in Nat
  BY DEF ChainInv
<1>2. CASE SaveDecision
  <2>1. /\ ChainInv' /\ latest' = latest + 1
        /\ DOMAIN history' = DOMAIN history \cup {latest + 1}
    BY <1>2, SaveKeepsChain
  <2> QED
    BY <1>1, <2>1
<1>3. CASE CleanUp
  <2>1. /\ ChainInv' /\ latest' = latest /\ DOMAIN history' \subseteq DOMAIN history
        /\ DOMAIN history \cap audit.refs \subseteq DOMAIN history'
    BY <1>3, CleanUpKeepsChain
  <2> QED
    BY <1>1, <2>1
<1>4. CASE UNCHANGED <<latest, history, evidence>>
  <2>1. latest' = latest /\ history' = history /\ evidence' = evidence
    BY <1>4
  <2> QED
    BY <1>1, <2>1 DEF ChainInv, Linked, IsPrevious, Whole
<1> QED
  BY <1>2, <1>3, <1>4, WhoTouchesHistory

LEMMA ChainBegins ==
    ASSUME DashboardInit
    PROVE  ChainInv
<1>1. latest = 0 /\ history = <<>> /\ evidence = {}
  BY DEF DashboardInit, HistoryInit
<1>2. DOMAIN history = {}
  BY <1>1
<1> QED
  BY <1>1, <1>2 DEF ChainInv, Linked, Whole

LEMMA ChainInductive == DashboardSpec => []ChainInv
<1>1. ChainInv /\ [DashboardNext]_dashboardVars => ChainInv'
  BY HistoryMoves
<1> QED
  BY ChainBegins, <1>1, PTL DEF DashboardSpec

\* Each decision of the history supersedes the one that was saved last before it and
\* is still kept, whatever cleanup_decision_history deleted in between, in whatever
\* order of the stamps, in batches of whatever size.
THEOREM ChainHolds == DashboardSpec => []HistoryIsChained
<1>1. ASSUME ChainInv
      PROVE  HistoryIsChained
  <2> SUFFICES ASSUME NEW id \in DOMAIN history
               PROVE  LET earlier == {n \in DOMAIN history : n < id}
                      IN history[id].supersedes =
                           IF earlier = {} THEN 0
                           ELSE CHOOSE n \in earlier : \A m \in earlier : m <= n
    BY DEF HistoryIsChained
  <2> DEFINE earlier == {n \in DOMAIN history : n < id}
             last == CHOOSE n \in earlier : \A m \in earlier : m <= n
             link == history[id].supersedes
  <2>1. earlier \in SUBSET Nat
    BY <1>1 DEF ChainInv
  <2>2. IF earlier = {} THEN link = 0 ELSE link \in earlier /\ \A m \in earlier : m <= link
    BY <1>1 DEF ChainInv, Linked, IsPrevious
  <2> HIDE DEF earlier, link
  <2>3. CASE earlier # {}
    <3>1. last \in earlier /\ \A m \in earlier : m <= last
      BY <2>2, <2>3
    <3> HIDE DEF last
    <3>2. link \in Nat /\ last \in Nat
      BY <2>1, <2>2, <2>3, <3>1
    <3>3. link = last
      BY <2>2, <2>3, <3>1, <3>2
    <3> QED
      BY <2>3, <3>3 DEF last, earlier, link
  <2> QED
    BY <2>2, <2>3 DEF earlier, link
<1> QED
  BY <1>1, ChainInductive, PTL

\* Retention never deletes the newest decision, nor the evidence of a decision it
\* keeps, nor a decision without its evidence, nor one that feedback refers to.
THEOREM HistoryStaysWhole == DashboardSpec => HistoryIsWhole
<1>1. ChainInv => (evidence = DOMAIN history /\ (latest > 0 => latest \in DOMAIN history))
  BY DEF ChainInv, Whole
<1>2. ChainInv /\ [DashboardNext]_dashboardVars
         => [DOMAIN history \cap audit.refs \subseteq DOMAIN history']_historyVars
  BY HistoryMoves
<1> QED
  BY <1>1, <1>2, ChainInductive, PTL DEF DashboardSpec, HistoryIsWhole

-----------------------------------------------------------------------------
(* The requests *)

Typed ==
    /\ latest \in 0 .. MaxDecisions
    /\ evidence \subseteq 1 .. latest
    /\ rule \in Rules
    /\ audit.rows \in Nat
    /\ readonly \in BOOLEAN
    /\ session \in BOOLEAN
    /\ request \in [Threads -> Request]

\* A request whose handler neither reads nor writes, but may end.
SameWork(new, old) ==
    /\ new.kind = old.kind /\ new.todo = old.todo /\ new.got = old.got /\ new.found = old.found
    /\ new.pc = "answered" => old.pc = "answered" \/ old.todo = <<>>

\* What the page may ask for.
Asked(r) ==
    /\ r.pc # "answered" /\ r.got = <<>> /\ r.found = TRUE
    /\ \/ r.kind \in Polls \cup Writers
       \/ r.kind = "explain" /\ r.todo = Explain
       \/ r.kind = "decision" /\ \E id \in 1 .. latest : r.todo = Decision(id)
       \/ r.kind = "compare" /\ \E id \in 2 .. latest : r.todo = Compare(id - 1, id)

\* What a step does to the request of a thread.
Moved(t) ==
    \/ SameWork(request'[t], request[t])
    \/ request'[t] = NoRequest
    \/ Asked(request'[t]) /\ latest' = latest
    \/ ReadNext(t)
    \/ WriteNext(t)

LEMMA FourJoined ==
    ASSUME NEW a, NEW b, NEW c, NEW d
    PROVE  <<a, b>> \o <<c, d>> = <<a, b, c, d>>
<1> DEFINE S == {a, b, c, d}
           s == <<a, b>>
           t == <<c, d>>
           u == <<a, b, c, d>>
<1>1. /\ s \in Seq(S) /\ Len(s) = 2 /\ s[1] = a /\ s[2] = b
      /\ t \in Seq(S) /\ Len(t) = 2 /\ t[1] = c /\ t[2] = d
      /\ u \in Seq(S) /\ Len(u) = 4 /\ u[1] = a /\ u[2] = b /\ u[3] = c /\ u[4] = d
  OBVIOUS
<1> HIDE DEF S, s, t, u
<1>2. /\ s \o t \in Seq(S) /\ Len(s \o t) = 4
      /\ \A i \in 1 .. 4 : (s \o t)[i] = IF i <= 2 THEN s[i] ELSE t[i - 2]
  <2>1. /\ s \o t \in Seq(S) /\ Len(s \o t) = Len(s) + Len(t)
        /\ \A i \in 1 .. Len(s) + Len(t) :
              (s \o t)[i] = IF i <= Len(s) THEN s[i] ELSE t[i - Len(s)]
    BY <1>1, ConcatProperties
  <2>2. Len(s) = 2 /\ Len(t) = 2 /\ Len(s) + Len(t) = 4
    BY <1>1
  <2> QED
    BY <2>1, <2>2, Zenon
<1>3. \A i \in 1 .. 4 : (s \o t)[i] = u[i]
  BY <1>1, <1>2
<1>4. s \o t = u
  BY <1>1, <1>2, <1>3, SeqEqual
<1> QED
  BY <1>4 DEF s, t, u

LEMMA ShortSequences ==
    ASSUME NEW S, NEW a \in S
    PROVE  <<a>> \in Seq(S) /\ \A b \in S : <<a, b>> \in Seq(S)
OBVIOUS

LEMMA CompareIs ==
    ASSUME NEW a, NEW b
    PROVE  Compare(a, b)
             = << <<"row", a>>, <<"evidence", a>>, <<"row", b>>, <<"evidence", b>> >>
BY FourJoined DEF Compare, Decision

LEMMA TodosAreTyped ==
    /\ Explain \in Seq((Reads \cup Writes) \X Ids)
    /\ \A id \in Ids : Decision(id) \in Seq((Reads \cup Writes) \X Ids)
    /\ \A a, b \in Ids : Compare(a, b) \in Seq((Reads \cup Writes) \X Ids)
    /\ \A decision \in Rules : /\ ChangeRule(decision) \in Seq((Reads \cup Writes) \X Ids)
                               /\ Feedback(decision) \in Seq((Reads \cup Writes) \X Ids)
    /\ << <<"audit", 0>> >> \in Seq((Reads \cup Writes) \X Ids)
    /\ << <<"rule", 0>> >> \in Seq((Reads \cup Writes) \X Ids)
<1> DEFINE S == (Reads \cup Writes) \X Ids
<1>1. 0 \in Ids
  BY HistoryBounds DEF Ids
<1>2. /\ \A id \in Ids : <<"row", id>> \in S /\ <<"evidence", id>> \in S
      /\ <<"latest evidence", 0>> \in S /\ <<"record", 0>> \in S /\ <<"action", 0>> \in S
      /\ <<"audit", 0>> \in S /\ <<"rule", 0>> \in S
      /\ \A decision \in Rules : <<decision, 0>> \in S
  BY <1>1 DEF Reads, Writes
<1> HIDE DEF S
<1>3. /\ Explain \in Seq(S) /\ << <<"audit", 0>> >> \in Seq(S) /\ << <<"rule", 0>> >> \in Seq(S)
      /\ << <<"record", 0>>, <<"action", 0>> >> \in Seq(S)
  BY <1>2, ShortSequences DEF Explain
<1>4. \A id \in Ids : Decision(id) \in Seq(S)
  BY <1>2, ShortSequences DEF Decision
<1>5. \A a, b \in Ids : Compare(a, b) \in Seq(S)
  BY <1>4 DEF Compare
<1>6. \A decision \in Rules : ChangeRule(decision) \in Seq(S)
  BY <1>2, ShortSequences DEF ChangeRule
<1>7. \A decision \in Rules : Feedback(decision) \in Seq(S)
  <2> SUFFICES ASSUME NEW decision \in Rules PROVE Feedback(decision) \in Seq(S)
    OBVIOUS
  <2>1. (IF decision = "none" THEN <<>> ELSE ChangeRule(decision)) \in Seq(S)
    BY <1>6
  <2> QED
    BY <1>3, <2>1 DEF Feedback
<1> QED
  BY <1>3, <1>4, <1>5, <1>6, <1>7 DEF S

\* A request that the page sends.
LEMMA SendAsks ==
    ASSUME Typed, NEW t \in Threads, NEW kind \in Kinds,
           NEW todo \in Seq((Reads \cup Writes) \X Ids), Send(t, kind, todo)
    PROVE  /\ request' \in [Threads -> Request]
           /\ request'[t].kind = kind /\ request'[t].todo = todo
           /\ request'[t].got = <<>> /\ request'[t].found = TRUE
           /\ request'[t].pc = "sent"
           /\ \A u \in Threads \ {t} : request'[u] = request[u]
           /\ UNCHANGED <<latest, evidence, rule, audit, readonly, session>>
<1>1. request' = [request EXCEPT ![t] = Ask(kind, todo)]
  BY DEF Send
<1>2. /\ NoRequest.got = <<>> /\ NoRequest.found = TRUE
      /\ NoRequest \in Request
  BY DEF NoRequest, Request
<1> HIDE DEF NoRequest
<1>3. /\ Ask(kind, todo) \in Request
      /\ Ask(kind, todo).kind = kind /\ Ask(kind, todo).todo = todo
      /\ Ask(kind, todo).got = <<>> /\ Ask(kind, todo).found = TRUE
      /\ Ask(kind, todo).pc = "sent"
  <2> DEFINE r1 == [NoRequest EXCEPT !.kind = kind]
             r2 == [r1 EXCEPT !.pc = "sent"]
             r3 == [r2 EXCEPT !.todo = todo]
             r4 == [r3 EXCEPT !.cookie = session]
  <2>1. r1 \in Request /\ r1.kind = kind /\ r1.got = <<>> /\ r1.found = TRUE
    BY <1>2 DEF Request
  <2> HIDE DEF r1
  <2>2. /\ r2 \in Request /\ r2.kind = kind /\ r2.got = <<>> /\ r2.found = TRUE
        /\ r2.pc = "sent"
    BY <2>1 DEF Request
  <2> HIDE DEF r2
  <2>3. /\ r3 \in Request /\ r3.kind = kind /\ r3.got = <<>> /\ r3.found = TRUE
        /\ r3.todo = todo /\ r3.pc = "sent"
    BY <2>2 DEF Request
  <2> HIDE DEF r3
  <2>4. /\ r4 \in Request /\ r4.kind = kind /\ r4.got = <<>> /\ r4.found = TRUE
        /\ r4.todo = todo /\ r4.pc = "sent"
    BY <2>3 DEF Request, Typed
  <2> QED
    BY <2>4 DEF Ask, r1, r2, r3
<1> QED
  BY <1>1, <1>2, <1>3 DEF Typed, Send, historyVars

LEMMA NoRequestIsTyped == NoRequest \in Request
BY DEF NoRequest, Request

LEMMA PageSteps ==
    ASSUME Typed, NEW t \in Threads,
           (\E kind \in Polls : Poll(t, kind)) \/ Open(t) \/ Change(t)
    PROVE  Typed' /\ \A u \in Threads : Moved(u)
<1>1. latest \in Nat /\ 1 .. latest \subseteq Ids
  BY HistoryBounds DEF Typed, Ids
<1>2. Offers \subseteq Kinds
  BY DashboardAssumption
<1>3. SUFFICES \E kind \in Kinds, todo \in Seq((Reads \cup Writes) \X Ids) :
                  /\ Send(t, kind, todo)
                  /\ \/ kind \in Polls \cup Writers
                     \/ kind = "explain" /\ todo = Explain
                     \/ kind = "decision" /\ \E id \in 1 .. latest : todo = Decision(id)
                     \/ kind = "compare" /\ \E id \in 2 .. latest : todo = Compare(id - 1, id)
  <2>1. PICK kind \in Kinds, todo \in Seq((Reads \cup Writes) \X Ids) :
                  /\ Send(t, kind, todo)
                  /\ \/ kind \in Polls \cup Writers
                     \/ kind = "explain" /\ todo = Explain
                     \/ kind = "decision" /\ \E id \in 1 .. latest : todo = Decision(id)
                     \/ kind = "compare" /\ \E id \in 2 .. latest : todo = Compare(id - 1, id)
    BY <1>3
  <2>2. /\ request' \in [Threads -> Request]
        /\ request'[t].kind = kind /\ request'[t].todo = todo
        /\ request'[t].got = <<>> /\ request'[t].found = TRUE
        /\ request'[t].pc = "sent"
        /\ \A u \in Threads \ {t} : request'[u] = request[u]
        /\ latest' = latest /\ evidence' = evidence /\ rule' = rule /\ audit' = audit
        /\ readonly' = readonly /\ session' = session
    BY <2>1, SendAsks
  <2>3. Typed'
    BY <2>2 DEF Typed
  <2>4. Asked(request'[t])
    BY <2>1, <2>2 DEF Asked
  <2>5. \A u \in Threads \ {t} : SameWork(request'[u], request[u])
    BY <2>2 DEF SameWork
  <2> QED
    BY <2>2, <2>3, <2>4, <2>5 DEF Moved
<1>4. ASSUME NEW kind \in Polls, Poll(t, kind)
      PROVE  \E todo \in Seq((Reads \cup Writes) \X Ids) : kind \in Kinds /\ Send(t, kind, todo)
  <2>1. Send(t, kind, << <<IF kind = "actions" THEN "audit" ELSE "rule", 0>> >>)
    BY <1>4 DEF Poll
  <2>2. << <<IF kind = "actions" THEN "audit" ELSE "rule", 0>> >>
           \in Seq((Reads \cup Writes) \X Ids)
    <3>1. CASE kind = "actions"
      BY <3>1, TodosAreTyped
    <3>2. CASE kind # "actions"
      BY <3>2, TodosAreTyped
    <3> QED
      BY <3>1, <3>2
  <2>3. kind \in Kinds
    BY DEF Kinds
  <2> QED
    BY <2>1, <2>2, <2>3, Zenon
<1>5. CASE \E kind \in Polls : Poll(t, kind)
  BY <1>4, <1>5, Zenon
<1>6. CASE Open(t)
  <2>1. CASE Send(t, "explain", Explain)
    BY <2>1, TodosAreTyped, Zenon DEF Kinds
  <2>2. ASSUME NEW id \in 1 .. latest, Send(t, "decision", Decision(id))
        PROVE  "decision" \in Kinds /\ Decision(id) \in Seq((Reads \cup Writes) \X Ids)
    <3>1. id \in Ids
      BY <1>1
    <3> QED
      BY <3>1, TodosAreTyped DEF Kinds
  <2>3. ASSUME NEW id \in 2 .. latest, Send(t, "compare", Compare(id - 1, id))
        PROVE  /\ "compare" \in Kinds
               /\ Compare(id - 1, id) \in Seq((Reads \cup Writes) \X Ids)
    <3>1. id \in Ids /\ id - 1 \in Ids
      BY <1>1
    <3> QED
      BY <3>1, TodosAreTyped DEF Kinds
  <2> QED
    BY <1>6, <2>1, <2>2, <2>3, Zenon DEF Open
<1>7. CASE Change(t)
  <2>1. PICK decision \in Rules : \/ Send(t, "rule", ChangeRule(decision))
                                  \/ Send(t, "feedback", Feedback(decision))
    BY <1>7, Zenon DEF Change
  <2>2. /\ ChangeRule(decision) \in Seq((Reads \cup Writes) \X Ids)
        /\ Feedback(decision) \in Seq((Reads \cup Writes) \X Ids)
    BY TodosAreTyped
  <2>3. "rule" \in Kinds \cap Writers /\ "feedback" \in Kinds \cap Writers
    BY DEF Kinds, Writers
  <2> QED
    BY <2>1, <2>2, <2>3, Zenon
<1> QED
  BY <1>5, <1>6, <1>7

\* Requests whose answer no page waits for.
LEMMA UnheardKeeps ==
    ASSUME NEW r \in Request
    PROVE  Unheard(r) \in Request /\ (Unheard(r) = NoRequest \/ SameWork(Unheard(r), r))
<1>1. [r EXCEPT !.heard = FALSE] \in Request /\ SameWork([r EXCEPT !.heard = FALSE], r)
  BY DEF Request, SameWork
<1> QED
  BY <1>1, NoRequestIsTyped, Zenon DEF Unheard

LEMMA ToLoginMoves ==
    ASSUME Typed, ToLogin(request)
    PROVE  /\ request' \in [Threads -> Request]
           /\ \A u \in Threads : Moved(u)
<1>1. request' = [u \in Threads |-> Unheard(request[u])]
  BY DEF ToLogin
<1>2. \A u \in Threads : request[u] \in Request
  BY DEF Typed
<1> QED
  BY <1>1, <1>2, UnheardKeeps DEF Moved

LEMMA ForgetMoves ==
    ASSUME Typed, NEW t \in Threads, request' = [request EXCEPT ![t] = NoRequest]
    PROVE  /\ request' \in [Threads -> Request]
           /\ \A u \in Threads : Moved(u)
<1>1. /\ request'[t] = NoRequest
      /\ \A u \in Threads \ {t} : SameWork(request'[u], request[u])
  BY DEF SameWork, Typed
<1>2. request' \in [Threads -> Request]
  BY NoRequestIsTyped DEF Typed
<1> QED
  BY <1>1, <1>2 DEF Moved

\* A request of which only how far it has come changes.
LEMMA OneMoves ==
    ASSUME Typed, NEW t \in Threads, NEW r \in Request,
           r = NoRequest \/ SameWork(r, request[t]), request' = [request EXCEPT ![t] = r]
    PROVE  /\ request' \in [Threads -> Request]
           /\ \A u \in Threads : Moved(u)
<1>1. /\ request'[t] = r
      /\ \A u \in Threads \ {t} : SameWork(request'[u], request[u])
  BY DEF SameWork, Typed
<1>2. request' \in [Threads -> Request]
  BY DEF Typed
<1> QED
  BY <1>1, <1>2 DEF Moved

LEMMA AcceptMoves ==
    ASSUME Typed, NEW t \in Threads, Accept(t)
    PROVE  Typed' /\ \A u \in Threads : Moved(u)
<1>1. /\ latest' = latest /\ evidence' = evidence /\ rule' = rule /\ audit' = audit
      /\ session' = session
  BY DEF Accept, historyVars
<1>2. /\ request' \in [Threads -> Request] /\ readonly' \in BOOLEAN
      /\ \A u \in Threads : Moved(u)
  <2>1. CASE /\ request' = [request EXCEPT ![t].pc = "working", ![t].before = readonly]
             /\ readonly' = (readonly \/ ReadsOnly(request[t].kind))
    <3> DEFINE r == [request[t] EXCEPT !.pc = "working", !.before = readonly]
    <3>1. request' = [request EXCEPT ![t] = r]
      BY <2>1, Zenon
    <3>2. request[t] \in Request /\ readonly \in BOOLEAN
      BY DEF Typed
    <3>3. [request[t] EXCEPT !.pc = "working"] \in Request
      BY <3>2 DEF Request
    <3>4. r \in Request
      BY <3>2, <3>3 DEF Request
    <3>5. SameWork(r, request[t])
      BY <3>2 DEF SameWork, Request
    <3>6. readonly' \in BOOLEAN
      BY <2>1, <3>2 DEF ReadsOnly
    <3> HIDE DEF r
    <3> QED
      BY <3>1, <3>4, <3>5, <3>6, OneMoves
  <2>2. ASSUME ToLogin([request EXCEPT ![t] = NoRequest])
        PROVE  request' \in [Threads -> Request] /\ \A u \in Threads : Moved(u)
    <3>1. request' = [u \in Threads |-> Unheard([request EXCEPT ![t] = NoRequest][u])]
      BY <2>2 DEF ToLogin
    <3>2. \A u \in Threads : [request EXCEPT ![t] = NoRequest][u] =
                             IF u = t THEN NoRequest ELSE request[u]
      BY DEF Typed
    <3>3. \A u \in Threads : request[u] \in Request
      BY DEF Typed
    <3>4. Unheard(NoRequest) = NoRequest
      BY DEF Unheard, NoRequest
    <3>5. \A u \in Threads : request'[u] \in Request /\ Moved(u)
      BY <3>1, <3>2, <3>3, <3>4, NoRequestIsTyped, UnheardKeeps DEF Moved
    <3> QED
      BY <3>1, <3>5
  <2>3. ASSUME request' = [request EXCEPT ![t] = NoRequest]
        PROVE  request' \in [Threads -> Request] /\ \A u \in Threads : Moved(u)
    BY <2>3, ForgetMoves
  <2>4. CASE readonly' = readonly /\ ( \/ ToLogin([request EXCEPT ![t] = NoRequest])
                                       \/ request' = [request EXCEPT ![t] = NoRequest])
    BY <2>2, <2>3, <2>4 DEF Typed
  <2> QED
    BY <2>1, <2>4, Zenon DEF Accept
<1> QED
  BY <1>1, <1>2 DEF Typed

LEMMA AnswerMoves ==
    ASSUME Typed, NEW t \in Threads, Answer(t)
    PROVE  Typed' /\ \A u \in Threads : Moved(u)
<1>1. /\ latest' = latest /\ evidence' = evidence /\ rule' = rule /\ audit' = audit
      /\ session' \in BOOLEAN
  BY DEF Answer, Typed, historyVars
<1>2. request[t] \in Request /\ request[t].todo = <<>>
  BY DEF Answer, Typed
<1>3. readonly' \in BOOLEAN
  BY <1>2 DEF Answer, ModeAfter, Typed, Request
<1>4. request' \in [Threads -> Request] /\ \A u \in Threads : Moved(u)
  <2> DEFINE r == [request[t] EXCEPT !.pc = "answered", !.before = FALSE]
  <2>1. CASE request' = [request EXCEPT ![t] = r]
    <3>1. [request[t] EXCEPT !.pc = "answered"] \in Request
      BY <1>2 DEF Request
    <3>2. r \in Request
      BY <1>2, <3>1 DEF Request
    <3>3. SameWork(r, request[t])
      BY <1>2 DEF SameWork, Request
    <3> HIDE DEF r
    <3> QED
      BY <2>1, <3>2, <3>3, OneMoves
  <2>2. CASE request' = [request EXCEPT ![t] = NoRequest]
    BY <2>2, ForgetMoves
  <2> QED
    BY <2>1, <2>2, Zenon DEF Answer
<1> QED
  BY <1>1, <1>3, <1>4 DEF Typed

LEMMA ReceiveMoves ==
    ASSUME Typed, NEW t \in Threads, Receive(t)
    PROVE  Typed' /\ \A u \in Threads : Moved(u)
<1>1. /\ latest' = latest /\ evidence' = evidence /\ rule' = rule /\ audit' = audit
      /\ session' = session /\ readonly' = readonly
  BY DEF Receive, historyVars
<1>2. request' \in [Threads -> Request] /\ \A u \in Threads : Moved(u)
  BY ForgetMoves DEF Receive
<1> QED
  BY <1>1, <1>2 DEF Typed

\* What a transaction of a reader answers.
LEMMA ReadsAreValues ==
    ASSUME Typed, NEW table \in Reads, NEW id \in Ids
    PROVE  Read(table, id) \in Values
<1>1. latest \in Nat /\ id \in Nat /\ rule \in Rules /\ audit.rows \in Nat
  BY HistoryBounds DEF Typed, Ids
<1>2. \A ids : Stored(ids, id) \in Nat
  BY <1>1 DEF Stored
<1> QED
  BY <1>1, <1>2 DEF Read, Reads, Values

LEMMA HandlersAreTyped ==
    ASSUME Typed, NEW t \in Threads, request[t].todo # <<>>
    PROVE  /\ request[t] \in Request
           /\ Head(request[t].todo)[1] \in Reads \cup Writes
           /\ Head(request[t].todo)[2] \in Ids
           /\ Tail(request[t].todo) \in Seq((Reads \cup Writes) \X Ids)
<1>1. request[t] \in Request
  BY DEF Typed
<1>2. request[t].todo \in Seq((Reads \cup Writes) \X Ids)
  BY <1>1 DEF Request
<1>3. /\ Head(request[t].todo) \in (Reads \cup Writes) \X Ids
      /\ Tail(request[t].todo) \in Seq((Reads \cup Writes) \X Ids)
  BY <1>2
<1> QED
  BY <1>1, <1>3

LEMMA ReadMoves ==
    ASSUME Typed, NEW t \in Threads, ReadNext(t)
    PROVE  Typed' /\ \A u \in Threads : Moved(u)
<1> DEFINE old == request[t]
           next == Head(old.todo)
           seen == Read(next[1], next[2])
           lost == next[1] = "row" /\ seen = 0
           todo == IF lost THEN <<>> ELSE Tail(old.todo)
           r1 == [old EXCEPT !.todo = todo]
           r2 == [r1 EXCEPT !.got = Append(old.got, seen)]
           r3 == [r2 EXCEPT !.found = ~lost]
<1>1. /\ old.todo # <<>> /\ next[1] \in Reads
      /\ request' = [request EXCEPT ![t].todo = todo, ![t].got = Append(@, seen),
                                    ![t].found = ~lost]
      /\ latest' = latest /\ evidence' = evidence /\ rule' = rule /\ audit' = audit
      /\ session' = session /\ readonly' = readonly
  BY DEF ReadNext, historyVars
<1>2. /\ old \in Request /\ next[2] \in Ids
      /\ Tail(old.todo) \in Seq((Reads \cup Writes) \X Ids)
  BY <1>1, HandlersAreTyped
<1>3. seen \in Values
  BY <1>1, <1>2, ReadsAreValues
<1>4. request' = [request EXCEPT ![t] = r3]
  BY <1>1, Zenon
<1>5. lost \in BOOLEAN /\ todo \in Seq((Reads \cup Writes) \X Ids)
  BY <1>2
<1> HIDE DEF seen, lost, todo
<1>6. r1 \in Request
  BY <1>2, <1>5 DEF Request
<1>7. Append(old.got, seen) \in Seq(Values)
  BY <1>2, <1>3 DEF Request
<1> HIDE DEF r1
<1>8. r2 \in Request
  BY <1>6, <1>7 DEF Request
<1> HIDE DEF r2
<1>9. r3 \in Request
  BY <1>5, <1>8 DEF Request
<1> HIDE DEF r3
<1>10. request' \in [Threads -> Request]
  BY <1>4, <1>9 DEF Typed
<1>11. \A u \in Threads \ {t} : SameWork(request'[u], request[u])
  BY <1>4 DEF SameWork, Typed
<1> QED
  BY <1>1, <1>10, <1>11 DEF Typed, Moved

LEMMA WriteMoves ==
    ASSUME Typed, NEW t \in Threads, WriteNext(t)
    PROVE  Typed' /\ \A u \in Threads : Moved(u)
<1> DEFINE old == request[t]
           next == Head(old.todo)
           todo == IF Refuses \/ (next[1] = "none" /\ rule = "none") THEN <<>> ELSE Tail(old.todo)
           r1 == [old EXCEPT !.todo = todo]
           r2 == [r1 EXCEPT !.found = ~Refuses]
<1>1. /\ old.todo # <<>> /\ next[1] \in Writes
      /\ request' = [request EXCEPT ![t].todo = todo, ![t].found = ~Refuses]
      /\ session' = session /\ readonly' = readonly
  BY DEF WriteNext
<1>2. /\ old \in Request
      /\ Tail(old.todo) \in Seq((Reads \cup Writes) \X Ids)
  BY <1>1, HandlersAreTyped
<1>3. /\ latest' = latest /\ evidence' = evidence
      /\ rule' \in Rules /\ audit'.rows \in Nat
  <2>1. PICK ref : IF Refuses THEN UNCHANGED historyVars ELSE Write(next[1], ref)
    BY DEF WriteNext
  <2>2. CASE UNCHANGED historyVars
    BY <2>2 DEF historyVars, Typed
  <2>3. CASE Write(next[1], ref)
    <3>1. CASE next[1] = "action"
      <4>1. RecordAction(ref)
        BY <2>3, <3>1 DEF Write
      <4>2. latest' = latest /\ evidence' = evidence /\ rule' = rule
        BY <4>1 DEF RecordAction
      <4>3. audit'.rows = audit.rows + 1
        BY <4>1 DEF RecordAction
      <4> QED
        BY <4>2, <4>3 DEF Typed
    <3>2. CASE next[1] # "action"
      <4>1. SaveRule(next[1]) /\ next[1] \in Rules
        BY <1>1, <2>3, <3>2 DEF Write, Writes
      <4> QED
        BY <4>1 DEF SaveRule, Typed
    <3> QED
      BY <3>1, <3>2
  <2> QED
    BY <2>1, <2>2, <2>3
<1>4. request' = [request EXCEPT ![t] = r2]
  BY <1>1, Zenon
<1>5. Refuses \in BOOLEAN /\ todo \in Seq((Reads \cup Writes) \X Ids)
  BY <1>2 DEF Refuses, Typed
<1> HIDE DEF todo
<1>6. r1 \in Request
  BY <1>2, <1>5 DEF Request
<1> HIDE DEF r1
<1>7. r2 \in Request
  BY <1>5, <1>6 DEF Request
<1> HIDE DEF r2
<1>8. request' \in [Threads -> Request]
  BY <1>4, <1>7 DEF Typed
<1>9. \A u \in Threads \ {t} : SameWork(request'[u], request[u])
  BY <1>4 DEF SameWork, Typed
<1> QED
  BY <1>1, <1>3, <1>8, <1>9 DEF Typed, Moved

LEMMA StillMoves ==
    ASSUME Typed, request' = request
    PROVE  request' \in [Threads -> Request] /\ \A u \in Threads : Moved(u)
BY DEF Typed, Moved, SameWork

LEMMA UserSteps ==
    ASSUME Typed, Login \/ WrongLogin \/ Logout \/ Tick \/ Restart
    PROVE  Typed' /\ \A u \in Threads : Moved(u)
<1>1. UNCHANGED historyVars
  BY Zenon DEF Login, WrongLogin, Logout, Tick, Restart
<1>2. latest' = latest /\ evidence' = evidence /\ rule' = rule /\ audit' = audit
  BY <1>1 DEF historyVars
<1>3. readonly' \in BOOLEAN /\ session' \in BOOLEAN
  BY DEF Login, WrongLogin, Logout, Tick, Restart, Typed
<1>4. request' \in [Threads -> Request] /\ \A u \in Threads : Moved(u)
  <2>1. CASE Login \/ WrongLogin \/ Tick
    <3>1. request' = request
      BY <2>1, Zenon DEF Login, WrongLogin, Tick
    <3> QED
      BY <3>1, StillMoves
  <2>2. CASE Logout
    BY <2>2, ToLoginMoves DEF Logout
  <2>3. CASE Restart
    <3>1. request' = [t \in Threads |-> NoRequest]
      BY <2>3 DEF Restart
    <3> HIDE DEF NoRequest
    <3> QED
      BY <3>1, NoRequestIsTyped DEF Moved
  <2> QED
    BY <2>1, <2>2, <2>3
<1> QED
  BY <1>2, <1>3, <1>4 DEF Typed

LEMMA HistorySteps ==
    ASSUME Typed, ChainInv, Engine \/ Maintenance
    PROVE  Typed' /\ \A u \in Threads : Moved(u)
<1>1. request' = request /\ readonly' = readonly /\ session' = session
  BY DEF Engine, Maintenance, Others
<1>2. request' \in [Threads -> Request] /\ \A u \in Threads : Moved(u)
  BY <1>1, StillMoves
<1>3. rule' = rule /\ audit' = audit
  BY DEF Engine, Maintenance, SaveDecision, CleanUp
<1>4. latest' \in 0 .. MaxDecisions /\ evidence' \subseteq 1 .. latest'
  <2>1. CASE Engine
    BY <2>1, HistoryBounds DEF Engine, SaveDecision, Projected, Typed
  <2>2. CASE Maintenance
    <3>1. latest' = latest /\ evidence' \subseteq evidence
      BY <2>2 DEF Maintenance, CleanUp
    <3> QED
      BY <3>1 DEF Typed
  <2> QED
    BY <2>1, <2>2
<1> QED
  BY <1>1, <1>2, <1>3, <1>4 DEF Typed

LEMMA Steps ==
    ASSUME Typed, ChainInv, [DashboardNext]_dashboardVars
    PROVE  Typed' /\ \A u \in Threads : Moved(u)
<1>1. CASE UNCHANGED dashboardVars
  <2>1. /\ latest' = latest /\ evidence' = evidence /\ rule' = rule /\ audit' = audit
        /\ readonly' = readonly /\ session' = session /\ request' = request
    BY <1>1 DEF dashboardVars, historyVars
  <2> QED
    BY <2>1, StillMoves DEF Typed
<1>2. CASE \E t \in Threads : Server(t)
  <2>1. PICK t \in Threads : Server(t)
    BY <1>2
  <2> QED
    BY <2>1, AcceptMoves, ReadMoves, WriteMoves, AnswerMoves, ReceiveMoves, Zenon DEF Server
<1>3. CASE \E t \in Threads : (\E kind \in Polls : Poll(t, kind)) \/ Open(t) \/ Change(t)
  BY <1>3, PageSteps, Zenon
<1>4. CASE Engine \/ Maintenance
  BY <1>4, HistorySteps
<1>5. CASE Login \/ WrongLogin \/ Logout \/ Tick \/ Restart
  BY <1>5, UserSteps
<1> QED
  BY <1>1, <1>2, <1>3, <1>4, <1>5, Zenon DEF DashboardNext

LEMMA TypedBegins ==
    ASSUME DashboardInit
    PROVE  Typed
<1>1. /\ latest = 0 /\ evidence = {} /\ rule = "none" /\ audit.rows = 0
      /\ readonly = FALSE /\ session = FALSE
      /\ request = [t \in Threads |-> NoRequest]
  BY DEF DashboardInit, HistoryInit
<1>2. request \in [Threads -> Request]
  BY <1>1, NoRequestIsTyped
<1>3. latest \in 0 .. MaxDecisions /\ evidence \subseteq 1 .. latest /\ audit.rows \in Nat
  BY <1>1, HistoryBounds
<1>4. rule \in Rules /\ readonly \in BOOLEAN /\ session \in BOOLEAN
  BY <1>1 DEF Rules
<1> QED
  BY <1>2, <1>3, <1>4, Zenon DEF Typed

-----------------------------------------------------------------------------
(* What readers have been told *)

\* top is the latest decision and rows are the decisions of the history.

\* A decision comes with its evidence, or it has been deleted meanwhile.
Told(id, answer, rows) == answer # id => id \notin rows

\* /api/domain/.../explain: the evidence of one decision, and the record of the same
\* or a later one.
Explaining(r, top) ==
    \/ r.todo = Explain /\ r.got = <<>>
    \/ \E a \in 0 .. top : r.todo = << <<"record", 0>> >> /\ r.got = <<a>>
    \/ \E a, b \in 0 .. top : a <= b /\ r.todo = <<>> /\ r.got = <<a, b>>

\* One decision of the history, as far as its row and its evidence are read.
Deciding(r, top, rows) ==
    \/ ~r.found /\ r.todo = <<>>
    \/ \E a \in 1 .. top :
          \/ r.todo = << <<"row", a>>, <<"evidence", a>> >> /\ r.got = <<>>
          \/ r.todo = << <<"evidence", a>> >> /\ r.got = <<a>>
          \/ \E e \in 0 .. top : Told(a, e, rows) /\ r.todo = <<>> /\ r.got = <<a, e>>

\* Two of them, one after the other.
Comparing(r, top, rows) ==
    \/ ~r.found /\ r.todo = <<>>
    \/ \E a, b \in 1 .. top :
          \/ /\ r.todo = << <<"row", a>>, <<"evidence", a>>, <<"row", b>>, <<"evidence", b>> >>
             /\ r.got = <<>>
          \/ r.todo = << <<"evidence", a>>, <<"row", b>>, <<"evidence", b>> >> /\ r.got = <<a>>
          \/ \E e \in 0 .. top :
                /\ Told(a, e, rows)
                /\ \/ r.todo = << <<"row", b>>, <<"evidence", b>> >> /\ r.got = <<a, e>>
                   \/ r.todo = << <<"evidence", b>> >> /\ r.got = <<a, e, b>>
                   \/ \E f \in 0 .. top :
                         Told(b, f, rows) /\ r.todo = <<>> /\ r.got = <<a, e, b, f>>

Reader(r, top, rows) ==
    /\ r.kind = "explain" => Explaining(r, top)
    /\ r.kind = "decision" => Deciding(r, top, rows)
    /\ r.kind = "compare" => Comparing(r, top, rows)

ReadersInv == \A t \in Threads : Reader(request[t], latest, DOMAIN history)

\* A handler answers when it has nothing left to do.
Finished(r) == r.pc = "answered" => r.todo = <<>>

AnswersInv == \A t \in Threads : Finished(request[t])

\* New decisions and deleted ones do not change what a reader may tell.
LEMMA ReaderKeeps ==
    ASSUME NEW r, NEW s, SameWork(s, r),
           NEW top \in Nat, NEW later \in Nat, top <= later,
           NEW rows, NEW left, \A id \in 1 .. top : id \in left => id \in rows,
           Reader(r, top, rows)
    PROVE  Reader(s, later, left)
<1>1. s.kind = r.kind /\ s.todo = r.todo /\ s.got = r.got /\ s.found = r.found
  BY DEF SameWork
<1>2. /\ \A id \in 1 .. top : id \in 1 .. later
      /\ \A id \in 0 .. top : id \in 0 .. later
      /\ \A id \in 1 .. top : \A e : Told(id, e, rows) => Told(id, e, left)
  BY DEF Told
<1>3. ASSUME Explaining(r, top)
      PROVE  Explaining(s, later)
  BY <1>1, <1>2, <1>3, Zenon DEF Explaining
<1>4. ASSUME Deciding(r, top, rows)
      PROVE  Deciding(s, later, left)
  BY <1>1, <1>2, <1>4, Zenon DEF Deciding
<1>5. ASSUME Comparing(r, top, rows)
      PROVE  Comparing(s, later, left)
  <2>1. CASE ~r.found /\ r.todo = <<>>
    BY <1>1, <2>1 DEF Comparing
  <2>2. ASSUME NEW a \in 1 .. top, NEW b \in 1 .. top,
               \/ /\ r.todo = << <<"row", a>>, <<"evidence", a>>, <<"row", b>>, <<"evidence", b>> >>
                  /\ r.got = <<>>
               \/ r.todo = << <<"evidence", a>>, <<"row", b>>, <<"evidence", b>> >> /\ r.got = <<a>>
        PROVE  Comparing(s, later, left)
    BY <1>1, <1>2, <2>2, Zenon DEF Comparing
  <2>3. ASSUME NEW a \in 1 .. top, NEW b \in 1 .. top, NEW e \in 0 .. top, Told(a, e, rows),
               \/ r.todo = << <<"row", b>>, <<"evidence", b>> >> /\ r.got = <<a, e>>
               \/ r.todo = << <<"evidence", b>> >> /\ r.got = <<a, e, b>>
               \/ \E f \in 0 .. top :
                     Told(b, f, rows) /\ r.todo = <<>> /\ r.got = <<a, e, b, f>>
        PROVE  Comparing(s, later, left)
    BY <1>1, <1>2, <2>3, Zenon DEF Comparing
  <2> QED
    BY <1>5, <2>1, <2>2, <2>3, Zenon DEF Comparing
<1> QED
  BY <1>1, <1>3, <1>4, <1>5, Zenon DEF Reader

\* A request begins with nothing read.
LEMMA AskedIsReader ==
    ASSUME latest \in Nat, NEW r, Asked(r)
    PROVE  Reader(r, latest, DOMAIN history)
<1>1. r.kind = "explain" => Explaining(r, latest)
  BY DEF Asked, Explaining, Polls, Writers
<1>2. r.kind = "decision" => Deciding(r, latest, DOMAIN history)
  BY Zenon DEF Asked, Deciding, Decision, Polls, Writers
<1>3. r.kind = "compare" => Comparing(r, latest, DOMAIN history)
  <2> SUFFICES ASSUME r.kind = "compare"
               PROVE  Comparing(r, latest, DOMAIN history)
    OBVIOUS
  <2>1. PICK id \in 2 .. latest : r.todo = Compare(id - 1, id) /\ r.got = <<>>
    BY Zenon DEF Asked, Polls, Writers
  <2>2. id \in 1 .. latest /\ id - 1 \in 1 .. latest
    OBVIOUS
  <2> DEFINE a == id - 1
  <2>3. r.todo = << <<"row", a>>, <<"evidence", a>>, <<"row", id>>, <<"evidence", id>> >>
    BY <2>1, CompareIs
  <2> HIDE DEF a
  <2>4. a \in 1 .. latest
    BY <2>2 DEF a
  <2> QED
    BY <2>1, <2>2, <2>3, <2>4, Zenon DEF Comparing
<1> QED
  BY <1>1, <1>2, <1>3 DEF Reader

\* How tuples grow and shrink.
LEMMA FourAppended ==
    ASSUME NEW a, NEW b, NEW c, NEW d
    PROVE  /\ Append(<<>>, a) = <<a>> /\ Append(<<a>>, b) = <<a, b>>
           /\ Append(<<a, b>>, c) = <<a, b, c>>
           /\ Append(<<a, b, c>>, d) = <<a, b, c, d>>
<1> DEFINE S == {a, b, c, d}
<1>0. a \in S /\ b \in S /\ c \in S /\ d \in S
  OBVIOUS
<1> HIDE DEF S
<1>1. /\ <<>> \in Seq(S) /\ <<a>> \in Seq(S) /\ <<a, b>> \in Seq(S) /\ <<a, b, c>> \in Seq(S)
      /\ <<a, b, c, d>> \in Seq(S)
  BY <1>0
<1>2. /\ Append(<<>>, a) \in Seq(S) /\ Len(Append(<<>>, a)) = 1 /\ Append(<<>>, a)[1] = a
      /\ Append(<<a>>, b) \in Seq(S) /\ Len(Append(<<a>>, b)) = 2
      /\ Append(<<a>>, b)[1] = a /\ Append(<<a>>, b)[2] = b
  BY <1>0
<1>3. /\ Append(<<a, b>>, c) \in Seq(S) /\ Len(Append(<<a, b>>, c)) = 3
      /\ Append(<<a, b>>, c)[1] = a /\ Append(<<a, b>>, c)[2] = b
      /\ Append(<<a, b>>, c)[3] = c
  BY <1>0
<1>4. /\ Append(<<a, b, c>>, d) \in Seq(S) /\ Len(Append(<<a, b, c>>, d)) = 4
      /\ Append(<<a, b, c>>, d)[1] = a /\ Append(<<a, b, c>>, d)[2] = b
      /\ Append(<<a, b, c>>, d)[3] = c /\ Append(<<a, b, c>>, d)[4] = d
  BY <1>0
<1>5. Append(<<>>, a) = <<a>> /\ Append(<<a>>, b) = <<a, b>>
  <2>1. /\ Len(<<a>>) = 1 /\ <<a>>[1] = a
        /\ Len(<<a, b>>) = 2 /\ <<a, b>>[1] = a /\ <<a, b>>[2] = b
    OBVIOUS
  <2>2. /\ \A i \in 1 .. 1 : Append(<<>>, a)[i] = <<a>>[i]
        /\ \A i \in 1 .. 2 : Append(<<a>>, b)[i] = <<a, b>>[i]
    BY <1>2, <2>1
  <2> QED
    BY <1>1, <1>2, <2>1, <2>2, SeqEqual
<1>6. Append(<<a, b>>, c) = <<a, b, c>>
  <2>1. \A i \in 1 .. 3 : Append(<<a, b>>, c)[i] = <<a, b, c>>[i]
    BY <1>3
  <2>2. Len(<<a, b, c>>) = 3
    OBVIOUS
  <2> QED
    BY <1>1, <1>3, <2>1, <2>2, SeqEqual
<1>7. Append(<<a, b, c>>, d) = <<a, b, c, d>>
  <2>1. \A i \in 1 .. 4 : Append(<<a, b, c>>, d)[i] = <<a, b, c, d>>[i]
    BY <1>4
  <2>2. Len(<<a, b, c, d>>) = 4
    OBVIOUS
  <2> QED
    BY <1>1, <1>4, <2>1, <2>2, SeqEqual
<1> QED
  BY <1>5, <1>6, <1>7

LEMMA TuplesGrow ==
    /\ \A a : Append(<<>>, a) = <<a>>
    /\ \A a, b : Append(<<a>>, b) = <<a, b>>
    /\ \A a, b, c : Append(<<a, b>>, c) = <<a, b, c>>
<1>1. \A a : Append(<<>>, a) = <<a>>
  BY FourAppended
<1>2. \A a, b : Append(<<a>>, b) = <<a, b>>
  BY FourAppended
<1>3. \A a, b, c : Append(<<a, b>>, c) = <<a, b, c>>
  BY FourAppended
<1> QED
  BY <1>1, <1>2, <1>3, ZenonT(60)

LEMMA TuplesShrink ==
    /\ \A a : Head(<<a>>) = a /\ Tail(<<a>>) = <<>>
    /\ \A a, b : Head(<<a, b>>) = a /\ Tail(<<a, b>>) = <<b>>
    /\ \A a, b, c : Head(<<a, b, c>>) = a /\ Tail(<<a, b, c>>) = <<b, c>>
    /\ \A a, b, c, d : Head(<<a, b, c, d>>) = a /\ Tail(<<a, b, c, d>>) = <<b, c, d>>
OBVIOUS

\* s is r after one transaction of its handler, which reads.
ReadOn(r, s, top, rows) ==
    \E seen :
       /\ Head(r.todo)[1] \in {"record", "latest evidence"} => seen = top
       /\ Head(r.todo)[1] \in {"row", "evidence"} => seen = Stored(rows, Head(r.todo)[2])
       /\ s.kind = r.kind /\ s.got = Append(r.got, seen)
       /\ IF Head(r.todo)[1] = "row" /\ seen = 0
          THEN s.todo = <<>> /\ s.found = FALSE
          ELSE s.todo = Tail(r.todo) /\ s.found = TRUE

LEMMA PairHas ==
    ASSUME NEW z, NEW x, NEW y, z = <<x, y>>
    PROVE  z[1] = x /\ z[2] = y
OBVIOUS

LEMMA LatestIsRead ==
    ASSUME NEW r, NEW s, NEW top, NEW rows, ReadOn(r, s, top, rows),
           NEW table \in {"record", "latest evidence"}, NEW id, Head(r.todo) = <<table, id>>
    PROVE  s.got = Append(r.got, top) /\ s.todo = Tail(r.todo)
<1>1. Head(r.todo)[1] = table
  BY PairHas, Zenon
<1>2. table # "row"
  OBVIOUS
<1> QED
  BY <1>1, <1>2, Zenon DEF ReadOn

LEMMA RowIsRead ==
    ASSUME NEW r, NEW s, NEW top, NEW rows, ReadOn(r, s, top, rows),
           NEW id, Head(r.todo) = <<"row", id>>, id # 0
    PROVE  \/ s.todo = <<>> /\ s.found = FALSE
           \/ s.got = Append(r.got, id) /\ s.todo = Tail(r.todo)
<1>1. Head(r.todo)[1] = "row" /\ Head(r.todo)[2] = id /\ "row" \in {"row", "evidence"}
  OBVIOUS
<1>2. Stored(rows, id) = id \/ Stored(rows, id) = 0
  BY DEF Stored
<1>3. PICK seen : /\ seen = Stored(rows, id) /\ s.got = Append(r.got, seen)
                  /\ IF seen = 0 THEN s.todo = <<>> /\ s.found = FALSE
                     ELSE s.todo = Tail(r.todo) /\ s.found = TRUE
  BY <1>1, Zenon DEF ReadOn
<1> QED
  BY <1>2, <1>3, Zenon

LEMMA EvidenceIsRead ==
    ASSUME NEW r, NEW s, NEW top, NEW rows, ReadOn(r, s, top, rows),
           NEW id, Head(r.todo) = <<"evidence", id>>
    PROVE  s.got = Append(r.got, Stored(rows, id)) /\ s.todo = Tail(r.todo)
<1>1. /\ Head(r.todo)[1] = "evidence" /\ Head(r.todo)[2] = id
      /\ "evidence" \in {"row", "evidence"} /\ "evidence" # "row"
  OBVIOUS
<1> QED
  BY <1>1, Zenon DEF ReadOn

\* Reading on tells the truth: the row and the evidence of a decision, if they are
\* there, and of a record and its evidence the latest.
LEMMA ReadingTells ==
    ASSUME NEW top \in Nat, NEW rows \in SUBSET (1 .. top), NEW r, NEW s,
           Reader(r, top, rows), r.todo # <<>>, ReadOn(r, s, top, rows)
    PROVE  Reader(s, top, rows)
<1>1. /\ top \in 0 .. top /\ \A a \in 1 .. top : a \in 0 .. top /\ a # 0
      /\ \A a \in 1 .. top : /\ Stored(rows, a) \in 0 .. top
                             /\ Stored(rows, a) = a \/ Stored(rows, a) = 0
                             /\ Told(a, Stored(rows, a), rows)
  BY DEF Stored, Told
<1>2. ASSUME Explaining(r, top)
      PROVE  Explaining(s, top)
  <2>1. CASE r.todo = Explain /\ r.got = <<>>
    <3>1. /\ Head(r.todo) = <<"latest evidence", 0>>
          /\ Tail(r.todo) = << <<"record", 0>> >>
      BY <2>1, TuplesShrink, ZenonT(60) DEF Explain
    <3>2. s.got = Append(<<>>, top) /\ s.todo = << <<"record", 0>> >>
      BY <2>1, <3>1, LatestIsRead
    <3>3. s.got = <<top>>
      BY <3>2, TuplesGrow
    <3> QED
      BY <1>1, <3>2, <3>3 DEF Explaining
  <2>2. ASSUME NEW a \in 0 .. top, r.todo = << <<"record", 0>> >>, r.got = <<a>>
        PROVE  Explaining(s, top)
    <3>1. Head(r.todo) = <<"record", 0>> /\ Tail(r.todo) = <<>>
      BY <2>2, TuplesShrink
    <3>2. s.got = Append(<<a>>, top) /\ s.todo = <<>>
      BY <2>2, <3>1, LatestIsRead
    <3>3. s.got = <<a, top>>
      BY <3>2, TuplesGrow
    <3>4. a <= top
      OBVIOUS
    <3> QED
      BY <1>1, <3>2, <3>3, <3>4 DEF Explaining
  <2> QED
    BY <1>2, <2>1, <2>2 DEF Explaining
<1>3. ASSUME Deciding(r, top, rows)
      PROVE  Deciding(s, top, rows)
  <2>1. PICK a \in 1 .. top :
          \/ r.todo = << <<"row", a>>, <<"evidence", a>> >> /\ r.got = <<>>
          \/ r.todo = << <<"evidence", a>> >> /\ r.got = <<a>>
    BY <1>3 DEF Deciding
  <2>2. CASE r.todo = << <<"row", a>>, <<"evidence", a>> >> /\ r.got = <<>>
    <3>1. Head(r.todo) = <<"row", a>> /\ Tail(r.todo) = << <<"evidence", a>> >>
      BY <2>2, TuplesShrink
    <3>2. \/ s.todo = <<>> /\ s.found = FALSE
          \/ s.got = Append(<<>>, a) /\ s.todo = << <<"evidence", a>> >>
      BY <1>1, <2>2, <3>1, RowIsRead
    <3>3. Append(<<>>, a) = <<a>>
      BY TuplesGrow
    <3> QED
      BY <3>2, <3>3 DEF Deciding
  <2>3. CASE r.todo = << <<"evidence", a>> >> /\ r.got = <<a>>
    <3>1. Head(r.todo) = <<"evidence", a>> /\ Tail(r.todo) = <<>>
      BY <2>3, TuplesShrink
    <3>2. s.got = Append(<<a>>, Stored(rows, a)) /\ s.todo = <<>>
      <4>1. s.got = Append(r.got, Stored(rows, a)) /\ s.todo = Tail(r.todo)
        BY <3>1, EvidenceIsRead
      <4> QED
        BY <2>3, <3>1, <4>1, Zenon
    <3>3. s.got = <<a, Stored(rows, a)>>
      BY <3>2, TuplesGrow
    <3> QED
      BY <1>1, <3>2, <3>3 DEF Deciding
  <2> QED
    BY <2>1, <2>2, <2>3
<1>4. ASSUME Comparing(r, top, rows)
      PROVE  Comparing(s, top, rows)
  <2>1. PICK a \in 1 .. top, b \in 1 .. top :
          \/ /\ r.todo = << <<"row", a>>, <<"evidence", a>>, <<"row", b>>, <<"evidence", b>> >>
             /\ r.got = <<>>
          \/ r.todo = << <<"evidence", a>>, <<"row", b>>, <<"evidence", b>> >> /\ r.got = <<a>>
          \/ \E e \in 0 .. top :
                /\ Told(a, e, rows)
                /\ \/ r.todo = << <<"row", b>>, <<"evidence", b>> >> /\ r.got = <<a, e>>
                   \/ r.todo = << <<"evidence", b>> >> /\ r.got = <<a, e, b>>
    BY <1>4, Zenon DEF Comparing
  <2>2. CASE /\ r.todo = << <<"row", a>>, <<"evidence", a>>, <<"row", b>>, <<"evidence", b>> >>
             /\ r.got = <<>>
    <3>1. /\ Head(r.todo) = <<"row", a>>
          /\ Tail(r.todo) = << <<"evidence", a>>, <<"row", b>>, <<"evidence", b>> >>
      BY <2>2, TuplesShrink
    <3>2. \/ s.todo = <<>> /\ s.found = FALSE
          \/ /\ s.got = Append(<<>>, a)
             /\ s.todo = << <<"evidence", a>>, <<"row", b>>, <<"evidence", b>> >>
      BY <1>1, <2>2, <3>1, RowIsRead
    <3>3. Append(<<>>, a) = <<a>>
      BY TuplesGrow
    <3> QED
      BY <3>2, <3>3, Zenon DEF Comparing
  <2>3. CASE r.todo = << <<"evidence", a>>, <<"row", b>>, <<"evidence", b>> >> /\ r.got = <<a>>
    <3>1. /\ Head(r.todo) = <<"evidence", a>>
          /\ Tail(r.todo) = << <<"row", b>>, <<"evidence", b>> >>
      BY <2>3, TuplesShrink
    <3>2. /\ s.got = Append(<<a>>, Stored(rows, a))
          /\ s.todo = << <<"row", b>>, <<"evidence", b>> >>
      <4>1. s.got = Append(r.got, Stored(rows, a)) /\ s.todo = Tail(r.todo)
        BY <3>1, EvidenceIsRead
      <4> QED
        BY <2>3, <3>1, <4>1, Zenon
    <3>3. s.got = <<a, Stored(rows, a)>>
      BY <3>2, TuplesGrow
    <3> QED
      BY <1>1, <3>2, <3>3, Zenon DEF Comparing
  <2>4. ASSUME NEW e \in 0 .. top, Told(a, e, rows),
               r.todo = << <<"row", b>>, <<"evidence", b>> >>, r.got = <<a, e>>
        PROVE  Comparing(s, top, rows)
    <3>1. Head(r.todo) = <<"row", b>> /\ Tail(r.todo) = << <<"evidence", b>> >>
      BY <2>4, TuplesShrink
    <3>2. \/ s.todo = <<>> /\ s.found = FALSE
          \/ s.got = Append(<<a, e>>, b) /\ s.todo = << <<"evidence", b>> >>
      BY <1>1, <2>4, <3>1, RowIsRead
    <3>3. Append(<<a, e>>, b) = <<a, e, b>>
      BY TuplesGrow
    <3> QED
      BY <2>4, <3>2, <3>3, Zenon DEF Comparing
  <2>5. ASSUME NEW e \in 0 .. top, Told(a, e, rows),
               r.todo = << <<"evidence", b>> >>, r.got = <<a, e, b>>
        PROVE  Comparing(s, top, rows)
    <3>1. Head(r.todo) = <<"evidence", b>> /\ Tail(r.todo) = <<>>
      BY <2>5, TuplesShrink
    <3>2. s.got = Append(<<a, e, b>>, Stored(rows, b)) /\ s.todo = <<>>
      <4>1. s.got = Append(r.got, Stored(rows, b)) /\ s.todo = Tail(r.todo)
        BY <3>1, EvidenceIsRead
      <4> QED
        BY <2>5, <3>1, <4>1, Zenon
    <3>3. s.got = <<a, e, b, Stored(rows, b)>>
      <4> DEFINE f == Stored(rows, b)
      <4>1. s.got = Append(<<a, e, b>>, f)
        BY <3>2
      <4> HIDE DEF f
      <4>2. s.got = <<a, e, b, f>>
        BY <4>1, FourAppended
      <4> QED
        BY <4>2 DEF f
    <3> QED
      BY <1>1, <2>5, <3>2, <3>3, Zenon DEF Comparing
  <2> QED
    BY <2>1, <2>2, <2>3, <2>4, <2>5, Zenon
<1>5. s.kind = r.kind
  BY DEF ReadOn
<1> QED
  BY <1>2, <1>3, <1>4, <1>5, Zenon DEF Reader

\* A handler that is to write is none of a reader.
LEMMA ReadersDoNotWrite ==
    ASSUME NEW top, NEW rows, NEW r, Reader(r, top, rows), r.todo # <<>>,
           Head(r.todo)[1] \in Writes
    PROVE  r.kind \notin {"explain", "decision", "compare"}
<1>1. /\ "latest evidence" \notin Writes /\ "record" \notin Writes
      /\ "row" \notin Writes /\ "evidence" \notin Writes
  BY DEF Writes, Rules
<1>2. Explaining(r, top) => Head(r.todo)[1] \in {"latest evidence", "record"}
  <2> SUFFICES ASSUME Explaining(r, top)
               PROVE  Head(r.todo)[1] \in {"latest evidence", "record"}
    OBVIOUS
  <2>1. \/ r.todo = << <<"latest evidence", 0>>, <<"record", 0>> >>
        \/ r.todo = << <<"record", 0>> >>
    BY DEF Explaining, Explain
  <2>2. CASE r.todo = << <<"latest evidence", 0>>, <<"record", 0>> >>
    <3>1. Head(r.todo) = <<"latest evidence", 0>>
      <4> DEFINE a == <<"latest evidence", 0>>
                 b == <<"record", 0>>
      <4>1. r.todo = <<a, b>>
        BY <2>2
      <4> HIDE DEF a, b
      <4>2. Head(r.todo) = a
        BY <4>1, TuplesShrink
      <4> QED
        BY <4>2 DEF a
    <3>2. Head(r.todo)[1] = "latest evidence"
      BY <3>1, PairHas, Zenon
    <3> QED
      BY <3>2
  <2>3. CASE r.todo = << <<"record", 0>> >>
    <3>1. Head(r.todo) = <<"record", 0>>
      BY <2>3, TuplesShrink
    <3>2. Head(r.todo)[1] = "record"
      BY <3>1, PairHas, Zenon
    <3> QED
      BY <3>2
  <2> QED
    BY <2>1, <2>2, <2>3
<1>3. Deciding(r, top, rows) => Head(r.todo)[1] \in {"row", "evidence"}
  <2> SUFFICES ASSUME Deciding(r, top, rows)
               PROVE  Head(r.todo)[1] \in {"row", "evidence"}
    OBVIOUS
  <2>1. \E a : \/ r.todo = << <<"row", a>>, <<"evidence", a>> >>
               \/ r.todo = << <<"evidence", a>> >>
    BY DEF Deciding
  <2> QED
    BY <2>1, TuplesShrink
<1>4. Comparing(r, top, rows) => Head(r.todo)[1] \in {"row", "evidence"}
  <2> SUFFICES ASSUME Comparing(r, top, rows)
               PROVE  Head(r.todo)[1] \in {"row", "evidence"}
    OBVIOUS
  <2>1. \E a, b :
          \/ r.todo = << <<"row", a>>, <<"evidence", a>>, <<"row", b>>, <<"evidence", b>> >>
          \/ r.todo = << <<"evidence", a>>, <<"row", b>>, <<"evidence", b>> >>
          \/ r.todo = << <<"row", b>>, <<"evidence", b>> >>
          \/ r.todo = << <<"evidence", b>> >>
    BY Zenon DEF Comparing
  <2> QED
    BY <2>1, TuplesShrink
<1> QED
  BY <1>1, <1>2, <1>3, <1>4 DEF Reader

LEMMA ReadIs ==
    ASSUME evidence = DOMAIN history, NEW table, NEW id
    PROVE  /\ table \in {"record", "latest evidence"} => Read(table, id) = latest
           /\ table \in {"row", "evidence"} => Read(table, id) = Stored(DOMAIN history, id)
BY DEF Read

\* ReadNext is a transaction of a reader, on the tables as they are.
LEMMA ReadNextReads ==
    ASSUME Typed, ChainInv, NEW t \in Threads, ReadNext(t)
    PROVE  /\ ReadOn(request[t], request'[t], latest, DOMAIN history)
           /\ request[t].todo # <<>>
           /\ latest' = latest /\ history' = history
<1> DEFINE old == request[t]
           next == Head(old.todo)
           seen == Read(next[1], next[2])
           lost == next[1] = "row" /\ seen = 0
           todo == IF lost THEN <<>> ELSE Tail(old.todo)
           r == [old EXCEPT !.todo = todo, !.got = Append(old.got, seen), !.found = ~lost]
<1>1. /\ old.todo # <<>>
      /\ request' = [request EXCEPT ![t].todo = todo, ![t].got = Append(@, seen),
                                    ![t].found = ~lost]
      /\ latest' = latest /\ history' = history
  BY DEF ReadNext, historyVars
<1>2. request' = [request EXCEPT ![t] = r]
  BY <1>1, Zenon
<1>3. old \in Request
  BY DEF Typed
<1>4. evidence = DOMAIN history
  BY DEF ChainInv, Whole
<1>5. /\ next[1] \in {"record", "latest evidence"} => seen = latest
      /\ next[1] \in {"row", "evidence"} => seen = Stored(DOMAIN history, next[2])
  BY <1>4, ReadIs, Zenon
<1>6. lost <=> next[1] = "row" /\ seen = 0
  OBVIOUS
<1> HIDE DEF seen, lost, next
<1>7. r.kind = old.kind /\ r.got = Append(old.got, seen) /\ r.todo = todo
  BY <1>3 DEF Request
<1>8. r.found = ~lost
  BY <1>3 DEF Request
<1>9. IF lost THEN r.todo = <<>> /\ r.found = FALSE
              ELSE r.todo = Tail(old.todo) /\ r.found = TRUE
  BY <1>7, <1>8
<1>10. request'[t] = r
  BY <1>2 DEF Typed
<1> HIDE DEF r
<1>11. ReadOn(old, r, latest, DOMAIN history)
  BY <1>5, <1>6, <1>7, <1>9, Zenon DEF ReadOn, next
<1> QED
  BY <1>1, <1>10, <1>11

LEMMA WriteNextKeepsKind ==
    ASSUME Typed, NEW t \in Threads, WriteNext(t)
    PROVE  /\ request[t].todo # <<>> /\ Head(request[t].todo)[1] \in Writes
           /\ request'[t].kind = request[t].kind
<1> DEFINE old == request[t]
           todo == IF Refuses \/ (Head(old.todo)[1] = "none" /\ rule = "none")
                   THEN <<>> ELSE Tail(old.todo)
           r == [old EXCEPT !.todo = todo, !.found = ~Refuses]
<1>1. /\ old.todo # <<>> /\ Head(old.todo)[1] \in Writes
      /\ request' = [request EXCEPT ![t].todo = todo, ![t].found = ~Refuses]
  BY DEF WriteNext
<1>2. request' = [request EXCEPT ![t] = r]
  BY <1>1, Zenon
<1>3. old \in Request
  BY DEF Typed
<1>4. r.kind = old.kind
  BY <1>3 DEF Request
<1>5. request'[t] = r
  BY <1>2 DEF Typed
<1> QED
  BY <1>1, <1>4, <1>5

\* A handler that reads or writes has not answered.
LEMMA WorkingIsNotAnswered ==
    ASSUME Typed, NEW t \in Threads, ReadNext(t) \/ WriteNext(t)
    PROVE  request'[t].pc = "working"
<1>1. request[t].pc = "working" /\ request[t] \in Request
  BY DEF ReadNext, WriteNext, Typed
<1>2. \A todo, got, found :
         [request[t] EXCEPT !.todo = todo, !.got = got, !.found = found].pc = "working"
  BY <1>1 DEF Request
<1>3. \A todo, found : [request[t] EXCEPT !.todo = todo, !.found = found].pc = "working"
  BY <1>1 DEF Request
<1>4. CASE ReadNext(t)
  <2>1. PICK todo, got, found :
          request' = [request EXCEPT ![t].todo = todo, ![t].got = got, ![t].found = found]
    BY <1>4, Zenon DEF ReadNext
  <2>2. request'[t] = [request[t] EXCEPT !.todo = todo, !.got = got, !.found = found]
    BY <2>1 DEF Typed
  <2> QED
    BY <1>2, <2>2
<1>5. CASE WriteNext(t)
  <2>1. PICK todo, found :
          request' = [request EXCEPT ![t].todo = todo, ![t].found = found]
    BY <1>5, Zenon DEF WriteNext
  <2>2. request'[t] = [request[t] EXCEPT !.todo = todo, !.found = found]
    BY <2>1 DEF Typed
  <2> QED
    BY <1>3, <2>2
<1> QED
  BY <1>4, <1>5

DashboardInv == Typed /\ ChainInv /\ ReadersInv /\ AnswersInv

LEMMA DashboardInvStep ==
    ASSUME DashboardInv, [DashboardNext]_dashboardVars
    PROVE  DashboardInv'
<1>1. Typed /\ ChainInv /\ ReadersInv /\ AnswersInv
  BY DEF DashboardInv
<1>2. Typed' /\ ChainInv'
  BY <1>1, Steps, HistoryMoves
<1>3. /\ latest \in Nat /\ latest' \in Nat /\ latest <= latest'
      /\ DOMAIN history \in SUBSET (1 .. latest)
      /\ \A id \in 1 .. latest : id \in DOMAIN history' => id \in DOMAIN history
  BY <1>1, <1>2, HistoryMoves DEF ChainInv
<1>4. ASSUME NEW t \in Threads
      PROVE  Reader(request'[t], latest', DOMAIN history')
  <2>1. Moved(t) /\ Reader(request[t], latest, DOMAIN history)
    BY <1>1, Steps DEF ReadersInv
  <2>2. CASE SameWork(request'[t], request[t])
    BY <1>3, <2>1, <2>2, ReaderKeeps
  <2>3. CASE request'[t] = NoRequest
    BY <2>3 DEF Reader, NoRequest
  <2>4. CASE Asked(request'[t]) /\ latest' = latest
    <3>1. Reader(request'[t], latest, DOMAIN history)
      BY <1>3, <2>4, AskedIsReader
    <3>2. SameWork(request'[t], request'[t])
      BY DEF SameWork
    <3> QED
      BY <1>3, <3>1, <3>2, ReaderKeeps
  <2>5. CASE ReadNext(t)
    <3>1. /\ ReadOn(request[t], request'[t], latest, DOMAIN history)
          /\ request[t].todo # <<>>
          /\ latest' = latest /\ history' = history
      BY <1>1, <2>5, ReadNextReads
    <3>2. Reader(request'[t], latest, DOMAIN history)
      BY <1>3, <2>1, <3>1, ReadingTells
    <3> QED
      BY <3>1, <3>2
  <2>6. CASE WriteNext(t)
    <3>1. /\ request[t].todo # <<>> /\ Head(request[t].todo)[1] \in Writes
          /\ request'[t].kind = request[t].kind
      BY <1>1, <2>6, WriteNextKeepsKind
    <3>2. request[t].kind \notin {"explain", "decision", "compare"}
      BY <2>1, <3>1, ReadersDoNotWrite
    <3> QED
      BY <3>1, <3>2 DEF Reader
  <2> QED
    BY <2>1, <2>2, <2>3, <2>4, <2>5, <2>6 DEF Moved
<1>5. ReadersInv'
  BY <1>4 DEF ReadersInv
<1>6. ASSUME NEW t \in Threads
      PROVE  Finished(request'[t])
  <2>1. Moved(t) /\ Finished(request[t])
    BY <1>1, Steps DEF AnswersInv
  <2>2. CASE SameWork(request'[t], request[t])
    BY <2>1, <2>2 DEF SameWork, Finished
  <2>3. CASE request'[t] = NoRequest
    BY <2>3 DEF Finished, NoRequest
  <2>4. CASE Asked(request'[t])
    BY <2>4 DEF Finished, Asked
  <2>5. CASE ReadNext(t) \/ WriteNext(t)
    BY <1>1, <2>5, WorkingIsNotAnswered DEF Finished
  <2> QED
    BY <2>1, <2>2, <2>3, <2>4, <2>5 DEF Moved
<1>7. AnswersInv'
  BY <1>6 DEF AnswersInv
<1> QED
  BY <1>2, <1>5, <1>7 DEF DashboardInv

LEMMA DashboardInvBegins ==
    ASSUME DashboardInit
    PROVE  DashboardInv
<1>1. request = [t \in Threads |-> NoRequest]
  BY DEF DashboardInit
<1>2. NoRequest.kind = "none" /\ NoRequest.todo = <<>>
  BY DEF NoRequest
<1> HIDE DEF NoRequest
<1>3. ReadersInv
  BY <1>1, <1>2 DEF ReadersInv, Reader
<1>4. AnswersInv
  BY <1>1, <1>2 DEF AnswersInv, Finished
<1> QED
  BY <1>3, <1>4, TypedBegins, ChainBegins DEF DashboardInv

\* The answer of explain_domain never shows evidence of a later decision than its
\* record, and an answer about decisions of the history lacks the evidence of one only
\* when retention has deleted that decision meanwhile, however requests, the engine and
\* retention interleave.
THEOREM ExplanationsAreSound == DashboardSpec => []ExplanationIsSound
<1>1. ASSUME DashboardInv
      PROVE  ExplanationIsSound
  <2> SUFFICES ASSUME NEW t \in Threads,
                      request[t].pc = "answered", request[t].found
               PROVE  LET got == request[t].got IN
                      /\ request[t].kind = "explain" => got[1] <= got[2]
                      /\ request[t].kind \in {"decision", "compare"} =>
                            \A i \in 1 .. Len(got) \div 2 :
                               got[2 * i] # got[2 * i - 1]
                                 => got[2 * i - 1] \notin DOMAIN history
    BY Zenon DEF ExplanationIsSound
  <2> DEFINE got == request[t].got
  <2>1. /\ Reader(request[t], latest, DOMAIN history) /\ request[t].todo = <<>>
        /\ latest \in Nat
    BY <1>1 DEF DashboardInv, ReadersInv, AnswersInv, Finished, ChainInv
  <2>2. ASSUME request[t].kind = "explain"
        PROVE  got[1] <= got[2]
    <3>1. Explain # <<>> /\ << <<"record", 0>> >> # <<>>
      BY DEF Explain
    <3>2. PICK a \in 0 .. latest, b \in 0 .. latest : a <= b /\ got = <<a, b>>
      BY <2>1, <2>2, <3>1, Zenon DEF Reader, Explaining
    <3> QED
      BY <3>2, PairHas
  <2>3. ASSUME request[t].kind = "decision", NEW i \in 1 .. Len(got) \div 2,
               got[2 * i] # got[2 * i - 1]
        PROVE  got[2 * i - 1] \notin DOMAIN history
    <3>1. PICK a, e : Told(a, e, DOMAIN history) /\ got = <<a, e>>
      BY <2>1, <2>3 DEF Reader, Deciding
    <3> HIDE DEF got
    <3>2. Len(got) = 2 /\ got[1] = a /\ got[2] = e
      BY <3>1
    <3>3. i = 1
      BY <3>2
    <3> QED
      BY <2>3, <3>1, <3>2, <3>3 DEF Told
  <2>4. ASSUME request[t].kind = "compare", NEW i \in 1 .. Len(got) \div 2,
               got[2 * i] # got[2 * i - 1]
        PROVE  got[2 * i - 1] \notin DOMAIN history
    <3>1. PICK a, e, b, f : /\ Told(a, e, DOMAIN history) /\ Told(b, f, DOMAIN history)
                            /\ got = <<a, e, b, f>>
      BY <2>1, <2>4 DEF Reader, Comparing
    <3> HIDE DEF got
    <3>2. Len(got) = 4 /\ got[1] = a /\ got[2] = e /\ got[3] = b /\ got[4] = f
      BY <3>1
    <3>3. i = 1 \/ i = 2
      BY <3>2
    <3> QED
      BY <2>4, <3>1, <3>2, <3>3 DEF Told
  <2> QED
    BY <2>2, <2>3, <2>4
<1>2. DashboardInv /\ [DashboardNext]_dashboardVars => DashboardInv'
  BY DashboardInvStep
<1> QED
  BY <1>1, <1>2, DashboardInvBegins, PTL DEF DashboardSpec

===============================================================================
