----------------------- MODULE ServiceLifecycleProofs -----------------------
(* Theorems about ServiceLifecycle, for every number of administrators, every *)
(* set of daemons and timers, every history of releases and their schemas.    *)
EXTENDS ServiceLifecycle, MigrationsProofs, SequenceTheorems

-----------------------------------------------------------------------------
(* Programs are sequences of steps *)

LEMMA OrdersTyped ==
    /\ Releases \in Seq(Nat \ {0}) /\ Len(Releases) \in Nat \ {0}
    /\ StartOrder \in Seq(Daemons) /\ StartOrder \in Seq(Units)
    /\ Timers \in Seq(Units)
    /\ UnitOrder \in Seq(Units)
    /\ UnitOrder \o <<Launcher>> \in Seq(Files)
    /\ Reverse(StartOrder) \in Seq(Units)
<1>1. Releases \in Seq(Nat \ {0}) /\ Len(Releases) \in Nat \ {0}
  BY LifecycleAssumption, EmptySeq
<1>2. StartOrder \in Seq(Units) /\ Timers \in Seq(Units)
  BY LifecycleAssumption DEF Units, Daemons
<1>3. StartOrder \in Seq(Daemons)
  <2>1. \A i \in 1 .. Len(StartOrder) : StartOrder[i] \in Daemons
    BY <1>2 DEF Daemons, Range
  <2> QED
    BY <1>2, <2>1
<1>4. UnitOrder \in Seq(Units)
  BY <1>2 DEF UnitOrder
<1>5. UnitOrder \o <<Launcher>> \in Seq(Files)
  <2>1. UnitOrder \in Seq(Files) /\ <<Launcher>> \in Seq(Files)
    <3>1. \A i \in 1 .. Len(UnitOrder) : UnitOrder[i] \in Files
      BY <1>4 DEF Files
    <3>2. Launcher \in Files
      BY DEF Files
    <3> QED
      BY <1>4, <3>1, <3>2
  <2> QED
    BY <2>1
<1>6. Reverse(StartOrder) \in Seq(Units)
  <2>1. Reverse(StartOrder) = [i \in 1 .. Len(StartOrder) |-> StartOrder[(Len(StartOrder) - i) + 1]]
    BY DEF Reverse
  <2>2. \A i \in 1 .. Len(StartOrder) : StartOrder[(Len(StartOrder) - i) + 1] \in Units
    BY <1>2
  <2>3. Len(StartOrder) \in Nat
    BY <1>2
  <2> QED
    BY <2>1, <2>2, <2>3, IsASeq
<1> QED
  BY <1>1, <1>2, <1>3, <1>4, <1>5, <1>6

-----------------------------------------------------------------------------
(* The lock in a sequence of steps *)

\* Steps that neither take nor drop the lock and are not of a recovery.
Inner == {step \in Step : step.do \notin {"lock", "unlock", "rewrite"}}

\* A command that is to take the lock, one that has it, one that recovers.
BeforeLock(t) ==
    \E k \in 1 .. Len(t) - 1 :
        /\ t[k].do = "lock" /\ t[Len(t)].do = "unlock"
        /\ \A i \in 1 .. Len(t) : i # k /\ i # Len(t) => t[i] \in Inner

UnderLock(t) ==
    /\ t # <<>> /\ t[Len(t)].do = "unlock"
    /\ \A i \in 1 .. Len(t) - 1 : t[i] \in Inner

AfterLock(t) == \A i \in 1 .. Len(t) : t[i].do \notin {"lock", "unlock"}

LEMMA EachTyped ==
    /\ \A do \in Calls, order \in Seq(Units) : Each(do, order) \in Seq(Inner)
    /\ \A do \in {"ask", "write", "update", "remove"}, order \in Seq(Files) :
          Each(do, order) \in Seq(Inner)
    /\ \A order \in Seq(Files) : Each("rewrite", order) \in Seq(Step)
<1>1. ASSUME NEW S, NEW T, NEW do, NEW order \in Seq(S),
             \A f \in S : [do |-> do, on |-> {f}] \in T
      PROVE  Each(do, order) \in Seq(T)
  <2>1. Each(do, order) = [i \in 1 .. Len(order) |-> [do |-> do, on |-> {order[i]}]]
    BY <1>1 DEF Each
  <2>2. \A i \in 1 .. Len(order) : [do |-> do, on |-> {order[i]}] \in T
    BY <1>1
  <2>3. Len(order) \in Nat
    BY <1>1
  <2> QED
    BY <2>1, <2>2, <2>3, IsASeq
<1>2. \A do \in Calls, f \in Units : [do |-> do, on |-> {f}] \in Inner
  BY DEF Inner, Step, Calls
<1>3. \A do \in {"ask", "write", "update", "remove"}, f \in Files :
         [do |-> do, on |-> {f}] \in Inner
  BY DEF Inner, Step, Calls
<1>4. \A f \in Files : [do |-> "rewrite", on |-> {f}] \in Step
  BY DEF Step
<1> QED
  BY <1>1, <1>2, <1>3, <1>4

LEMMA AllTyped ==
    /\ \A do \in Calls, on \in SUBSET Units : All(do, on) \in Seq(Inner)
    /\ \A do \in {"preflight", "status", "migrate"} : Just(do) \in Seq(Inner)
    /\ Just("lock") \in Seq(Step) /\ Just("unlock") \in Seq(Step)
<1>1. \A do \in Calls, on \in SUBSET Units : [do |-> do, on |-> on] \in Inner
  BY DEF Inner, Step, Calls
<1>2. \A do \in {"preflight", "status", "migrate"} : [do |-> do, on |-> {}] \in Inner
  BY DEF Inner, Step, Calls
<1>3. \A do \in {"lock", "unlock"} : [do |-> do, on |-> {}] \in Step
  BY DEF Step
<1> QED
  BY <1>1, <1>2, <1>3 DEF All, Just

LEMMA ConcatSteps ==
    ASSUME NEW a \in Seq(Step), NEW b \in Seq(Step)
    PROVE  /\ a \o b \in Seq(Step) /\ Len(a) \in Nat /\ Len(b) \in Nat
           /\ Len(a \o b) = Len(a) + Len(b)
           /\ \A i \in 1 .. Len(a) : (a \o b)[i] = a[i]
           /\ \A i \in 1 .. Len(b) : (a \o b)[Len(a) + i] = b[i]
BY ConcatProperties

LEMMA LockedShape ==
    ASSUME NEW A \in Seq(Inner), NEW B \in Seq(Inner)
    PROVE  A \o Locked(B) \in Seq(Step) /\ BeforeLock(A \o Locked(B))
<1> DEFINE l == Just("lock")
           u == Just("unlock")
           t == A \o Locked(B)
<1>1. A \in Seq(Step) /\ B \in Seq(Step)
  BY SeqMonotonic DEF Inner
<1>2. l \in Seq(Step) /\ u \in Seq(Step) /\ Len(l) = 1 /\ Len(u) = 1
      /\ l[1].do = "lock" /\ u[1].do = "unlock"
  BY AllTyped DEF Just, All
<1> HIDE DEF l, u
<1>3. /\ l \o B \in Seq(Step) /\ Len(l \o B) = 1 + Len(B) /\ Len(B) \in Nat
      /\ (l \o B)[1] = l[1]
      /\ \A i \in 1 .. Len(B) : (l \o B)[1 + i] = B[i]
  <2>1. /\ l \o B \in Seq(Step) /\ Len(B) \in Nat
        /\ Len(l \o B) = Len(l) + Len(B)
        /\ \A i \in 1 .. Len(l) : (l \o B)[i] = l[i]
        /\ \A i \in 1 .. Len(B) : (l \o B)[Len(l) + i] = B[i]
    BY <1>1, <1>2, ConcatSteps
  <2>2. 1 \in 1 .. Len(l)
    BY <1>2
  <2> QED
    BY <1>2, <2>1, <2>2
<1> DEFINE m == l \o B
<1> HIDE DEF m
<1>4. /\ Locked(B) \in Seq(Step) /\ Len(Locked(B)) = Len(m) + 1
      /\ \A i \in 1 .. Len(m) : Locked(B)[i] = m[i]
      /\ Locked(B)[Len(m) + 1] = u[1]
  <2>1. Locked(B) = m \o u /\ m \in Seq(Step)
    BY <1>3 DEF Locked, l, u, m
  <2>2. /\ m \o u \in Seq(Step) /\ Len(m \o u) = Len(m) + Len(u)
        /\ \A i \in 1 .. Len(m) : (m \o u)[i] = m[i]
        /\ \A i \in 1 .. Len(u) : (m \o u)[Len(m) + i] = u[i]
    BY <1>2, <2>1, ConcatSteps
  <2>3. 1 \in 1 .. Len(u)
    BY <1>2
  <2> QED
    BY <1>2, <2>1, <2>2, <2>3
<1> DEFINE n == Locked(B)
<1> HIDE DEF n
<1>5. /\ t \in Seq(Step) /\ Len(t) = Len(A) + Len(n) /\ Len(A) \in Nat
      /\ \A i \in 1 .. Len(A) : t[i] = A[i]
      /\ \A i \in 1 .. Len(n) : t[Len(A) + i] = n[i]
  <2>1. n \in Seq(Step) /\ t = A \o n
    BY <1>4 DEF n
  <2> QED
    BY <1>1, <2>1, ConcatSteps
<1> HIDE DEF t
<1>6. Len(m) = 1 + Len(B) /\ Len(n) = Len(m) + 1 /\ Len(B) \in Nat
  BY <1>3, <1>4 DEF m, n
<1> DEFINE k == Len(A) + 1
<1>7. t[k].do = "lock"
  <2>1. t[k] = n[1]
    BY <1>5, <1>6
  <2>2. n[1] = m[1]
    BY <1>4, <1>6 DEF n
  <2> QED
    BY <1>2, <1>3, <2>1, <2>2 DEF m
<1>8. t[Len(t)].do = "unlock"
  <2>1. t[Len(A) + Len(n)] = n[Len(n)]
    BY <1>5, <1>6
  <2>2. n[Len(n)] = u[1]
    BY <1>4, <1>6 DEF n
  <2> QED
    BY <1>2, <1>5, <2>1, <2>2
<1>9. ASSUME NEW i \in 1 .. Len(t), i # k, i # Len(t)
      PROVE  t[i] \in Inner
  <2>1. CASE i <= Len(A)
    <3>1. t[i] = A[i] /\ i \in 1 .. Len(A)
      BY <1>5, <2>1
    <3> QED
      BY <3>1
  <2>2. CASE i > Len(A)
    <3> DEFINE j == (i - Len(A)) - 1
    <3>1. j \in 1 .. Len(B) /\ i = Len(A) + (1 + j) /\ 1 + j \in 1 .. Len(m)
          /\ 1 + j \in 1 .. Len(n)
      <4>1. Len(t) = Len(A) + (2 + Len(B)) /\ Len(A) \in Nat /\ Len(B) \in Nat
            /\ i \in 1 .. Len(t) /\ i # Len(A) + 1 /\ i # Len(t) /\ i > Len(A)
        BY <1>5, <1>6, <1>9, <2>2
      <4> HIDE DEF k
      <4>2. j \in 1 .. Len(B) /\ i = Len(A) + (1 + j)
        BY <4>1
      <4> QED
        BY <1>6, <4>1, <4>2
    <3> HIDE DEF j
    <3>2. t[i] = n[1 + j]
      BY <1>5, <3>1
    <3>3. n[1 + j] = m[1 + j]
      BY <1>4, <3>1 DEF n
    <3>4. m[1 + j] = B[j]
      BY <1>3, <3>1 DEF m
    <3> QED
      BY <3>1, <3>2, <3>3, <3>4
  <2> QED
    BY <1>5, <2>1, <2>2
<1>10. k \in 1 .. Len(t) - 1
  BY <1>5, <1>6
<1> QED
  BY <1>5, <1>7, <1>8, <1>9, <1>10 DEF BeforeLock, t

LEMMA ProgramShape ==
    ASSUME NEW cmd \in Commands
    PROVE  Program(cmd) \in Seq(Step) /\ BeforeLock(Program(cmd))
<1> DEFINE Good(t) == t \in Seq(Step) /\ BeforeLock(t)
<1>1. \A B \in Seq(Inner) : Good(Locked(B))
  <2> TAKE B \in Seq(Inner)
  <2>1. Good(<<>> \o Locked(B)) /\ Locked(B) \in Seq(Step)
    <3>1. <<>> \in Seq(Inner) /\ Just("lock") \in Seq(Step) /\ Just("unlock") \in Seq(Step)
          /\ B \in Seq(Step)
      BY EmptySeq, AllTyped, SeqMonotonic DEF Inner
    <3> QED
      BY <3>1, LockedShape, ConcatProperties DEF Locked
  <2> QED
    BY <2>1, ConcatEmptySeq
<1>2. ASSUME NEW enable \in BOOLEAN, NEW start \in BOOLEAN PROVE Good(Install(enable, start))
  <2>1. Just("preflight") \in Seq(Inner) /\ Just("migrate") \in Seq(Inner)
        /\ All("enable", Units) \in Seq(Inner) /\ All("start", Daemons) \in Seq(Inner)
        /\ Each("write", UnitOrder \o <<Launcher>>) \in Seq(Inner)
    BY AllTyped, EachTyped, OrdersTyped DEF Calls, Units
  <2>2. /\ (IF enable THEN All("enable", Units) ELSE <<>>) \in Seq(Inner)
        /\ (IF start THEN All("start", Daemons) ELSE <<>>) \in Seq(Inner)
    BY <2>1, EmptySeq
  <2> QED
    BY <2>1, <2>2, LockedShape, ConcatProperties DEF Install
<1>3. Good(Uninstall)
  <2>1. Just("preflight") \in Seq(Inner) /\ All("disable --now", Units) \in Seq(Inner)
        /\ Each("remove", UnitOrder \o <<Launcher>>) \in Seq(Inner)
    BY AllTyped, EachTyped, OrdersTyped DEF Calls
  <2> QED
    BY <2>1, LockedShape, ConcatProperties DEF Uninstall
<1>4. RestoreStates \in Seq(Inner)
  BY EachTyped, OrdersTyped, ConcatProperties DEF RestoreStates, Calls
<1>5. Good(Upgrade)
  <2>1. \A s \in Seq(Units) : s \in Seq(Files)
    BY SeqMonotonic DEF Files
  <2>2. Just("preflight") \in Seq(Inner) /\ Just("status") \in Seq(Inner)
        /\ Just("migrate") \in Seq(Inner) /\ Each("ask", StartOrder) \in Seq(Inner)
        /\ Each("update", UnitOrder) \in Seq(Inner)
    BY <2>1, AllTyped, EachTyped, OrdersTyped
  <2> QED
    BY <1>4, <2>2, LockedShape, ConcatProperties DEF Upgrade
<1>6. /\ All("enable", Units) \in Seq(Inner) /\ All("disable", Units) \in Seq(Inner)
      /\ Each("start", StartOrder) \in Seq(Inner) /\ Each("stop", Reverse(StartOrder)) \in Seq(Inner)
      /\ All("restart", Daemons) \in Seq(Inner)
  BY AllTyped, EachTyped, OrdersTyped DEF Calls, Units
<1> HIDE DEF Good
<1>7. Good(Program(cmd))
  BY <1>1, <1>2, <1>3, <1>5, <1>6, LifecycleAssumption DEF Program
<1> QED
  BY <1>7 DEF Good

LEMMA RecoveryShape == Recovery \in Seq(Step) /\ AfterLock(Recovery)
<1>1. \A s \in Seq(Units) : s \in Seq(Files)
  BY SeqMonotonic DEF Files
<1> DEFINE R == {step \in Step : step.do \notin {"lock", "unlock"}}
<1>2. Each("rewrite", UnitOrder) \in Seq(R)
  <2>1. Each("rewrite", UnitOrder) \in Seq(Step)
    BY <1>1, EachTyped, OrdersTyped
  <2>2. \A i \in 1 .. Len(Each("rewrite", UnitOrder)) : Each("rewrite", UnitOrder)[i].do = "rewrite"
    BY OrdersTyped DEF Each
  <2>3. \A i \in 1 .. Len(Each("rewrite", UnitOrder)) : Each("rewrite", UnitOrder)[i] \in R
    BY <2>1, <2>2, ElementOfSeq
  <2> HIDE DEF R
  <2> QED
    BY <2>1, <2>3
<1>3. RestoreStates \in Seq(R)
  <2>1. RestoreStates \in Seq(Inner)
    BY EachTyped, OrdersTyped, ConcatProperties DEF RestoreStates, Calls
  <2> QED
    BY <2>1, SeqMonotonic DEF Inner
<1> HIDE DEF R
<1>4. Recovery \in Seq(R)
  BY <1>2, <1>3, ConcatProperties DEF Recovery
<1> QED
  BY <1>4, SeqMonotonic DEF AfterLock, R

-----------------------------------------------------------------------------
(* The commands and the lock *)

\* Only in its locked part a command may have the lock; there it may have lost it.
Shape(p, holder, o) ==
    IF o.todo = <<>> THEN holder # p
    ELSE \/ BeforeLock(o.todo) /\ holder # p
         \/ UnderLock(o.todo)
         \/ AfterLock(o.todo) /\ o.cmd = "upgrade" /\ holder # p

CommandsInv ==
    /\ op \in [Admins -> Op]
    /\ lock \in Admins \cup {Nobody}
    /\ \A p \in Admins : Shape(p, lock, op[p])
    /\ \A p \in Admins : Active(p) => op[p].release # 0

\* The next step of a program, and what is left of it.
LEMMA HeadOfShape ==
    ASSUME NEW t \in Seq(Step), t # <<>>
    PROVE  /\ Len(t) \in Nat \ {0} /\ Head(t) = t[1] /\ t[1] \in Step
           /\ Tail(t) \in Seq(Step) /\ Len(Tail(t)) = Len(t) - 1
           /\ \A i \in 1 .. Len(t) - 1 : Tail(t)[i] = t[i + 1]
           /\ Len(t) > 1 <=> Tail(t) # <<>>
<1>1. Len(t) \in Nat \ {0}
  BY EmptySeq
<1>2. Head(t) = t[1] /\ t[1] \in Step
  BY <1>1
<1>3. Tail(t) \in Seq(Step) /\ Len(Tail(t)) = Len(t) - 1
  BY HeadTailProperties
<1>4. \A i \in 1 .. Len(t) - 1 : Tail(t)[i] = t[i + 1]
  BY <1>1
<1>5. Len(t) > 1 <=> Tail(t) # <<>>
  <2>1. Tail(t) = <<>> => Len(Tail(t)) = 0
    BY EmptySeq
  <2>2. Tail(t) # <<>> => Len(Tail(t)) \in Nat \ {0}
    BY <1>3, EmptySeq
  <2> QED
    BY <1>1, <1>3, <2>1, <2>2
<1> QED
  BY <1>1, <1>2, <1>3, <1>4, <1>5

LEMMA NextShape ==
    ASSUME NEW t \in Seq(Step), t # <<>>
    PROVE  /\ BeforeLock(t) => /\ Len(t) > 1
                               /\ Head(t).do # "unlock" /\ Head(t).do # "rewrite"
                               /\ Head(t).do # "lock" => BeforeLock(Tail(t))
                               /\ Head(t).do = "lock" => UnderLock(Tail(t))
           /\ UnderLock(t) => /\ Head(t).do # "lock" /\ Head(t).do # "rewrite"
                              /\ Head(t).do # "unlock" => Len(t) > 1 /\ UnderLock(Tail(t))
                              /\ Head(t).do = "unlock" => Len(t) = 1
           /\ AfterLock(t) => /\ Head(t).do \notin {"lock", "unlock"}
                              /\ AfterLock(Tail(t))
<1> DEFINE n == Len(t)
           r == Tail(t)
<1>1. /\ n \in Nat \ {0} /\ Head(t) = t[1] /\ r \in Seq(Step) /\ Len(r) = n - 1
      /\ \A i \in 1 .. n - 1 : r[i] = t[i + 1]
      /\ n > 1 <=> r # <<>>
  BY HeadOfShape
<1> HIDE DEF n, r
<1>2. \A step \in Inner : step.do \notin {"lock", "unlock", "rewrite"}
  BY DEF Inner
<1>3. ASSUME BeforeLock(t)
      PROVE  /\ n > 1 /\ Head(t).do # "unlock" /\ Head(t).do # "rewrite"
             /\ Head(t).do # "lock" => BeforeLock(r)
             /\ Head(t).do = "lock" => UnderLock(r)
  <2>1. PICK k \in 1 .. n - 1 :
           /\ t[k].do = "lock" /\ t[n].do = "unlock"
           /\ \A i \in 1 .. n : i # k /\ i # n => t[i] \in Inner
    BY <1>3 DEF BeforeLock, n
  <2>2. n > 1 /\ r[n - 1] = t[n]
    BY <1>1, <2>1
  <2>3. CASE k = 1
    <3>1. \A i \in 1 .. n - 2 : r[i] \in Inner
      BY <1>1, <2>1, <2>3
    <3> QED
      BY <1>1, <2>1, <2>2, <2>3, <3>1 DEF UnderLock
  <2>4. CASE k # 1
    <3>1. t[1] \in Inner
      BY <1>1, <2>1, <2>4
    <3>2. k - 1 \in 1 .. Len(r) - 1 /\ r[k - 1] = t[k]
      BY <1>1, <2>1, <2>4
    <3>3. \A i \in 1 .. Len(r) : i # k - 1 /\ i # Len(r) => r[i] \in Inner
      BY <1>1, <2>1, <2>4, SMTT(40)
    <3>4. BeforeLock(r)
      BY <1>1, <2>1, <2>2, <3>2, <3>3 DEF BeforeLock
    <3> QED
      BY <1>1, <1>2, <2>2, <3>1, <3>4
  <2> QED
    BY <2>3, <2>4
<1>4. ASSUME UnderLock(t)
      PROVE  /\ Head(t).do # "lock" /\ Head(t).do # "rewrite"
             /\ Head(t).do # "unlock" => n > 1 /\ UnderLock(r)
             /\ Head(t).do = "unlock" => n = 1
  <2>1. t[n].do = "unlock" /\ \A i \in 1 .. n - 1 : t[i] \in Inner
    BY <1>4 DEF UnderLock, n
  <2>2. CASE n = 1
    BY <1>1, <2>1, <2>2
  <2>3. CASE n # 1
    <3>1. t[1] \in Inner /\ n > 1
      BY <1>1, <2>1, <2>3
    <3>2. r[Len(r)].do = "unlock" /\ r # <<>> /\ \A i \in 1 .. Len(r) - 1 : r[i] \in Inner
      BY <1>1, <2>1, <3>1
    <3> QED
      BY <1>1, <1>2, <3>1, <3>2 DEF UnderLock
  <2> QED
    BY <2>2, <2>3
<1>5. ASSUME AfterLock(t)
      PROVE  Head(t).do \notin {"lock", "unlock"} /\ AfterLock(r)
  <2>1. \A i \in 1 .. n : t[i].do \notin {"lock", "unlock"}
    BY <1>5 DEF AfterLock, n
  <2> QED
    BY <1>1, <2>1 DEF AfterLock
<1> QED
  BY <1>3, <1>4, <1>5 DEF n, r

LEMMA IdleOpTyped == IdleOp \in Op /\ IdleOp.todo = <<>>
<1>1. <<>> \in Seq(Step)
  BY EmptySeq
<1>2. /\ [s \in Daemons |-> [enabled |-> FALSE, active |-> FALSE]] \in [Daemons -> ServiceState]
      /\ [f \in Files |-> Absent] \in [Files -> Contents]
      /\ 0 \in 0 .. Len(Releases)
  BY OrdersTyped DEF ServiceState, Absent, Contents, Foreign
<1> QED
  BY <1>1, <1>2 DEF IdleOp, Op

LEMMA OverTyped ==
    ASSUME CommandsInv, NEW p \in Admins, NEW how \in {"ok", "failed", "killed"}
    PROVE  Over(p, how) \in Op /\ Over(p, how).todo = <<>>
BY IdleOpTyped DEF CommandsInv, Over, Op

LEMMA AdvancedTyped ==
    ASSUME CommandsInv, NEW p \in Admins, Active(p)
    PROVE  /\ Advanced(p) \in Op
           /\ Advanced(p).todo = Tail(op[p].todo)
           /\ Advanced(p).todo # <<>> => /\ Advanced(p).release = op[p].release
                                         /\ Advanced(p).cmd = op[p].cmd
<1>1. op[p] \in Op /\ op[p].todo \in Seq(Step) /\ op[p].todo # <<>>
  BY DEF CommandsInv, Op, Active
<1>2. Tail(op[p].todo) \in Seq(Step) /\ (Len(op[p].todo) > 1 <=> Tail(op[p].todo) # <<>>)
  BY <1>1, HeadOfShape
<1>3. CASE Len(op[p].todo) > 1
  <2>1. Advanced(p) = [op[p] EXCEPT !.todo = Tail(op[p].todo)]
    BY <1>3 DEF Advanced
  <2> QED
    BY <1>1, <1>2, <2>1 DEF Op
<1>4. CASE ~(Len(op[p].todo) > 1)
  <2>1. PICK how \in {"ok", "failed"} : Advanced(p) = Over(p, how)
    BY <1>4 DEF Advanced
  <2> QED
    BY <1>2, <1>4, <2>1, OverTyped
<1> QED
  BY <1>3, <1>4

\* A step within the program, or of the lock itself.
LEMMA GoesOnKeeps ==
    ASSUME CommandsInv, NEW p \in Admins, Active(p), NEW o \in Op,
           op' = [op EXCEPT ![p] = o],
           o.todo = Advanced(p).todo, o.cmd = Advanced(p).cmd, o.release = Advanced(p).release,
           \/ ~At(p, "lock") /\ ~At(p, "unlock") /\ lock' \in {lock, Nobody}
           \/ At(p, "lock") /\ lock = Nobody /\ lock' = p
           \/ At(p, "unlock") /\ lock' = LockAfter(p)
    PROVE  CommandsInv'
<1>1. op' \in [Admins -> Op] /\ lock' \in Admins \cup {Nobody} /\ p # Nobody
  BY LifecycleAssumption DEF CommandsInv, LockAfter
<1>2. /\ op[p] \in Op /\ op[p].todo \in Seq(Step) /\ op[p].todo # <<>>
      /\ Shape(p, lock, op[p])
  BY DEF CommandsInv, Op, Active
<1>3. Current(p) = Head(op[p].todo)
  BY DEF Current
<1> DEFINE t == op[p].todo
<1>4. o.todo = Tail(t) /\ (o.todo # <<>> => o.release = op[p].release /\ o.cmd = op[p].cmd)
  BY AdvancedTyped
<1>5. Len(t) > 1 <=> Tail(t) # <<>>
  BY <1>2, HeadOfShape
<1>6. Shape(p, lock', o)
  <2>1. CASE BeforeLock(t) /\ lock # p
    <3>1. /\ Tail(t) # <<>> /\ Head(t).do # "unlock"
          /\ Head(t).do # "lock" => BeforeLock(Tail(t))
          /\ Head(t).do = "lock" => UnderLock(Tail(t))
      BY <1>2, <1>5, <2>1, NextShape
    <3> QED
      BY <1>1, <1>3, <1>4, <2>1, <3>1 DEF Shape, At
  <2>2. CASE UnderLock(t)
    <3>1. /\ Head(t).do # "lock"
          /\ Head(t).do # "unlock" => Tail(t) # <<>> /\ UnderLock(Tail(t))
          /\ Head(t).do = "unlock" => Tail(t) = <<>>
      <4>1. /\ Head(t).do # "lock"
            /\ Head(t).do # "unlock" => Len(t) > 1 /\ UnderLock(Tail(t))
            /\ Head(t).do = "unlock" => Len(t) = 1
        BY <1>2, <2>2, NextShape
      <4>2. Len(t) = 1 => ~(Len(t) > 1)
        OBVIOUS
      <4> HIDE DEF t
      <4> QED
        BY <1>5, <4>1, <4>2
    <3> QED
      BY <1>1, <1>3, <1>4, <2>2, <3>1 DEF Shape, At, LockAfter
  <2>3. CASE AfterLock(t) /\ op[p].cmd = "upgrade" /\ lock # p
    <3>1. Head(t).do \notin {"lock", "unlock"} /\ AfterLock(Tail(t))
      BY <1>2, <2>3, NextShape
    <3> QED
      BY <1>1, <1>3, <1>4, <2>3, <3>1 DEF Shape, At
  <2> QED
    BY <1>2, <2>1, <2>2, <2>3 DEF Shape
<1>7. \A q \in Admins : Shape(q, lock', op'[q])
  <2> SUFFICES ASSUME NEW q \in Admins, q # p PROVE Shape(q, lock', op'[q])
    BY <1>1, <1>6 DEF CommandsInv
  <2>1. op'[q] = op[q] /\ Shape(q, lock, op[q]) /\ q # Nobody
    BY LifecycleAssumption DEF CommandsInv
  <2>2. lock' = q => lock = q
    BY <2>1 DEF LockAfter
  <2> QED
    BY <2>1, <2>2 DEF Shape
<1>8. \A q \in Admins : Active(q)' => op'[q].release # 0
  BY <1>1, <1>2, <1>4 DEF CommandsInv, Active
<1> QED
  BY <1>1, <1>7, <1>8 DEF CommandsInv

\* The lock file goes with the runtime directory.
LEMMA LockGoes ==
    ASSUME CommandsInv, UNCHANGED op, lock' \in {lock, Nobody}
    PROVE  CommandsInv'
<1>1. lock' \in Admins \cup {Nobody} /\ \A p \in Admins : lock' = p => lock = p
  BY LifecycleAssumption DEF CommandsInv
<1>2. \A p \in Admins : Shape(p, lock', op'[p])
  BY <1>1 DEF CommandsInv, Shape
<1> QED
  BY <1>1, <1>2 DEF CommandsInv, Active

\* The exception of a step: the lock is dropped, the command is over or recovers.
LEMMA RaiseKeeps ==
    ASSUME CommandsInv, NEW p \in Admins, Active(p), RaiseIn(p)
    PROVE  CommandsInv'
<1>1. /\ op[p] \in Op /\ op[p].todo \in Seq(Step) /\ op[p].todo # <<>>
      /\ Shape(p, lock, op[p]) /\ op[p].release # 0
  BY DEF CommandsInv, Op, Active
<1>2. op' = [op EXCEPT ![p] = AfterFailure(p)] /\ lock' = LockAfter(p)
  BY DEF RaiseIn
<1>3. lock' \in Admins \cup {Nobody} /\ lock' # p /\ \A q \in Admins : q # p => (lock' = q <=> lock = q)
  BY <1>2, LifecycleAssumption DEF LockAfter, CommandsInv
<1>4. /\ AfterFailure(p) \in Op /\ Shape(p, lock', AfterFailure(p))
      /\ AfterFailure(p).todo # <<>> => AfterFailure(p).release # 0
  <2>1. CASE At(p, "rewrite")
    <3>2. Head(op[p].todo).do = "rewrite"
      BY <2>1 DEF At, Current
    <3>3. AfterLock(op[p].todo) /\ op[p].cmd = "upgrade"
      <4>1. ~BeforeLock(op[p].todo) /\ ~UnderLock(op[p].todo)
        BY <1>1, <3>2, NextShape
      <4> QED
        BY <1>1, <4>1 DEF Shape
    <3>1. AfterFailure(p) = [Advanced(p) EXCEPT !.missed = @ \cup Current(p).on]
      <4>1. \A i \in DOMAIN op[p].todo : op[p].todo[i].do # "unlock"
        BY <1>1, <3>3 DEF AfterLock
      <4>2. Recovering(p)
        BY <3>3, <4>1 DEF Recovering
      <4> QED
        BY <2>1, <4>2 DEF AfterFailure
    <3>6. Current(p).on \subseteq Files
      <4>1. Current(p) \in Step
        BY <1>1, HeadOfShape DEF Current
      <4> QED
        BY <4>1 DEF Step, Files
    <3>4. AfterLock(Tail(op[p].todo))
      BY <1>1, <3>3, NextShape
    <3>5. /\ AfterFailure(p) \in Op /\ AfterFailure(p).todo = Tail(op[p].todo)
          /\ AfterFailure(p).todo # <<>> => /\ AfterFailure(p).release = op[p].release
                                            /\ AfterFailure(p).cmd = "upgrade"
      BY <3>1, <3>3, <3>6, AdvancedTyped DEF Op
    <3> QED
      BY <1>1, <1>3, <3>4, <3>5 DEF Shape
  <2>2. CASE AfterFailure(p) = [op[p] EXCEPT !.todo = Recovery] /\ op[p].cmd = "upgrade"
    <3>1. AfterFailure(p) \in Op /\ AfterFailure(p).todo = Recovery
          /\ AfterFailure(p).cmd = "upgrade" /\ AfterFailure(p).release = op[p].release
      BY <1>1, <2>2, RecoveryShape DEF Op
    <3> QED
      BY <1>1, <1>3, <3>1, RecoveryShape DEF Shape
  <2>3. CASE AfterFailure(p) = Over(p, "failed")
    BY <1>3, <2>3, OverTyped DEF Shape
  <2> QED
    BY <2>1, <2>2, <2>3 DEF AfterFailure
<1>5. op' \in [Admins -> Op]
  BY <1>2, <1>4 DEF CommandsInv
<1>6. \A q \in Admins : Shape(q, lock', op'[q]) /\ (Active(q)' => op'[q].release # 0)
  BY <1>2, <1>3, <1>4 DEF CommandsInv, Shape, Active
<1> QED
  BY <1>3, <1>5, <1>6 DEF CommandsInv

-----------------------------------------------------------------------------
(* The daemons and their migrations *)

\* A daemon that starts migrates to the schema of its release before it is up.
Served(s) ==
    LET d == daemon[s]
        r == run[s]
    IN /\ d.state # "starting" => r.pc = "idle"
       /\ d.state # "down" => d.release # 0
       /\ d.state = "starting" =>
             /\ r.pc \in {"read", "apply"} => r.supports = Releases[d.release]
             /\ r.pc = "done" => CurrentVersion(db) >= Releases[d.release]
       /\ d.state = "up" => CurrentVersion(db) >= Releases[d.release]

DaemonsInv ==
    /\ daemon \in [Daemons -> Daemon]
    /\ \A s \in Daemons : Served(s)

RestInv ==
    /\ package \in 1 .. Len(Releases)
    /\ files \in [Files -> Contents]
    /\ enabled \subseteq Units
    /\ disturbed \in BOOLEAN
    /\ used \in [command : Nat, trouble : Nat]

LifecycleInv == MigrationInv /\ CommandsInv /\ DaemonsInv /\ RestInv

LEMMA ProcessesDiffer ==
    /\ Daemons \subseteq Migrators /\ Admins \subseteq Migrators
    /\ \A p \in Admins : p \notin Daemons
BY LifecycleAssumption DEF Daemons

LEMMA ReleaseTyped ==
    ASSUME NEW r \in 0 .. Len(Releases), r # 0
    PROVE  Releases[r] \in Nat /\ Opened(Releases[r]) \in Run
<1>1. Len(Releases) \in Nat /\ r \in 1 .. Len(Releases)
  BY OrdersTyped
<1>2. Releases[r] \in Nat \ {0}
  BY <1>1, OrdersTyped, ElementOfSeq
<1> QED
  BY <1>2, OpenedTyped

LEMMA StartedTyped ==
    ASSUME RestInv
    PROVE  /\ Started \in Daemon /\ Down \in Daemon
           /\ Opened(Releases[package]) \in Run /\ Releases[package] \in Nat
<1>1. package \in 0 .. Len(Releases) /\ package # 0 /\ 0 \in 0 .. Len(Releases)
  BY OrdersTyped DEF RestInv
<1> QED
  BY <1>1, ReleaseTyped DEF Started, Down, Daemon

\* Migrations are begun and given up, none goes a step.
LEMMA RunsChange ==
    ASSUME MigrationInv, UNCHANGED <<db, faults>>, run' \in [Migrators -> Run],
           \A m \in Migrators : run'[m] = run[m] \/ run'[m].pc # "apply"
    PROVE  MigrationInv'
<1>1. CurrentVersion(db)' = CurrentVersion(db)
  BY DEF CurrentVersion
<1> QED
  BY <1>1 DEF MigrationInv, MigrationTypeOK, Prefix, NextIsNear, RecordInv, FeedInv,
     CurrentVersion, Candidate, Valid, Usable

\* Daemons are started and stopped.
LEMMA DaemonsChange ==
    ASSUME LifecycleInv, UNCHANGED <<db, faults>>,
           daemon' = [s \in Daemons |-> daemon'[s]], run' = [m \in Migrators |-> run'[m]],
           \A s \in Daemons :
              \/ daemon'[s] = daemon[s] /\ run'[s] = run[s]
              \/ daemon'[s] = Started /\ run'[s] = Opened(Releases[package])
              \/ daemon'[s] = Down /\ run'[s] = NoRun,
           \A m \in Migrators \ Daemons : run'[m] = run[m]
    PROVE  MigrationInv' /\ DaemonsInv'
<1>1. /\ Started \in Daemon /\ Down \in Daemon /\ NoRun \in Run
      /\ Opened(Releases[package]) \in Run /\ Releases[package] \in Nat /\ package # 0
  BY StartedTyped, NoRunTyped, OrdersTyped DEF LifecycleInv, RestInv
<1>2. \A s \in Daemons : daemon'[s] \in Daemon
  BY <1>1 DEF LifecycleInv, DaemonsInv
<1>3. \A m \in Migrators : /\ run'[m] \in Run
                           /\ run'[m] = run[m] \/ run'[m].pc # "apply"
  <2>1. NoRun.pc # "apply" /\ Opened(Releases[package]).pc # "apply"
    BY DEF NoRun, Opened
  <2> QED
    BY <1>1, <2>1 DEF LifecycleInv, MigrationInv, MigrationTypeOK
<1>4. run' \in [Migrators -> Run] /\ daemon' \in [Daemons -> Daemon]
  BY <1>2, <1>3
<1>5. MigrationInv'
  BY <1>3, <1>4, RunsChange DEF LifecycleInv
<1>6. ASSUME NEW s \in Daemons PROVE Served(s)'
  <2>1. CASE daemon'[s] = daemon[s] /\ run'[s] = run[s]
    BY <2>1 DEF LifecycleInv, DaemonsInv, Served, CurrentVersion
  <2>2. CASE daemon'[s] = Started /\ run'[s] = Opened(Releases[package])
    BY <1>1, <2>2 DEF Served, Started, Opened
  <2>3. CASE daemon'[s] = Down /\ run'[s] = NoRun
    BY <2>3 DEF Served, Down, NoRun
  <2> QED
    BY <2>1, <2>2, <2>3
<1> QED
  BY <1>4, <1>5, <1>6 DEF DaemonsInv

\* One step of a migration, by a command or by a daemon that starts.
LEMMA MigrationServes ==
    ASSUME LifecycleInv, NEW m \in Migrators, MigrateStep(m), UNCHANGED daemon
    PROVE  MigrationInv' /\ DaemonsInv'
<1>1. MigrationInv'
  BY MigrateStepKeeps DEF LifecycleInv, MigrateStep
<1>2. CurrentVersion(db) \in Nat /\ CurrentVersion(db)' \in Nat
  <2>1. Prefix(db) /\ Prefix(db')
    BY <1>1 DEF LifecycleInv, MigrationInv, Prefix
  <2>2. CurrentVersion(db') \in Nat /\ CurrentVersion(db) \in Nat
    BY <2>1, PrefixIsVersions
  <2> QED
    BY <2>2 DEF CurrentVersion
<1>3. CurrentVersion(db)' >= CurrentVersion(db)
  <2>1. CASE Apply(m)
    BY <1>2, <2>1, ApplyStep DEF LifecycleInv
  <2>2. CASE ~Apply(m)
    <3>1. db' = db
      BY <2>2 DEF MigrateStep, Migrate, ReadVersion, Duplicate, Incompatible, Busy
    <3> QED
      BY <1>2, <3>1 DEF CurrentVersion
  <2> QED
    BY <2>1, <2>2
<1>4. /\ run[m] \in Run /\ run[m].pc \in {"read", "apply"}
      /\ \A q \in Migrators : q # m => run'[q] = run[q]
  BY DEF LifecycleInv, MigrationInv, MigrationTypeOK, MigrateStep, Migrate, ReadVersion, Apply,
     Duplicate, Incompatible, Busy
<1>5. /\ run'[m].pc \in {"read", "apply"} => run'[m].supports = run[m].supports
      /\ run'[m].pc = "done" => CurrentVersion(db)' = run[m].supports
      /\ run'[m].pc # "idle"
  <2>1. CASE ReadVersion(m)
    <3>1. run'[m] = AfterRead(m) /\ db' = db
      BY <2>1 DEF ReadVersion, LifecycleInv, MigrationInv, MigrationTypeOK
    <3>2. CurrentVersion(db)' = CurrentVersion(db)
      BY <3>1 DEF CurrentVersion
    <3>3. CASE CurrentVersion(db) > run[m].supports
      <4>1. AfterRead(m) = Ended("refused")
        BY <1>2, <1>4, <3>3 DEF AfterRead, Run
      <4> QED
        BY <3>1, <4>1 DEF Ended, NoRun
    <3>4. CASE CurrentVersion(db) = run[m].supports
      <4>1. AfterRead(m) = Ended("done")
        BY <1>2, <1>4, <3>4 DEF AfterRead, Run
      <4> QED
        BY <3>1, <3>2, <3>4, <4>1 DEF Ended, NoRun
    <3>5. CASE ~(CurrentVersion(db) > run[m].supports) /\ CurrentVersion(db) # run[m].supports
      <4>1. AfterRead(m) = [run[m] EXCEPT !.pc = "apply", !.next = CurrentVersion(db) + 1]
        BY <3>5 DEF AfterRead
      <4>2. AfterRead(m).pc = "apply" /\ AfterRead(m).supports = run[m].supports
        BY <1>4, <4>1 DEF Run
      <4> QED
        BY <3>1, <4>2
    <3> QED
      BY <3>3, <3>4, <3>5
  <2>2. CASE Apply(m)
    <3>1. run'[m] = AfterApply(m) /\ CurrentVersion(db)' = run[m].next /\ run[m].pc = "apply"
      BY <2>2, ApplyStep DEF Apply, LifecycleInv, MigrationInv, MigrationTypeOK
    <3> QED
      BY <1>4, <3>1 DEF AfterApply, Run, Ended, NoRun
  <2>3. CASE Duplicate(m) \/ Incompatible(m) \/ Busy(m)
    <3>1. run'[m] \in {Ended("duplicate"), Ended("refused"), AfterBusy(m)}
      BY <2>3 DEF Duplicate, Incompatible, Busy, LifecycleInv, MigrationInv, MigrationTypeOK
    <3>2. run'[m].pc \in {"duplicate", "refused", "busy"}
      BY <3>1 DEF AfterBusy, Ended, NoRun
    <3> QED
      BY <3>2
  <2> QED
    BY <2>1, <2>2, <2>3 DEF MigrateStep, Migrate
<1>6. ASSUME NEW s \in Daemons PROVE Served(s)'
  <2>1. /\ Served(s) /\ daemon'[s] = daemon[s] /\ s \in Migrators
        /\ daemon[s].state # "down" => Releases[daemon[s].release] \in Nat
    BY ProcessesDiffer, ReleaseTyped DEF LifecycleInv, DaemonsInv, Daemon, Served
  <2>2. CASE s = m
    <3>1. daemon[s].state = "starting" /\ run[s].supports = Releases[daemon[s].release]
      BY <1>4, <2>1, <2>2 DEF Served, LifecycleInv, DaemonsInv, Daemon
    <3> QED
      BY <1>2, <1>5, <2>1, <2>2, <3>1 DEF Served
  <2>3. CASE s # m
    BY <1>2, <1>3, <1>4, <2>1, <2>3 DEF Served
  <2> QED
    BY <2>2, <2>3
<1> QED
  BY <1>1, <1>6 DEF LifecycleInv, DaemonsInv

-----------------------------------------------------------------------------
(* The steps of the commands *)

LEMMA SystemRests ==
    ASSUME LifecycleInv, UNCHANGED <<db, faults, run, daemon>>
    PROVE  MigrationInv' /\ DaemonsInv'
<1>1. /\ daemon' = [s \in Daemons |-> daemon'[s]]
      /\ run' = [m \in Migrators |-> run'[m]]
  BY DEF LifecycleInv, DaemonsInv, MigrationInv, MigrationTypeOK
<1> QED
  BY <1>1, DaemonsChange

\* A step that acts and leads to the next one, or to the exception.
LEMMA AdvanceKeeps ==
    ASSUME CommandsInv, NEW p \in Admins, Active(p), ~At(p, "lock"), ~At(p, "unlock"),
           lock' \in {lock, Nobody}, op' = [op EXCEPT ![p] = Advanced(p)]
    PROVE  CommandsInv'
BY AdvancedTyped, GoesOnKeeps

LEMMA CurrentTyped ==
    ASSUME CommandsInv, NEW p \in Admins, Active(p)
    PROVE  /\ Current(p) \in Step /\ op[p] \in Op /\ op[p].release \in 1 .. Len(Releases)
           /\ Current(p).do \in Calls => On(p) \subseteq Units
<1>1. op[p].todo \in Seq(Step) /\ op[p].todo # <<>> /\ op[p] \in Op /\ op[p].release # 0
  BY DEF CommandsInv, Active, Op
<1>2. Current(p) \in Step
  BY <1>1, HeadOfShape DEF Current
<1>3. op[p].release \in 1 .. Len(Releases)
  BY <1>1, OrdersTyped DEF Op
<1>4. Current(p).do \in Calls => Current(p).on \subseteq Units
  BY <1>2 DEF Step, Calls
<1> QED
  BY <1>1, <1>2, <1>3, <1>4 DEF On

LEMMA BeginKeeps ==
    ASSUME LifecycleInv, NEW p \in Admins, NEW cmd \in Commands, Begin(p, cmd)
    PROVE  LifecycleInv'
<1> DEFINE others == {q \in Admins \ {p} : Active(q)}
           o == [IdleOp EXCEPT !.cmd = cmd, !.todo = Program(cmd), !.release = package,
                               !.alone = others = {},
                               !.first = IF cmd = "upgrade" THEN files ELSE @]
<1>1. op' = [q \in Admins |-> IF q = p THEN o
                              ELSE IF q \in others THEN [op[q] EXCEPT !.alone = FALSE] ELSE op[q]]
  BY DEF Begin
<1>2. /\ o \in Op /\ o.todo = Program(cmd) /\ o.release = package /\ o.cmd = cmd
      /\ package # 0 /\ package \in 0 .. Len(Releases)
  <2>1. package \in 0 .. Len(Releases) /\ package # 0 /\ files \in [Files -> Contents]
        /\ (others = {}) \in BOOLEAN
    BY OrdersTyped DEF LifecycleInv, RestInv
  <2> HIDE DEF others
  <2> QED
    BY <2>1, IdleOpTyped, ProgramShape DEF Op
<1> HIDE DEF o
<1>3. \A q \in Admins : op[q] \in Op /\ Shape(q, lock, op[q]) /\ (Active(q) => op[q].release # 0)
  BY DEF LifecycleInv, CommandsInv
<1>4. \A q \in Admins : q # p => /\ op'[q] \in Op /\ op'[q].todo = op[q].todo
                                 /\ op'[q].cmd = op[q].cmd /\ op'[q].release = op[q].release
  <2>1. \A r \in Op : [r EXCEPT !.alone = FALSE] \in Op
    BY DEF Op
  <2> HIDE DEF others
  <2> QED
    BY <1>1, <1>3, <2>1, ZenonT(60) DEF Op
<1>5. op'[p] = o /\ op' \in [Admins -> Op]
  BY <1>1, <1>2, <1>4
<1>6. CommandsInv'
  <2>1. lock' = lock /\ lock # p
    <3>1. op[p].todo = <<>>
      BY DEF Begin, Active
    <3> QED
      BY <1>3, <3>1 DEF Begin, Shape
  <2>2. Shape(p, lock, o) /\ (o.todo # <<>> => o.release # 0)
    BY <1>2, <2>1, ProgramShape DEF Shape
  <2>3. \A q \in Admins : Shape(q, lock, op'[q]) /\ (op'[q].todo # <<>> => op'[q].release # 0)
    BY <1>3, <1>4, <1>5, <2>2 DEF Shape, Active
  <2> QED
    BY <1>5, <2>1, <2>3 DEF CommandsInv, LifecycleInv, Active
<1>7. MigrationInv' /\ DaemonsInv'
  BY SystemRests DEF Begin, migrationVars
<1>8. RestInv'
  <2>1. used' = [used EXCEPT !.command = @ + 1] /\ UNCHANGED <<package, files, enabled, disturbed>>
    BY DEF Begin
  <2>2. used' \in [command : Nat, trouble : Nat]
    BY <2>1 DEF LifecycleInv, RestInv
  <2> QED
    BY <2>1, <2>2 DEF LifecycleInv, RestInv
<1> QED
  BY <1>6, <1>7, <1>8 DEF LifecycleInv

\* Steps that look around and the lock.
LEMMA LookingKeeps ==
    ASSUME LifecycleInv, NEW p \in Admins,
           Preflight(p) \/ Ask(p) \/ TakeLock(p) \/ Unlock(p) \/ Status(p)
    PROVE  LifecycleInv'
<1>1. UNCHANGED <<db, faults, run, daemon>> /\ UNCHANGED <<package, files, enabled, disturbed, used>>
      /\ Active(p) /\ CommandsInv
  BY DEF Preflight, Ask, TakeLock, Unlock, Status, untouched, At, LifecycleInv
<1>2. MigrationInv' /\ DaemonsInv' /\ RestInv'
  BY <1>1, SystemRests DEF LifecycleInv, RestInv
<1>3. CommandsInv'
  <2>1. CASE RaiseIn(p)
    BY <1>1, <2>1, RaiseKeeps
  <2>2. CASE (At(p, "preflight") \/ At(p, "status")) /\ UNCHANGED lock
             /\ op' = [op EXCEPT ![p] = Advanced(p)]
    BY <1>1, <2>2, AdvanceKeeps DEF At
  <2>3. CASE Ask(p)
    <3> DEFINE s == CHOOSE d \in Daemons : Current(p).on = {d}
               seen(active) == [enabled |-> s \in enabled, active |-> active]
               with(active) == [Advanced(p) EXCEPT !.before[s] = seen(active)]
    <3>0. PICK active \in BOOLEAN : op' = [op EXCEPT ![p] = with(active)]
      BY <2>3 DEF Ask
    <3> DEFINE o == with(active)
    <3>1. seen(active) \in ServiceState
      BY DEF ServiceState
    <3> HIDE DEF seen, s
    <3>2. o \in Op /\ o.todo = Advanced(p).todo /\ o.cmd = Advanced(p).cmd
          /\ o.release = Advanced(p).release
      BY <1>1, <3>1, AdvancedTyped DEF Op
    <3>3. op' = [op EXCEPT ![p] = o] /\ At(p, "ask") /\ lock' = lock
      BY <2>3, <3>0 DEF Ask
    <3> HIDE DEF o
    <3> QED
      BY <1>1, <3>2, <3>3, GoesOnKeeps DEF At
  <2>4. CASE TakeLock(p) /\ ~RaiseIn(p)
    BY <1>1, <2>4, AdvancedTyped, GoesOnKeeps DEF TakeLock
  <2>5. CASE Unlock(p)
    BY <1>1, <2>5, AdvancedTyped, GoesOnKeeps DEF Unlock
  <2> QED
    BY <2>1, <2>2, <2>3, <2>4, <2>5 DEF Preflight, Status, TakeLock
<1> QED
  BY <1>2, <1>3 DEF LifecycleInv

\* Unit files and the launcher.
LEMMA FilesKeep ==
    ASSUME LifecycleInv, NEW p \in Admins,
           WriteFile(p) \/ RefuseFile(p) \/ Rewrite(p) \/ RemoveFile(p)
    PROVE  LifecycleInv'
<1>1. /\ UNCHANGED <<db, faults, run, daemon>> /\ UNCHANGED <<package, enabled, used>>
      /\ Active(p) /\ CommandsInv /\ ~At(p, "lock") /\ ~At(p, "unlock")
  BY DEF WriteFile, RefuseFile, Rewrite, RemoveFile, untouched, At, LifecycleInv
<1>2. op[p] \in Op /\ op[p].release \in Contents
  BY <1>1, CurrentTyped, OrdersTyped DEF Contents, Foreign
<1>3. files \in [Files -> Contents] /\ Absent \in Contents
  BY OrdersTyped DEF LifecycleInv, RestInv, Absent, Contents, Foreign
<1>4. files' \in [Files -> Contents]
  <2>1. op[p].saved \in [Files -> Contents]
    BY <1>2 DEF Op
  <2> DEFINE f == File(p)
  <2> HIDE DEF f
  <2>2. \/ files' = files
        \/ files' = [files EXCEPT ![f] = op[p].release]
        \/ files' = [files EXCEPT ![f] = op[p].saved[f]]
        \/ files' = [files EXCEPT ![f] = Absent]
    BY DEF WriteFile, RefuseFile, Rewrite, RemoveFile, f
  <2>3. CASE f \in Files
    BY <1>2, <1>3, <2>1, <2>2, <2>3
  <2>4. CASE f \notin Files
    BY <1>3, <2>2, <2>4
  <2> QED
    BY <2>3, <2>4
<1>5. CommandsInv'
  <2>1. CASE RaiseIn(p)
    BY <1>1, <2>1, RaiseKeeps
  <2>2. CASE op' = [op EXCEPT ![p] = Advanced(p)] /\ UNCHANGED lock
    BY <1>1, <2>2, AdvanceKeeps
  <2>3. CASE WriteFile(p)
    <3> DEFINE o == [Advanced(p) EXCEPT !.saved = Saved(p)]
    <3>1. Saved(p) \in [Files -> Contents]
      <4>1. op[p].saved \in [Files -> Contents]
        BY <1>2 DEF Op
      <4> DEFINE f == File(p)
      <4>2. Saved(p) = op[p].saved \/ Saved(p) = [op[p].saved EXCEPT ![f] = files[f]]
        BY DEF Saved
      <4> HIDE DEF f
      <4>3. CASE f \in Files
        BY <1>3, <4>1, <4>2, <4>3
      <4>4. CASE f \notin Files
        BY <4>1, <4>2, <4>4
      <4> QED
        BY <4>3, <4>4
    <3>2. o \in Op /\ o.todo = Advanced(p).todo /\ o.cmd = Advanced(p).cmd
          /\ o.release = Advanced(p).release
      BY <1>1, <3>1, AdvancedTyped DEF Op
    <3>3. op' = [op EXCEPT ![p] = o] /\ lock' = lock
      BY <2>3 DEF WriteFile
    <3> HIDE DEF o
    <3> QED
      BY <1>1, <3>2, <3>3, GoesOnKeeps
  <2> QED
    BY <2>1, <2>2, <2>3 DEF RefuseFile, Rewrite, RemoveFile, Acts
<1>6. disturbed' \in BOOLEAN
  <2>1. op[p].alone \in BOOLEAN /\ disturbed \in BOOLEAN
    BY <1>2 DEF Op, LifecycleInv, RestInv
  <2> QED
    BY <2>1 DEF WriteFile, RefuseFile, Rewrite, RemoveFile, Acts
<1>7. MigrationInv' /\ DaemonsInv'
  BY <1>1, SystemRests
<1>8. RestInv'
  BY <1>1, <1>4, <1>6 DEF LifecycleInv, RestInv
<1> QED
  BY <1>5, <1>7, <1>8 DEF LifecycleInv

\* systemctl: an enabled unit stays a unit, a started daemon runs the release
\* that is installed.
LEMMA SystemctlKeeps ==
    ASSUME LifecycleInv, NEW p \in Admins,
           \/ Enable(p) \/ Disable(p) \/ DisableNow(p) \/ StartUnits(p) \/ StopUnits(p)
           \/ RestartUnits(p) \/ ReEnable(p) \/ ReStart(p)
    PROVE  LifecycleInv'
<1>1. /\ Systemctl(p) /\ Current(p).do \in Calls /\ Active(p)
      /\ ~At(p, "lock") /\ ~At(p, "unlock") /\ CommandsInv
  BY DEF Enable, Disable, DisableNow, StartUnits, StopUnits, RestartUnits, ReEnable, ReStart, At,
     Calls, LifecycleInv
<1>2. /\ UNCHANGED <<db, faults, package, used, files>>
      /\ op' = [op EXCEPT ![p] = Advanced(p)]
      /\ disturbed' = (disturbed \/ (lock # p /\ ~op[p].alone))
  BY <1>1 DEF Systemctl, Acts, untouched
<1>3. op[p] \in Op /\ On(p) \subseteq Units
  BY <1>1, CurrentTyped
<1>4. CommandsInv'
  <2>1. lock' \in {lock, Nobody}
    BY DEF Enable, Disable, DisableNow, StartUnits, StopUnits, RestartUnits, ReEnable, ReStart,
       Start, Stop, LockAfterStop
  <2> QED
    BY <1>1, <1>2, <2>1, AdvanceKeeps
<1>5. enabled' \subseteq Units
  BY <1>3 DEF Enable, Disable, DisableNow, StartUnits, StopUnits, RestartUnits, ReEnable, ReStart,
     LifecycleInv, RestInv
<1>6. RestInv'
  <2>1. disturbed' \in BOOLEAN
    BY <1>2, <1>3 DEF Op, LifecycleInv, RestInv
  <2> QED
    BY <1>2, <1>5, <2>1 DEF LifecycleInv, RestInv
<1>7. MigrationInv' /\ DaemonsInv'
  <2>0. /\ daemon = [s \in Daemons |-> daemon[s]] /\ run = [m \in Migrators |-> run[m]]
        /\ Daemons \subseteq Migrators
    BY ProcessesDiffer DEF LifecycleInv, DaemonsInv, MigrationInv, MigrationTypeOK
  <2>1. CASE UNCHANGED <<run, daemon>>
    BY <1>2, <2>1, SystemRests
  <2>2. CASE Start(On(p))
    <3> DEFINE new == {s \in Daemons \cap On(p) : daemon[s].state = "down"}
    <3>1. /\ daemon' = [s \in Daemons |-> IF s \in new THEN Started ELSE daemon[s]]
          /\ run' = [m \in Migrators |-> IF m \in new THEN Opened(Releases[package]) ELSE run[m]]
          /\ new \subseteq Daemons
      BY <2>2 DEF Start
    <3> HIDE DEF new
    <3>2. \A s \in Daemons : \/ daemon'[s] = daemon[s] /\ run'[s] = run[s]
                             \/ daemon'[s] = Started /\ run'[s] = Opened(Releases[package])
      BY <2>0, <3>1
    <3>3. \A m \in Migrators \ Daemons : run'[m] = run[m]
      BY <3>1
    <3>4. daemon' = [s \in Daemons |-> daemon'[s]] /\ run' = [m \in Migrators |-> run'[m]]
      BY <3>1
    <3> QED
      BY <1>2, <3>2, <3>3, <3>4, DaemonsChange
  <2>3. CASE Stop(On(p))
    <3>1. /\ daemon' = [s \in Daemons |-> IF s \in On(p) THEN Down ELSE daemon[s]]
          /\ run' = [m \in Migrators |-> IF m \in On(p) THEN NoRun ELSE run[m]]
      BY <2>3 DEF Stop
    <3>2. \A s \in Daemons : \/ daemon'[s] = daemon[s] /\ run'[s] = run[s]
                             \/ daemon'[s] = Down /\ run'[s] = NoRun
      BY <2>0, <3>1
    <3>3. \A m \in Migrators \ Daemons : run'[m] = run[m]
      BY <1>3, <3>1, LifecycleAssumption DEF Units, Daemons
    <3>4. daemon' = [s \in Daemons |-> daemon'[s]] /\ run' = [m \in Migrators |-> run'[m]]
      BY <3>1
    <3> QED
      BY <1>2, <3>2, <3>3, <3>4, DaemonsChange
  <2>4. CASE RestartUnits(p)
    <3>1. /\ daemon' = [s \in Daemons |-> IF s \in On(p) THEN Started ELSE daemon[s]]
          /\ run' = [m \in Migrators |-> IF m \in On(p) THEN Opened(Releases[package]) ELSE run[m]]
      BY <2>4 DEF RestartUnits
    <3>2. \A s \in Daemons : \/ daemon'[s] = daemon[s] /\ run'[s] = run[s]
                             \/ daemon'[s] = Started /\ run'[s] = Opened(Releases[package])
      BY <2>0, <3>1
    <3>3. \A m \in Migrators \ Daemons : run'[m] = run[m]
      BY <1>3, <3>1, LifecycleAssumption DEF Units, Daemons
    <3>4. daemon' = [s \in Daemons |-> daemon'[s]] /\ run' = [m \in Migrators |-> run'[m]]
      BY <3>1
    <3> QED
      BY <1>2, <3>2, <3>3, <3>4, DaemonsChange
  <2> QED
    BY <2>1, <2>2, <2>3, <2>4 DEF Enable, Disable, DisableNow, StartUnits, StopUnits, ReEnable,
       ReStart
<1> QED
  BY <1>4, <1>6, <1>7 DEF LifecycleInv

\* A call about a unit without a file, and failures of any step.
LEMMA FailuresKeep ==
    ASSUME LifecycleInv, NEW p \in Admins, UnknownUnit(p) \/ Fail(p)
    PROVE  LifecycleInv'
<1>1. /\ RaiseIn(p) /\ Active(p) /\ UNCHANGED <<db, faults, run, daemon>>
      /\ UNCHANGED <<package, files, enabled, disturbed>>
  BY DEF UnknownUnit, Fail, At, untouched, migrationVars
<1>2. used' \in [command : Nat, trouble : Nat]
  <2>1. used' = used \/ used' = [used EXCEPT !.trouble = @ + 1]
    BY DEF UnknownUnit, Fail, untouched
  <2> QED
    BY <2>1 DEF LifecycleInv, RestInv
<1>3. CommandsInv'
  BY <1>1, RaiseKeeps DEF LifecycleInv
<1>4. MigrationInv' /\ DaemonsInv'
  BY <1>1, SystemRests
<1> QED
  BY <1>1, <1>2, <1>3, <1>4 DEF LifecycleInv, RestInv

LEMMA KillKeeps ==
    ASSUME LifecycleInv, NEW p \in Admins, Kill(p)
    PROVE  LifecycleInv'
<1>1. /\ op' = [op EXCEPT ![p] = Over(p, "killed")] /\ lock' = LockAfter(p)
      /\ run' = [run EXCEPT ![p] = NoRun] /\ used' = [used EXCEPT !.trouble = @ + 1]
      /\ UNCHANGED <<db, faults, package, files, enabled, daemon, disturbed>>
  BY DEF Kill, LockAfterKill
<1>2. /\ lock' \in Admins \cup {Nobody} /\ lock' # p
      /\ \A q \in Admins : q # p => (lock' = q <=> lock = q)
  BY <1>1, LifecycleAssumption DEF LockAfter, LifecycleInv, CommandsInv
<1>3. CommandsInv'
  <2>1. Over(p, "killed") \in Op /\ Over(p, "killed").todo = <<>>
    BY OverTyped DEF LifecycleInv
  <2>2. op' \in [Admins -> Op]
    BY <1>1, <2>1 DEF LifecycleInv, CommandsInv
  <2>3. \A q \in Admins : Shape(q, lock', op'[q]) /\ (Active(q)' => op'[q].release # 0)
    BY <1>1, <1>2, <2>1 DEF LifecycleInv, CommandsInv, Shape, Active
  <2> QED
    BY <1>2, <2>2, <2>3 DEF CommandsInv
<1>4. MigrationInv' /\ DaemonsInv'
  <2>1. /\ daemon' = [s \in Daemons |-> daemon'[s]] /\ run' = [m \in Migrators |-> run'[m]]
        /\ \A s \in Daemons : daemon'[s] = daemon[s] /\ run'[s] = run[s]
    BY <1>1, ProcessesDiffer DEF LifecycleInv, DaemonsInv, MigrationInv, MigrationTypeOK
  <2>2. run' \in [Migrators -> Run] /\ \A m \in Migrators : run'[m] = run[m] \/ run'[m].pc # "apply"
    BY <1>1, NoRunTyped DEF LifecycleInv, MigrationInv, MigrationTypeOK, NoRun
  <2>3. MigrationInv'
    BY <1>1, <2>2, RunsChange DEF LifecycleInv
  <2>4. DaemonsInv'
    BY <1>1, <2>1 DEF LifecycleInv, DaemonsInv, Served, CurrentVersion
  <2> QED
    BY <2>3, <2>4
<1>5. RestInv'
  <2>1. used' \in [command : Nat, trouble : Nat]
    BY <1>1 DEF LifecycleInv, RestInv
  <2> QED
    BY <1>1, <2>1 DEF LifecycleInv, RestInv
<1> QED
  BY <1>3, <1>4, <1>5 DEF LifecycleInv

\* The migration of an install or an upgrade.
LEMMA CommandMigrates ==
    ASSUME LifecycleInv, NEW p \in Admins,
           OpenByCommand(p) \/ MigrateByCommand(p) \/ MigratedByCommand(p)
    PROVE  LifecycleInv'
<1>0. /\ p \in Migrators /\ p \notin Daemons /\ Daemons \subseteq Migrators
      /\ run \in [Migrators -> Run]
  BY ProcessesDiffer DEF LifecycleInv, MigrationInv, MigrationTypeOK
<1>1. CASE MigrateByCommand(p)
  <2>1. MigrateStep(p) /\ UNCHANGED <<op, daemon, lock, package, files, enabled, disturbed, used>>
    BY <1>1 DEF MigrateByCommand, otherwise
  <2>2. MigrationInv' /\ DaemonsInv'
    BY <1>0, <2>1, MigrationServes
  <2>3. CommandsInv' /\ RestInv'
    BY <2>1 DEF LifecycleInv, CommandsInv, RestInv, Shape, Active
  <2> QED
    BY <2>2, <2>3 DEF LifecycleInv
<1>2. ASSUME OpenByCommand(p) \/ MigratedByCommand(p)
      PROVE  MigrationInv' /\ DaemonsInv' /\ RestInv'
  <2>1. /\ Active(p) /\ UNCHANGED <<db, faults, daemon>>
        /\ UNCHANGED <<package, files, enabled, disturbed, used>>
    BY <1>2 DEF OpenByCommand, MigratedByCommand, otherwise, untouched, At
  <2>2. PICK r \in {NoRun, Opened(Releases[op[p].release])} : run' = [run EXCEPT ![p] = r]
    BY <1>2 DEF OpenByCommand, MigratedByCommand
  <2>3. r \in Run /\ r.pc # "apply"
    <3>1. op[p].release \in 0 .. Len(Releases) /\ op[p].release # 0
      BY <2>1, CurrentTyped, OrdersTyped DEF LifecycleInv
    <3>2. Opened(Releases[op[p].release]) \in Run
      BY <3>1, ReleaseTyped
    <3> QED
      BY <2>2, <3>2, NoRunTyped DEF Opened, NoRun
  <2>4. run' \in [Migrators -> Run] /\ \A m \in Migrators : run'[m] = run[m] \/ run'[m].pc # "apply"
    BY <1>0, <2>2, <2>3
  <2>5. MigrationInv'
    BY <2>1, <2>4, RunsChange DEF LifecycleInv
  <2>6. \A s \in Daemons : run'[s] = run[s]
    BY <1>0, <2>2
  <2>7. DaemonsInv'
    BY <2>1, <2>6 DEF LifecycleInv, DaemonsInv, Served, CurrentVersion
  <2> QED
    BY <2>1, <2>5, <2>7 DEF LifecycleInv, RestInv
<1>3. CASE OpenByCommand(p)
  <2>1. CommandsInv'
    BY <1>3 DEF OpenByCommand, otherwise, LifecycleInv, CommandsInv, Shape, Active
  <2> QED
    BY <1>2, <1>3, <2>1 DEF LifecycleInv
<1>4. CASE MigratedByCommand(p)
  <2>1. Active(p) /\ ~At(p, "lock") /\ ~At(p, "unlock") /\ CommandsInv
    BY <1>4 DEF MigratedByCommand, At, LifecycleInv
  <2>2. CommandsInv'
    BY <1>4, <2>1, RaiseKeeps, AdvanceKeeps DEF MigratedByCommand
  <2> QED
    BY <1>2, <1>4, <2>2 DEF LifecycleInv
<1> QED
  BY <1>1, <1>3, <1>4

\* What the daemons do by themselves.
LEMMA DaemonsKeep ==
    ASSUME LifecycleInv, NEW s \in Daemons, DaemonStep(s) \/ DaemonDies(s)
    PROVE  LifecycleInv'
<1>0. /\ s \in Migrators /\ Daemons \subseteq Migrators
      /\ run \in [Migrators -> Run] /\ daemon \in [Daemons -> Daemon] /\ Served(s)
  BY ProcessesDiffer DEF LifecycleInv, MigrationInv, MigrationTypeOK, DaemonsInv
<1>1. CommandsInv'
  <2>1. UNCHANGED op /\ lock' \in {lock, Nobody}
    BY DEF DaemonStep, DaemonDies, MigrateByDaemon, ComeUp, StartAgain, otherwise
  <2> QED
    BY <2>1, LockGoes DEF LifecycleInv
<1>2. RestInv'
  <2>1. UNCHANGED <<package, files, enabled, disturbed>>
    BY DEF DaemonStep, DaemonDies, MigrateByDaemon, ComeUp, StartAgain, otherwise
  <2>2. used' = used \/ used' = [used EXCEPT !.trouble = @ + 1]
    BY DEF DaemonStep, DaemonDies, MigrateByDaemon, ComeUp, StartAgain, otherwise
  <2>3. used' \in [command : Nat, trouble : Nat]
    BY <2>2 DEF LifecycleInv, RestInv
  <2> QED
    BY <2>1, <2>3 DEF LifecycleInv, RestInv
<1>3. MigrationInv' /\ DaemonsInv'
  <2>1. CASE MigrateByDaemon(s)
    BY <1>0, <2>1, MigrationServes DEF MigrateByDaemon
  <2>2. CASE ComeUp(s)
    <3>1. /\ run[s].pc = "done" /\ daemon' = [daemon EXCEPT ![s].state = "up"]
          /\ run' = [run EXCEPT ![s] = NoRun] /\ UNCHANGED <<db, faults>>
      BY <2>2 DEF ComeUp, Comes
    <3>2. daemon[s] \in Daemon /\ daemon[s].state = "starting"
      BY <1>0, <3>1 DEF Served, Daemon
    <3>3. daemon'[s] \in Daemon /\ daemon'[s].state = "up" /\ daemon'[s].release = daemon[s].release
      BY <1>0, <3>1, <3>2 DEF Daemon
    <3>4. Served(s)'
      BY <1>0, <3>1, <3>2, <3>3 DEF Served, NoRun, CurrentVersion
    <3>5. \A d \in Daemons : d # s => daemon'[d] = daemon[d] /\ run'[d] = run[d]
      BY <1>0, <3>1
    <3>6. DaemonsInv'
      BY <1>0, <3>1, <3>3, <3>4, <3>5 DEF LifecycleInv, DaemonsInv, Served, CurrentVersion
    <3>7. run' \in [Migrators -> Run] /\ \A m \in Migrators : run'[m] = run[m] \/ run'[m].pc # "apply"
      BY <1>0, <3>1, NoRunTyped DEF NoRun
    <3> QED
      BY <3>1, <3>6, <3>7, RunsChange DEF LifecycleInv
  <2>3. CASE StartAgain(s) \/ DaemonDies(s)
    <3>1. /\ daemon' = [daemon EXCEPT ![s] = Started] /\ UNCHANGED <<db, faults>>
          /\ run' = [run EXCEPT ![s] = Opened(Releases[package])]
      BY <2>3 DEF StartAgain, DaemonDies
    <3>2. \A d \in Daemons : \/ daemon'[d] = daemon[d] /\ run'[d] = run[d]
                             \/ daemon'[d] = Started /\ run'[d] = Opened(Releases[package])
      BY <1>0, <3>1
    <3>3. \A m \in Migrators \ Daemons : run'[m] = run[m]
      BY <1>0, <3>1
    <3>4. daemon' = [d \in Daemons |-> daemon'[d]] /\ run' = [m \in Migrators |-> run'[m]]
      BY <1>0, <3>1
    <3> QED
      BY <3>1, <3>2, <3>3, <3>4, DaemonsChange
  <2> QED
    BY <2>1, <2>2, <2>3 DEF DaemonStep
<1> QED
  BY <1>1, <1>2, <1>3 DEF LifecycleInv

-----------------------------------------------------------------------------
(* The invariant of the lifecycle *)

LEMMA LifecycleInvInit == LifecycleInit => LifecycleInv
<1> SUFFICES ASSUME LifecycleInit PROVE LifecycleInv
  OBVIOUS
<1>1. MigrationInv
  BY MigrationInvInit DEF LifecycleInit
<1>2. PICK host \in Hosts :
        /\ CurrentVersion(db) = IF host.on = {} THEN 0 ELSE Releases[1]
        /\ package = 1 /\ files = host.file /\ enabled = host.on
        /\ daemon = [s \in Daemons |->
                       IF s \in host.up THEN [state |-> "up", release |-> 1] ELSE Down]
        /\ lock = Nobody /\ op = [p \in Admins |-> IdleOp] /\ disturbed = FALSE
        /\ used = [command |-> 0, trouble |-> 0]
  BY DEF LifecycleInit
<1>3. /\ 1 \in 1 .. Len(Releases) /\ 0 \in Contents /\ 1 \in Contents /\ Foreign \in Contents
      /\ Releases[1] \in Nat /\ 0 \in 0 .. Len(Releases) /\ 1 \in 0 .. Len(Releases)
  <2>1. Len(Releases) \in Nat \ {0}
    BY OrdersTyped
  <2> QED
    BY <2>1, ReleaseTyped DEF Contents, Foreign
<1>4. /\ host.file \in [Files -> Contents] /\ host.on \subseteq Units
      /\ host.up \subseteq host.on
  BY <1>3 DEF Hosts, Absent, Units
<1>5. CommandsInv
  <2>1. op \in [Admins -> Op]
    BY <1>2, IdleOpTyped
  <2>2. \A p \in Admins : Shape(p, lock, op[p]) /\ ~Active(p)
    BY <1>2, IdleOpTyped, LifecycleAssumption DEF Shape, Active
  <2> QED
    BY <1>2, <2>1, <2>2 DEF CommandsInv
<1>6. DaemonsInv
  <2>1. daemon \in [Daemons -> Daemon]
    BY <1>2, <1>3 DEF Daemon, Down
  <2>2. ASSUME NEW s \in Daemons PROVE Served(s)
    <3>1. run[s].pc = "idle"
      <4>1. run = [m \in Migrators |-> NoRun]
        BY DEF LifecycleInit, MigrationInit
      <4> QED
        BY <4>1, ProcessesDiffer DEF NoRun
    <3>2. CASE s \in host.up
      <4>1. daemon[s] = [state |-> "up", release |-> 1]
        BY <1>2, <3>2
      <4>2. CurrentVersion(db) = Releases[1]
        BY <1>2, <1>4, <3>2
      <4> QED
        BY <1>3, <3>1, <4>1, <4>2 DEF Served
    <3>3. CASE s \notin host.up
      <4>1. daemon[s] = Down
        BY <1>2, <3>3
      <4> QED
        BY <3>1, <4>1 DEF Served, Down
    <3> QED
      BY <3>2, <3>3
  <2> QED
    BY <2>1, <2>2 DEF DaemonsInv
<1>7. RestInv
  BY <1>2, <1>3, <1>4 DEF RestInv
<1> QED
  BY <1>1, <1>5, <1>6, <1>7 DEF LifecycleInv

LEMMA LifecycleInvNext == LifecycleInv /\ [LifecycleNext]_lifecycleVars => LifecycleInv'
<1> SUFFICES ASSUME LifecycleInv, [LifecycleNext]_lifecycleVars PROVE LifecycleInv'
  OBVIOUS
<1>1. CASE UNCHANGED lifecycleVars
  <2>1. UNCHANGED <<db, faults, run, daemon, op, lock, package, files, enabled, disturbed, used>>
    BY <1>1 DEF lifecycleVars, migrationVars
  <2>2. MigrationInv' /\ DaemonsInv'
    BY <2>1, SystemRests
  <2>3. CommandsInv' /\ RestInv'
    BY <2>1 DEF LifecycleInv, CommandsInv, RestInv, Shape, Active
  <2> QED
    BY <2>2, <2>3 DEF LifecycleInv
<1>2. ASSUME NEW p \in Admins, NEW cmd \in Commands, Begin(p, cmd)
      PROVE  LifecycleInv'
  BY <1>2, BeginKeeps
<1>3. ASSUME NEW p \in Admins, CommandStep(p)
      PROVE  LifecycleInv'
  BY <1>3, LookingKeeps, FilesKeep, SystemctlKeeps, FailuresKeep, CommandMigrates DEF CommandStep
<1>4. ASSUME NEW p \in Admins, Fail(p) \/ Kill(p)
      PROVE  LifecycleInv'
  BY <1>4, FailuresKeep, KillKeeps
<1>5. ASSUME NEW s \in Daemons, DaemonStep(s) \/ DaemonDies(s)
      PROVE  LifecycleInv'
  BY <1>5, DaemonsKeep
<1>6. CASE InstallWheel
  <2>1. /\ UNCHANGED <<db, faults, run, daemon, op, lock, files, enabled, disturbed, used>>
        /\ package' = package + 1 /\ package < Len(Releases)
    BY <1>6 DEF InstallWheel, migrationVars
  <2>2. MigrationInv' /\ DaemonsInv'
    BY <2>1, SystemRests
  <2>3. CommandsInv'
    BY <2>1 DEF LifecycleInv, CommandsInv, Shape, Active
  <2>4. package' \in 1 .. Len(Releases)
    BY <2>1, OrdersTyped DEF LifecycleInv, RestInv
  <2>5. RestInv'
    BY <2>1, <2>4 DEF LifecycleInv, RestInv
  <2> QED
    BY <2>2, <2>3, <2>5 DEF LifecycleInv
<1>7. CASE UpdateEnds
  <2>1. /\ UNCHANGED <<db, faults, run, daemon, op, package, files, enabled, disturbed>>
        /\ lock' = Nobody /\ used' = [used EXCEPT !.trouble = @ + 1]
    BY <1>7 DEF UpdateEnds, migrationVars
  <2>2. MigrationInv' /\ DaemonsInv'
    BY <2>1, SystemRests
  <2>3. CommandsInv'
    BY <2>1, LockGoes DEF LifecycleInv
  <2>4. used' \in [command : Nat, trouble : Nat]
    BY <2>1 DEF LifecycleInv, RestInv
  <2>5. RestInv'
    BY <2>1, <2>4 DEF LifecycleInv, RestInv
  <2> QED
    BY <2>2, <2>3, <2>5 DEF LifecycleInv
<1> QED
  BY <1>1, <1>2, <1>3, <1>4, <1>5, <1>6, <1>7 DEF LifecycleNext

LEMMA LifecycleInvHolds == LifecycleSpec => []LifecycleInv
BY LifecycleInvInit, LifecycleInvNext, PTL DEF LifecycleSpec

-----------------------------------------------------------------------------
(* What a command still has to do *)

\* An uninstall disables and stops everything before it removes the first file; no
\* other command removes one.
RemovesOnly(t) == \A i \in 1 .. Len(t) : t[i].do \in {"remove", "unlock"}
DisableAll == [do |-> "disable --now", on |-> Units]
ToDisable(t) ==
    \E k \in 1 .. Len(t) :
        /\ t[k] = DisableAll
        /\ \A i \in 1 .. Len(t) : /\ i < k => t[i].do \in {"preflight", "lock"}
                                  /\ i > k => t[i].do \in {"remove", "unlock"}
Removeless(t) == \A i \in 1 .. Len(t) : t[i].do # "remove"

Plan(cmd, t) ==
    t # <<>> => IF cmd = "uninstall" THEN ToDisable(t) \/ RemovesOnly(t) ELSE Removeless(t)

LEMMA ToDisableGrows ==
    ASSUME NEW t \in Seq(Step), ToDisable(t), NEW a \in Seq(Step)
    PROVE  /\ (\A i \in 1 .. Len(a) : a[i].do \in {"preflight", "lock"}) => ToDisable(a \o t)
           /\ (\A i \in 1 .. Len(a) : a[i].do \in {"remove", "unlock"}) => ToDisable(t \o a)
<1>1. PICK k \in 1 .. Len(t) :
        /\ t[k] = DisableAll
        /\ \A i \in 1 .. Len(t) : /\ i < k => t[i].do \in {"preflight", "lock"}
                                  /\ i > k => t[i].do \in {"remove", "unlock"}
  BY DEF ToDisable
<1>2. ASSUME \A i \in 1 .. Len(a) : a[i].do \in {"preflight", "lock"}
      PROVE  ToDisable(a \o t)
  <2> DEFINE c == a \o t
             m == Len(a) + k
  <2>1. /\ Len(a) \in Nat /\ Len(t) \in Nat /\ Len(c) = Len(a) + Len(t)
        /\ \A i \in 1 .. Len(a) : c[i] = a[i]
        /\ \A i \in 1 .. Len(t) : c[Len(a) + i] = t[i]
    BY ConcatSteps
  <2> HIDE DEF c
  <2>2. m \in 1 .. Len(c) /\ c[m] = t[k]
    BY <2>1
  <2>3. ASSUME NEW i \in 1 .. Len(c), i < m PROVE c[i].do \in {"preflight", "lock"}
    <3>1. CASE i <= Len(a)
      BY <1>2, <2>1, <3>1
    <3>2. CASE i > Len(a)
      <4>1. i - Len(a) < k /\ i - Len(a) \in 1 .. Len(t) /\ i = Len(a) + (i - Len(a))
        BY <2>1, <2>3, <3>2
      <4>2. c[i] = t[i - Len(a)]
        BY <2>1, <4>1
      <4> QED
        BY <1>1, <4>1, <4>2
    <3> QED
      BY <2>1, <3>1, <3>2
  <2>4. ASSUME NEW i \in 1 .. Len(c), i > m PROVE c[i].do \in {"remove", "unlock"}
    <3>1. i - Len(a) > k /\ i - Len(a) \in 1 .. Len(t) /\ i = Len(a) + (i - Len(a))
      BY <2>1, <2>4
    <3>2. c[i] = t[i - Len(a)]
      BY <2>1, <3>1
    <3> QED
      BY <1>1, <3>1, <3>2
  <2> HIDE DEF m
  <2>5. ToDisable(c)
    BY <1>1, <2>2, <2>3, <2>4 DEF ToDisable
  <2> QED
    BY <2>5 DEF c
<1>3. ASSUME \A i \in 1 .. Len(a) : a[i].do \in {"remove", "unlock"}
      PROVE  ToDisable(t \o a)
  <2> DEFINE c == t \o a
  <2>1. /\ Len(a) \in Nat /\ Len(t) \in Nat /\ Len(c) = Len(t) + Len(a)
        /\ \A i \in 1 .. Len(t) : c[i] = t[i]
        /\ \A i \in 1 .. Len(a) : c[Len(t) + i] = a[i]
    BY ConcatSteps
  <2> HIDE DEF c
  <2>2. k \in 1 .. Len(c) /\ c[k] = t[k]
    BY <2>1
  <2>3. ASSUME NEW i \in 1 .. Len(c), i < k PROVE c[i].do \in {"preflight", "lock"}
    <3>1. i \in 1 .. Len(t) /\ c[i] = t[i]
      BY <2>1, <2>3
    <3> QED
      BY <1>1, <2>3, <3>1
  <2>4. ASSUME NEW i \in 1 .. Len(c), i > k PROVE c[i].do \in {"remove", "unlock"}
    <3>1. CASE i <= Len(t)
      <4>1. i \in 1 .. Len(t) /\ c[i] = t[i]
        BY <2>1, <3>1
      <4> QED
        BY <1>1, <2>4, <4>1
    <3>2. CASE i > Len(t)
      <4>1. i - Len(t) \in 1 .. Len(a) /\ i = Len(t) + (i - Len(t))
        BY <2>1, <3>2
      <4>2. c[i] = a[i - Len(t)]
        BY <2>1, <4>1
      <4> QED
        BY <1>3, <4>1, <4>2
    <3> QED
      BY <2>1, <3>1, <3>2
  <2>5. ToDisable(c)
    BY <1>1, <2>2, <2>3, <2>4 DEF ToDisable
  <2> QED
    BY <2>5 DEF c
<1> QED
  BY <1>2, <1>3

LEMMA UninstallPlan == ToDisable(Uninstall)
<1> DEFINE b == All("disable --now", Units)
           e == Each("remove", UnitOrder \o <<Launcher>>)
<1>1. b \in Seq(Step) /\ ToDisable(b)
  <2>1. DisableAll \in Step
    BY DEF Step, Calls, DisableAll
  <2>2. b = <<DisableAll>>
    BY DEF All, DisableAll
  <2> HIDE DEF b
  <2>3. b \in Seq(Step) /\ Len(b) = 1 /\ b[1] = DisableAll
    BY <2>1, <2>2
  <2>4. ToDisable(b)
    BY <2>3 DEF ToDisable
  <2> QED
    BY <2>3, <2>4
<1>2. e \in Seq(Step) /\ \A i \in 1 .. Len(e) : e[i].do \in {"remove", "unlock"}
  <2>1. e \in Seq(Inner)
    BY EachTyped, OrdersTyped
  <2>2. \A i \in 1 .. Len(e) : e[i].do = "remove"
    BY OrdersTyped DEF Each
  <2>3. e \in Seq(Step)
    BY <2>1, SeqMonotonic DEF Inner
  <2> HIDE DEF e
  <2> QED
    BY <2>2, <2>3
<1>3. /\ Just("lock") \in Seq(Step) /\ Just("unlock") \in Seq(Step) /\ Just("preflight") \in Seq(Step)
      /\ \A i \in 1 .. Len(Just("lock")) : Just("lock")[i].do \in {"preflight", "lock"}
      /\ \A i \in 1 .. Len(Just("preflight")) : Just("preflight")[i].do \in {"preflight", "lock"}
      /\ \A i \in 1 .. Len(Just("unlock")) : Just("unlock")[i].do \in {"remove", "unlock"}
  <2>1. Just("preflight") \in Seq(Step)
    BY AllTyped, SeqMonotonic DEF Inner
  <2> QED
    BY <2>1, AllTyped DEF Just, All
<1> HIDE DEF b, e
<1> DEFINE be == b \o e
           lbe == Just("lock") \o be
           lbeu == lbe \o Just("unlock")
<1>4. be \in Seq(Step) /\ ToDisable(be)
  BY <1>1, <1>2, ToDisableGrows, ConcatProperties
<1> HIDE DEF be
<1>5. lbe \in Seq(Step) /\ ToDisable(lbe)
  BY <1>3, <1>4, ToDisableGrows, ConcatProperties
<1> HIDE DEF lbe
<1>6. lbeu \in Seq(Step) /\ ToDisable(lbeu)
  BY <1>3, <1>5, ToDisableGrows, ConcatProperties
<1> HIDE DEF lbeu
<1>7. ToDisable(Just("preflight") \o lbeu)
  BY <1>3, <1>6, ToDisableGrows
<1> QED
  BY <1>7 DEF Uninstall, Locked, lbeu, lbe, be, b, e

LEMMA ProgramPlan == \A cmd \in Commands : Program(cmd) # <<>> /\ Plan(cmd, Program(cmd))
<1> SUFFICES ASSUME NEW cmd \in Commands PROVE Program(cmd) # <<>> /\ Plan(cmd, Program(cmd))
  OBVIOUS
<1> DEFINE R == {step \in Step : step.do # "remove"}
<1>1. \A do \in Calls \cup {"ask", "write", "update", "rewrite"}, order \in Seq(Units) :
         Each(do, order) \in Seq(R)
  <2> SUFFICES ASSUME NEW do \in Calls \cup {"ask", "write", "update", "rewrite"},
                      NEW order \in Seq(Units)
               PROVE  Each(do, order) \in Seq(R)
    OBVIOUS
  <2>1. Each(do, order) = [i \in 1 .. Len(order) |-> [do |-> do, on |-> {order[i]}]]
    BY DEF Each
  <2>2. \A u \in Units : [do |-> do, on |-> {u}] \in R
    BY DEF Step, Calls, Files
  <2> HIDE DEF R
  <2>3. Len(order) \in Nat /\ \A i \in 1 .. Len(order) : [do |-> do, on |-> {order[i]}] \in R
    BY <2>2
  <2> QED
    BY <2>1, <2>3, IsASeq
<1>2. Each("write", UnitOrder \o <<Launcher>>) \in Seq(R)
  <2> DEFINE order == UnitOrder \o <<Launcher>>
  <2>1. order \in Seq(Files) /\ Each("write", order) = [i \in 1 .. Len(order) |-> [do |-> "write", on |-> {order[i]}]]
    <3>1. order \in Seq(Files)
      BY OrdersTyped
    <3> HIDE DEF order
    <3> QED
      BY <3>1 DEF Each
  <2>2. \A f \in Files : [do |-> "write", on |-> {f}] \in R
    BY DEF Step, Calls
  <2> HIDE DEF R, order
  <2>3. Len(order) \in Nat /\ \A i \in 1 .. Len(order) : [do |-> "write", on |-> {order[i]}] \in R
    BY <2>1, <2>2
  <2>4. Each("write", order) \in Seq(R)
    BY <2>1, <2>3, IsASeq
  <2> QED
    BY <2>4 DEF order
<1>3. /\ \A do \in Calls, on \in SUBSET Units : All(do, on) \in Seq(R)
      /\ \A do \in {"preflight", "lock", "unlock", "status", "migrate"} : Just(do) \in Seq(R)
  <2>1. /\ \A do \in Calls, on \in SUBSET Units : [do |-> do, on |-> on] \in R
        /\ \A do \in {"preflight", "lock", "unlock", "status", "migrate"} :
              [do |-> do, on |-> {}] \in R
    BY DEF Step, Calls
  <2> HIDE DEF R
  <2> QED
    BY <2>1 DEF All, Just
<1>4. /\ StartOrder \in Seq(Units) /\ UnitOrder \in Seq(Units) /\ Reverse(StartOrder) \in Seq(Units)
      /\ Daemons \in SUBSET Units /\ Units \in SUBSET Units
      /\ {"enable", "disable", "start", "stop", "restart", "re-enable", "re-start"} \subseteq Calls
  BY OrdersTyped DEF Calls, Units
<1> HIDE DEF R
<1>5. <<>> \in Seq(R)
  BY EmptySeq
<1>6. \A x, y \in Seq(R) : x \o y \in Seq(R)
  BY ConcatProperties
<1>7. \A x \in Seq(R) : Locked(x) \in Seq(R)
  BY <1>3, <1>6 DEF Locked
<1>8. RestoreStates \in Seq(R)
  BY <1>1, <1>4, <1>6 DEF RestoreStates
<1>9. Upgrade \in Seq(R)
  <2>1. /\ Each("ask", StartOrder) \in Seq(R) /\ Each("update", UnitOrder) \in Seq(R)
        /\ Just("preflight") \in Seq(R) /\ Just("status") \in Seq(R) /\ Just("migrate") \in Seq(R)
    BY <1>1, <1>3, <1>4
  <2> QED
    BY <1>6, <1>7, <1>8, <2>1 DEF Upgrade
<1>10. \A enable, start \in BOOLEAN : Install(enable, start) \in Seq(R)
  <2> SUFFICES ASSUME NEW enable \in BOOLEAN, NEW start \in BOOLEAN
               PROVE  Install(enable, start) \in Seq(R)
    OBVIOUS
  <2>1. /\ Just("preflight") \in Seq(R) /\ Just("migrate") \in Seq(R)
        /\ All("enable", Units) \in Seq(R) /\ All("start", Daemons) \in Seq(R)
    BY <1>3, <1>4
  <2>2. /\ (IF enable THEN All("enable", Units) ELSE <<>>) \in Seq(R)
        /\ (IF start THEN All("start", Daemons) ELSE <<>>) \in Seq(R)
    BY <1>5, <2>1
  <2> QED
    BY <1>2, <1>6, <1>7, <2>1, <2>2 DEF Install
<1>11. /\ Locked(All("enable", Units)) \in Seq(R) /\ Locked(All("disable", Units)) \in Seq(R)
       /\ Locked(Each("start", StartOrder)) \in Seq(R)
       /\ Locked(Each("stop", Reverse(StartOrder))) \in Seq(R)
       /\ Locked(All("restart", Daemons)) \in Seq(R)
  BY <1>1, <1>3, <1>4, <1>7
<1>12. cmd # "uninstall" => Program(cmd) \in Seq(R)
  BY <1>9, <1>10, <1>11, LifecycleAssumption DEF Program
<1>13. \A t \in Seq(R) : Removeless(t)
  BY DEF Removeless, R
<1>14. Program(cmd) # <<>>
  <2>1. \E k \in 1 .. Len(Program(cmd)) - 1 : TRUE
    BY ProgramShape DEF BeforeLock
  <2>2. Program(cmd) \in Seq(Step)
    BY ProgramShape
  <2> QED
    BY <2>1, <2>2, EmptySeq
<1>15. cmd = "uninstall" => Program(cmd) = Uninstall
  BY DEF Program
<1> QED
  BY <1>12, <1>13, <1>14, <1>15, UninstallPlan DEF Plan

\* What a step leaves of a plan: the removals begin when everything is disabled.
LEMMA PlanAdvances ==
    ASSUME NEW t \in Seq(Step), t # <<>>
    PROVE  /\ Removeless(t) => Removeless(Tail(t)) /\ Head(t).do # "remove"
           /\ RemovesOnly(t) => RemovesOnly(Tail(t)) /\ Head(t).do \in {"remove", "unlock"}
           /\ ToDisable(t) =>
                 /\ Head(t).do # "remove" /\ ~RemovesOnly(t)
                 /\ \/ ToDisable(Tail(t)) /\ Head(t).do \in {"preflight", "lock"}
                    \/ RemovesOnly(Tail(t)) /\ Head(t) = DisableAll
<1> DEFINE n == Len(t)
           r == Tail(t)
<1>1. /\ n \in Nat \ {0} /\ Head(t) = t[1] /\ r \in Seq(Step) /\ Len(r) = n - 1
      /\ \A i \in 1 .. n - 1 : r[i] = t[i + 1]
  BY HeadOfShape
<1> HIDE DEF n, r
<1>2. Removeless(t) => Removeless(r) /\ Head(t).do # "remove"
  BY <1>1 DEF Removeless, n
<1>3. RemovesOnly(t) => RemovesOnly(r) /\ Head(t).do \in {"remove", "unlock"}
  BY <1>1 DEF RemovesOnly, n
<1>4. DisableAll.do = "disable --now"
  BY DEF DisableAll
<1>5. ASSUME ToDisable(t)
      PROVE  /\ Head(t).do # "remove" /\ ~RemovesOnly(t)
             /\ \/ ToDisable(r) /\ Head(t).do \in {"preflight", "lock"}
                \/ RemovesOnly(r) /\ Head(t) = DisableAll
  <2>1. PICK k \in 1 .. n :
          /\ t[k] = DisableAll
          /\ \A i \in 1 .. n : /\ i < k => t[i].do \in {"preflight", "lock"}
                               /\ i > k => t[i].do \in {"remove", "unlock"}
    BY <1>5 DEF ToDisable, n
  <2>2. ~RemovesOnly(t)
    <3>1. t[k].do = "disable --now" /\ k \in 1 .. Len(t)
      BY <1>4, <2>1 DEF n
    <3> QED
      BY <3>1 DEF RemovesOnly
  <2>3. CASE k = 1
    <3>1. ASSUME NEW i \in 1 .. Len(r) PROVE r[i].do \in {"remove", "unlock"}
      <4>1. i + 1 \in 1 .. n /\ i + 1 > k /\ r[i] = t[i + 1]
        BY <1>1, <2>3
      <4> QED
        BY <2>1, <4>1
    <3> QED
      <4>1. RemovesOnly(r)
        BY <3>1 DEF RemovesOnly
      <4>2. Head(t) = DisableAll /\ Head(t).do # "remove"
        BY <1>1, <1>4, <2>1, <2>3
      <4> QED
        BY <2>2, <4>1, <4>2
  <2>4. CASE k # 1
    <3> DEFINE j == k - 1
    <3>1. j \in 1 .. Len(r) /\ r[j] = t[k] /\ 1 \in 1 .. n /\ 1 < k
      BY <1>1, <2>4
    <3>2. ASSUME NEW i \in 1 .. Len(r)
          PROVE  /\ i < j => r[i].do \in {"preflight", "lock"}
                 /\ i > j => r[i].do \in {"remove", "unlock"}
      <4>1. i + 1 \in 1 .. n /\ r[i] = t[i + 1] /\ (i < j => i + 1 < k) /\ (i > j => i + 1 > k)
        BY <1>1, <2>4
      <4> QED
        BY <2>1, <4>1
    <3> HIDE DEF j
    <3>4. ToDisable(r)
      BY <2>1, <3>1, <3>2 DEF ToDisable
    <3>5. t[1].do \in {"preflight", "lock"}
      BY <2>1, <3>1
    <3> QED
      BY <1>1, <2>2, <3>4, <3>5
  <2> QED
    BY <2>3, <2>4
<1> QED
  BY <1>2, <1>3, <1>5 DEF r

-----------------------------------------------------------------------------
(* What becomes of a command *)

\* What a command knows as long as it is under way.
Knows(o, q) == /\ q.cmd = o.cmd /\ q.alone = o.alone /\ q.first = o.first
               /\ q.saved = o.saved

LEMMA OverFields ==
    ASSUME CommandsInv, NEW p \in Admins, NEW how \in {"ok", "failed", "killed"}
    PROVE  LET o == Over(p, how)
           IN o.missed = op[p].missed /\ o.result = how
BY DEF Over, IdleOp

LEMMA AdvancedFields ==
    ASSUME CommandsInv, NEW p \in Admins, Active(p)
    PROVE  LET o == Advanced(p)
           IN /\ o.todo = Tail(op[p].todo) /\ o.missed = op[p].missed
              /\ o.todo # <<>> => Knows(op[p], o) /\ o.result = op[p].result
              /\ o.todo = <<>> => o.result = IF Recovering(p) THEN "failed" ELSE "ok"
<1>1. op[p] \in Op /\ op[p].todo \in Seq(Step) /\ op[p].todo # <<>>
  BY DEF CommandsInv, Op, Active
<1>2. Advanced(p).todo = Tail(op[p].todo) /\ (Len(op[p].todo) > 1 <=> Tail(op[p].todo) # <<>>)
  BY <1>1, AdvancedTyped, HeadOfShape
<1>3. CASE Len(op[p].todo) > 1
  <2>1. Advanced(p) = [op[p] EXCEPT !.todo = Tail(op[p].todo)]
    BY <1>3 DEF Advanced
  <2>2. /\ Advanced(p).cmd = op[p].cmd /\ Advanced(p).alone = op[p].alone
        /\ Advanced(p).first = op[p].first /\ Advanced(p).saved = op[p].saved
        /\ Advanced(p).missed = op[p].missed /\ Advanced(p).result = op[p].result
    BY <1>1, <2>1 DEF Op
  <2> QED
    BY <1>2, <1>3, <2>2 DEF Knows
<1>4. CASE ~(Len(op[p].todo) > 1)
  <2>1. PICK how \in {"ok", "failed"} :
           Advanced(p) = Over(p, how) /\ how = IF Recovering(p) THEN "failed" ELSE "ok"
    BY <1>4 DEF Advanced
  <2> QED
    BY <1>2, <1>4, <2>1, OverFields
<1> QED
  BY <1>3, <1>4

\* The exception of a step: a rewrite that failed is missed, an upgrade that has come to
\* its lock recovers, any other command is over.
LEMMA FailureFields ==
    ASSUME CommandsInv, NEW p \in Admins, Active(p)
    PROVE  LET o == AfterFailure(p)
           IN \/ /\ At(p, "rewrite")
                 /\ o = [Advanced(p) EXCEPT !.missed = @ \cup Current(p).on]
              \/ /\ ~At(p, "rewrite") /\ op[p].cmd = "upgrade" /\ ~Recovering(p)
                 /\ o = [op[p] EXCEPT !.todo = Recovery]
              \/ /\ ~At(p, "rewrite")
                 /\ \/ op[p].cmd # "upgrade" \/ Recovering(p)
                    \/ ~At(p, "lock") /\ NotYetLocked(p)
                 /\ o = Over(p, "failed")
<1>1. /\ op[p] \in Op /\ op[p].todo \in Seq(Step) /\ op[p].todo # <<>> /\ Shape(p, lock, op[p])
  BY DEF CommandsInv, Op, Active
<1>2. ASSUME At(p, "rewrite") PROVE op[p].cmd = "upgrade" /\ Recovering(p)
  <2>1. Head(op[p].todo).do = "rewrite"
    BY <1>2 DEF At, Current
  <2>2. ~BeforeLock(op[p].todo) /\ ~UnderLock(op[p].todo)
    BY <1>1, <2>1, NextShape
  <2>3. AfterLock(op[p].todo) /\ op[p].cmd = "upgrade"
    BY <1>1, <2>2 DEF Shape
  <2>4. \A i \in DOMAIN op[p].todo : op[p].todo[i].do # "unlock"
    BY <1>1, <2>3 DEF AfterLock
  <2> QED
    BY <2>3, <2>4 DEF Recovering
<1>3. CASE At(p, "rewrite")
  BY <1>2, <1>3 DEF AfterFailure
<1>4. CASE /\ ~At(p, "rewrite") /\ op[p].cmd = "upgrade" /\ ~Recovering(p)
           /\ At(p, "lock") \/ ~NotYetLocked(p)
  BY <1>4 DEF AfterFailure
<1>5. CASE ~At(p, "rewrite") /\ ~(/\ op[p].cmd = "upgrade" /\ ~Recovering(p)
                                  /\ At(p, "lock") \/ ~NotYetLocked(p))
  BY <1>5 DEF AfterFailure
<1> QED
  BY <1>3, <1>4, <1>5

\* A command goes on with its next step, is over, or recovers if it is an upgrade.
Moves(o, q) ==
    \/ q.todo = <<>>
    \/ /\ q.alone = o.alone
       /\ \/ q.todo = Tail(o.todo) /\ q.cmd = o.cmd
          \/ q.todo = Recovery /\ q.cmd = "upgrade"

LEMMA RaiseMoves ==
    ASSUME CommandsInv, NEW p \in Admins, Active(p), RaiseIn(p)
    PROVE  /\ op' = [op EXCEPT ![p] = op'[p]] /\ Moves(op[p], op'[p])
           /\ ~At(p, "rewrite") => op'[p].todo = <<>> \/ op'[p].cmd = "upgrade"
<1>1. op' = [op EXCEPT ![p] = AfterFailure(p)] /\ op'[p] = AfterFailure(p)
  BY DEF RaiseIn, CommandsInv
<1>2. op[p] \in Op
  BY DEF CommandsInv
<1>3. CASE At(p, "rewrite") /\ AfterFailure(p) = [Advanced(p) EXCEPT !.missed = @ \cup Current(p).on]
  <2>1. Advanced(p) \in Op
    BY AdvancedTyped
  <2>2. /\ AfterFailure(p).todo = Advanced(p).todo /\ AfterFailure(p).alone = Advanced(p).alone
        /\ AfterFailure(p).cmd = Advanced(p).cmd
    BY <1>3, <2>1 DEF Op
  <2> QED
    BY <1>1, <1>3, <2>2, AdvancedFields DEF Moves, Knows
<1>4. CASE op[p].cmd = "upgrade" /\ AfterFailure(p) = [op[p] EXCEPT !.todo = Recovery]
  <2>1. /\ AfterFailure(p).todo = Recovery /\ AfterFailure(p).alone = op[p].alone
        /\ AfterFailure(p).cmd = "upgrade"
    BY <1>2, <1>4 DEF Op
  <2> QED
    BY <1>1, <2>1 DEF Moves
<1>5. CASE AfterFailure(p) = Over(p, "failed")
  BY <1>1, <1>5, OverFields, OverTyped DEF Moves
<1> QED
  BY <1>3, <1>4, <1>5, FailureFields

LEMMA AdvanceMoves ==
    ASSUME CommandsInv, NEW p \in Admins, Active(p), NEW o,
           op' = [op EXCEPT ![p] = o], o.todo = Advanced(p).todo, o.cmd = Advanced(p).cmd,
           o.alone = Advanced(p).alone
    PROVE  op' = [op EXCEPT ![p] = op'[p]] /\ Moves(op[p], op'[p])
BY AdvancedFields DEF Moves, Knows, CommandsInv

\* Every step of a command is one of these, and only the call itself passes a
\* "disable --now".
LEMMA CommandMoves ==
    ASSUME LifecycleInv, NEW p \in Admins, CommandStep(p) \/ Fail(p) \/ Kill(p)
    PROVE  \/ UNCHANGED op
           \/ /\ Active(p) /\ op' = [op EXCEPT ![p] = op'[p]] /\ Moves(op[p], op'[p])
              /\ At(p, "disable --now")
                    => DisableNow(p) \/ op'[p].todo = <<>> \/ op'[p].cmd = "upgrade"
<1>1. CommandsInv
  BY DEF LifecycleInv
<1>2. CASE RaiseIn(p) /\ Active(p)
  BY <1>1, <1>2, RaiseMoves DEF At
<1>3. CASE op' = [op EXCEPT ![p] = Advanced(p)] /\ Active(p) /\ ~At(p, "disable --now")
  BY <1>1, <1>3, AdvanceMoves
<1>4. CASE DisableNow(p)
  BY <1>1, <1>4, AdvanceMoves DEF DisableNow, Systemctl, Acts, At
<1>5. CASE Kill(p)
  <2>1. op' = [op EXCEPT ![p] = Over(p, "killed")] /\ Active(p) /\ op'[p] = Over(p, "killed")
    BY <1>1, <1>5 DEF Kill, CommandsInv
  <2> QED
    BY <1>1, <2>1, OverFields, OverTyped DEF Moves
<1>6. CASE Ask(p)
  <2> DEFINE s == CHOOSE d \in Daemons : Current(p).on = {d}
             with(active) == [Advanced(p) EXCEPT !.before[s] = [enabled |-> s \in enabled,
                                                                active |-> active]]
  <2>0. PICK active \in BOOLEAN : op' = [op EXCEPT ![p] = with(active)]
    BY <1>6 DEF Ask
  <2> DEFINE seen == [enabled |-> s \in enabled, active |-> active]
             o == [Advanced(p) EXCEPT !.before[s] = seen]
  <2>1. op' = [op EXCEPT ![p] = o] /\ At(p, "ask") /\ Active(p)
    BY <1>6, <2>0 DEF Ask, At
  <2> HIDE DEF seen, s
  <2>2. o.todo = Advanced(p).todo /\ o.cmd = Advanced(p).cmd /\ o.alone = Advanced(p).alone
    BY <1>1, <2>1, AdvancedTyped DEF Op
  <2> HIDE DEF o
  <2> QED
    BY <1>1, <2>1, <2>2, AdvanceMoves DEF At
<1>7. CASE WriteFile(p)
  <2> DEFINE o == [Advanced(p) EXCEPT !.saved = Saved(p)]
  <2>1. op' = [op EXCEPT ![p] = o] /\ ~At(p, "disable --now") /\ Active(p)
    BY <1>7 DEF WriteFile, At
  <2>2. o.todo = Advanced(p).todo /\ o.cmd = Advanced(p).cmd /\ o.alone = Advanced(p).alone
    BY <1>1, <2>1, AdvancedTyped DEF Op
  <2> HIDE DEF o
  <2> QED
    BY <1>1, <2>1, <2>2, AdvanceMoves
<1>8. CASE OpenByCommand(p) \/ MigrateByCommand(p)
  BY <1>8 DEF OpenByCommand, MigrateByCommand
<1>9. CASE Preflight(p) \/ TakeLock(p) \/ Unlock(p) \/ Status(p) \/ RefuseFile(p) \/ Rewrite(p)
           \/ RemoveFile(p)
  BY <1>2, <1>3, <1>9 DEF Preflight, TakeLock, Unlock, Status, RefuseFile, Rewrite, RemoveFile,
     Acts, At
<1>10. CASE Enable(p) \/ Disable(p) \/ StartUnits(p) \/ StopUnits(p) \/ RestartUnits(p)
            \/ ReEnable(p) \/ ReStart(p)
  BY <1>3, <1>10 DEF Enable, Disable, StartUnits, StopUnits, RestartUnits, ReEnable, ReStart,
     Systemctl, Acts, At
<1>11. CASE UnknownUnit(p) \/ MigratedByCommand(p) \/ Fail(p)
  BY <1>2, <1>3, <1>11 DEF UnknownUnit, MigratedByCommand, Fail, At
<1> QED
  BY <1>4, <1>5, <1>6, <1>7, <1>8, <1>9, <1>10, <1>11 DEF CommandStep

-----------------------------------------------------------------------------
(* No unit is left without its file *)

\* Nothing is enabled and nothing runs, as "disable --now" leaves it.
Quiet == enabled = {} /\ \A s \in Daemons : daemon[s].state = "down"

PlansInv == \A p \in Admins : Plan(op[p].cmd, op[p].todo)
AloneInv == \A p, q \in Admins : p # q /\ Active(p) /\ Active(q) => ~op[p].alone
Exclusive(p) == lock = p \/ op[p].alone
QuietInv ==
    ~disturbed =>
       \A p \in Admins : Active(p) /\ op[p].cmd = "uninstall" /\ RemovesOnly(op[p].todo)
                             /\ Exclusive(p) => Quiet

UnitsInv == PlansInv /\ AloneInv /\ QuietInv /\ NothingLeftWithoutUnit

LEMMA UnitsInvInit == LifecycleInit => UnitsInv
<1> SUFFICES ASSUME LifecycleInit PROVE UnitsInv
  OBVIOUS
<1>1. PICK host \in Hosts :
        /\ files = host.file /\ enabled = host.on
        /\ daemon = [s \in Daemons |->
                       IF s \in host.up THEN [state |-> "up", release |-> 1] ELSE Down]
        /\ op = [p \in Admins |-> IdleOp]
  BY DEF LifecycleInit
<1>2. \A p \in Admins : op[p].todo = <<>>
  BY <1>1, IdleOpTyped
<1>3. host.up \subseteq host.on /\ \A u \in host.on : host.file[u] # Absent
  <2>1. Daemons \cap Range(Timers) = {}
    <3> SUFFICES ASSUME NEW s \in Daemons, s \in Range(Timers) PROVE FALSE
      OBVIOUS
    <3>1. PICK i \in 1 .. Len(StartOrder), j \in 1 .. Len(Timers) :
            s = StartOrder[i] /\ s = Timers[j]
      <4>1. /\ DOMAIN StartOrder = 1 .. Len(StartOrder) /\ DOMAIN Timers = 1 .. Len(Timers)
            /\ \E i \in DOMAIN StartOrder : s = StartOrder[i]
            /\ \E j \in DOMAIN Timers : s = Timers[j]
        BY OrdersTyped DEF Daemons, Range
      <4> QED
        BY <4>1
    <3> DEFINE both == StartOrder \o Timers
    <3>2. /\ Len(StartOrder) \in Nat /\ Len(Timers) \in Nat
          /\ DOMAIN both = 1 .. Len(StartOrder) + Len(Timers)
          /\ both[i] = StartOrder[i] /\ both[Len(StartOrder) + j] = Timers[j]
      BY OrdersTyped, ConcatProperties
    <3>3. \A m, n \in DOMAIN both : both[m] = both[n] => m = n
      BY LifecycleAssumption DEF IsInjective
    <3> HIDE DEF both
    <3> QED
      BY <3>1, <3>2, <3>3
  <2>2. Units \subseteq Files /\ Daemons \subseteq Files
    BY DEF Files, Units
  <2>3. Absent # 1
    BY DEF Absent
  <2> QED
    BY <2>1, <2>2, <2>3 DEF Hosts, Units
<1>4. ASSUME NEW s \in Daemons, daemon[s].state # "down" PROVE files[s] # Absent
  <2>1. s \in host.up
    BY <1>1, <1>4 DEF Down
  <2> QED
    BY <1>1, <1>3, <2>1
<1>5. NothingLeftWithoutUnit
  BY <1>1, <1>3, <1>4 DEF NothingLeftWithoutUnit
<1>6. PlansInv /\ AloneInv /\ QuietInv
  BY <1>2 DEF PlansInv, AloneInv, QuietInv, Plan, Active
<1> QED
  BY <1>5, <1>6 DEF UnitsInv

\* A command begins with its whole program, and is alone only if it is the only one.
LEMMA BeginKeepsUnits ==
    ASSUME LifecycleInv, UnitsInv, NEW p \in Admins, NEW cmd \in Commands, Begin(p, cmd)
    PROVE  UnitsInv'
<1> DEFINE others == {q \in Admins \ {p} : Active(q)}
           o == [IdleOp EXCEPT !.cmd = cmd, !.todo = Program(cmd), !.release = package,
                               !.alone = others = {},
                               !.first = IF cmd = "upgrade" THEN files ELSE @]
<1>1. op' = [q \in Admins |-> IF q = p THEN o
                              ELSE IF q \in others THEN [op[q] EXCEPT !.alone = FALSE] ELSE op[q]]
  BY DEF Begin
<1>2. o.cmd = cmd /\ o.todo = Program(cmd) /\ o.alone = (others = {})
  BY DEF IdleOp
<1> HIDE DEF o
<1>3. \A q \in Admins : op[q] \in Op
  BY DEF LifecycleInv, CommandsInv
<1>4. \A q \in Admins : q # p =>
         /\ op'[q].todo = op[q].todo /\ op'[q].cmd = op[q].cmd
         /\ op'[q].alone => op[q].alone
         /\ Active(q) => ~op'[q].alone
         /\ ~Active(q) => op'[q].todo = <<>>
  <2>1. \A r \in Op : LET n == [r EXCEPT !.alone = FALSE]
                      IN n.todo = r.todo /\ n.cmd = r.cmd /\ n.alone = FALSE
    BY DEF Op
  <2> QED
    BY <1>1, <1>3, <2>1 DEF Active
<1>5. op'[p] = o
  BY <1>1
<1>6. UNCHANGED <<files, enabled, daemon, disturbed, lock>>
  BY DEF Begin
<1>7. PlansInv'
  <2>1. \A q \in Admins : Plan(op[q].cmd, op[q].todo)
    BY DEF UnitsInv, PlansInv
  <2>2. Plan(op'[p].cmd, op'[p].todo)
    BY <1>2, <1>5, ProgramPlan
  <2>3. \A q \in Admins : q # p => Plan(op'[q].cmd, op'[q].todo)
    BY <1>4, <2>1
  <2> QED
    BY <2>2, <2>3 DEF PlansInv
<1>8. AloneInv'
  <2> SUFFICES ASSUME NEW q \in Admins, NEW r \in Admins, q # r, op'[q].todo # <<>>, op'[r].todo # <<>>
               PROVE  ~op'[q].alone
    BY DEF AloneInv, Active
  <2>1. CASE q # p
    BY <1>4, <2>1
  <2>2. CASE q = p
    <3>1. r \in others
      BY <1>4, <2>2
    <3> HIDE DEF others
    <3> QED
      BY <1>2, <1>5, <2>2, <3>1
  <2> QED
    BY <2>1, <2>2
<1>9. QuietInv'
  <2> SUFFICES ASSUME ~disturbed', NEW q \in Admins, op'[q].todo # <<>>, op'[q].cmd = "uninstall",
                      RemovesOnly(op'[q].todo), Exclusive(q)'
               PROVE  Quiet'
    BY DEF QuietInv, Active
  <2>1. q # p
    <3>1. Program(cmd) \in Seq(Step) /\ (cmd = "uninstall" => ToDisable(Program(cmd)))
      BY ProgramShape, UninstallPlan DEF Program
    <3>2. Program(cmd) # <<>>
      BY ProgramPlan
    <3> QED
      BY <1>2, <1>5, <3>1, <3>2, PlanAdvances
  <2>2. Quiet
    BY <1>4, <1>6, <2>1 DEF UnitsInv, QuietInv, Active, Exclusive
  <2> QED
    BY <1>6, <2>2 DEF Quiet
<1>10. NothingLeftWithoutUnit'
  BY <1>6 DEF UnitsInv, NothingLeftWithoutUnit
<1> QED
  BY <1>7, <1>8, <1>9, <1>10 DEF UnitsInv

\* A systemctl call sees to it that its units have files, and marks a command that runs
\* beside the holder of the lock.
LEMMA SystemctlEffects ==
    ASSUME LifecycleInv, NEW p \in Admins,
           \/ Enable(p) \/ Disable(p) \/ DisableNow(p) \/ StartUnits(p) \/ StopUnits(p)
           \/ RestartUnits(p) \/ ReEnable(p) \/ ReStart(p)
    PROVE  /\ Active(p) /\ Current(p).do \in Calls /\ Known(p) /\ UNCHANGED files
           /\ disturbed' = (disturbed \/ (lock # p /\ ~op[p].alone))
           /\ enabled' \subseteq enabled \cup On(p)
           /\ \A s \in Daemons :
                 daemon'[s].state # "down" => daemon[s].state # "down" \/ s \in On(p)
<1>1. Systemctl(p) /\ Active(p) /\ Current(p).do \in Calls
  BY DEF Enable, Disable, DisableNow, StartUnits, StopUnits, RestartUnits, ReEnable, ReStart, At,
     Calls
<1>2. Known(p) /\ UNCHANGED files /\ disturbed' = (disturbed \/ (lock # p /\ ~op[p].alone))
  BY <1>1 DEF Systemctl, Acts
<1>3. enabled' \subseteq enabled \cup On(p)
  BY DEF Enable, Disable, DisableNow, StartUnits, StopUnits, RestartUnits, ReEnable, ReStart
<1>4. ASSUME NEW s \in Daemons, daemon'[s].state # "down"
      PROVE  daemon[s].state # "down" \/ s \in On(p)
  <2>1. CASE UNCHANGED daemon
    BY <1>4, <2>1
  <2>2. CASE Start(On(p))
    <3>1. daemon'[s] = daemon[s] \/ s \in On(p)
      BY <2>2 DEF Start
    <3> QED
      BY <1>4, <3>1
  <2>3. CASE Stop(On(p))
    <3>1. daemon'[s] = daemon[s] \/ s \in On(p)
      BY <2>3 DEF Stop
    <3> QED
      BY <1>4, <3>1
  <2>4. CASE RestartUnits(p)
    <3>1. daemon'[s] = daemon[s] \/ s \in On(p)
      BY <2>4 DEF RestartUnits
    <3> QED
      BY <1>4, <3>1
  <2> QED
    BY <2>1, <2>2, <2>3, <2>4 DEF Enable, Disable, DisableNow, StartUnits, StopUnits, ReEnable,
       ReStart
<1> QED
  BY <1>1, <1>2, <1>3, <1>4

\* Every other step of a command leaves the units as they are.
LEMMA OthersRest ==
    ASSUME NEW p \in Admins,
           \/ Preflight(p) \/ Ask(p) \/ TakeLock(p) \/ Unlock(p) \/ Status(p) \/ RefuseFile(p)
           \/ UnknownUnit(p) \/ OpenByCommand(p) \/ MigrateByCommand(p) \/ MigratedByCommand(p)
           \/ Fail(p) \/ Kill(p)
    PROVE  UNCHANGED <<enabled, daemon, disturbed, files>>
<1>1. CASE Preflight(p) \/ Ask(p) \/ TakeLock(p) \/ Unlock(p) \/ Status(p) \/ RefuseFile(p)
           \/ UnknownUnit(p)
  BY <1>1 DEF Preflight, Ask, TakeLock, Unlock, Status, RefuseFile, UnknownUnit
<1>2. CASE OpenByCommand(p) \/ MigrateByCommand(p) \/ MigratedByCommand(p) \/ Fail(p) \/ Kill(p)
  BY <1>2 DEF OpenByCommand, MigrateByCommand, MigratedByCommand, Fail, Kill, otherwise
<1> QED
  BY <1>1, <1>2

\* A file goes only by a removal.
LEMMA FilesMove ==
    ASSUME LifecycleInv, NEW p \in Admins, WriteFile(p) \/ Rewrite(p) \/ RemoveFile(p)
    PROVE  /\ Active(p) /\ UNCHANGED <<enabled, daemon>> /\ (disturbed => disturbed')
           /\ ~At(p, "remove") => \A u \in Units : files[u] # Absent => files'[u] # Absent
<1>1. Active(p) /\ UNCHANGED <<enabled, daemon>> /\ (disturbed => disturbed')
  BY DEF WriteFile, Rewrite, RemoveFile, Acts, At
<1>2. ASSUME ~At(p, "remove"), NEW u \in Units, files[u] # Absent
      PROVE  files'[u] # Absent
  <2>1. op[p].release # Absent /\ files \in [Files -> Contents] /\ u \in Files
    BY <1>1 DEF LifecycleInv, CommandsInv, RestInv, Absent, Files
  <2>2. CASE WriteFile(p)
    BY <1>2, <2>1, <2>2 DEF WriteFile
  <2>3. CASE Rewrite(p)
    <3> DEFINE f == File(p)
    <3>1. files' = files \/ (files' = [files EXCEPT ![f] = op[p].saved[f]] /\ op[p].saved[f] # Absent)
      BY <2>3 DEF Rewrite, Rewritten
    <3> HIDE DEF f
    <3> QED
      BY <1>2, <2>1, <3>1
  <2> QED
    BY <1>2, <2>2, <2>3 DEF RemoveFile
<1> QED
  BY <1>1, <1>2

LEMMA RecoveryRemovesNothing == Removeless(Recovery)
<1> DEFINE R == {step \in Step : step.do # "remove"}
<1>1. Each("rewrite", UnitOrder) \in Seq(R)
  <2> DEFINE e == Each("rewrite", UnitOrder)
  <2>1. e \in Seq(Step)
    <3>1. UnitOrder \in Seq(Files)
      BY OrdersTyped, SeqMonotonic DEF Files
    <3> QED
      BY <3>1, EachTyped
  <2>2. \A i \in 1 .. Len(e) : e[i].do = "rewrite"
    BY OrdersTyped DEF Each
  <2> HIDE DEF e
  <2>3. \A i \in 1 .. Len(e) : e[i] \in R
    BY <2>1, <2>2, ElementOfSeq
  <2> HIDE DEF R
  <2>4. e \in Seq(R)
    BY <2>1, <2>3
  <2> QED
    BY <2>4 DEF e
<1>2. RestoreStates \in Seq(R)
  <2>1. Each("re-enable", StartOrder) \in Seq(R) /\ Each("re-start", StartOrder) \in Seq(R)
    <3> SUFFICES ASSUME NEW do \in {"re-enable", "re-start"} PROVE Each(do, StartOrder) \in Seq(R)
      OBVIOUS
    <3> DEFINE e == Each(do, StartOrder)
    <3>1. e \in Seq(Inner) /\ \A i \in 1 .. Len(e) : e[i].do = do
      <4>1. e \in Seq(Inner)
        BY OrdersTyped, EachTyped DEF Calls
      <4>2. \A i \in 1 .. Len(e) : e[i].do = do
        BY OrdersTyped DEF Each
      <4> QED
        BY <4>1, <4>2
    <3> HIDE DEF e
    <3>2. \A i \in 1 .. Len(e) : e[i] \in R
      BY <3>1, ElementOfSeq DEF Inner
    <3> HIDE DEF R
    <3>3. e \in Seq(R)
      BY <3>1, <3>2
    <3> QED
      BY <3>3 DEF e
  <2> HIDE DEF R
  <2> QED
    BY <2>1, ConcatProperties DEF RestoreStates
<1> HIDE DEF R
<1>3. Recovery \in Seq(R)
  BY <1>1, <1>2, ConcatProperties DEF Recovery
<1> QED
  BY <1>3 DEF Removeless, R

LEMMA CommandKeepsPlans ==
    ASSUME LifecycleInv, UnitsInv, NEW p \in Admins, CommandStep(p) \/ Fail(p) \/ Kill(p)
    PROVE  PlansInv' /\ AloneInv'
<1>1. CASE UNCHANGED op
  BY <1>1 DEF UnitsInv, PlansInv, AloneInv, Active
<1>2. CASE Active(p) /\ op' = [op EXCEPT ![p] = op'[p]] /\ Moves(op[p], op'[p])
  <2>1. /\ \A q \in Admins : q # p => op'[q] = op[q]
        /\ op[p].todo \in Seq(Step) /\ op[p].todo # <<>>
        /\ Plan(op[p].cmd, op[p].todo)
    BY <1>2 DEF LifecycleInv, CommandsInv, UnitsInv, PlansInv, Active, Op
  <2>2. Plan(op'[p].cmd, op'[p].todo)
    <3>1. CASE op'[p].todo = <<>>
      BY <3>1 DEF Plan
    <3>2. CASE op'[p].todo = Tail(op[p].todo) /\ op'[p].cmd = op[p].cmd
      BY <2>1, <3>2, PlanAdvances DEF Plan
    <3>3. CASE op'[p].todo = Recovery /\ op'[p].cmd = "upgrade"
      BY <3>3, RecoveryRemovesNothing DEF Plan
    <3> QED
      BY <1>2, <3>1, <3>2, <3>3 DEF Moves
  <2>3. PlansInv'
    BY <2>1, <2>2 DEF UnitsInv, PlansInv
  <2>4. AloneInv'
    BY <1>2, <2>1 DEF UnitsInv, AloneInv, Moves, Active
  <2> QED
    BY <2>3, <2>4
<1> QED
  BY <1>1, <1>2, CommandMoves

\* The lock goes to a command only in the step that takes it.
LEMMA LocksMove ==
    ASSUME NEW p \in Admins, CommandStep(p) \/ Fail(p) \/ Kill(p)
    PROVE  lock' \in {lock, Nobody} \/ (lock' = p /\ At(p, "lock"))
<1>1. CASE Preflight(p) \/ Ask(p) \/ TakeLock(p) \/ Unlock(p) \/ Status(p) \/ RefuseFile(p)
           \/ UnknownUnit(p) \/ MigratedByCommand(p) \/ Fail(p) \/ Kill(p)
  BY <1>1 DEF Preflight, Ask, TakeLock, Unlock, Status, RefuseFile, UnknownUnit, RaiseIn,
     MigratedByCommand, Fail, Kill, LockAfter, LockAfterKill
<1>2. CASE WriteFile(p) \/ Rewrite(p) \/ RemoveFile(p) \/ OpenByCommand(p) \/ MigrateByCommand(p)
  BY <1>2 DEF WriteFile, Rewrite, RemoveFile, OpenByCommand, MigrateByCommand
<1>3. CASE \/ Enable(p) \/ Disable(p) \/ DisableNow(p) \/ StartUnits(p) \/ StopUnits(p)
           \/ RestartUnits(p) \/ ReEnable(p) \/ ReStart(p)
  BY <1>3 DEF Enable, Disable, DisableNow, StartUnits, StopUnits, RestartUnits, ReEnable,
     ReStart, Start, Stop, LockAfterStop
<1> QED
  BY <1>1, <1>2, <1>3 DEF CommandStep

LEMMA HeadLocks ==
    ASSUME NEW t \in Seq(Step), t # <<>>, Head(t).do = "lock"
    PROVE  \E i \in DOMAIN t : t[i].do = "lock"
<1>1. 1 \in DOMAIN t /\ Head(t) = t[1]
  BY HeadOfShape
<1> QED
  BY <1>1

LEMMA CommandKeepsQuiet ==
    ASSUME LifecycleInv, UnitsInv, NEW p \in Admins, CommandStep(p) \/ Fail(p) \/ Kill(p)
    PROVE  QuietInv'
<1> SUFFICES ASSUME ~disturbed', NEW q \in Admins, op'[q].todo # <<>>, op'[q].cmd = "uninstall",
                    RemovesOnly(op'[q].todo), Exclusive(q)'
             PROVE  Quiet'
  BY DEF QuietInv, Active
<1>1. /\ ~disturbed
      /\ \/ UNCHANGED <<enabled, daemon>>
         \/ /\ Active(p) /\ Current(p).do \in Calls
            /\ disturbed' = (disturbed \/ (lock # p /\ ~op[p].alone))
  BY SystemctlEffects, OthersRest, FilesMove DEF CommandStep, LifecycleInv, RestInv
<1>2. /\ \A r \in Admins : /\ op[r].todo \in Seq(Step)
                           /\ Shape(r, lock, op[r]) /\ Plan(op[r].cmd, op[r].todo)
  BY DEF LifecycleInv, CommandsInv, UnitsInv, PlansInv, Op
\* Removing files, and with the lock now, the command had it before.
<1>3. ASSUME op[q].todo # <<>>, op[q].cmd = "uninstall", RemovesOnly(op[q].todo),
             op[q].alone = op'[q].alone
      PROVE  Quiet /\ Exclusive(q)
  <2>1. ~NotYetLocked(q)
    <3> DEFINE t == op[q].todo
    <3>1. t \in Seq(Step) /\ RemovesOnly(t)
      BY <1>2, <1>3
    <3> HIDE DEF t
    <3>2. DOMAIN t = 1 .. Len(t) /\ \A i \in 1 .. Len(t) : t[i].do # "lock"
      BY <3>1 DEF RemovesOnly
    <3>3. \A i \in DOMAIN t : t[i].do # "lock"
      BY <3>2
    <3> QED
      BY <3>3 DEF t, NotYetLocked
  <2>2. lock' = q => lock = q
    <3>1. lock' \in {lock, Nobody} \/ (lock' = p /\ At(p, "lock"))
      BY LocksMove
    <3>2. At(q, "lock") => NotYetLocked(q)
      BY <1>2, <1>3, HeadLocks DEF At, Current, NotYetLocked
    <3> QED
      BY <2>1, <3>1, <3>2, LifecycleAssumption
  <2>3. Exclusive(q)
    BY <1>3, <2>2 DEF Exclusive
  <2>4. Quiet
    BY <1>1, <1>3, <2>3 DEF UnitsInv, QuietInv, Active
  <2> QED
    BY <2>3, <2>4
<1>4. CASE op'[q] = op[q]
  <2>1. Quiet /\ Exclusive(q) /\ Active(q)
    BY <1>3, <1>4 DEF Active
  <2>2. UNCHANGED <<enabled, daemon>>
    <3>1. CASE p # q
      BY <1>1, <2>1, <3>1 DEF UnitsInv, AloneInv, Exclusive
    <3>2. CASE p = q
      <4>1. Head(op[p].todo).do \in {"remove", "unlock"}
        BY <1>2, <1>4, <3>2, PlanAdvances
      <4> QED
        BY <1>1, <4>1 DEF Current, Calls
    <3> QED
      BY <3>1, <3>2
  <2> QED
    BY <2>1, <2>2 DEF Quiet
<1>5. CASE q = p /\ Active(p) /\ Moves(op[p], op'[p])
           /\ (At(p, "disable --now") => DisableNow(p) \/ op'[p].todo = <<>> \/ op'[p].cmd = "upgrade")
  <2> DEFINE t == op[p].todo
  <2>1. t # <<>> /\ op[p].cmd = "uninstall" /\ op'[p].todo = Tail(t) /\ t \in Seq(Step)
        /\ (ToDisable(t) \/ RemovesOnly(t)) /\ op'[p].alone = op[p].alone
    BY <1>2, <1>5 DEF Moves, Active, Plan
  <2>2. CASE RemovesOnly(t)
    <3>1. Head(t).do \in {"remove", "unlock"}
      BY <2>1, <2>2, PlanAdvances
    <3>2. UNCHANGED <<enabled, daemon>>
      BY <1>1, <3>1 DEF Current, Calls
    <3> QED
      BY <1>3, <1>5, <2>1, <2>2, <3>2 DEF Quiet
  <2>3. CASE ToDisable(t)
    <3>1. Tail(t) \in Seq(Step) /\ Tail(t) # <<>>
      BY <1>5, <2>1, HeadOfShape
    <3>2. ~ToDisable(Tail(t))
      BY <1>5, <2>1, <3>1, PlanAdvances
    <3>3. Head(t) = DisableAll
      BY <2>1, <2>3, <3>2, PlanAdvances
    <3>4. DisableNow(p) /\ On(p) = Units
      <4>1. DisableAll.do = "disable --now" /\ DisableAll.on = Units
        BY DEF DisableAll
      <4>2. Current(p).do = "disable --now" /\ Current(p).on = Units
        BY <3>3, <4>1 DEF Current
      <4>3. op'[p].todo # <<>> /\ op'[p].cmd # "upgrade" /\ At(p, "disable --now")
        BY <1>5, <4>2 DEF At
      <4> QED
        BY <1>5, <4>2, <4>3 DEF On
    <3>5. enabled' = {}
      BY <3>4 DEF DisableNow, LifecycleInv, RestInv
    <3>6. daemon' = [s \in Daemons |-> IF s \in Units THEN Down ELSE daemon[s]]
      BY <3>4 DEF DisableNow, Stop
    <3>7. \A s \in Daemons : daemon'[s].state = "down"
      BY <3>6 DEF Units, Down
    <3> QED
      BY <3>5, <3>7 DEF Quiet
  <2> QED
    BY <2>1, <2>2, <2>3
<1>6. op \in [Admins -> Op]
  BY DEF LifecycleInv, CommandsInv
<1> QED
  BY <1>4, <1>5, <1>6, CommandMoves

LEMMA CommandKeepsUnits ==
    ASSUME LifecycleInv, UnitsInv, NEW p \in Admins, CommandStep(p) \/ Fail(p) \/ Kill(p)
    PROVE  UnitsInv'
<1>1. PlansInv' /\ AloneInv' /\ QuietInv'
  BY CommandKeepsPlans, CommandKeepsQuiet
<1>2. ASSUME ~disturbed' PROVE NothingLeftWithoutUnit'
  <2>1. CASE UNCHANGED <<enabled, daemon, disturbed, files>>
    BY <2>1 DEF UnitsInv, NothingLeftWithoutUnit
  <2>2. CASE WriteFile(p) \/ Rewrite(p) \/ RemoveFile(p)
    <3>1. ~disturbed /\ UNCHANGED <<enabled, daemon>> /\ Active(p)
      BY <1>2, <2>2, FilesMove DEF LifecycleInv, RestInv
    <3>2. CASE At(p, "remove")
      <4>1. op[p].todo \in Seq(Step) /\ op[p].todo # <<>> /\ Plan(op[p].cmd, op[p].todo)
            /\ Head(op[p].todo).do = "remove"
        BY <3>2 DEF LifecycleInv, CommandsInv, Op, UnitsInv, PlansInv, At, Active, Current
      <4>2. op[p].cmd = "uninstall" /\ RemovesOnly(op[p].todo)
        BY <4>1, PlanAdvances DEF Plan
      <4>3. Exclusive(p)
        BY <1>2, <2>2, <3>2 DEF WriteFile, Rewrite, RemoveFile, Acts, At, Exclusive
      <4>4. Quiet
        BY <3>1, <4>2, <4>3 DEF UnitsInv, QuietInv
      <4> QED
        BY <3>1, <4>4 DEF Quiet, NothingLeftWithoutUnit
    <3>3. CASE ~At(p, "remove")
      <4>1. \A u \in Units : files[u] # Absent => files'[u] # Absent
        BY <2>2, <3>3, FilesMove
      <4>2. enabled \subseteq Units /\ Daemons \subseteq Units
        BY DEF LifecycleInv, RestInv, Units
      <4> QED
        BY <3>1, <4>1, <4>2 DEF UnitsInv, NothingLeftWithoutUnit
    <3> QED
      BY <3>2, <3>3
  <2>3. CASE \/ Enable(p) \/ Disable(p) \/ DisableNow(p) \/ StartUnits(p) \/ StopUnits(p)
             \/ RestartUnits(p) \/ ReEnable(p) \/ ReStart(p)
    <3>1. /\ UNCHANGED files /\ ~disturbed
          /\ enabled' \subseteq enabled \cup On(p)
          /\ \A s \in Daemons :
                daemon'[s].state # "down" => daemon[s].state # "down" \/ s \in On(p)
          /\ \A u \in On(p) : files[u] # Absent
      BY <1>2, <2>3, SystemctlEffects DEF Known, LifecycleInv, RestInv
    <3> QED
      BY <3>1 DEF UnitsInv, NothingLeftWithoutUnit
  <2> QED
    BY <2>1, <2>2, <2>3, OthersRest DEF CommandStep
<1> QED
  BY <1>1, <1>2 DEF UnitsInv, NothingLeftWithoutUnit

\* A daemon that comes up, starts again or dies was not down.
LEMMA DaemonsKeepUnits ==
    ASSUME LifecycleInv, UnitsInv, NEW s \in Daemons, DaemonStep(s) \/ DaemonDies(s)
    PROVE  UnitsInv'
<1>1. UNCHANGED <<op, files, enabled, disturbed>> /\ lock' \in {lock, Nobody}
  BY DEF DaemonStep, DaemonDies, MigrateByDaemon, ComeUp, StartAgain, otherwise
<1>2. daemon \in [Daemons -> Daemon] /\ Served(s)
  BY DEF LifecycleInv, DaemonsInv
<1>3. \/ UNCHANGED daemon
      \/ /\ daemon[s].state # "down"
         /\ \A d \in Daemons : d # s => daemon'[d] = daemon[d]
  <2>1. CASE MigrateByDaemon(s)
    BY <2>1 DEF MigrateByDaemon
  <2>2. CASE ComeUp(s) \/ StartAgain(s)
    <3>1. run[s].pc # "idle"
      BY <2>2 DEF ComeUp, StartAgain, Comes
    <3>2. daemon[s].state # "down"
      BY <1>2, <3>1 DEF Served
    <3> QED
      BY <1>2, <2>2, <3>2 DEF ComeUp, StartAgain
  <2>3. CASE DaemonDies(s)
    BY <1>2, <2>3 DEF DaemonDies
  <2> QED
    BY <2>1, <2>2, <2>3 DEF DaemonStep
<1>4. PlansInv' /\ AloneInv'
  BY <1>1 DEF UnitsInv, PlansInv, AloneInv, Active
<1>5. QuietInv'
  <2>1. Quiet => UNCHANGED daemon
    BY <1>3 DEF Quiet
  <2>2. \A p \in Admins : Exclusive(p)' => Exclusive(p)
    BY <1>1, LifecycleAssumption DEF Exclusive
  <2> QED
    BY <1>1, <2>1, <2>2 DEF UnitsInv, QuietInv, Quiet, Active
<1>6. NothingLeftWithoutUnit'
  BY <1>1, <1>3 DEF UnitsInv, NothingLeftWithoutUnit
<1> QED
  BY <1>4, <1>5, <1>6 DEF UnitsInv

LEMMA UnitsInvNext ==
    LifecycleInv /\ UnitsInv /\ [LifecycleNext]_lifecycleVars => UnitsInv'
<1> SUFFICES ASSUME LifecycleInv, UnitsInv, [LifecycleNext]_lifecycleVars PROVE UnitsInv'
  OBVIOUS
<1>1. CASE UNCHANGED <<op, files, enabled, daemon, disturbed>> /\ lock' \in {lock, Nobody}
  <2>1. \A p \in Admins : Exclusive(p)' => Exclusive(p)
    BY <1>1, LifecycleAssumption DEF Exclusive
  <2>2. QuietInv'
    BY <1>1, <2>1 DEF UnitsInv, QuietInv, Quiet, Active
  <2> QED
    BY <1>1, <2>2 DEF UnitsInv, PlansInv, AloneInv, NothingLeftWithoutUnit, Active
<1>2. CASE UNCHANGED lifecycleVars \/ InstallWheel \/ UpdateEnds
  BY <1>1, <1>2 DEF lifecycleVars, InstallWheel, UpdateEnds
<1>3. ASSUME NEW p \in Admins, NEW cmd \in Commands, Begin(p, cmd) PROVE UnitsInv'
  BY <1>3, BeginKeepsUnits
<1>4. ASSUME NEW p \in Admins, CommandStep(p) \/ Fail(p) \/ Kill(p) PROVE UnitsInv'
  BY <1>4, CommandKeepsUnits
<1>5. ASSUME NEW s \in Daemons, DaemonStep(s) \/ DaemonDies(s) PROVE UnitsInv'
  BY <1>5, DaemonsKeepUnits
<1> QED
  BY <1>2, <1>3, <1>4, <1>5 DEF LifecycleNext

-----------------------------------------------------------------------------
(* The files of an upgrade *)

ToDo(t, do, u) == \E i \in 1 .. Len(t) : t[i] = [do |-> do, on |-> {u}]
Has(t, do) == \E i \in 1 .. Len(t) : t[i].do = do

\* An upgrade updates each unit once, after it has taken the lock; a recovery rewrites
\* the units before anything else.
UpdatesOnce(t) ==
    /\ \A i \in 1 .. Len(t) : /\ t[i].do \notin {"write", "rewrite", "remove"}
                              /\ t[i].do = "update" => \E u \in Units : t[i].on = {u}
    /\ \A i, j \in 1 .. Len(t) : t[i].do = "update" /\ t[i] = t[j] => i = j
    /\ \A i, j \in 1 .. Len(t) : t[j].do = "lock" /\ i < j => t[i].do # "update"
RewritesFirst(t) ==
    /\ \A i \in 1 .. Len(t) : /\ t[i].do \in {"rewrite", "re-enable", "re-start"}
                              /\ t[i].do = "rewrite" => \E u \in Units : t[i].on = {u}
    /\ \A i, j \in 1 .. Len(t) : t[j].do = "rewrite" /\ i < j => t[i].do = "rewrite"

\* c is the content of the files.
Untouched(o, c, u) == o.saved[u] = Absent /\ c[u] = o.first[u]
Touched(o, c, u) == o.saved[u] = o.first[u] /\ o.first[u] # Foreign /\ c[u] # Foreign
Restored(o, c, u) == c[u] = o.first[u] \/ o.first[u] = Absent \/ u \in o.missed

\* An upgrade that nobody disturbs has saved what it found of each unit it has updated.
Updating(o, c) ==
    /\ UpdatesOnce(o.todo)
    /\ \A u \in Units : Untouched(o, c, u) \/ Touched(o, c, u)
    /\ \A u \in Units : ToDo(o.todo, "update", u) => Untouched(o, c, u)
    /\ Has(o.todo, "lock") => \A u \in Units : Untouched(o, c, u)

\* Its recovery has restored each unit, or has the rewrite of it before it.
Restoring(o, c) ==
    /\ RewritesFirst(o.todo)
    /\ \A u \in Units :
          /\ o.saved[u] \in {Absent, o.first[u]}
          /\ Restored(o, c, u) \/ (ToDo(o.todo, "rewrite", u) /\ Touched(o, c, u))

UpgradeState(o, c) ==
    o.todo # <<>> =>
       /\ o.result = "none"
       /\ o.cmd = "upgrade" /\ o.alone => IF Has(o.todo, "unlock") THEN Updating(o, c)
                                                                  ELSE Restoring(o, c)

EndsRestored(o, c) ==
    o.cmd = "upgrade" /\ o.result = "failed" /\ o.alone => \A u \in Units : Restored(o, c, u)

\* A command that is over has forgotten what it was: it is what q is, but knows what o
\* did, and s for what was saved.
Recall(o, q, s) ==
    [todo |-> q.todo, missed |-> q.missed, result |-> q.result, cmd |-> o.cmd,
     alone |-> o.alone, first |-> o.first, saved |-> s]

LEMMA RecallFields ==
    ASSUME NEW o, NEW q, NEW s
    PROVE  LET g == Recall(o, q, s)
           IN /\ g.todo = q.todo /\ g.missed = q.missed /\ g.result = q.result
              /\ g.cmd = o.cmd /\ g.alone = o.alone /\ g.first = o.first /\ g.saved = s
BY DEF Recall

\* The step after which o is q.
Kept(o, q, c) ==
    /\ UpgradeState(q, c)
    /\ o.cmd = "upgrade" /\ o.alone /\ q.result = "failed" =>
         \A u \in Units : c[u] = o.first[u] \/ o.first[u] = Absent \/ u \in q.missed

LEMMA RecallKept ==
    ASSUME NEW o, NEW q, NEW s, NEW c,
           q.todo # <<>> => /\ q.cmd = o.cmd /\ q.alone = o.alone /\ q.first = o.first
                            /\ q.saved = s,
           UpgradeState(Recall(o, q, s), c), EndsRestored(Recall(o, q, s), c)
    PROVE  Kept(o, q, c)
<1> DEFINE g == Recall(o, q, s)
<1>1. /\ g.todo = q.todo /\ g.missed = q.missed /\ g.result = q.result
      /\ g.cmd = o.cmd /\ g.alone = o.alone /\ g.first = o.first /\ g.saved = s
  BY RecallFields
<1>2. UpgradeState(g, c) /\ EndsRestored(g, c)
  OBVIOUS
<1> HIDE DEF g
<1>3. ASSUME q.todo # <<>>
      PROVE  /\ Updating(g, c) => Updating(q, c)
             /\ Restoring(g, c) => Restoring(q, c)
  <2>1. \A u : /\ Untouched(g, c, u) <=> Untouched(q, c, u)
               /\ Touched(g, c, u) <=> Touched(q, c, u)
               /\ Restored(g, c, u) <=> Restored(q, c, u)
    BY <1>1, <1>3 DEF Untouched, Touched, Restored
  <2> QED
    BY <1>1, <1>3, <2>1 DEF Updating, Restoring
<1>4. UpgradeState(q, c)
  BY <1>1, <1>2, <1>3 DEF UpgradeState
<1> QED
  BY <1>1, <1>2, <1>4 DEF Kept, EndsRestored, Restored

UpgradeInv == \A p \in Admins : UpgradeState(op[p], files)

\* What is left to do after one step.
LEMMA TailToDo ==
    ASSUME NEW t \in Seq(Step), t # <<>>
    PROVE  /\ \A do, u : ToDo(Tail(t), do, u) => ToDo(t, do, u)
           /\ \A do, u : ToDo(t, do, u) => \/ Head(t) = [do |-> do, on |-> {u}]
                                           \/ ToDo(Tail(t), do, u)
           /\ \A do : Has(Tail(t), do) => Has(t, do)
           /\ \A do : Has(t, do) => Head(t).do = do \/ Has(Tail(t), do)
<1> DEFINE n == Len(t)
           r == Tail(t)
<1>1. /\ n \in Nat \ {0} /\ Head(t) = t[1] /\ r \in Seq(Step) /\ Len(r) = n - 1
      /\ \A i \in 1 .. n - 1 : r[i] = t[i + 1]
  BY HeadOfShape
<1> HIDE DEF n, r
<1>2. \A i \in 1 .. Len(r) : i + 1 \in 1 .. n /\ t[i + 1] = r[i]
  BY <1>1
<1>3. \A i \in 1 .. n : i = 1 \/ (i - 1 \in 1 .. Len(r) /\ t[i] = r[i - 1])
  BY <1>1
<1>4. /\ \A do, u : ToDo(r, do, u) => ToDo(t, do, u)
      /\ \A do : Has(r, do) => Has(t, do)
  BY <1>2 DEF ToDo, Has, n
<1>5. ASSUME NEW do, NEW u, ToDo(t, do, u)
      PROVE  Head(t) = [do |-> do, on |-> {u}] \/ ToDo(r, do, u)
  <2> DEFINE x == [do |-> do, on |-> {u}]
  <2>1. PICK i \in 1 .. n : t[i] = x
    BY <1>5 DEF ToDo, n
  <2> HIDE DEF x
  <2>2. t[1] = x \/ \E j \in 1 .. Len(r) : r[j] = x
    BY <1>3, <2>1
  <2> QED
    BY <1>1, <2>2 DEF ToDo, x
<1>6. ASSUME NEW do, Has(t, do)
      PROVE  Head(t).do = do \/ Has(r, do)
  <2>1. PICK i \in 1 .. n : t[i].do = do
    BY <1>6 DEF Has, n
  <2> QED
    BY <1>1, <1>3, <2>1 DEF Has
<1> QED
  BY <1>4, <1>5, <1>6 DEF r

LEMMA UpdatesOnceTail ==
    ASSUME NEW t \in Seq(Step), t # <<>>, UpdatesOnce(t)
    PROVE  /\ UpdatesOnce(Tail(t))
           /\ Head(t).do \notin {"write", "rewrite", "remove"}
           /\ Head(t).do = "update" =>
                 /\ ~Has(Tail(t), "lock")
                 /\ \E u \in Units : Head(t) = [do |-> "update", on |-> {u}]
                 /\ \A i \in 1 .. Len(Tail(t)) : Tail(t)[i] # Head(t)
<1> DEFINE n == Len(t)
           r == Tail(t)
<1>1. /\ n \in Nat \ {0} /\ Head(t) = t[1] /\ r \in Seq(Step) /\ Len(r) = n - 1
      /\ \A i \in 1 .. n - 1 : r[i] = t[i + 1]
      /\ t[1] \in Step
  BY HeadOfShape
<1>2. /\ \A i \in 1 .. n : /\ t[i].do \notin {"write", "rewrite", "remove"}
                           /\ t[i].do = "update" => \E u \in Units : t[i].on = {u}
      /\ \A i, j \in 1 .. n : t[i].do = "update" /\ t[i] = t[j] => i = j
      /\ \A i, j \in 1 .. n : t[j].do = "lock" /\ i < j => t[i].do # "update"
  BY DEF UpdatesOnce
<1> HIDE DEF n, r
<1>3. 1 \in 1 .. n /\ \A i \in 1 .. Len(r) : i + 1 \in 1 .. n /\ 1 < i + 1 /\ r[i] = t[i + 1]
  BY <1>1
<1>4. /\ \A i \in 1 .. Len(r) : /\ r[i].do \notin {"write", "rewrite", "remove"}
                                /\ r[i].do = "update" => \E u \in Units : r[i].on = {u}
  BY <1>2, <1>3
<1>5. ASSUME NEW i \in 1 .. Len(r), NEW j \in 1 .. Len(r)
      PROVE  /\ r[i].do = "update" /\ r[i] = r[j] => i = j
             /\ r[j].do = "lock" /\ i < j => r[i].do # "update"
  <2>1. i \in Nat /\ j \in Nat /\ (i + 1 = j + 1 => i = j) /\ (i < j => i + 1 < j + 1)
    BY <1>1
  <2> QED
    BY <1>2, <1>3, <2>1
<1>6. UpdatesOnce(r)
  BY <1>4, <1>5 DEF UpdatesOnce
<1>7. ASSUME t[1].do = "update"
      PROVE  /\ ~Has(r, "lock")
             /\ \E u \in Units : t[1] = [do |-> "update", on |-> {u}]
             /\ \A i \in 1 .. Len(r) : r[i] # t[1]
  <2>1. ~Has(r, "lock")
    BY <1>2, <1>3, <1>7 DEF Has
  <2>2. \A i \in 1 .. Len(r) : r[i] # t[1]
    <3> SUFFICES ASSUME NEW i \in 1 .. Len(r), r[i] = t[1] PROVE FALSE
      OBVIOUS
    <3>1. i + 1 = 1
      BY <1>2, <1>3, <1>7
    <3> QED
      BY <1>1, <3>1
  <2>3. PICK u \in Units : t[1].on = {u}
    BY <1>2, <1>3, <1>7
  <2>4. t[1] = [do |-> t[1].do, on |-> t[1].on]
    BY <1>1 DEF Step
  <2> QED
    BY <1>7, <2>1, <2>2, <2>3, <2>4
<1> QED
  BY <1>1, <1>2, <1>3, <1>6, <1>7 DEF r

LEMMA RewritesFirstTail ==
    ASSUME NEW t \in Seq(Step), t # <<>>, RewritesFirst(t)
    PROVE  /\ RewritesFirst(Tail(t))
           /\ Head(t).do \in {"rewrite", "re-enable", "re-start"}
           /\ Head(t).do # "rewrite" => \A u : ~ToDo(t, "rewrite", u)
           /\ Head(t).do = "rewrite" => \E u \in Units : Head(t) = [do |-> "rewrite", on |-> {u}]
<1> DEFINE n == Len(t)
           r == Tail(t)
<1>1. /\ n \in Nat \ {0} /\ Head(t) = t[1] /\ r \in Seq(Step) /\ Len(r) = n - 1
      /\ \A i \in 1 .. n - 1 : r[i] = t[i + 1]
      /\ t[1] \in Step
  BY HeadOfShape
<1>2. /\ \A i \in 1 .. n : /\ t[i].do \in {"rewrite", "re-enable", "re-start"}
                           /\ t[i].do = "rewrite" => \E u \in Units : t[i].on = {u}
      /\ \A i, j \in 1 .. n : t[j].do = "rewrite" /\ i < j => t[i].do = "rewrite"
  BY DEF RewritesFirst
<1> HIDE DEF n, r
<1>3. 1 \in 1 .. n /\ \A i \in 1 .. Len(r) : i + 1 \in 1 .. n /\ r[i] = t[i + 1]
  BY <1>1
<1>4. ASSUME NEW i \in 1 .. Len(r), NEW j \in 1 .. Len(r), r[j].do = "rewrite", i < j
      PROVE  r[i].do = "rewrite"
  <2>1. i + 1 < j + 1
    BY <1>1, <1>4
  <2> QED
    BY <1>2, <1>3, <1>4, <2>1
<1>5. RewritesFirst(r)
  <2>1. \A i \in 1 .. Len(r) : /\ r[i].do \in {"rewrite", "re-enable", "re-start"}
                               /\ r[i].do = "rewrite" => \E u \in Units : r[i].on = {u}
    BY <1>2, <1>3, SMTT(40)
  <2> QED
    BY <1>4, <2>1 DEF RewritesFirst
<1>6. ASSUME t[1].do # "rewrite", NEW u, ToDo(t, "rewrite", u) PROVE FALSE
  <2>1. PICK i \in 1 .. n : t[i] = [do |-> "rewrite", on |-> {u}]
    BY <1>6 DEF ToDo, n
  <2>2. t[i].do = "rewrite" /\ i \in 1 .. n
    BY <2>1
  <2>3. i # 1 => 1 < i
    BY <1>1
  <2> QED
    BY <1>2, <1>3, <1>6, <2>2, <2>3
<1>7. ASSUME t[1].do = "rewrite"
      PROVE  \E u \in Units : t[1] = [do |-> "rewrite", on |-> {u}]
  <2>1. PICK u \in Units : t[1].on = {u}
    BY <1>2, <1>3, <1>7
  <2>2. t[1] = [do |-> t[1].do, on |-> t[1].on]
    BY <1>1 DEF Step
  <2> QED
    BY <1>7, <2>1, <2>2
<1> QED
  BY <1>1, <1>2, <1>3, <1>5, <1>6, <1>7 DEF r

LEMMA EachElements ==
    ASSUME NEW do \in {"update", "rewrite"}, NEW order \in Seq(Units)
    PROVE  /\ Each(do, order) \in Seq(Step) /\ Len(Each(do, order)) = Len(order)
           /\ \A i \in 1 .. Len(order) :
                 /\ Each(do, order)[i] = [do |-> do, on |-> {order[i]}]
                 /\ Each(do, order)[i].do = do /\ Each(do, order)[i].on = {order[i]}
<1> DEFINE e == Each(do, order)
           G(u) == [do |-> do, on |-> {u}]
<1>1. e \in Seq(Step)
  <2>1. order \in Seq(Files)
    BY SeqMonotonic DEF Files
  <2>2. e \in Seq(Inner) \/ e \in Seq(Step)
    BY <2>1, EachTyped
  <2> QED
    BY <2>2, SeqMonotonic DEF Inner
<1>2. \A u : G(u).do = do /\ G(u).on = {u}
  OBVIOUS
<1>3. e = [i \in 1 .. Len(order) |-> G(order[i])]
  BY DEF Each
<1> HIDE DEF e, G
<1>4. Len(order) \in Nat /\ DOMAIN e = 1 .. Len(order) /\ DOMAIN e = 1 .. Len(e) /\ Len(e) \in Nat
  BY <1>1, <1>3
<1>5. Len(e) = Len(order)
  BY <1>4
<1>6. \A i \in 1 .. Len(order) : e[i] = G(order[i])
  BY <1>3
<1>7. \A i \in 1 .. Len(order) : e[i] = G(order[i]) /\ e[i].do = do /\ e[i].on = {order[i]}
  BY <1>2, <1>6
<1> QED
  BY <1>1, <1>5, <1>7 DEF e, G

\* Steps without updates before and after the updates.
LEMMA UpdatesOnceGrows ==
    ASSUME NEW t \in Seq(Step), UpdatesOnce(t), NEW a \in Seq(Step),
           \A i \in 1 .. Len(a) : a[i].do \notin {"write", "rewrite", "remove", "update"}
    PROVE  /\ UpdatesOnce(a \o t)
           /\ (\A i \in 1 .. Len(a) : a[i].do # "lock") => UpdatesOnce(t \o a)
<1>0. /\ \A i \in 1 .. Len(t) : /\ t[i].do \notin {"write", "rewrite", "remove"}
                                /\ t[i].do = "update" => \E u \in Units : t[i].on = {u}
      /\ \A i, j \in 1 .. Len(t) : t[i].do = "update" /\ t[i] = t[j] => i = j
      /\ \A i, j \in 1 .. Len(t) : t[j].do = "lock" /\ i < j => t[i].do # "update"
  BY DEF UpdatesOnce
<1>1. UpdatesOnce(a \o t)
  <2> DEFINE c == a \o t
             k == Len(a)
  <2>1. /\ k \in Nat /\ Len(t) \in Nat /\ Len(c) = k + Len(t)
        /\ \A i \in 1 .. k : c[i] = a[i]
        /\ \A i \in 1 .. Len(t) : c[k + i] = t[i]
    BY ConcatSteps
  <2>2. \A i \in 1 .. k : a[i].do \notin {"write", "rewrite", "remove", "update"}
    OBVIOUS
  <2> HIDE DEF c, k
  <2>3. \A i \in 1 .. Len(c) : \/ i \in 1 .. k /\ c[i] = a[i]
                               \/ i > k /\ i - k \in 1 .. Len(t) /\ c[i] = t[i - k]
    <3> SUFFICES ASSUME NEW i \in 1 .. Len(c), ~(i \in 1 .. k)
                 PROVE  i > k /\ i - k \in 1 .. Len(t) /\ c[i] = t[i - k]
      BY <2>1
    <3>1. i > k /\ i - k \in 1 .. Len(t) /\ i = k + (i - k)
      BY <2>1
    <3> QED
      BY <2>1, <3>1
  <2>4. \A i \in 1 .. Len(c) : /\ c[i].do \notin {"write", "rewrite", "remove"}
                               /\ c[i].do = "update" => \E u \in Units : c[i].on = {u}
    BY <1>0, <2>2, <2>3
  <2>5. ASSUME NEW i \in 1 .. Len(c), NEW j \in 1 .. Len(c)
        PROVE  /\ c[i].do = "update" /\ c[i] = c[j] => i = j
               /\ c[j].do = "lock" /\ i < j => c[i].do # "update"
    <3>1. i - k = j - k => i = j
      BY <2>1
    <3>2. i < j => i - k < j - k
      BY <2>1
    <3>3. i < j /\ i > k => ~(j \in 1 .. k)
      BY <2>1
    <3> QED
      BY <1>0, <2>2, <2>3, <3>1, <3>2, <3>3
  <2>6. UpdatesOnce(c)
    BY <2>4, <2>5 DEF UpdatesOnce
  <2> QED
    BY <2>6 DEF c
<1>2. ASSUME \A i \in 1 .. Len(a) : a[i].do # "lock"
      PROVE  UpdatesOnce(t \o a)
  <2> DEFINE c == t \o a
             k == Len(t)
  <2>1. /\ k \in Nat /\ Len(a) \in Nat /\ Len(c) = k + Len(a)
        /\ \A i \in 1 .. k : c[i] = t[i]
        /\ \A i \in 1 .. Len(a) : c[k + i] = a[i]
    BY ConcatSteps
  <2>2. /\ \A i \in 1 .. k : /\ t[i].do \notin {"write", "rewrite", "remove"}
                             /\ t[i].do = "update" => \E u \in Units : t[i].on = {u}
        /\ \A i, j \in 1 .. k : t[i].do = "update" /\ t[i] = t[j] => i = j
        /\ \A i, j \in 1 .. k : t[j].do = "lock" /\ i < j => t[i].do # "update"
    BY <1>0
  <2> HIDE DEF c, k
  <2>3. \A i \in 1 .. Len(c) : \/ i \in 1 .. k /\ c[i] = t[i]
                               \/ i - k \in 1 .. Len(a) /\ c[i] = a[i - k]
    <3> SUFFICES ASSUME NEW i \in 1 .. Len(c), ~(i \in 1 .. k)
                 PROVE  i - k \in 1 .. Len(a) /\ c[i] = a[i - k]
      BY <2>1
    <3>1. i - k \in 1 .. Len(a) /\ i = k + (i - k)
      BY <2>1
    <3> QED
      BY <2>1, <3>1
  <2>4. \A i \in 1 .. Len(c) : /\ c[i].do \notin {"write", "rewrite", "remove"}
                               /\ c[i].do = "update" => \E u \in Units : c[i].on = {u}
    BY <2>2, <2>3
  <2>5. \A i, j \in 1 .. Len(c) :
           /\ c[i].do = "update" /\ c[i] = c[j] => i = j
           /\ c[j].do = "lock" /\ i < j => c[i].do # "update"
    BY <1>2, <2>2, <2>3, SMTT(40)
  <2>6. UpdatesOnce(c)
    BY <2>4, <2>5 DEF UpdatesOnce
  <2> QED
    BY <2>6 DEF c
<1> QED
  BY <1>1, <1>2

LEMMA UpgradePlan == UpdatesOnce(Upgrade) /\ Has(Upgrade, "unlock")
<1> DEFINE Harmless(a) ==
      /\ a \in Seq(Step)
      /\ \A i \in 1 .. Len(a) : a[i].do \notin {"write", "rewrite", "remove", "update"}
<1>1. /\ \A do \in {"preflight", "status", "migrate", "unlock", "lock"} :
            Harmless(Just(do)) /\ \A i \in 1 .. Len(Just(do)) : Just(do)[i].do = do
      /\ \A do \in {"ask", "re-enable", "re-start"} :
            /\ Harmless(Each(do, StartOrder))
            /\ \A i \in 1 .. Len(Each(do, StartOrder)) : Each(do, StartOrder)[i].do = do
  <2>1. ASSUME NEW do \in {"preflight", "status", "migrate", "unlock", "lock"}
        PROVE  Harmless(Just(do)) /\ \A i \in 1 .. Len(Just(do)) : Just(do)[i].do = do
    <3>1. Just(do) \in Seq(Step)
      BY AllTyped, SeqMonotonic DEF Inner
    <3>2. Len(Just(do)) = 1 /\ Just(do)[1].do = do
      BY DEF Just, All
    <3> QED
      BY <3>1, <3>2
  <2>2. ASSUME NEW do \in {"ask", "re-enable", "re-start"}
        PROVE  /\ Harmless(Each(do, StartOrder))
               /\ \A i \in 1 .. Len(Each(do, StartOrder)) : Each(do, StartOrder)[i].do = do
    <3>1. Each(do, StartOrder) \in Seq(Inner)
      <4>1. StartOrder \in Seq(Units) /\ StartOrder \in Seq(Files)
        BY OrdersTyped, SeqMonotonic DEF Files
      <4> QED
        BY <4>1, EachTyped DEF Calls
    <3>2. Each(do, StartOrder) \in Seq(Step)
      BY <3>1, SeqMonotonic DEF Inner
    <3>3. \A i \in 1 .. Len(Each(do, StartOrder)) : Each(do, StartOrder)[i].do = do
      BY OrdersTyped DEF Each
    <3> HIDE DEF Each
    <3> QED
      BY <3>2, <3>3
  <2> QED
    BY <2>1, <2>2
<1> DEFINE e == Each("update", UnitOrder)
<1>2. e \in Seq(Step) /\ UpdatesOnce(e)
  <2>1. UnitOrder \in Seq(Units) /\ Len(UnitOrder) \in Nat
    BY OrdersTyped
  <2>3. e \in Seq(Step)
    BY <2>1, EachElements
  <2>4. /\ Len(e) = Len(UnitOrder)
        /\ \A i \in 1 .. Len(e) : /\ e[i].do = "update" /\ e[i].on = {UnitOrder[i]}
                                   /\ UnitOrder[i] \in Units
    <3>1. Len(e) = Len(UnitOrder)
      BY <2>1, EachElements
    <3>2. \A i \in 1 .. Len(UnitOrder) : e[i].do = "update" /\ e[i].on = {UnitOrder[i]}
      BY <2>1, EachElements
    <3>3. \A i \in 1 .. Len(UnitOrder) : UnitOrder[i] \in Units
      BY <2>1
    <3> HIDE DEF e
    <3> QED
      BY <3>1, <3>2, <3>3
  <2> HIDE DEF e
  <2>6. \A i, j \in 1 .. Len(e) : UnitOrder[i] = UnitOrder[j] => i = j
    <3>1. \A i, j \in DOMAIN UnitOrder : UnitOrder[i] = UnitOrder[j] => i = j
      BY LifecycleAssumption DEF UnitOrder, IsInjective
    <3> QED
      BY <2>1, <2>4, <3>1
  <2>7. \A i, j \in 1 .. Len(e) : e[i] = e[j] => i = j
    BY <2>4, <2>6
  <2> QED
    BY <2>3, <2>4, <2>7 DEF UpdatesOnce
<1> HIDE DEF e
<1> DEFINE a1 == Just("status") \o e
           a2 == a1 \o Just("migrate")
           a3 == a2 \o RestoreStates
           a4 == Just("lock") \o a3
           a5 == a4 \o Just("unlock")
           pre == Just("preflight") \o Each("ask", StartOrder)
<1>3. \A x, y : Harmless(x) /\ Harmless(y) => Harmless(x \o y)
  <2> SUFFICES ASSUME NEW x, NEW y, Harmless(x), Harmless(y) PROVE Harmless(x \o y)
    OBVIOUS
  <2> DEFINE H == {step \in Step : step.do \notin {"write", "rewrite", "remove", "update"}}
  <2>1. \A z : Harmless(z) <=> z \in Seq(H)
    <3>1. ASSUME NEW z, Harmless(z) PROVE z \in Seq(H)
      <4>1. z \in Seq(Step) /\ \A i \in 1 .. Len(z) : z[i] \in H
        BY <3>1, ElementOfSeq
      <4> HIDE DEF H
      <4> QED
        BY <4>1
    <3>2. ASSUME NEW z, z \in Seq(H) PROVE Harmless(z)
      <4>1. z \in Seq(Step)
        BY <3>2, SeqMonotonic
      <4> QED
        BY <3>2, <4>1
    <3> QED
      BY <3>1, <3>2
  <2> HIDE DEF H, Harmless
  <2> QED
    BY <2>1, ConcatProperties
<1>4. \A x, y : Harmless(x) /\ y \in Seq(Step) /\ UpdatesOnce(y)
          => x \o y \in Seq(Step) /\ UpdatesOnce(x \o y)
  BY UpdatesOnceGrows, ConcatProperties
<1>5. \A x, y : Harmless(x) /\ y \in Seq(Step) /\ UpdatesOnce(y)
          /\ (\A i \in 1 .. Len(x) : x[i].do # "lock")
          => y \o x \in Seq(Step) /\ UpdatesOnce(y \o x)
  BY UpdatesOnceGrows, ConcatProperties
<1>6. Harmless(RestoreStates) /\ \A i \in 1 .. Len(RestoreStates) : RestoreStates[i].do # "lock"
  <2>1. Harmless(RestoreStates)
    <3> HIDE DEF Harmless
    <3> QED
      BY <1>1, <1>3 DEF RestoreStates
  <2>2. RestoreStates \in Seq(Inner)
    BY EachTyped, OrdersTyped, ConcatProperties DEF RestoreStates, Calls
  <2>3. \A i \in 1 .. Len(RestoreStates) : RestoreStates[i] \in Inner
    BY <2>2
  <2> QED
    BY <2>1, <2>3 DEF Inner
<1>7. Harmless(pre)
  <2> HIDE DEF Harmless
  <2> QED
    BY <1>1, <1>3 DEF pre
<1>8. /\ \A i \in 1 .. Len(Just("migrate")) : Just("migrate")[i].do # "lock"
      /\ \A i \in 1 .. Len(Just("unlock")) : Just("unlock")[i].do # "lock"
  BY <1>1
<1> HIDE DEF Harmless, pre
<1>9. a1 \in Seq(Step) /\ UpdatesOnce(a1)
  BY <1>1, <1>2, <1>4
<1> HIDE DEF a1
<1>10. a2 \in Seq(Step) /\ UpdatesOnce(a2)
  BY <1>1, <1>5, <1>8, <1>9
<1> HIDE DEF a2
<1>11. a3 \in Seq(Step) /\ UpdatesOnce(a3)
  BY <1>5, <1>6, <1>10
<1> HIDE DEF a3
<1>12. a4 \in Seq(Step) /\ UpdatesOnce(a4)
  BY <1>1, <1>4, <1>11
<1> HIDE DEF a4
<1>13. a5 \in Seq(Step) /\ UpdatesOnce(a5)
  BY <1>1, <1>5, <1>8, <1>12
<1> HIDE DEF a5
<1>14. UpdatesOnce(pre \o a5)
  BY <1>4, <1>7, <1>13
<1>15. Upgrade = pre \o a5
  BY DEF Upgrade, Locked, a5, a4, a3, a2, a1, pre, e
<1> HIDE DEF Upgrade
<1>16. UpdatesOnce(Upgrade)
  BY <1>14, <1>15
<1>17. Has(Upgrade, "unlock")
  <2>1. Upgrade \in Seq(Step)
    BY <1>7, <1>13, <1>15, ConcatProperties DEF Harmless
  <2> DEFINE l == Just("unlock")
  <2>2. l \in Seq(Step) /\ a4 \in Seq(Step) /\ pre \in Seq(Step) /\ Len(l) = 1
        /\ l[1].do = "unlock"
    BY <1>7, <1>12, AllTyped DEF Just, All, Harmless
  <2>3. a5 = a4 \o l
    BY DEF a5
  <2> HIDE DEF l
  <2>4. a5[Len(a4) + 1] = l[1] /\ Len(a5) = Len(a4) + 1 /\ Len(a4) \in Nat
    <3>1. 1 \in 1 .. Len(l)
      BY <2>2
    <3>2. /\ Len(a4) \in Nat /\ Len(a4 \o l) = Len(a4) + Len(l)
          /\ \A i \in 1 .. Len(l) : (a4 \o l)[Len(a4) + i] = l[i]
      BY <2>2, ConcatSteps
    <3> QED
      BY <2>2, <2>3, <3>1, <3>2
  <2>5. Upgrade[Len(pre) + Len(a5)] = a5[Len(a5)] /\ Len(Upgrade) = Len(pre) + Len(a5) /\ Len(pre) \in Nat
    <3>1. Len(a5) \in 1 .. Len(a5)
      BY <2>4
    <3> QED
      BY <1>13, <1>15, <2>2, <3>1, ConcatSteps
  <2>6. Len(pre) + Len(a5) \in 1 .. Len(Upgrade) /\ Upgrade[Len(pre) + Len(a5)].do = "unlock"
    BY <2>2, <2>4, <2>5
  <2> QED
    BY <2>6 DEF Has
<1> QED
  BY <1>16, <1>17

LEMMA UnitsInOrder == Units = Range(UnitOrder)
<1>1. /\ StartOrder \in Seq(Units) /\ Timers \in Seq(Units) /\ UnitOrder \in Seq(Units)
      /\ Len(StartOrder) \in Nat /\ Len(Timers) \in Nat
  BY OrdersTyped
<1>2. /\ DOMAIN StartOrder = 1 .. Len(StartOrder) /\ DOMAIN Timers = 1 .. Len(Timers)
      /\ DOMAIN UnitOrder = 1 .. Len(StartOrder) + Len(Timers)
      /\ \A i \in 1 .. Len(StartOrder) : UnitOrder[i] = StartOrder[i]
      /\ \A i \in 1 .. Len(Timers) : UnitOrder[Len(StartOrder) + i] = Timers[i]
  BY <1>1, ConcatProperties DEF UnitOrder
<1>3. ASSUME NEW u \in Units PROVE \E i \in DOMAIN UnitOrder : UnitOrder[i] = u
  <2>1. \/ \E i \in 1 .. Len(StartOrder) : StartOrder[i] = u
        \/ \E i \in 1 .. Len(Timers) : Timers[i] = u
    BY <1>2 DEF Units, Daemons, Range
  <2>2. /\ \A i \in 1 .. Len(StartOrder) : i \in DOMAIN UnitOrder
        /\ \A i \in 1 .. Len(Timers) : Len(StartOrder) + i \in DOMAIN UnitOrder
    BY <1>1, <1>2
  <2> QED
    BY <1>2, <2>1, <2>2
<1>4. \A i \in DOMAIN UnitOrder : UnitOrder[i] \in Units
  BY <1>1
<1> QED
  BY <1>3, <1>4 DEF Range

LEMMA RecoveryPlan ==
    /\ Recovery \in Seq(Step) /\ RewritesFirst(Recovery) /\ ~Has(Recovery, "unlock")
    /\ \A u \in Units : ToDo(Recovery, "rewrite", u)
<1> DEFINE e == Each("rewrite", UnitOrder)
           k == Len(e)
           c == Recovery
<1>1. UnitOrder \in Seq(Units) /\ Len(UnitOrder) \in Nat
  BY OrdersTyped
<1>2. e \in Seq(Step)
  BY <1>1, EachElements
<1>3. k = Len(UnitOrder) /\ \A i \in 1 .. k : /\ e[i] = [do |-> "rewrite", on |-> {UnitOrder[i]}]
                                              /\ e[i].do = "rewrite" /\ e[i].on = {UnitOrder[i]}
  BY <1>1, EachElements
<1>4. RestoreStates \in Seq(Step)
      /\ \A i \in 1 .. Len(RestoreStates) : RestoreStates[i].do \in {"re-enable", "re-start"}
  <2> DEFINE H == {step \in Step : step.do \in {"re-enable", "re-start"}}
  <2>1. ASSUME NEW do \in {"re-enable", "re-start"} PROVE Each(do, StartOrder) \in Seq(H)
    <3> DEFINE f == Each(do, StartOrder)
    <3>1. f \in Seq(Inner)
      BY OrdersTyped, EachTyped DEF Calls
    <3>2. \A i \in 1 .. Len(f) : f[i].do = do
      BY OrdersTyped DEF Each
    <3> HIDE DEF f
    <3>3. \A i \in 1 .. Len(f) : f[i] \in H
      BY <3>1, <3>2, ElementOfSeq DEF Inner
    <3> HIDE DEF H
    <3>4. f \in Seq(H)
      BY <3>1, <3>3
    <3> QED
      BY <3>4 DEF f
  <2>2. \A z \in Seq(H) : z \in Seq(Step) /\ \A i \in 1 .. Len(z) : z[i].do \in {"re-enable", "re-start"}
    BY SeqMonotonic
  <2> HIDE DEF H
  <2>3. RestoreStates \in Seq(H)
    BY <2>1, ConcatProperties DEF RestoreStates
  <2> QED
    BY <2>2, <2>3
<1> HIDE DEF e
<1>5. /\ c \in Seq(Step) /\ k \in Nat /\ Len(RestoreStates) \in Nat
      /\ Len(c) = k + Len(RestoreStates)
      /\ \A i \in 1 .. k : c[i] = e[i]
      /\ \A i \in 1 .. Len(RestoreStates) : c[k + i] = RestoreStates[i]
  BY <1>2, <1>4, ConcatSteps DEF Recovery, e
<1> HIDE DEF c, k
<1>6. \A i \in 1 .. k : c[i] = [do |-> "rewrite", on |-> {UnitOrder[i]}] /\ UnitOrder[i] \in Units
  BY <1>1, <1>3, <1>5
<1>7. \A i \in 1 .. Len(c) : i \in 1 .. k \/ (i > k /\ c[i].do \in {"re-enable", "re-start"})
  <2> SUFFICES ASSUME NEW i \in 1 .. Len(c), ~(i \in 1 .. k)
               PROVE  i > k /\ c[i].do \in {"re-enable", "re-start"}
    OBVIOUS
  <2>1. i > k /\ i - k \in 1 .. Len(RestoreStates) /\ i = k + (i - k)
    BY <1>5
  <2>2. c[i] = RestoreStates[i - k]
    BY <1>5, <2>1
  <2> QED
    BY <1>4, <2>1, <2>2
<1>8. \A i \in 1 .. k : c[i].do = "rewrite" /\ \E u \in Units : c[i].on = {u}
  <2> SUFFICES ASSUME NEW i \in 1 .. k PROVE c[i].do = "rewrite" /\ \E u \in Units : c[i].on = {u}
    OBVIOUS
  <2>1. c[i] = e[i] /\ e[i].do = "rewrite" /\ e[i].on = {UnitOrder[i]} /\ UnitOrder[i] \in Units
    <3>1. UnitOrder[i] \in Units
      BY <1>6
    <3>2. c[i] = e[i]
      BY <1>5
    <3>3. e[i].do = "rewrite" /\ e[i].on = {UnitOrder[i]}
      BY <1>3
    <3> QED
      BY <3>1, <3>2, <3>3
  <2> QED
    BY <2>1
<1>9. RewritesFirst(c)
  <2>1. ASSUME NEW i \in 1 .. Len(c), NEW j \in 1 .. Len(c), c[j].do = "rewrite", i < j
        PROVE  c[i].do = "rewrite"
    <3>1. j \in 1 .. k
      BY <1>7, <2>1
    <3>2. i \in 1 .. k
      BY <1>5, <2>1, <3>1
    <3> QED
      BY <1>8, <3>2
  <2> QED
    BY <1>7, <1>8, <2>1 DEF RewritesFirst
<1>10. ASSUME NEW u \in Units PROVE ToDo(c, "rewrite", u)
  <2>1. PICK i \in 1 .. k : UnitOrder[i] = u
    <3>1. Units = Range(UnitOrder) /\ DOMAIN UnitOrder = 1 .. Len(UnitOrder)
      BY <1>1, UnitsInOrder
    <3> QED
      BY <1>3, <3>1 DEF Range, k
  <2>2. i \in 1 .. Len(c) /\ c[i] = [do |-> "rewrite", on |-> {u}]
    BY <1>5, <1>6, <2>1
  <2> QED
    BY <2>2 DEF ToDo
<1>11. ~Has(c, "unlock")
  BY <1>7, <1>8 DEF Has
<1> QED
  BY <1>5, <1>9, <1>10, <1>11 DEF c

\* A step that neither updates nor rewrites leaves the files and what is to be said of
\* them as they are.
LEMMA UpdatingGoesOn ==
    ASSUME NEW t \in Seq(Step), t # <<>>, NEW o, o.todo = t, NEW c, Updating(o, c),
           NEW q, q.todo = Tail(t), q.saved = o.saved, q.first = o.first
    PROVE  Updating(q, c)
<1>1. UpdatesOnce(q.todo)
  BY UpdatesOnceTail DEF Updating
<1>2. /\ \A u : ToDo(q.todo, "update", u) => ToDo(o.todo, "update", u)
      /\ Has(q.todo, "lock") => Has(o.todo, "lock")
  BY TailToDo
<1> QED
  BY <1>1, <1>2 DEF Updating, Untouched, Touched

LEMMA RestoringGoesOn ==
    ASSUME NEW t \in Seq(Step), t # <<>>, NEW o, o.todo = t, NEW c, Restoring(o, c),
           NEW q, q.todo = Tail(t), q.saved = o.saved, q.first = o.first,
           \/ Head(t).do # "rewrite" /\ q.missed = o.missed
           \/ q.missed = o.missed \cup Head(t).on
    PROVE  Restoring(q, c) /\ (q.todo = <<>> => \A u \in Units : Restored(q, c, u))
<1>1. RewritesFirst(q.todo)
  BY RewritesFirstTail DEF Restoring
<1>2. ASSUME NEW u \in Units
      PROVE  Restored(q, c, u) \/ (ToDo(q.todo, "rewrite", u) /\ Touched(q, c, u))
  <2>1. Restored(o, c, u) \/ (ToDo(t, "rewrite", u) /\ Touched(o, c, u))
    BY DEF Restoring
  <2>2. CASE Restored(o, c, u)
    <3>1. Restored(q, c, u)
      BY <2>2 DEF Restored
    <3> QED
      BY <3>1
  <2>3. CASE ToDo(t, "rewrite", u) /\ Touched(o, c, u)
    <3>1. Touched(q, c, u)
      BY <2>3 DEF Touched
    <3>2. CASE Head(t) = [do |-> "rewrite", on |-> {u}]
      <4>1. Head(t).do = "rewrite" /\ Head(t).on = {u}
        BY <3>2
      <4>2. Restored(q, c, u)
        BY <4>1 DEF Restored
      <4> QED
        BY <4>2
    <3>3. CASE ToDo(q.todo, "rewrite", u)
      BY <3>1, <3>3
    <3> QED
      BY <2>3, <3>2, <3>3, TailToDo
  <2> QED
    BY <2>1, <2>2, <2>3
<1>6. \A u \in Units : q.saved[u] \in {Absent, q.first[u]}
  BY DEF Restoring
<1>3. Restoring(q, c)
  BY <1>1, <1>2, <1>6 DEF Restoring
<1>4. ASSUME q.todo = <<>>, NEW u \in Units PROVE Restored(q, c, u)
  <2>1. ~ToDo(q.todo, "rewrite", u)
    BY <1>4, EmptySeq DEF ToDo
  <2> QED
    BY <1>2, <2>1
<1> QED
  BY <1>3, <1>4

\* The unit a step is about.
LEMMA FileOfStep ==
    ASSUME NEW p \in Admins, NEW do, NEW u \in Files, Current(p) = [do |-> do, on |-> {u}]
    PROVE  File(p) = u
<1>1. Current(p).on = {u}
  OBVIOUS
<1> QED
  BY <1>1 DEF File

\* What a command is, for the lemmas below.
UpgradeContext(p) ==
    /\ p \in Admins /\ CommandsInv /\ RestInv /\ UpgradeState(op[p], files)
    /\ Active(p) /\ op[p] \in Op /\ op[p].todo \in Seq(Step) /\ op[p].todo # <<>>

UpgradeKept(p) ==
    Kept(op[p], op'[p], files')

LEMMA HasUnlock ==
    ASSUME NEW p \in Admins, UpgradeContext(p)
    PROVE  LET t == op[p].todo
           IN /\ op[p].cmd = "upgrade" => (Recovering(p) <=> ~Has(t, "unlock"))
              /\ NotYetLocked(p) <=> Has(t, "lock")
              /\ Has(t, "unlock") => \/ Head(t).do = "unlock" /\ Tail(t) = <<>>
                                     \/ Head(t).do # "unlock" /\ Has(Tail(t), "unlock")
<1> DEFINE t == op[p].todo
<1>1. t \in Seq(Step) /\ t # <<>> /\ Shape(p, lock, op[p]) /\ DOMAIN t = 1 .. Len(t)
  BY DEF UpgradeContext, CommandsInv
<1>2. op[p].cmd = "upgrade" => (Recovering(p) <=> ~Has(t, "unlock"))
  BY <1>1 DEF Recovering, Has
<1>3. NotYetLocked(p) <=> Has(t, "lock")
  BY <1>1 DEF NotYetLocked, Has
<1>4. ASSUME Has(t, "unlock")
      PROVE  \/ Head(t).do = "unlock" /\ Tail(t) = <<>>
             \/ Head(t).do # "unlock" /\ Has(Tail(t), "unlock")
  <2>1. ~AfterLock(t)
    BY <1>4 DEF Has, AfterLock
  <2>2. Head(t).do = "unlock" => Len(t) = 1
    BY <1>1, <2>1, NextShape DEF Shape
  <2>3. Len(t) = 1 => Tail(t) = <<>>
    <3>1. Len(t) \in Nat /\ (Len(t) > 1 <=> Tail(t) # <<>>)
      BY <1>1, HeadOfShape
    <3> QED
      BY <3>1
  <2>4. Head(t).do = "unlock" \/ Has(Tail(t), "unlock")
    BY <1>1, <1>4, TailToDo
  <2> QED
    BY <2>2, <2>3, <2>4
<1> QED
  BY <1>2, <1>3, <1>4

LEMMA RaiseUpgrade ==
    ASSUME NEW p \in Admins, UpgradeContext(p), RaiseIn(p), UNCHANGED files
    PROVE  UpgradeKept(p)
<1> DEFINE o == op[p]
           t == op[p].todo
           q == op'[p]
<1>1. op'[p] = AfterFailure(p)
  BY DEF RaiseIn, CommandsInv, UpgradeContext
<1>2. /\ CommandsInv /\ Active(p) /\ o \in Op /\ t \in Seq(Step) /\ t # <<>>
      /\ o.result = "none"
      /\ o.cmd = "upgrade" /\ o.alone => IF Has(t, "unlock") THEN Updating(o, files)
                                                            ELSE Restoring(o, files)
  BY DEF UpgradeContext, UpgradeState
<1>3. CASE At(p, "rewrite") /\ q = [Advanced(p) EXCEPT !.missed = @ \cup Current(p).on]
  <2> DEFINE a == Advanced(p)
             g == Recall(o, q, o.saved)
  <2>1. /\ a \in Op /\ a.missed = o.missed /\ a.todo = Tail(t)
        /\ a.todo # <<>> => Knows(o, a) /\ a.result = o.result
    BY <1>2, AdvancedTyped, AdvancedFields
  <2> HIDE DEF a
  <2>2. /\ q.missed = o.missed \cup Head(t).on /\ q.todo = Tail(t)
        /\ q.todo # <<>> => Knows(o, q) /\ q.result = "none"
    <3>1. q = [a EXCEPT !.missed = a.missed \cup Head(t).on]
      BY <1>3 DEF a, Current
    <3> HIDE DEF q
    <3>2. /\ q.cmd = a.cmd /\ q.alone = a.alone /\ q.first = a.first /\ q.saved = a.saved
          /\ q.missed = a.missed \cup Head(t).on /\ q.todo = a.todo /\ q.result = a.result
      BY <2>1, <3>1 DEF Op
    <3> QED
      BY <1>2, <2>1, <3>2 DEF Knows
  <2> HIDE DEF q, t
  <2>3. /\ g.cmd = o.cmd /\ g.alone = o.alone /\ g.first = o.first
        /\ g.saved = o.saved /\ g.missed = o.missed \cup Head(t).on /\ g.todo = Tail(t)
        /\ g.todo # <<>> => g.result = "none"
        /\ g.todo = q.todo
    <3>1. /\ g.todo = q.todo /\ g.missed = q.missed /\ g.result = q.result
          /\ g.cmd = o.cmd /\ g.alone = o.alone /\ g.first = o.first /\ g.saved = o.saved
      BY RecallFields
    <3> HIDE DEF g
    <3> QED
      BY <2>2, <3>1
  <2> HIDE DEF g
  <2>4. ASSUME o.cmd = "upgrade", o.alone
        PROVE  Restoring(g, files) /\ ~Has(Tail(t), "unlock")
               /\ (g.todo = <<>> => \A u \in Units : Restored(g, files, u))
    <3>1. ~Updating(o, files)
      <4>1. Head(t).do = "rewrite"
        BY <1>3 DEF At, Current, t
      <4> QED
        BY <1>2, <4>1, UpdatesOnceTail DEF Updating, t
    <3>2. Restoring(o, files) /\ ~Has(t, "unlock")
      BY <1>2, <2>4, <3>1
    <3>3. t = o.todo
      BY DEF t
    <3> QED
      BY <1>2, <2>3, <3>2, <3>3, RestoringGoesOn, TailToDo
  <2>5. UpgradeState(g, files) /\ EndsRestored(g, files)
    <3> HIDE DEF o
    <3>1. g.todo = <<>> => EndsRestored(g, files)
      BY <2>3, <2>4 DEF EndsRestored
    <3>2. g.todo # <<>> => EndsRestored(g, files)
      BY <2>3 DEF EndsRestored
    <3> QED
      BY <2>3, <2>4, <3>1, <3>2 DEF UpgradeState
  <2>6. Kept(o, q, files)
    BY <2>2, <2>5, RecallKept DEF Knows, g
  <2> QED
    BY <2>6 DEF UpgradeKept, o, q
<1>4. CASE o.cmd = "upgrade" /\ ~Recovering(p) /\ q = [o EXCEPT !.todo = Recovery]
  <2>1. /\ q.todo = Recovery /\ q.cmd = o.cmd /\ q.alone = o.alone /\ q.first = o.first
        /\ q.saved = o.saved /\ q.missed = o.missed /\ q.result = o.result
    BY <1>2, <1>4 DEF Op
  <2>2. ASSUME o.alone PROVE Restoring(q, files)
    <3>1. Updating(o, files)
      BY <1>2, <1>4, <2>2, HasUnlock
    <3> HIDE DEF q, t, o
    <3>2. ASSUME NEW u \in Units
          PROVE  /\ q.saved[u] \in {Absent, q.first[u]}
                 /\ Restored(q, files, u) \/ (ToDo(q.todo, "rewrite", u) /\ Touched(q, files, u))
      BY <2>1, <3>1, RecoveryPlan DEF Updating, Untouched, Touched, Restored
    <3> QED
      BY <2>1, <3>2, RecoveryPlan DEF Restoring
  <2>3. UpgradeState(q, files)
    <3> HIDE DEF q, t, o
    <3> QED
      BY <1>2, <2>1, <2>2, RecoveryPlan DEF UpgradeState
  <2>4. Kept(o, q, files)
    <3> HIDE DEF q, t, o
    <3> QED
      BY <1>2, <2>1, <2>3 DEF Kept
  <2> QED
    BY <2>4 DEF UpgradeKept
<1>5. CASE /\ ~At(p, "rewrite")
           /\ \/ o.cmd # "upgrade" \/ Recovering(p)
              \/ ~At(p, "lock") /\ NotYetLocked(p)
           /\ q = Over(p, "failed")
  <2>1. q.todo = <<>> /\ q.missed = o.missed
    BY <1>2, <1>5, OverTyped, OverFields
  <2>2. ASSUME o.cmd = "upgrade", o.alone, NEW u \in Units
        PROVE  Restored(o, files, u)
    <3>1. CASE Recovering(p)
      <4>1. Restoring(o, files) /\ RewritesFirst(t)
        BY <1>2, <2>2, <3>1, HasUnlock DEF Restoring
      <4>2. ~ToDo(t, "rewrite", u)
        BY <1>2, <1>5, <4>1, RewritesFirstTail DEF At, Current
      <4> QED
        BY <4>1, <4>2 DEF Restoring
    <3>2. CASE ~Recovering(p)
      <4>1. Updating(o, files) /\ Has(t, "lock")
        BY <1>2, <1>5, <2>2, <3>2, HasUnlock
      <4>2. Untouched(o, files, u)
        BY <4>1 DEF Updating
      <4> QED
        BY <4>2 DEF Restored, Untouched
    <3> QED
      BY <3>1, <3>2
  <2>3. Kept(o, q, files)
    <3> HIDE DEF q, t, o
    <3> QED
      BY <2>1, <2>2 DEF Kept, UpgradeState, Restored
  <2> QED
    BY <2>3 DEF UpgradeKept
<1> QED
  BY <1>1, <1>2, <1>3, <1>4, <1>5, FailureFields

\* A step of the program that leaves the unit files alone.
LEMMA AdvanceUpgrade ==
    ASSUME NEW p \in Admins, UpgradeContext(p), UNCHANGED files,
           ~At(p, "update"), ~At(p, "rewrite"),
           NEW q, op'[p] = q, q.cmd = Advanced(p).cmd, q.alone = Advanced(p).alone,
           q.first = Advanced(p).first, q.saved = Advanced(p).saved,
           q.missed = Advanced(p).missed, q.todo = Advanced(p).todo,
           q.result = Advanced(p).result
    PROVE  UpgradeKept(p)
<1> DEFINE o == op[p]
           t == op[p].todo
<1>1. /\ CommandsInv /\ Active(p) /\ o \in Op /\ t \in Seq(Step) /\ t # <<>>
      /\ o.result = "none"
      /\ o.cmd = "upgrade" /\ o.alone => IF Has(t, "unlock") THEN Updating(o, files)
                                                            ELSE Restoring(o, files)
  BY DEF UpgradeContext, UpgradeState
<1>2. /\ q.missed = o.missed /\ q.todo = Tail(t)
      /\ q.todo # <<>> => Knows(o, q) /\ q.result = o.result
      /\ q.todo = <<>> => q.result = IF Recovering(p) THEN "failed" ELSE "ok"
  BY <1>1, AdvancedFields DEF Knows
<1>3. Head(t).do # "update" /\ Head(t).do # "rewrite"
  BY <1>1 DEF At, Current
<1>4. /\ o.cmd = "upgrade" => (Recovering(p) <=> ~Has(t, "unlock"))
      /\ Has(t, "unlock") => \/ Tail(t) = <<>>
                             \/ Has(Tail(t), "unlock")
      /\ ~Has(t, "unlock") => ~Has(Tail(t), "unlock")
  BY <1>1, HasUnlock, TailToDo
<1> HIDE DEF t
<1>5. t = o.todo
  BY DEF t
<1> HIDE DEF o
<1> DEFINE g == Recall(o, q, o.saved)
<1>10. /\ g.todo = q.todo /\ g.missed = q.missed /\ g.result = q.result
       /\ g.cmd = o.cmd /\ g.alone = o.alone /\ g.first = o.first /\ g.saved = o.saved
  BY RecallFields
<1> HIDE DEF g
<1>11. ASSUME UpgradeState(g, files), EndsRestored(g, files) PROVE UpgradeKept(p)
  <2>1. Kept(o, q, files)
    BY <1>2, <1>11, RecallKept DEF Knows, g
  <2> QED
    BY <2>1 DEF UpgradeKept, o
<1>6. CASE ~(o.cmd = "upgrade" /\ o.alone)
  <2>1. UpgradeState(g, files) /\ EndsRestored(g, files)
    BY <1>1, <1>2, <1>10, <1>6 DEF UpgradeState, EndsRestored
  <2> QED
    BY <1>11, <2>1
<1>7. CASE o.cmd = "upgrade" /\ o.alone /\ Has(t, "unlock")
  <2>1. Updating(g, files)
    BY <1>1, <1>2, <1>10, <1>5, <1>7, UpdatingGoesOn
  <2>2. UpgradeState(g, files) /\ EndsRestored(g, files)
    BY <1>1, <1>2, <1>10, <1>4, <1>7, <2>1 DEF UpgradeState, EndsRestored
  <2> QED
    BY <1>11, <2>2
<1>8. CASE o.cmd = "upgrade" /\ o.alone /\ ~Has(t, "unlock")
  <2>1. Restoring(g, files) /\ (g.todo = <<>> => \A u \in Units : Restored(g, files, u))
    BY <1>1, <1>2, <1>10, <1>3, <1>5, <1>8, RestoringGoesOn
  <2>2. UpgradeState(g, files) /\ EndsRestored(g, files)
    BY <1>1, <1>2, <1>10, <1>4, <1>8, <2>1 DEF UpgradeState, EndsRestored
  <2> QED
    BY <1>11, <2>2
<1> QED
  BY <1>6, <1>7, <1>8

LEMMA WriteUpgrade ==
    ASSUME NEW p \in Admins, UpgradeContext(p), WriteFile(p)
    PROVE  UpgradeKept(p)
<1> DEFINE o == op[p]
           t == op[p].todo
           f == File(p)
           a == Advanced(p)
           q == op'[p]
           g == Recall(o, q, Saved(p))
<1>1. /\ CommandsInv /\ Active(p) /\ o \in Op /\ t \in Seq(Step) /\ t # <<>>
      /\ o.result = "none" /\ o.release \in 1 .. Len(Releases)
      /\ files \in [Files -> Contents] /\ o.saved \in [Files -> Contents]
      /\ o.cmd = "upgrade" /\ o.alone => IF Has(t, "unlock") THEN Updating(o, files)
                                                            ELSE Restoring(o, files)
  BY CurrentTyped DEF UpgradeContext, UpgradeState, RestInv, Op
<1>2. /\ a \in Op /\ a.missed = o.missed /\ a.todo = Tail(t)
      /\ a.todo # <<>> => Knows(o, a) /\ a.result = o.result
      /\ a.todo = <<>> => a.result = IF Recovering(p) THEN "failed" ELSE "ok"
  BY <1>1, AdvancedTyped, AdvancedFields
<1> HIDE DEF a
<1>3. /\ At(p, "write") \/ At(p, "update")
      /\ files[f] # Foreign /\ files' = [files EXCEPT ![f] = o.release]
      /\ q = [a EXCEPT !.saved = Saved(p)]
  BY <1>1 DEF WriteFile, Refused, UpgradeContext, CommandsInv, a
<1> HIDE DEF q
<1>7. /\ q.missed = o.missed /\ q.todo = Tail(t) /\ q.saved = Saved(p)
      /\ q.todo # <<>> => q.cmd = o.cmd /\ q.alone = o.alone /\ q.first = o.first
      /\ q.todo # <<>> => q.result = "none"
      /\ q.todo = <<>> => q.result = IF Recovering(p) THEN "failed" ELSE "ok"
  <2>1. /\ q.cmd = a.cmd /\ q.alone = a.alone /\ q.first = a.first /\ q.missed = a.missed
        /\ q.todo = a.todo /\ q.saved = Saved(p) /\ q.result = a.result
    BY <1>2, <1>3 DEF Op
  <2> QED
    BY <1>1, <1>2, <2>1 DEF Knows
<1>4. /\ g.cmd = o.cmd /\ g.alone = o.alone /\ g.first = o.first /\ g.missed = o.missed
      /\ g.todo = Tail(t) /\ g.saved = Saved(p)
      /\ g.todo # <<>> => g.result = "none"
      /\ g.todo = <<>> => g.result = IF Recovering(p) THEN "failed" ELSE "ok"
  <2>1. /\ g.todo = q.todo /\ g.missed = q.missed /\ g.result = q.result
        /\ g.cmd = o.cmd /\ g.alone = o.alone /\ g.first = o.first /\ g.saved = Saved(p)
    BY RecallFields
  <2> HIDE DEF g
  <2> QED
    BY <1>7, <2>1
<1> HIDE DEF g
<1>8. ASSUME UpgradeState(g, files'), EndsRestored(g, files') PROVE UpgradeKept(p)
  <2>1. Kept(o, q, files')
    BY <1>7, <1>8, RecallKept DEF g
  <2> QED
    BY <2>1 DEF UpgradeKept, o, q
<1>5. CASE ~(o.cmd = "upgrade" /\ o.alone)
  <2> HIDE DEF o, t
  <2>1. UpgradeState(g, files') /\ EndsRestored(g, files')
    BY <1>4, <1>5 DEF UpgradeState, EndsRestored
  <2> QED
    BY <1>8, <2>1
<1>6. CASE o.cmd = "upgrade" /\ o.alone
  <2>1. Head(t).do \in {"write", "update"}
    BY <1>3 DEF At, Current
  <2>2. Updating(o, files) /\ Has(t, "unlock") /\ UpdatesOnce(t)
    <3>1. ~Restoring(o, files)
      BY <1>1, <2>1, RewritesFirstTail DEF Restoring
    <3> QED
      BY <1>1, <1>6, <3>1 DEF Updating
  <2>3. Head(t).do = "update" /\ At(p, "update")
    BY <1>1, <2>1, <2>2, UpdatesOnceTail DEF At, Current
  <2>4. PICK u \in Units : Head(t) = [do |-> "update", on |-> {u}]
    BY <1>1, <2>2, <2>3, UpdatesOnceTail
  <2>5. f = u /\ u \in Files
    <3>1. u \in Files /\ Current(p) = [do |-> "update", on |-> {u}]
      BY <2>4 DEF Files, Current
    <3> QED
      BY <3>1, FileOfStep
  <2>6. Untouched(o, files, u)
    <3>1. ToDo(t, "update", u)
      <4>1. Len(t) \in Nat \ {0} /\ t[1] = Head(t)
        BY <1>1, HeadOfShape
      <4> QED
        BY <2>4, <4>1 DEF ToDo
    <3> QED
      BY <2>2, <3>1 DEF Updating
  <2>7. /\ ~Has(Tail(t), "lock") /\ ~ToDo(Tail(t), "update", u)
        /\ UpdatesOnce(Tail(t)) /\ Has(Tail(t), "unlock")
    <3>1. \A i \in 1 .. Len(Tail(t)) : Tail(t)[i] # Head(t)
      BY <1>1, <2>2, <2>3, UpdatesOnceTail
    <3>2. ~ToDo(Tail(t), "update", u)
      BY <2>4, <3>1 DEF ToDo
    <3>3. Has(Tail(t), "unlock")
      BY <1>1, <2>2, <2>3, TailToDo
    <3> QED
      BY <1>1, <2>2, <2>3, <3>2, <3>3, UpdatesOnceTail
  <2>8. g.saved = [o.saved EXCEPT ![u] = files[u]]
    BY <1>4, <2>3, <2>5 DEF Saved
  <2>9. o.release # Foreign
    BY <1>1, OrdersTyped DEF Foreign
  <2>10. \A v \in Units : ToDo(Tail(t), "update", v) => ToDo(t, "update", v)
    BY <1>1, TailToDo
  <2>11. Units \subseteq Files
    BY DEF Files
  <2>12. Updating(o, files) => \A v \in Units : /\ Untouched(o, files, v) \/ Touched(o, files, v)
                                                /\ ToDo(t, "update", v) => Untouched(o, files, v)
    BY DEF Updating
  <2> HIDE DEF o, t, f
  <2>13. Touched(g, files', u)
    BY <1>1, <1>3, <1>4, <2>5, <2>6, <2>8, <2>9 DEF Touched, Untouched
  <2>14. ASSUME NEW v \in Units, v # u
         PROVE  /\ Untouched(o, files, v) => Untouched(g, files', v)
                /\ Touched(o, files, v) => Touched(g, files', v)
    <3>1. g.saved[v] = o.saved[v] /\ files'[v] = files[v] /\ g.first = o.first
      BY <1>1, <1>3, <1>4, <2>5, <2>8, <2>11, <2>14
    <3> QED
      BY <3>1 DEF Touched, Untouched
  <2>15. Updating(g, files')
    BY <1>4, <2>2, <2>7, <2>10, <2>12, <2>13, <2>14 DEF Updating
  <2>16. g.todo # <<>>
    BY <1>4, <2>7, EmptySeq DEF Has
  <2>17. UpgradeState(g, files') /\ EndsRestored(g, files')
    BY <1>4, <2>7, <2>15, <2>16 DEF UpgradeState, EndsRestored
  <2> QED
    BY <1>8, <2>17
<1> QED
  BY <1>5, <1>6

LEMMA RewriteUpgrade ==
    ASSUME NEW p \in Admins, UpgradeContext(p), Rewrite(p)
    PROVE  UpgradeKept(p)
<1> DEFINE o == op[p]
           t == op[p].todo
           f == File(p)
           q == op'[p]
           g == Recall(o, q, o.saved)
<1>1. /\ CommandsInv /\ Active(p) /\ o \in Op /\ t \in Seq(Step) /\ t # <<>>
      /\ o.result = "none"
      /\ files \in [Files -> Contents] /\ o.saved \in [Files -> Contents]
      /\ o.cmd = "upgrade" /\ o.alone => IF Has(t, "unlock") THEN Updating(o, files)
                                                            ELSE Restoring(o, files)
  BY DEF UpgradeContext, UpgradeState, RestInv, Op
<1>2. /\ At(p, "rewrite") /\ q = Advanced(p)
      /\ files' = IF o.saved[f] # Absent /\ files[f] # Foreign
                  THEN [files EXCEPT ![f] = o.saved[f]] ELSE files
  BY <1>1 DEF Rewrite, Acts, Rewritten, Refused, CommandsInv
<1>6. /\ q.missed = o.missed /\ q.todo = Tail(t)
      /\ q.todo # <<>> => Knows(o, q) /\ q.result = "none"
  BY <1>1, <1>2, AdvancedFields
<1> HIDE DEF q
<1>3. /\ g.cmd = o.cmd /\ g.alone = o.alone /\ g.first = o.first /\ g.saved = o.saved
      /\ g.missed = o.missed /\ g.todo = Tail(t)
      /\ g.todo # <<>> => g.result = "none"
  <2>1. /\ g.todo = q.todo /\ g.missed = q.missed /\ g.result = q.result
        /\ g.cmd = o.cmd /\ g.alone = o.alone /\ g.first = o.first /\ g.saved = o.saved
    BY RecallFields
  <2> HIDE DEF g
  <2> QED
    BY <1>6, <2>1
<1> HIDE DEF g
<1>7. ASSUME UpgradeState(g, files'), EndsRestored(g, files') PROVE UpgradeKept(p)
  <2>1. Kept(o, q, files')
    BY <1>6, <1>7, RecallKept DEF Knows, g
  <2> QED
    BY <2>1 DEF UpgradeKept, o, q
<1>4. CASE ~(o.cmd = "upgrade" /\ o.alone)
  <2> HIDE DEF o, t
  <2>1. UpgradeState(g, files') /\ EndsRestored(g, files')
    BY <1>3, <1>4 DEF UpgradeState, EndsRestored
  <2> QED
    BY <1>7, <2>1
<1>5. CASE o.cmd = "upgrade" /\ o.alone
  <2>1. Head(t).do = "rewrite"
    BY <1>2 DEF At, Current
  <2>2. Restoring(o, files) /\ ~Has(t, "unlock") /\ RewritesFirst(t)
    <3>1. ~Updating(o, files)
      BY <1>1, <2>1, UpdatesOnceTail DEF Updating
    <3> QED
      BY <1>1, <1>5, <3>1 DEF Restoring
  <2>3. PICK u \in Units : Head(t) = [do |-> "rewrite", on |-> {u}]
    BY <1>1, <2>1, <2>2, RewritesFirstTail
  <2>4. f = u /\ u \in Files
    <3>1. u \in Files /\ Current(p) = [do |-> "rewrite", on |-> {u}]
      BY <2>3 DEF Files, Current
    <3> QED
      BY <3>1, FileOfStep
  <2>5. /\ RewritesFirst(Tail(t)) /\ ~Has(Tail(t), "unlock")
    BY <1>1, <2>2, RewritesFirstTail, TailToDo
  <2>6. ASSUME NEW v \in Units, v # u, ToDo(t, "rewrite", v) PROVE ToDo(Tail(t), "rewrite", v)
    <3>1. Head(t) # [do |-> "rewrite", on |-> {v}]
      <4>1. Head(t).on = {u} /\ {u} # {v}
        BY <2>3, <2>6
      <4> QED
        BY <4>1
    <3> QED
      BY <1>1, <2>6, <3>1, TailToDo
  <2>7. \A v \in Units :
           /\ o.saved[v] \in {Absent, o.first[v]}
           /\ Restored(o, files, v) \/ (ToDo(t, "rewrite", v) /\ Touched(o, files, v))
    BY <2>2 DEF Restoring
  <2>8. Units \subseteq Files
    BY DEF Files
  <2> HIDE DEF o, t, f
  <2>9. Restored(g, files', u)
    <3>1. CASE o.saved[u] # Absent /\ files[u] # Foreign
      <4>1. files'[u] = o.saved[u] /\ o.saved[u] = o.first[u]
        BY <1>1, <1>2, <2>4, <2>7, <3>1
      <4> QED
        BY <1>3, <4>1 DEF Restored
    <3>2. CASE ~(o.saved[u] # Absent /\ files[u] # Foreign)
      <4>1. files' = files
        BY <1>2, <2>4, <3>2
      <4>2. Restored(o, files, u)
        BY <2>7, <3>2 DEF Touched, Restored
      <4> QED
        BY <1>3, <4>1, <4>2 DEF Restored
    <3> QED
      BY <3>1, <3>2
  <2>10. ASSUME NEW v \in Units, v # u
         PROVE  Restored(g, files', v) \/ (ToDo(g.todo, "rewrite", v) /\ Touched(g, files', v))
    <3>1. files'[v] = files[v]
      BY <1>1, <1>2, <2>4, <2>8, <2>10
    <3>2. /\ Restored(o, files, v) => Restored(g, files', v)
          /\ Touched(o, files, v) => Touched(g, files', v)
      BY <1>3, <3>1 DEF Restored, Touched
    <3> QED
      BY <1>3, <2>6, <2>7, <2>10, <3>2
  <2>11. Restoring(g, files')
    BY <1>3, <2>5, <2>7, <2>9, <2>10 DEF Restoring
  <2>12. g.todo = <<>> => \A v \in Units : Restored(g, files', v)
    <3>1. ASSUME g.todo = <<>>, NEW v \in Units PROVE ~ToDo(g.todo, "rewrite", v)
      BY <3>1, EmptySeq DEF ToDo
    <3> QED
      BY <2>9, <2>10, <3>1
  <2>13. UpgradeState(g, files') /\ EndsRestored(g, files')
    <3>1. g.todo # <<>> => EndsRestored(g, files')
      BY <1>3 DEF EndsRestored
    <3>2. g.todo = <<>> => EndsRestored(g, files')
      BY <2>12 DEF EndsRestored
    <3> QED
      BY <1>3, <2>5, <2>11, <3>1, <3>2 DEF UpgradeState
  <2> QED
    BY <1>7, <2>13
<1> QED
  BY <1>4, <1>5

LEMMA RemoveUpgrade ==
    ASSUME NEW p \in Admins, UpgradeContext(p), RemoveFile(p)
    PROVE  UpgradeKept(p)
<1> DEFINE o == op[p]
           t == op[p].todo
           q == op'[p]
<1>1. /\ CommandsInv /\ Active(p) /\ o \in Op /\ t \in Seq(Step) /\ t # <<>>
      /\ o.result = "none"
      /\ o.cmd = "upgrade" /\ o.alone => IF Has(t, "unlock") THEN Updating(o, files)
                                                            ELSE Restoring(o, files)
  BY DEF UpgradeContext, UpgradeState
<1>2. Head(t).do = "remove" /\ q = Advanced(p)
  BY <1>1 DEF RemoveFile, Acts, CommandsInv, At, Current
<1>3. ~(o.cmd = "upgrade" /\ o.alone)
  BY <1>1, <1>2, UpdatesOnceTail, RewritesFirstTail DEF Updating, Restoring
<1>4. q.todo # <<>> => q.cmd = o.cmd /\ q.alone = o.alone /\ q.result = "none"
  BY <1>1, <1>2, AdvancedFields DEF Knows
<1> HIDE DEF o, t, q
<1>5. Kept(o, q, files')
  BY <1>3, <1>4 DEF UpgradeState, Kept
<1> QED
  BY <1>5 DEF UpgradeKept, o, q

\* Every step of a command keeps what is known of its upgrade, or is a migration's.
LEMMA CommandUpgrade ==
    ASSUME LifecycleInv, UpgradeInv, NEW p \in Admins, CommandStep(p) \/ Fail(p) \/ Kill(p)
    PROVE  \/ UNCHANGED <<op, files>>
           \/ Active(p) /\ op' = [op EXCEPT ![p] = op'[p]] /\ UpgradeKept(p)
<1>1. CommandsInv /\ op \in [Admins -> Op] /\ \A q : [op EXCEPT ![p] = q][p] = q
  BY DEF LifecycleInv, CommandsInv
<1>2. Active(p) => UpgradeContext(p)
  BY <1>1 DEF UpgradeContext, LifecycleInv, UpgradeInv, Active, Op
<1>3. CASE Active(p) /\ RaiseIn(p) /\ UNCHANGED files
  <2>1. op' = [op EXCEPT ![p] = op'[p]]
    BY <1>1, <1>3 DEF RaiseIn
  <2> QED
    BY <1>2, <1>3, <2>1, RaiseUpgrade
<1>4. CASE /\ Active(p) /\ op' = [op EXCEPT ![p] = Advanced(p)] /\ UNCHANGED files
           /\ ~At(p, "update") /\ ~At(p, "rewrite")
  <2>1. op'[p] = Advanced(p) /\ op' = [op EXCEPT ![p] = op'[p]]
    BY <1>1, <1>4
  <2> QED
    BY <1>2, <1>4, <2>1, AdvanceUpgrade
<1>5. CASE Ask(p)
  <2> DEFINE s == CHOOSE d \in Daemons : Current(p).on = {d}
  <2>1. PICK seen : op' = [op EXCEPT ![p] = [Advanced(p) EXCEPT !.before[s] = seen]]
    BY <1>5 DEF Ask
  <2> DEFINE a == Advanced(p)
             q == [a EXCEPT !.before[s] = seen]
  <2>2. Active(p) /\ UNCHANGED files /\ ~At(p, "update") /\ ~At(p, "rewrite")
    BY <1>5 DEF Ask, At
  <2>3. a \in Op
    BY <1>1, <2>2, AdvancedTyped
  <2> HIDE DEF a
  <2>4. /\ q.cmd = a.cmd /\ q.alone = a.alone /\ q.first = a.first /\ q.saved = a.saved
        /\ q.missed = a.missed /\ q.todo = a.todo /\ q.result = a.result
    BY <2>3 DEF Op
  <2>5. op' = [op EXCEPT ![p] = q]
    BY <2>1 DEF a
  <2> HIDE DEF q
  <2>6. op'[p] = q /\ op' = [op EXCEPT ![p] = op'[p]]
    BY <1>1, <2>5
  <2> QED
    BY <1>2, <2>2, <2>4, <2>6, AdvanceUpgrade DEF a
<1>6. CASE WriteFile(p) \/ Rewrite(p) \/ RemoveFile(p)
  <2>1. Active(p) /\ op' = [op EXCEPT ![p] = op'[p]]
    BY <1>1, <1>6 DEF WriteFile, Rewrite, RemoveFile, Acts, At
  <2> QED
    BY <1>2, <1>6, <2>1, WriteUpgrade, RewriteUpgrade, RemoveUpgrade
<1>7. CASE Kill(p)
  <2> DEFINE q == Over(p, "killed")
  <2>1. q.todo = <<>> /\ q.result = "killed"
    BY <1>1, OverTyped, OverFields
  <2>2. Active(p) /\ op'[p] = q /\ op' = [op EXCEPT ![p] = op'[p]]
    BY <1>1, <1>7 DEF Kill
  <2> HIDE DEF q
  <2>3. Kept(op[p], q, files')
    BY <2>1 DEF UpgradeState, Kept
  <2> QED
    BY <2>2, <2>3 DEF UpgradeKept
<1>8. CASE Preflight(p) \/ TakeLock(p) \/ Unlock(p) \/ Status(p) \/ RefuseFile(p)
           \/ UnknownUnit(p) \/ MigratedByCommand(p) \/ Fail(p)
  <2>1. UNCHANGED files /\ Active(p)
    BY <1>8 DEF Preflight, TakeLock, Unlock, Status, RefuseFile, UnknownUnit, MigratedByCommand,
       Fail, At
  <2>2. \/ RaiseIn(p)
        \/ /\ op' = [op EXCEPT ![p] = Advanced(p)]
           /\ ~At(p, "update") /\ ~At(p, "rewrite")
    BY <1>8 DEF Preflight, TakeLock, Unlock, Status, RefuseFile, UnknownUnit, MigratedByCommand,
       Fail, At
  <2> QED
    BY <1>3, <1>4, <2>1, <2>2
<1>9. CASE \/ Enable(p) \/ Disable(p) \/ DisableNow(p) \/ StartUnits(p) \/ StopUnits(p)
           \/ RestartUnits(p) \/ ReEnable(p) \/ ReStart(p)
  <2>1. UNCHANGED files /\ Active(p) /\ Current(p).do \in Calls
    BY <1>9, SystemctlEffects
  <2>2. op' = [op EXCEPT ![p] = Advanced(p)]
    BY <1>9 DEF Enable, Disable, DisableNow, StartUnits, StopUnits, RestartUnits, ReEnable,
       ReStart, Systemctl, Acts
  <2>3. ~At(p, "update") /\ ~At(p, "rewrite")
    BY <2>1 DEF At, Calls
  <2> QED
    BY <1>4, <2>1, <2>2, <2>3
<1>10. CASE OpenByCommand(p) \/ MigrateByCommand(p)
  BY <1>10 DEF OpenByCommand, MigrateByCommand, otherwise
<1> QED
  BY <1>5, <1>6, <1>7, <1>8, <1>9, <1>10 DEF CommandStep

\* An upgrade begins with every unit as it found it.
LEMMA BeginUpgrade ==
    ASSUME LifecycleInv, UpgradeInv, NEW p \in Admins, NEW cmd \in Commands, Begin(p, cmd)
    PROVE  /\ UpgradeInv' /\ ~Active(p)
           /\ \A q \in Admins : q # p /\ Active(q) => op'[q].result = "none"
<1> DEFINE others == {q \in Admins \ {p} : Active(q)}
           o == [IdleOp EXCEPT !.cmd = cmd, !.todo = Program(cmd), !.release = package,
                               !.alone = others = {},
                               !.first = IF cmd = "upgrade" THEN files ELSE @]
<1>1. op' = [q \in Admins |-> IF q = p THEN o
                              ELSE IF q \in others THEN [op[q] EXCEPT !.alone = FALSE] ELSE op[q]]
  BY DEF Begin
<1>2. /\ o.cmd = cmd /\ o.todo = Program(cmd) /\ o.result = "none"
      /\ cmd = "upgrade" => o.first = files
      /\ o.saved = [f \in Files |-> Absent]
  BY DEF IdleOp
<1> HIDE DEF o, others
<1>3. UNCHANGED files /\ ~Active(p)
  BY DEF Begin
<1>4. UpgradeState(o, files)
  <2>1. ASSUME cmd = "upgrade" PROVE Has(o.todo, "unlock") /\ Updating(o, files)
    <3>1. o.todo = Upgrade
      BY <1>2, <2>1 DEF Program
    <3>2. \A u \in Units : Untouched(o, files, u)
      BY <1>2, <2>1 DEF Untouched, Files
    <3> QED
      BY <3>1, <3>2, UpgradePlan DEF Updating
  <2> QED
    BY <1>2, <2>1 DEF UpgradeState
<1>5. ASSUME NEW q \in Admins, q # p
      PROVE  UpgradeState(op'[q], files) /\ (Active(q) => op'[q].result = "none")
  <2>1. op[q] \in Op /\ UpgradeState(op[q], files)
    BY DEF LifecycleInv, CommandsInv, UpgradeInv
  <2> DEFINE n == [op[q] EXCEPT !.alone = FALSE]
  <2>2. n.todo = op[q].todo /\ n.result = op[q].result /\ n.alone = FALSE
    BY <2>1 DEF Op
  <2>3. op'[q] = op[q] \/ op'[q] = n
    BY <1>1, <1>5
  <2> HIDE DEF n
  <2> QED
    BY <2>1, <2>2, <2>3 DEF UpgradeState, Active
<1>6. op'[p] = o
  BY <1>1
<1>7. \A q \in Admins : UpgradeState(op'[q], files')
  BY <1>3, <1>4, <1>5, <1>6
<1> QED
  BY <1>3, <1>5, <1>7 DEF UpgradeInv

LEMMA UpgradeInvInit == LifecycleInit => UpgradeInv
<1> SUFFICES ASSUME LifecycleInit, NEW p \in Admins PROVE op[p].todo = <<>>
  BY DEF UpgradeInv, UpgradeState
<1> QED
  BY IdleOpTyped DEF LifecycleInit

\* What FailedUpgradeRestores says of a step.
RestoringStep ==
    \A p \in Admins :
       Active(p) /\ op[p].cmd = "upgrade" /\ op[p].alone /\ op'[p].result = "failed"
          => \A u \in Units \ op'[p].missed :
                op[p].first[u] # Absent => files'[u] = op[p].first[u]

LEMMA UpgradeInvNext ==
    LifecycleInv /\ UnitsInv /\ UpgradeInv /\ [LifecycleNext]_lifecycleVars
       => UpgradeInv' /\ RestoringStep
<1> SUFFICES ASSUME LifecycleInv, UnitsInv, UpgradeInv, [LifecycleNext]_lifecycleVars
             PROVE  UpgradeInv' /\ RestoringStep
  OBVIOUS
<1>1. \A p \in Admins : Active(p) => op[p].result = "none"
  BY DEF UpgradeInv, UpgradeState, Active
<1>2. CASE UNCHANGED <<op, files>>
  BY <1>1, <1>2 DEF UpgradeInv, RestoringStep
<1>3. ASSUME NEW p \in Admins, NEW cmd \in Commands, Begin(p, cmd)
      PROVE  UpgradeInv' /\ RestoringStep
  BY <1>3, BeginUpgrade DEF RestoringStep
<1>4. ASSUME NEW p \in Admins, Active(p), op' = [op EXCEPT ![p] = op'[p]], UpgradeKept(p)
      PROVE  UpgradeInv' /\ RestoringStep
  <2>1. \A q \in Admins : q # p => op'[q] = op[q]
    BY <1>4 DEF LifecycleInv, CommandsInv
  <2>2. UpgradeState(op'[p], files') /\ Kept(op[p], op'[p], files')
    BY <1>4 DEF UpgradeKept, Kept
  <2>3. ASSUME NEW q \in Admins, q # p PROVE UpgradeState(op[q], files')
    <3>1. Active(q) => ~op[q].alone
      BY <1>4, <2>3 DEF UnitsInv, AloneInv
    <3> QED
      BY <1>1, <3>1 DEF UpgradeState, Active
  <2>4. UpgradeInv'
    <3>1. \A q \in Admins : UpgradeState(op'[q], files')
      BY <2>1, <2>2, <2>3
    <3> QED
      BY <3>1 DEF UpgradeInv
  <2>5. ASSUME NEW q \in Admins, Active(q), op[q].cmd = "upgrade", op[q].alone,
               op'[q].result = "failed", NEW u \in Units \ op'[q].missed,
               op[q].first[u] # Absent
        PROVE  files'[u] = op[q].first[u]
    <3>1. q = p
      BY <1>1, <2>1, <2>5
    <3> QED
      BY <2>2, <2>5, <3>1 DEF Kept
  <2> QED
    BY <2>4, <2>5 DEF RestoringStep
<1>5. ASSUME NEW p \in Admins, CommandStep(p) \/ Fail(p) \/ Kill(p)
      PROVE  UpgradeInv' /\ RestoringStep
  BY <1>2, <1>4, <1>5, CommandUpgrade
<1>6. ASSUME NEW s \in Daemons, DaemonStep(s) \/ DaemonDies(s) PROVE UNCHANGED <<op, files>>
  BY <1>6 DEF DaemonStep, DaemonDies, MigrateByDaemon, ComeUp, StartAgain, otherwise
<1>7. UNCHANGED lifecycleVars \/ InstallWheel \/ UpdateEnds => UNCHANGED <<op, files>>
  BY DEF lifecycleVars, InstallWheel, UpdateEnds
<1> QED
  BY <1>2, <1>3, <1>5, <1>6, <1>7 DEF LifecycleNext

-----------------------------------------------------------------------------
(* Theorems *)

\* Every variable stays in its type: a systemctl call only ever names units, a
\* command that runs has a release whose code it runs.
THEOREM LifecycleTypes == LifecycleSpec => []LifecycleTypeOK
<1>1. LifecycleInv => LifecycleTypeOK
  BY DEF LifecycleInv, MigrationInv, CommandsInv, DaemonsInv, RestInv, LifecycleTypeOK
<1> QED
  BY <1>1, LifecycleInvHolds, PTL

\* No daemon serves on a schema older than its release needs, whatever races,
\* fails, dies or is upgraded under it.
THEOREM DaemonsFindTheirSchema == LifecycleSpec => []NoDaemonOnOldSchema
<1>1. LifecycleInv => NoDaemonOnOldSchema
  BY DEF LifecycleInv, DaemonsInv, Served, NoDaemonOnOldSchema
<1> QED
  BY <1>1, LifecycleInvHolds, PTL

\* A command that finds the lock taken is refused because of one that is in its locked
\* part: the lock outlives no failure and no kill, and a recovery has given it back.  The
\* converse does not hold: a stopping unit takes the lock file from under its holder.
THEOREM LockFollowsTheCommand == LifecycleSpec => []LockHolderRuns
<1>1. ASSUME LifecycleInv, NEW p \in Admins, lock = p
      PROVE  InLockedPart(p)
  <2>1. Shape(p, lock, op[p]) /\ op[p].todo \in Seq(Step)
    BY <1>1 DEF LifecycleInv, CommandsInv, Op
  <2> DEFINE t == op[p].todo
  <2>2. DOMAIN t = 1 .. Len(t) /\ Len(t) \in Nat
    BY <2>1
  <2>3. t # <<>> /\ UnderLock(t)
    BY <1>1, <2>1 DEF Shape
  <2>4. Len(t) \in DOMAIN t /\ t[Len(t)].do = "unlock"
    BY <2>1, <2>2, <2>3, EmptySeq DEF UnderLock
  <2>5. \A i \in DOMAIN t : t[i].do # "lock"
    BY <2>2, <2>3, <2>4 DEF UnderLock, Inner
  <2> QED
    BY <2>3, <2>4, <2>5 DEF InLockedPart, Active, NotYetLocked, Recovering
<1>2. LifecycleInv => LockHolderRuns
  BY <1>1 DEF LockHolderRuns
<1> QED
  BY <1>2, LifecycleInvHolds, PTL


\* Nothing runs or is enabled at boot without its unit file, however commands fail, are
\* killed and follow each other, as long as no command acts without the lock while another
\* one overlaps it.  The code does not guarantee that condition: "disable --now" of an
\* uninstall removes the lock file, and a command that begins then may overlap it.
THEOREM NothingRunsWithoutUnit == LifecycleSpec => []NothingLeftWithoutUnit
<1>1. UnitsInv => NothingLeftWithoutUnit
  BY DEF UnitsInv
<1> QED
  BY <1>1, LifecycleInvHolds, UnitsInvInit, UnitsInvNext, PTL DEF LifecycleSpec


\* An upgrade that fails with no other command beside it ends with every unit file it
\* found as it found it, whichever call failed and wherever, but for the units whose own
\* rewrite failed in the recovery.
THEOREM FailedUpgradesAreUndone == LifecycleSpec => FailedUpgradeRestores
<1>1. LifecycleInv /\ UnitsInv /\ UpgradeInv /\ [LifecycleNext]_lifecycleVars
         => [RestoringStep]_lifecycleVars
  BY UpgradeInvNext
<1> QED
  BY <1>1, LifecycleInvHolds, UnitsInvInit, UnitsInvNext, UpgradeInvInit, UpgradeInvNext, PTL
     DEF LifecycleSpec, FailedUpgradeRestores, RestoringStep
=============================================================================
