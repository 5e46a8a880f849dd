------------------------- MODULE SchedulerLeaseProofs -------------------------
(***************************************************************************)
(* Proofs about the leases, reservations and drains of SchedulerPool: the  *)
(* second part of the inductive invariant, and with it the accounting, the *)
(* custody of processes, what may end a lease, and the refinement of       *)
(* InstanceLease.                                                          *)
(***************************************************************************)
EXTENDS SchedulerPoolProofs, FunctionTheorems

--------------------------------------------------------------------------------
(* Induction and sums.  The library's induction rules take an operator; this *)
(* one takes a set, and rests on the fact that an injection of a finite set  *)
(* into itself is onto.                                                      *)

\* A set of naturals with 0 and with the successor of each member has them all.
LEMMA SetInduction ==
  ASSUME NEW P \in SUBSET Nat, 0 \in P, \A n \in P : n + 1 \in P
  PROVE  P = Nat
<1> SUFFICES ASSUME NEW n \in Nat, n \notin P
             PROVE  FALSE
  OBVIOUS
<1> DEFINE T == P \cap (0..n)
           next == [m \in T |-> m + 1]
<1>1. IsFiniteSet(T)
  <2>1. IsFiniteSet(0..n) /\ T \in SUBSET (0..n)
    BY FS_Interval
  <2> QED
    BY <2>1, FS_Subset
<1>2. next \in [T -> T]
  OBVIOUS
<1>3. next \in Injection(T, T)
  BY <1>2 DEF Injection, IsInjective
<1>4. next \in Surjection(T, T)
  BY <1>1, <1>3, FS_Injection
<1>5. PICK m \in T : next[m] = 0
  <2>1. 0 \in T
    OBVIOUS
  <2> QED
    BY <1>4, <2>1 DEF Surjection
<1> QED
  BY <1>5

\* The order in which SumFunctionOnSet takes its elements, and the equation of its
\* recursion over the subsets of S.
Pick(s) == CHOOSE x \in s : TRUE
SumStep(g, f, s) == IF s = {} THEN 0 ELSE f[Pick(s)] + g[s \ {Pick(s)}]
Solves(g, f, S) == g = [s \in SUBSET S |-> SumStep(g, f, s)]

\* A smaller finite set is left when an element is taken.
LEMMA TakeOne ==
  ASSUME NEW S, IsFiniteSet(S), NEW T \in SUBSET S, NEW x \in T
  PROVE  /\ T \ {x} \in SUBSET S
         /\ Cardinality(T) \in Nat /\ Cardinality(T \ {x}) \in Nat
         /\ Cardinality(T) = Cardinality(T \ {x}) + 1
<1>1. IsFiniteSet(T)
  BY FS_Subset
<1>2. /\ Cardinality(T \ {x}) = Cardinality(T) - 1
      /\ IsFiniteSet(T \ {x})
  BY <1>1, FS_RemoveElement
<1>3. Cardinality(T) \in Nat /\ Cardinality(T \ {x}) \in Nat
  BY <1>1, <1>2, FS_CardinalityType
<1> QED
  BY <1>2, <1>3

\* The equation has a solution.
LEMMA SumExists ==
  ASSUME NEW S, IsFiniteSet(S), NEW f \in [S -> Int]
  PROVE  \E g : Solves(g, f, S)
<1> DEFINE Upto(g, n) == \A s \in SUBSET S : Cardinality(s) <= n => g[s] = SumStep(g, f, s)
           P == {n \in Nat : \E g \in [SUBSET S -> Int] : Upto(g, n)}
<1>p. ASSUME NEW s \in SUBSET S, s # {}
      PROVE  Pick(s) \in s
  BY <1>p DEF Pick
<1>1. 0 \in P
  <2> DEFINE g == [s \in SUBSET S |-> 0]
  <2>1. Upto(g, 0)
    <3> SUFFICES ASSUME NEW s \in SUBSET S, Cardinality(s) <= 0
                 PROVE  g[s] = SumStep(g, f, s)
      OBVIOUS
    <3>1. IsFiniteSet(s) /\ Cardinality(s) \in Nat
      BY FS_Subset, FS_CardinalityType
    <3>2. s = {}
      BY <3>1, FS_EmptySet
    <3> QED
      BY <3>2 DEF SumStep
  <2>2. g \in [SUBSET S -> Int]
    OBVIOUS
  <2> QED
    BY <2>1, <2>2
<1>2. ASSUME NEW n \in P PROVE n + 1 \in P
  <2>1. PICK g \in [SUBSET S -> Int] : Upto(g, n)
    OBVIOUS
  <2> DEFINE h == [s \in SUBSET S |-> IF Cardinality(s) <= n THEN g[s] ELSE SumStep(g, f, s)]
  <2>2. ASSUME NEW s \in SUBSET S PROVE SumStep(g, f, s) \in Int
    BY <1>p DEF SumStep
  <2>3. h \in [SUBSET S -> Int]
    BY <2>2
  <2>4. Upto(h, n + 1)
    <3> SUFFICES ASSUME NEW s \in SUBSET S, Cardinality(s) <= n + 1
                 PROVE  h[s] = SumStep(h, f, s)
      OBVIOUS
    <3>1. CASE s = {}
      <4>1. Cardinality(s) = 0
        BY <3>1, FS_EmptySet
      <4> QED
        BY <2>1, <3>1, <4>1 DEF SumStep
    <3>2. CASE s # {}
      <4> DEFINE r == s \ {Pick(s)}
      <4>1. r \in SUBSET S /\ Cardinality(r) <= n
        BY <1>p, <3>2, TakeOne
      <4>2. h[r] = g[r]
        BY <4>1
      <4>3. SumStep(h, f, s) = SumStep(g, f, s)
        BY <3>2, <4>2 DEF SumStep
      <4>4. h[s] = SumStep(g, f, s)
        BY <2>1
      <4> QED
        BY <4>3, <4>4
    <3> QED
      BY <3>1, <3>2
  <2>5. n + 1 \in Nat
    OBVIOUS
  <2> HIDE DEF Upto, h
  <2> QED
    BY <2>3, <2>4, <2>5
<1>3. P = Nat
  <2> HIDE DEF P
  <2>1. P \in SUBSET Nat
    BY DEF P
  <2> QED
    BY <1>1, <1>2, <2>1, SetInduction
<1>4. PICK g \in [SUBSET S -> Int] : Upto(g, Cardinality(S))
  <2>1. Cardinality(S) \in Nat
    BY FS_CardinalityType
  <2>2. Cardinality(S) \in P
    BY <1>3, <2>1
  <2> QED
    BY <2>2
<1>5. \A s \in SUBSET S : g[s] = SumStep(g, f, s)
  BY <1>4, FS_Subset
<1>6. g = [s \in SUBSET S |-> SumStep(g, f, s)]
  BY <1>5
<1> QED
  BY <1>6 DEF Solves

\* Their value is that of a solution.
LEMMA SumSolves ==
  ASSUME NEW S, IsFiniteSet(S), NEW f \in [S -> Int]
  PROVE  \E g : Solves(g, f, S) /\ SumFunctionOnSet(f, S) = g[S]
<1> DEFINE g == CHOOSE h : Solves(h, f, S)
<1>1. Solves(g, f, S)
  BY SumExists
<1>2. SumFunctionOnSet(f, S) = g[S]
  BY DEF SumFunctionOnSet, FoldFunctionOnSet, MapThenFoldSet, Solves, SumStep,
     Pick
<1> QED
  BY <1>1, <1>2

\* A solution is an integer on every part of S.
LEMMA SumIsInt ==
  ASSUME NEW S, IsFiniteSet(S), NEW f \in [S -> Int],
         NEW g, Solves(g, f, S)
  PROVE  \A T \in SUBSET S : g[T] \in Int
<1> DEFINE P == {n \in Nat : \A T \in SUBSET S : Cardinality(T) = n => g[T] \in Int}
<1>1. 0 \in P
  <2>1. ASSUME NEW T \in SUBSET S, Cardinality(T) = 0 PROVE g[T] \in Int
    <3>1. IsFiniteSet(T)
      BY FS_Subset
    <3>2. T = {}
      BY <2>1, <3>1, FS_EmptySet
    <3> QED
      BY <3>2 DEF SumStep, Solves
  <2> QED
    BY <2>1
<1>2. ASSUME NEW n \in P PROVE n + 1 \in P
  <2>n. n \in Nat /\ n + 1 \in Nat /\ n + 1 # 0
    OBVIOUS
  <2>1. ASSUME NEW T \in SUBSET S, Cardinality(T) = n + 1 PROVE g[T] \in Int
    <3>1. T # {}
      <4>1. Cardinality({}) = 0
        BY FS_EmptySet
      <4> QED
        BY <2>1, <2>n, <4>1
    <3>2. Pick(T) \in T /\ g[T] = f[Pick(T)] + g[T \ {Pick(T)}]
      BY <3>1 DEF Pick, SumStep, Solves
    <3>3. T \ {Pick(T)} \in SUBSET S /\ Cardinality(T \ {Pick(T)}) = n
      BY <2>1, <3>2, TakeOne
    <3>4. g[T \ {Pick(T)}] \in Int /\ f[Pick(T)] \in Int
      BY <3>2, <3>3
    <3> QED
      BY <3>2, <3>4
  <2> QED
    BY <2>1, <2>n
<1>3. P = Nat
  <2> HIDE DEF P
  <2>1. P \in SUBSET Nat
    BY DEF P
  <2> QED
    BY <1>1, <1>2, <2>1, SetInduction
<1> SUFFICES ASSUME NEW T \in SUBSET S PROVE g[T] \in Int
  OBVIOUS
<1>4. Cardinality(T) \in P
  BY <1>3, FS_Subset, FS_CardinalityType
<1> QED
  BY <1>4

\* In a solution any element may be taken first.
LEMMA SumTakes ==
  ASSUME NEW S, IsFiniteSet(S), NEW f \in [S -> Int],
         NEW g, Solves(g, f, S)
  PROVE  \A T \in SUBSET S : /\ g[T] \in Int
                             /\ \A x \in T : g[T] = f[x] + g[T \ {x}]
<1>i. \A T \in SUBSET S : g[T] \in Int
  BY SumIsInt
<1> DEFINE Ok(T) == \A x \in T : g[T] = f[x] + g[T \ {x}]
           P == {n \in Nat : \A T \in SUBSET S : Cardinality(T) = n => Ok(T)}
<1>p. ASSUME NEW T \in SUBSET S, T # {}
      PROVE  Pick(T) \in T /\ g[T] = f[Pick(T)] + g[T \ {Pick(T)}]
  BY <1>p DEF Pick, SumStep, Solves
<1>e. g[{}] = 0
  BY DEF SumStep, Solves
<1>1. 0 \in P
  <2>1. ASSUME NEW T \in SUBSET S, Cardinality(T) = 0 PROVE Ok(T)
    <3>1. IsFiniteSet(T)
      BY FS_Subset
    <3>2. T = {}
      BY <2>1, <3>1, FS_EmptySet
    <3> QED
      BY <1>e, <3>2
  <2> QED
    BY <2>1
<1>2. ASSUME NEW n \in P PROVE n + 1 \in P
  <2>n. n \in Nat /\ n + 1 \in Nat /\ n + 1 # 0
    OBVIOUS
  <2>1. ASSUME NEW T \in SUBSET S, Cardinality(T) = n + 1 PROVE Ok(T)
    <3> DEFINE c == Pick(T)
               R == T \ {c}
    <3>1. T # {}
      <4>1. Cardinality({}) = 0
        BY FS_EmptySet
      <4> QED
        BY <2>1, <2>n, <4>1
    <3>2. c \in T /\ c \in S /\ g[T] = f[c] + g[R]
      BY <1>p, <3>1
    <3>3. R \in SUBSET S /\ Cardinality(R) = n
      BY <2>1, <3>2, TakeOne
    <3>4. Ok(R)
      BY <3>3
    <3>5. ASSUME NEW x \in T, x # c PROVE g[T] = f[x] + g[T \ {x}]
      <4> DEFINE Q == T \ {x}
      <4>1. Q \in SUBSET S /\ Cardinality(Q) = n /\ c \in Q
        BY <2>1, <3>2, <3>5, TakeOne
      <4>2. g[Q] = f[c] + g[Q \ {c}]
        BY <4>1
      <4>3. x \in R /\ g[R] = f[x] + g[R \ {x}]
        BY <3>4, <3>5
      <4>4. R \ {x} = Q \ {c}
        OBVIOUS
      <4>5. f[x] \in Int /\ f[c] \in Int /\ g[R \ {x}] \in Int
        BY <3>2, <3>3, <1>i
      <4>6. g[T] = f[c] + g[R] /\ g[R] = f[x] + g[R \ {x}] /\ g[Q] = f[c] + g[R \ {x}]
        BY <3>2, <4>2, <4>3, <4>4
      <4> HIDE DEF R, c
      <4> QED
        BY <4>5, <4>6
    <3> QED
      BY <3>2, <3>5
  <2> QED
    BY <2>1, <2>n
<1>3. P = Nat
  <2> HIDE DEF P
  <2>1. P \in SUBSET Nat
    BY DEF P
  <2> QED
    BY <1>1, <1>2, <2>1, SetInduction
<1> SUFFICES ASSUME NEW T \in SUBSET S PROVE Ok(T)
  BY <1>i
<1>4. Cardinality(T) \in P
  BY <1>3, FS_Subset, FS_CardinalityType
<1> QED
  BY <1>4

\* Changing f at one place changes the sum by as much.
LEMMA SumUpdate ==
  ASSUME NEW S, IsFiniteSet(S), NEW f \in [S -> Int], NEW h \in [S -> Int],
         NEW x \in S, \A y \in S \ {x} : h[y] = f[y]
  PROVE  /\ SumFunctionOnSet(f, S) \in Int
         /\ SumFunctionOnSet(h, S) = SumFunctionOnSet(f, S) - f[x] + h[x]
<1>1. PICK g : Solves(g, f, S) /\ SumFunctionOnSet(f, S) = g[S]
  BY SumSolves
<1>2. PICK k : Solves(k, h, S) /\ SumFunctionOnSet(h, S) = k[S]
  BY SumSolves
<1>3. \A T \in SUBSET S : g[T] \in Int /\ \A y \in T : g[T] = f[y] + g[T \ {y}]
  <2>1. Solves(g, f, S)
    BY <1>1
  <2> QED
    BY <2>1, SumTakes
<1>4. \A T \in SUBSET S : k[T] \in Int /\ \A y \in T : k[T] = h[y] + k[T \ {y}]
  BY <1>2, SumTakes
<1> DEFINE P == {n \in Nat : \A T \in SUBSET (S \ {x}) : Cardinality(T) = n => g[T] = k[T]}
<1>5. 0 \in P
  <2>1. ASSUME NEW T \in SUBSET (S \ {x}), Cardinality(T) = 0 PROVE g[T] = k[T]
    <3>1. IsFiniteSet(T)
      BY FS_Subset
    <3>2. T = {}
      BY <2>1, <3>1, FS_EmptySet
    <3>3. g[{}] = 0 /\ k[{}] = 0
      BY <1>1, <1>2 DEF SumStep, Solves
    <3> QED
      BY <3>2, <3>3
  <2> QED
    BY <2>1
<1>6. ASSUME NEW n \in P PROVE n + 1 \in P
  <2>n. n \in Nat /\ n + 1 \in Nat /\ n + 1 # 0
    OBVIOUS
  <2>1. ASSUME NEW T \in SUBSET (S \ {x}), Cardinality(T) = n + 1 PROVE g[T] = k[T]
    <3>1. PICK y \in T : TRUE
      <4>1. Cardinality({}) = 0
        BY FS_EmptySet
      <4> QED
        BY <2>1, <2>n, <4>1
    <3>2. T \ {y} \in SUBSET (S \ {x}) /\ Cardinality(T \ {y}) = n
      BY <2>1, <3>1, TakeOne
    <3>3. g[T \ {y}] = k[T \ {y}]
      BY <3>2
    <3>4. h[y] = f[y] /\ T \in SUBSET S
      BY <3>1
    <3> QED
      BY <1>3, <1>4, <3>1, <3>3, <3>4
  <2> QED
    BY <2>1, <2>n
<1>7. P = Nat
  <2> HIDE DEF P
  <2>1. P \in SUBSET Nat
    BY DEF P
  <2> QED
    BY <1>5, <1>6, <2>1, SetInduction
<1>8. g[S \ {x}] = k[S \ {x}]
  <2>1. Cardinality(S \ {x}) \in Nat
    BY TakeOne
  <2> QED
    BY <1>7, <2>1
<1>9. /\ g[S] = f[x] + g[S \ {x}] /\ k[S] = h[x] + k[S \ {x}]
      /\ g[S] \in Int /\ g[S \ {x}] \in Int /\ f[x] \in Int /\ h[x] \in Int
  <2>1. S \in SUBSET S /\ S \ {x} \in SUBSET S
    OBVIOUS
  <2> QED
    BY <1>3, <1>4, <2>1
<1> QED
  BY <1>1, <1>2, <1>8, <1>9

\* A sum of zeros is zero.
LEMMA ZeroSum ==
  ASSUME NEW S, IsFiniteSet(S), NEW f \in [S -> Int], \A x \in S : f[x] = 0
  PROVE  SumFunctionOnSet(f, S) = 0
<1>0. PICK g : Solves(g, f, S) /\ SumFunctionOnSet(f, S) = g[S]
  BY SumSolves
<1> DEFINE P == {n \in Nat : \A T \in SUBSET S : Cardinality(T) = n => g[T] = 0}
<1>1. 0 \in P
  <2>1. ASSUME NEW T \in SUBSET S, Cardinality(T) = 0 PROVE g[T] = 0
    <3>1. IsFiniteSet(T)
      BY FS_Subset
    <3>2. T = {}
      BY <2>1, <3>1, FS_EmptySet
    <3> QED
      BY <1>0, <3>2 DEF SumStep, Solves
  <2> QED
    BY <2>1
<1>2. ASSUME NEW n \in P PROVE n + 1 \in P
  <2>n. n \in Nat /\ n + 1 \in Nat /\ n + 1 # 0
    OBVIOUS
  <2>1. ASSUME NEW T \in SUBSET S, Cardinality(T) = n + 1 PROVE g[T] = 0
    <3>1. T # {}
      <4>1. Cardinality({}) = 0
        BY FS_EmptySet
      <4> QED
        BY <2>1, <2>n, <4>1
    <3>2. Pick(T) \in T /\ g[T] = f[Pick(T)] + g[T \ {Pick(T)}]
      BY <1>0, <3>1 DEF Pick, SumStep, Solves
    <3>3. T \ {Pick(T)} \in SUBSET S /\ Cardinality(T \ {Pick(T)}) = n
      BY <2>1, <3>2, TakeOne
    <3>4. g[T \ {Pick(T)}] = 0 /\ f[Pick(T)] = 0
      BY <3>2, <3>3
    <3> QED
      BY <3>2, <3>4
  <2> QED
    BY <2>1, <2>n
<1>3. P = Nat
  <2> HIDE DEF P
  <2>1. P \in SUBSET Nat
    BY DEF P
  <2> QED
    BY <1>1, <1>2, <2>1, SetInduction
<1>4. Cardinality(S) \in P /\ S \in SUBSET S
  BY <1>3, FS_CardinalityType
<1>5. g[S] = 0
  BY <1>4
<1> QED
  BY <1>0, <1>5

--------------------------------------------------------------------------------
(* Leases and reservations as sets and sums.                               *)

\* The promised starts stay when no setter's loop moves, and follow one that does.
LEMMA PromisedSame ==
  ASSUME todo' = todo
  PROVE  Promised' = Promised
BY DEF Promised

\* What the setters still owe changes with the one setter that moves.
LEMMA PromisedMoves ==
  ASSUME TypeOK, TypeOK', NEW s \in Setters,
         \A r \in Setters \ {s} : todo'[r] = todo[r]
  PROVE  /\ Promised \in Int
         /\ Promised' = Promised - todo[s] + todo'[s]
<1>1. IsFiniteSet(Setters)
  BY ConstantsAssumption
<1>2. todo \in [Setters -> Int] /\ todo' \in [Setters -> Int]
  <2>1. todo \in [Setters -> Nat] /\ todo' \in [Setters -> Nat]
    BY DEF TypeOK
  <2> QED
    BY <2>1
<1>3. /\ SumFunctionOnSet(todo, Setters) \in Int
      /\ SumFunctionOnSet(todo', Setters)
           = SumFunctionOnSet(todo, Setters) - todo[s] + todo'[s]
  BY <1>1, <1>2, SumUpdate
<1>4. Promised' = SumFunctionOnSet(todo', Setters)
  BY DEF Promised
<1> QED
  BY <1>3, <1>4 DEF Promised

USE DEF poolVars, instVars, stopVars, maintVars, endVars, Procs, Starters

\* A caller that begins or ends a start is counted.
LEMMA StartBegins ==
  ASSUME NEW c \in Callers, pc[c] # "starting",
         StartingCallers' = StartingCallers \cup {c}
  PROVE  /\ Cardinality(StartingCallers) \in Nat
         /\ Cardinality(StartingCallers') = Cardinality(StartingCallers) + 1
<1>1. IsFiniteSet(Callers) /\ StartingCallers \in SUBSET Callers
  BY ConstantsAssumption DEF StartingCallers
<1>2. IsFiniteSet(StartingCallers)
  BY <1>1, FS_Subset
<1>3. c \notin StartingCallers
  BY DEF StartingCallers
<1> QED
  BY <1>2, <1>3, FS_AddElement, FS_CardinalityType

\* A caller whose start ends is one caller less that starts.
LEMMA StartEnds ==
  ASSUME NEW c \in Callers, pc[c] = "starting",
         StartingCallers' = StartingCallers \ {c}
  PROVE  /\ Cardinality(StartingCallers) \in Nat
         /\ Cardinality(StartingCallers') = Cardinality(StartingCallers) - 1
<1>1. IsFiniteSet(Callers) /\ StartingCallers \in SUBSET Callers
  BY ConstantsAssumption DEF StartingCallers
<1>2. IsFiniteSet(StartingCallers)
  BY <1>1, FS_Subset
<1>3. c \in StartingCallers
  BY DEF StartingCallers
<1> QED
  BY <1>2, <1>3, FS_RemoveElement, FS_CardinalityType

\* The callers that hold an instance can be counted.
LEMMA HoldersFinite ==
  ASSUME NEW i
  PROVE  IsFiniteSet(Holders(i)) /\ Cardinality(Holders(i)) \in Nat
<1>1. IsFiniteSet(Callers) /\ Holders(i) \in SUBSET Callers
  BY ConstantsAssumption DEF Holders
<1>2. IsFiniteSet(Holders(i))
  BY <1>1, FS_Subset
<1> QED
  BY <1>2, FS_CardinalityType

\* An instance whose counter is 0 has no holder, now and after a step.
LEMMA IdleIsUnheld ==
  ASSUME BusyAccounting, NEW i \in Instances, busy[i] = 0
  PROVE  Holders(i) = {}
<1>1. Holders(i) # {} => Cardinality(Holders(i)) = 0
  BY DEF BusyAccounting
<1>2. Cardinality(Holders(i)) = 0 => Holders(i) = {}
  BY HoldersFinite, FS_EmptySet
<1> QED
  BY <1>1, <1>2

\* An instance that counts no call has no holder, after a step.
LEMMA IdleIsUnheldNext ==
  ASSUME BusyAccounting', NEW i \in Instances, busy'[i] = 0
  PROVE  Holders(i)' = {}
<1>1. Holders(i)' # {} => Cardinality(Holders(i)') = 0
  BY DEF BusyAccounting
<1>2. IsFiniteSet(Holders(i)')
  <2>1. IsFiniteSet(Callers) /\ Holders(i)' \in SUBSET Callers
    BY ConstantsAssumption DEF Holders
  <2> QED
    BY <2>1, FS_Subset
<1>3. Cardinality(Holders(i)') = 0 => Holders(i)' = {}
  BY <1>2, FS_EmptySet
<1> QED
  BY <1>1, <1>3

\* One more lease of a running instance that has room.
LEMMA LeaseCounts ==
  ASSUME TypeOK, TypeOK', BusyAccounting, NEW c \in Callers, NEW i \in Instances,
         i \in live, live' = live, busy[i] < MaxConcurrent,
         busy' = [busy EXCEPT ![i] = @ + 1],
         pc[c] # "holding", pc'[c] = "holding", inst'[c] = i,
         \A d \in Callers \ {c} :
           (pc'[d] = "holding" <=> pc[d] = "holding") /\ inst'[d] = inst[d]
  PROVE  /\ Holders(i)' = Holders(i) \cup {c}
         /\ \A j \in Instances \ {i} : Holders(j)' = Holders(j)
         /\ BusyAccounting'
<1>1. Holders(i)' = Holders(i) \cup {c} /\ c \notin Holders(i)
  BY DEF Holders
<1>2. \A j \in Instances \ {i} : Holders(j)' = Holders(j)
  BY DEF Holders
<1>3. busy[i] = Cardinality(Holders(i)) /\ busy[i] \in Nat
  BY DEF BusyAccounting, TypeOK
<1>4. Cardinality(Holders(i)') = busy[i] + 1
  <2>1. Cardinality(Holders(i) \cup {c}) = Cardinality(Holders(i)) + 1
    BY <1>1, HoldersFinite, FS_AddElement
  <2> QED
    BY <1>1, <1>3, <2>1
<1>5. busy'[i] = busy[i] + 1 /\ busy[i] + 1 <= MaxConcurrent
  BY <1>3, ConstantsAssumption DEF TypeOK
<1>6. \A j \in Instances \ {i} : busy'[j] = busy[j]
  BY DEF TypeOK
<1>7. BusyAccounting'
  BY <1>2, <1>4, <1>5, <1>6 DEF BusyAccounting
<1> QED
  BY <1>1, <1>2, <1>7

\* The lease that ends.
LEMMA ReleaseCounts ==
  ASSUME TypeOK, TypeOK', BusyAccounting, NEW c \in Callers, NEW i \in Instances,
         live' = live, Unlease(i), pc[c] = "holding", inst[c] = i,
         pc'[c] # "holding",
         \A d \in Callers \ {c} :
           (pc'[d] = "holding" <=> pc[d] = "holding") /\ inst'[d] = inst[d]
  PROVE  /\ Holders(i)' = Holders(i) \ {c}
         /\ \A j \in Instances \ {i} : Holders(j)' = Holders(j)
         /\ BusyAccounting'
<1>1. Holders(i)' = Holders(i) \ {c} /\ c \in Holders(i)
  BY DEF Holders
<1>2. \A j \in Instances \ {i} : Holders(j)' = Holders(j)
  BY DEF Holders
<1>3. /\ busy[i] = Cardinality(Holders(i)) /\ busy[i] \in Nat
      /\ busy[i] <= MaxConcurrent
  BY <1>1 DEF BusyAccounting, TypeOK
<1>4. Cardinality(Holders(i)') = busy[i] - 1 /\ busy[i] # 0
  BY <1>1, <1>3, HoldersFinite, FS_RemoveElement, FS_EmptySet
<1>5. busy'[i] = busy[i] - 1 /\ busy[i] - 1 <= MaxConcurrent
  BY <1>3, <1>4, ConstantsAssumption DEF TypeOK, Unlease
<1>6. \A j \in Instances \ {i} : busy'[j] = busy[j]
  BY DEF TypeOK, Unlease
<1>7. BusyAccounting'
  BY <1>2, <1>4, <1>5, <1>6 DEF BusyAccounting
<1> QED
  BY <1>1, <1>2, <1>7

\* A goroutine whose step only signals leaves the others' work alone.
LEMMA SignalKeeps ==
  ASSUME TypeOK, NEW p \in Procs, NEW next, SignalAnd(p, next)
  PROVE  /\ pc'[p] = next
         /\ \A q \in Procs \ {p} :
              /\ pc[q] # "waiting" => pc'[q] = pc[q]
              /\ pc[q] = "waiting" => pc'[q] = "woken"
BY DEF TypeOK, SignalAnd, Woken

\* The two other parts of the reservation counter are numbers.
LEMMA PromisedIsInt ==
  ASSUME TypeOK
  PROVE  Promised \in Int
<1>1. IsFiniteSet(Setters)
  BY ConstantsAssumption
<1>2. todo \in [Setters -> Int]
  <2>1. todo \in [Setters -> Nat]
    BY DEF TypeOK
  <2> QED
    BY <2>1
<1>3. PICK g : /\ Solves(g, todo, Setters)
               /\ SumFunctionOnSet(todo, Setters) = g[Setters]
  BY <1>1, <1>2, SumSolves
<1> QED
  BY <1>1, <1>2, <1>3, SumIsInt DEF Promised

\* The callers that start an instance are finitely many.
LEMMA StartersCounted == Cardinality(StartingCallers) \in Nat
<1>1. IsFiniteSet(Callers) /\ StartingCallers \in SUBSET Callers
  BY ConstantsAssumption DEF StartingCallers
<1>2. IsFiniteSet(StartingCallers)
  BY <1>1, FS_Subset
<1> QED
  BY <1>2, FS_CardinalityType

\* AcquireHit preserves it.
LEMMA AcquireHitLease ==
  ASSUME BaseInv, BaseInv', LeaseInv, NEW c \in Callers, NEW k \in Keys, AcquireHit(c, k)
  PROVE  LeaseInv'
<1> USE ConstantsAssumption, ProcsAreDistinct DEF BaseInv, TypeOK, LeaseInv,
           Leasing, Leaving, Accounting, Custody
<1>p. PICK i \in Leasable(k) : Lease(i) /\ inst' = [inst EXCEPT ![c] = i]
  BY DEF AcquireHit
<1>q. i \in instances /\ i \in Instances /\ Routable(i) /\ HasRoom(i) /\ i \in live
  <2>1. i \in instances /\ i \in Instances /\ Routable(i)
    BY LeasableInPool DEF Ownership
  <2>2. HasRoom(i)
    BY DEF Leasable, LeastLoaded, StickyBusy
  <2> QED
    BY <2>1, <2>2 DEF Closure, RoutableIsLive
<1>r. pc[c] \in {"idle", "woken"}
  BY DEF AcquireHit, AtLoopHead
<1>s. /\ Holders(i)' = Holders(i) \cup {c}
      /\ \A j \in Instances \ {i} : Holders(j)' = Holders(j)
      /\ BusyAccounting'
  <2>1. busy[i] < MaxConcurrent /\ busy' = [busy EXCEPT ![i] = @ + 1]
    BY <1>p, <1>q DEF HasRoom, Lease
  <2>2. /\ pc[c] # "holding" /\ pc'[c] = "holding" /\ inst'[c] = i /\ live' = live
        /\ \A d \in Callers \ {c} :
          (pc'[d] = "holding" <=> pc[d] = "holding") /\ inst'[d] = inst[d]
    BY <1>p, <1>r DEF AcquireHit
  <2>3. TypeOK /\ TypeOK' /\ BusyAccounting
    OBVIOUS
  <2> HIDE DEF BaseInv, TypeOK, LeaseInv, Leasing, Leaving, Accounting, Custody
  <2> QED
    BY <1>q, <2>1, <2>2, <2>3, LeaseCounts
<1>t. ~ToldIdle(i)'
  <2>1. ~Left(i) /\ ~Doomed(i)
    BY <1>q DEF LeftStaysOut, Closure, NoneReopened
  <2> QED
    BY <2>1 DEF Left, Doomed, ToldIdle, AcquireHit
<1>k. \A q \in Starters : pc[q] \in Carrying => pc'[q] = pc[q] /\ inst'[q] = inst[q]
  BY <1>p, <1>r DEF AcquireHit, Carrying
<1>1. IdleOwesNothing'
  BY DEF AcquireHit, Lease, AtLoopHead, IdleOwesNothing
<1>2. StartingAccounting'
  <2>1. StartingCallers' = StartingCallers
    BY DEF AcquireHit, Lease, AtLoopHead, StartingCallers
  <2>2. Promised' = Promised
    BY PromisedSame DEF AcquireHit, Lease, AtLoopHead
  <2> QED
    BY <2>1, <2>2 DEF AcquireHit, StartingAccounting
<1>3. BusyAccounting'
  BY <1>s
<1>4. HeldExists'
  BY DEF AcquireHit, Lease, AtLoopHead, HeldExists
<1>5. FreeIsUnheld'
  <2> SUFFICES ASSUME NEW j \in Instances, istate'[j] = "ready" \/ ToldIdle(j)'
               PROVE  Holders(j)' = {}
    BY DEF FreeIsUnheld
  <2>1. j # i /\ istate'[j] = istate[j]
    BY <1>p, <1>q, <1>t DEF Lease
  <2>2. ToldIdle(j)' => ToldIdle(j)
    BY <1>r DEF AcquireHit, ToldIdle
  <2> QED
    BY <1>s, <2>1, <2>2 DEF FreeIsUnheld
<1>6. CarriedIsReady'
  BY DEF AcquireHit, Lease, AtLoopHead, CarriedIsReady, Ownership, Unshared,
     Carrying, Private
<1>7. OutsideIsClosed'
  <2>1. \A j \in live' \ instances' : Routable(j)' => Routable(j)
    BY <1>p, <1>q DEF AcquireHit, Lease, Routable
  <2> QED
    BY <1>k, <2>1 DEF AcquireHit, OutsideIsClosed
<1>8. LeftStaysOut'
  BY DEF AcquireHit, Lease, AtLoopHead, LeftStaysOut, Left
<1>9. DeferredDrains'
  BY DEF AcquireHit, Lease, AtLoopHead, DeferredDrains
<1>10. OpenDrainsListed'
  BY DEF AcquireHit, Lease, AtLoopHead, OpenDrainsListed, DeferredDrains
<1>11. RestingStopper'
  BY DEF AcquireHit, Lease, AtLoopHead, RestingStopper
<1>12. RemovedIsDead'
  BY DEF AcquireHit, Lease, AtLoopHead, RemovedIsDead
<1>13. LiveIsOwned'
  BY DEF AcquireHit, Lease, AtLoopHead, LiveIsOwned, InHand
<1>14. NoLostDrain'
  BY DEF AcquireHit, Lease, AtLoopHead, NoLostDrain, OpenDrainsListed
<1> QED
  BY <1>1, <1>2, <1>3, <1>4, <1>5, <1>6, <1>7, <1>8,
     <1>9, <1>10, <1>11, <1>12, <1>13, <1>14

\* AcquireStickyBusy preserves it.
LEMMA AcquireStickyBusyLease ==
  ASSUME BaseInv, BaseInv', LeaseInv, NEW c \in Callers, NEW k \in Keys, AcquireStickyBusy(c, k)
  PROVE  LeaseInv'
<1> USE ConstantsAssumption, ProcsAreDistinct DEF BaseInv, TypeOK, LeaseInv,
           Leasing, Leaving, Accounting, Custody
<1>h. \A j \in Instances : Holders(j)' = Holders(j)
  BY DEF AcquireStickyBusy, AtLoopHead, Holders
<1>1. IdleOwesNothing'
  BY DEF AcquireStickyBusy, AtLoopHead, IdleOwesNothing
<1>2. StartingAccounting'
  <2>1. StartingCallers' = StartingCallers
    BY DEF AcquireStickyBusy, AtLoopHead, StartingCallers
  <2>2. Promised' = Promised
    BY PromisedSame DEF AcquireStickyBusy, AtLoopHead
  <2> QED
    BY <2>1, <2>2 DEF AcquireStickyBusy, StartingAccounting
<1>3. BusyAccounting'
  BY <1>h DEF AcquireStickyBusy, AtLoopHead, BusyAccounting
<1>4. HeldExists'
  BY DEF AcquireStickyBusy, AtLoopHead, HeldExists
<1>5. FreeIsUnheld'
  BY <1>h DEF AcquireStickyBusy, AtLoopHead, FreeIsUnheld, ToldIdle
<1>6. CarriedIsReady'
  BY DEF AcquireStickyBusy, AtLoopHead, CarriedIsReady, Ownership, Unshared,
     Carrying, Private
<1>7. OutsideIsClosed'
  BY DEF AcquireStickyBusy, AtLoopHead, OutsideIsClosed, Carrying, Routable
<1>8. LeftStaysOut'
  BY DEF AcquireStickyBusy, AtLoopHead, LeftStaysOut, Left
<1>9. DeferredDrains'
  BY DEF AcquireStickyBusy, AtLoopHead, DeferredDrains
<1>10. OpenDrainsListed'
  BY DEF AcquireStickyBusy, AtLoopHead, OpenDrainsListed, DeferredDrains
<1>11. RestingStopper'
  BY DEF AcquireStickyBusy, AtLoopHead, RestingStopper
<1>12. RemovedIsDead'
  BY DEF AcquireStickyBusy, AtLoopHead, RemovedIsDead
<1>13. LiveIsOwned'
  BY DEF AcquireStickyBusy, AtLoopHead, LiveIsOwned, InHand
<1>14. NoLostDrain'
  BY DEF AcquireStickyBusy, AtLoopHead, NoLostDrain, OpenDrainsListed
<1> QED
  BY <1>1, <1>2, <1>3, <1>4, <1>5, <1>6, <1>7, <1>8,
     <1>9, <1>10, <1>11, <1>12, <1>13, <1>14

\* AcquireWait preserves it.
LEMMA AcquireWaitLease ==
  ASSUME BaseInv, BaseInv', LeaseInv, NEW c \in Callers, NEW k \in Keys, AcquireWait(c, k)
  PROVE  LeaseInv'
<1> USE ConstantsAssumption, ProcsAreDistinct DEF BaseInv, TypeOK, LeaseInv,
           Leasing, Leaving, Accounting, Custody
<1>h. \A j \in Instances : Holders(j)' = Holders(j)
  BY DEF AcquireWait, AtLoopHead, Holders
<1>1. IdleOwesNothing'
  BY DEF AcquireWait, AtLoopHead, IdleOwesNothing
<1>2. StartingAccounting'
  <2>1. StartingCallers' = StartingCallers
    BY DEF AcquireWait, AtLoopHead, StartingCallers
  <2>2. Promised' = Promised
    BY PromisedSame DEF AcquireWait, AtLoopHead
  <2> QED
    BY <2>1, <2>2 DEF AcquireWait, StartingAccounting
<1>3. BusyAccounting'
  BY <1>h DEF AcquireWait, AtLoopHead, BusyAccounting
<1>4. HeldExists'
  BY DEF AcquireWait, AtLoopHead, HeldExists
<1>5. FreeIsUnheld'
  BY <1>h DEF AcquireWait, AtLoopHead, FreeIsUnheld, ToldIdle
<1>6. CarriedIsReady'
  BY DEF AcquireWait, AtLoopHead, CarriedIsReady, Ownership, Unshared,
     Carrying, Private
<1>7. OutsideIsClosed'
  BY DEF AcquireWait, AtLoopHead, OutsideIsClosed, Carrying, Routable
<1>8. LeftStaysOut'
  BY DEF AcquireWait, AtLoopHead, LeftStaysOut, Left
<1>9. DeferredDrains'
  BY DEF AcquireWait, AtLoopHead, DeferredDrains
<1>10. OpenDrainsListed'
  BY DEF AcquireWait, AtLoopHead, OpenDrainsListed, DeferredDrains
<1>11. RestingStopper'
  BY DEF AcquireWait, AtLoopHead, RestingStopper
<1>12. RemovedIsDead'
  BY DEF AcquireWait, AtLoopHead, RemovedIsDead
<1>13. LiveIsOwned'
  BY DEF AcquireWait, AtLoopHead, LiveIsOwned, InHand
<1>14. NoLostDrain'
  BY DEF AcquireWait, AtLoopHead, NoLostDrain, OpenDrainsListed
<1> QED
  BY <1>1, <1>2, <1>3, <1>4, <1>5, <1>6, <1>7, <1>8,
     <1>9, <1>10, <1>11, <1>12, <1>13, <1>14

\* AcquireStart preserves it.
LEMMA AcquireStartLease ==
  ASSUME BaseInv, BaseInv', LeaseInv, NEW c \in Callers, NEW k \in Keys, AcquireStart(c, k)
  PROVE  LeaseInv'
<1> USE ConstantsAssumption, ProcsAreDistinct DEF BaseInv, TypeOK, LeaseInv,
           Leasing, Leaving, Accounting, Custody
<1>h. \A j \in Instances : Holders(j)' = Holders(j)
  BY DEF AcquireStart, AtLoopHead, Holders
<1>1. IdleOwesNothing'
  BY DEF AcquireStart, AtLoopHead, IdleOwesNothing
<1>2. StartingAccounting'
  <2>1. StartingCallers' = StartingCallers \cup {c} /\ pc[c] # "starting"
    BY DEF AcquireStart, AtLoopHead, StartingCallers
  <2>2. Promised' = Promised
    BY PromisedSame DEF AcquireStart
  <2>3. Promised \in Int
    BY PromisedIsInt
  <2>4. starting' = starting + 1 /\ leaked' = leaked
    BY DEF AcquireStart
  <2>5. StartingAccounting /\ starting \in Int /\ leaked \in Nat
    OBVIOUS
  <2> HIDE DEF BaseInv, TypeOK, LeaseInv, Leasing, Leaving, Accounting, Custody
  <2>6. /\ Cardinality(StartingCallers) \in Nat
        /\ Cardinality(StartingCallers') = Cardinality(StartingCallers) + 1
    BY <2>1, StartBegins
  <2> QED
    BY <2>2, <2>3, <2>4, <2>5, <2>6 DEF StartingAccounting
<1>3. BusyAccounting'
  BY <1>h DEF AcquireStart, AtLoopHead, BusyAccounting
<1>4. HeldExists'
  BY DEF AcquireStart, AtLoopHead, HeldExists
<1>5. FreeIsUnheld'
  BY <1>h DEF AcquireStart, AtLoopHead, FreeIsUnheld, ToldIdle
<1>6. CarriedIsReady'
  BY DEF AcquireStart, AtLoopHead, CarriedIsReady, Ownership, Unshared,
     Carrying, Private
<1>7. OutsideIsClosed'
  BY DEF AcquireStart, AtLoopHead, OutsideIsClosed, Carrying, Routable
<1>8. LeftStaysOut'
  BY DEF AcquireStart, AtLoopHead, LeftStaysOut, Left
<1>9. DeferredDrains'
  BY DEF AcquireStart, AtLoopHead, DeferredDrains
<1>10. OpenDrainsListed'
  BY DEF AcquireStart, AtLoopHead, OpenDrainsListed, DeferredDrains
<1>11. RestingStopper'
  BY DEF AcquireStart, AtLoopHead, RestingStopper
<1>12. RemovedIsDead'
  BY DEF AcquireStart, AtLoopHead, RemovedIsDead
<1>13. LiveIsOwned'
  BY DEF AcquireStart, AtLoopHead, LiveIsOwned, InHand
<1>14. NoLostDrain'
  BY DEF AcquireStart, AtLoopHead, NoLostDrain, OpenDrainsListed
<1> QED
  BY <1>1, <1>2, <1>3, <1>4, <1>5, <1>6, <1>7, <1>8,
     <1>9, <1>10, <1>11, <1>12, <1>13, <1>14

\* AcquireReady preserves it.
LEMMA AcquireReadyLease ==
  ASSUME BaseInv, BaseInv', LeaseInv, NEW c \in Callers, NEW k \in Keys, AcquireReady(c, k)
  PROVE  LeaseInv'
<1> USE ConstantsAssumption, ProcsAreDistinct DEF BaseInv, TypeOK, LeaseInv,
           Leasing, Leaving, Accounting, Custody
<1>1. CASE AcquireHit(c, k)
  BY <1>1, AcquireHitLease
<1>2. CASE UNCHANGED <<istate, busy, inst, pc, key>>
  <2>h. \A j \in Instances : Holders(j)' = Holders(j)
    BY <1>2 DEF AcquireReady, Lease, Holders
  <2>1. IdleOwesNothing'
    BY <1>2 DEF AcquireReady, Lease, IdleOwesNothing
  <2>2. StartingAccounting'
    <3>1. StartingCallers' = StartingCallers
      BY <1>2 DEF AcquireReady, Lease, StartingCallers
    <3>2. Promised' = Promised
      BY <1>2, PromisedSame DEF AcquireReady, Lease
    <3> QED
      BY <3>1, <3>2 DEF AcquireReady, StartingAccounting
  <2>3. BusyAccounting'
    BY <1>2, <2>h DEF AcquireReady, Lease, BusyAccounting
  <2>4. HeldExists'
    BY <1>2 DEF AcquireReady, Lease, HeldExists
  <2>5. FreeIsUnheld'
    BY <1>2, <2>h DEF AcquireReady, Lease, FreeIsUnheld, ToldIdle
  <2>6. CarriedIsReady'
    BY <1>2 DEF AcquireReady, Lease, CarriedIsReady, Ownership, Unshared, Carrying,
       Private
  <2>7. OutsideIsClosed'
    BY <1>2 DEF AcquireReady, Lease, OutsideIsClosed, Carrying, Routable
  <2>8. LeftStaysOut'
    BY <1>2 DEF AcquireReady, Lease, LeftStaysOut, Left
  <2>9. DeferredDrains'
    BY <1>2 DEF AcquireReady, Lease, DeferredDrains
  <2>10. OpenDrainsListed'
    BY <1>2 DEF AcquireReady, Lease, OpenDrainsListed, DeferredDrains
  <2>11. RestingStopper'
    BY <1>2 DEF AcquireReady, Lease, RestingStopper
  <2>12. RemovedIsDead'
    BY <1>2 DEF AcquireReady, Lease, RemovedIsDead
  <2>13. LiveIsOwned'
    BY <1>2 DEF AcquireReady, Lease, LiveIsOwned, InHand
  <2>14. NoLostDrain'
    BY <1>2 DEF AcquireReady, Lease, NoLostDrain, OpenDrainsListed
  <2> QED
    BY <2>1, <2>2, <2>3, <2>4, <2>5, <2>6, <2>7, <2>8,
       <2>9, <2>10, <2>11, <2>12, <2>13, <2>14
<1> QED
  BY <1>1, <1>2 DEF AcquireReady, AcquireHit, AtLoopHead

\* WaitCancelled preserves it.
LEMMA WaitCancelledLease ==
  ASSUME BaseInv, BaseInv', LeaseInv, NEW c \in Callers, WaitCancelled(c)
  PROVE  LeaseInv'
<1> USE ConstantsAssumption, ProcsAreDistinct DEF BaseInv, TypeOK, LeaseInv,
           Leasing, Leaving, Accounting, Custody
<1>h. \A j \in Instances : Holders(j)' = Holders(j)
  BY DEF WaitCancelled, SignalAnd, Woken, Holders
<1>k. \A q \in Procs : pc[q] \in Carrying \cup {"closing", "drainCheck"} /\ q # c =>
       pc'[q] = pc[q] /\ inst'[q] = inst[q]
  BY SignalKeeps DEF WaitCancelled, Carrying
<1>1. IdleOwesNothing'
  BY DEF WaitCancelled, SignalAnd, Woken, IdleOwesNothing
<1>2. StartingAccounting'
  <2>1. StartingCallers' = StartingCallers
    BY DEF WaitCancelled, SignalAnd, Woken, StartingCallers
  <2>2. Promised' = Promised
    BY PromisedSame DEF WaitCancelled, SignalAnd, Woken
  <2> QED
    BY <2>1, <2>2 DEF WaitCancelled, StartingAccounting
<1>3. BusyAccounting'
  BY <1>h DEF WaitCancelled, SignalAnd, Woken, BusyAccounting
<1>4. HeldExists'
  BY DEF WaitCancelled, SignalAnd, Woken, HeldExists
<1>5. FreeIsUnheld'
  BY <1>h DEF WaitCancelled, SignalAnd, Woken, FreeIsUnheld, ToldIdle
<1>6. CarriedIsReady'
  BY DEF WaitCancelled, SignalAnd, Woken, CarriedIsReady, Ownership, Unshared,
     Carrying, Private
<1>7. OutsideIsClosed'
  BY <1>k DEF WaitCancelled, OutsideIsClosed, Carrying, Routable
<1>8. LeftStaysOut'
  BY DEF WaitCancelled, SignalAnd, Woken, LeftStaysOut, Left
<1>9. DeferredDrains'
  BY DEF WaitCancelled, SignalAnd, Woken, DeferredDrains
<1>10. OpenDrainsListed'
  BY DEF WaitCancelled, SignalAnd, Woken, OpenDrainsListed, DeferredDrains
<1>11. RestingStopper'
  BY DEF WaitCancelled, SignalAnd, Woken, RestingStopper
<1>12. RemovedIsDead'
  BY DEF WaitCancelled, SignalAnd, Woken, RemovedIsDead
<1>13. LiveIsOwned'
  BY DEF WaitCancelled, SignalAnd, Woken, LiveIsOwned, InHand
<1>14. NoLostDrain'
  BY <1>k DEF WaitCancelled, NoLostDrain, OpenDrainsListed
<1> QED
  BY <1>1, <1>2, <1>3, <1>4, <1>5, <1>6, <1>7, <1>8,
     <1>9, <1>10, <1>11, <1>12, <1>13, <1>14

\* StartSucceeds preserves it.
LEMMA StartSucceedsLease ==
  ASSUME BaseInv, BaseInv', LeaseInv, NEW c \in Callers, StartSucceeds(c)
  PROVE  LeaseInv'
<1> USE ConstantsAssumption, ProcsAreDistinct DEF BaseInv, TypeOK, LeaseInv,
           Leasing, Leaving, Accounting, Custody
<1>h. \A j \in Instances : Holders(j)' = Holders(j)
  BY DEF StartSucceeds, ReleaseReservation, Launch, Fresh, Holders
<1>p. PICK i \in Instances : Launch(c, i)
  BY DEF StartSucceeds
<1>q. Holders(i)' = {} /\ Cardinality(Holders(i)') = 0
  <2>1. Holders(i)' = {}
    BY <1>p DEF StartSucceeds, Launch, Fresh, Holders
  <2> QED
    BY <2>1, FS_EmptySet
<1>1. IdleOwesNothing'
  BY DEF StartSucceeds, ReleaseReservation, Launch, Fresh, IdleOwesNothing
<1>2. StartingAccounting'
  <2>1. StartingCallers' = StartingCallers \ {c} /\ pc[c] = "starting"
    BY DEF StartSucceeds, StartingCallers
  <2>2. Promised' = Promised
    BY PromisedSame DEF StartSucceeds
  <2>3. Promised \in Int
    BY PromisedIsInt
  <2>4. starting' = starting - 1 /\ leaked' = leaked
    BY DEF StartSucceeds, ReleaseReservation
  <2>5. StartingAccounting /\ starting \in Int /\ leaked \in Nat
    OBVIOUS
  <2> HIDE DEF BaseInv, TypeOK, LeaseInv, Leasing, Leaving, Accounting, Custody
  <2>6. /\ Cardinality(StartingCallers) \in Nat
        /\ Cardinality(StartingCallers') = Cardinality(StartingCallers) - 1
    BY <2>1, StartEnds
  <2> QED
    BY <2>2, <2>3, <2>4, <2>5, <2>6 DEF StartingAccounting
<1>3. BusyAccounting'
  <2>1. \A j \in Instances \ {i} : busy'[j] = busy[j] /\ (j \in live' <=> j \in live)
    BY <1>p DEF Launch
  <2>2. busy'[i] = 0 /\ 0 <= MaxConcurrent
    BY <1>p DEF Launch
  <2> SUFFICES ASSUME NEW j \in Instances, j \in live' \/ Holders(j)' # {}
               PROVE  busy'[j] = Cardinality(Holders(j)') /\ busy'[j] <= MaxConcurrent
    BY DEF BusyAccounting
  <2>3. CASE j = i
    BY <1>q, <2>2, <2>3
  <2>4. CASE j # i
    BY <1>h, <2>1, <2>4 DEF BusyAccounting
  <2> QED
    BY <2>3, <2>4
<1>4. HeldExists'
  BY DEF StartSucceeds, ReleaseReservation, Launch, Fresh, HeldExists
<1>5. FreeIsUnheld'
  <2>1. \A j \in Instances \ {i} : istate'[j] = istate[j] /\ (ToldIdle(j)' => ToldIdle(j))
    BY <1>p DEF StartSucceeds, Launch, ToldIdle
  <2> SUFFICES ASSUME NEW j \in Instances, istate'[j] = "ready" \/ ToldIdle(j)'
               PROVE  Holders(j)' = {}
    BY DEF FreeIsUnheld
  <2>2. CASE j = i
    BY <1>q, <2>2
  <2>3. CASE j # i
    BY <1>h, <2>1, <2>3 DEF FreeIsUnheld
  <2> QED
    BY <2>2, <2>3
<1>6. CarriedIsReady'
  BY DEF StartSucceeds, ReleaseReservation, Launch, Fresh, CarriedIsReady,
     Ownership, Unshared, Carrying, Private
<1>7. OutsideIsClosed'
  BY DEF StartSucceeds, ReleaseReservation, Launch, Fresh, OutsideIsClosed,
     Carrying, Routable
<1>8. LeftStaysOut'
  BY DEF StartSucceeds, ReleaseReservation, Launch, Fresh, LeftStaysOut, Left
<1>9. DeferredDrains'
  BY DEF StartSucceeds, ReleaseReservation, Launch, Fresh, DeferredDrains
<1>10. OpenDrainsListed'
  BY DEF StartSucceeds, ReleaseReservation, Launch, Fresh, OpenDrainsListed,
     DeferredDrains
<1>11. RestingStopper'
  BY DEF StartSucceeds, ReleaseReservation, Launch, Fresh, RestingStopper
<1>12. RemovedIsDead'
  BY DEF StartSucceeds, ReleaseReservation, Launch, Fresh, RemovedIsDead
<1>13. LiveIsOwned'
  BY DEF StartSucceeds, ReleaseReservation, Launch, Fresh, LiveIsOwned, InHand
<1>14. NoLostDrain'
  BY DEF StartSucceeds, ReleaseReservation, Launch, Fresh, NoLostDrain,
     OpenDrainsListed
<1> QED
  BY <1>1, <1>2, <1>3, <1>4, <1>5, <1>6, <1>7, <1>8,
     <1>9, <1>10, <1>11, <1>12, <1>13, <1>14

\* StartFails preserves it.
LEMMA StartFailsLease ==
  ASSUME BaseInv, BaseInv', LeaseInv, NEW c \in Callers, StartFails(c)
  PROVE  LeaseInv'
<1> USE ConstantsAssumption, ProcsAreDistinct DEF BaseInv, TypeOK, LeaseInv,
           Leasing, Leaving, Accounting, Custody
<1>h. \A j \in Instances : Holders(j)' = Holders(j)
  BY DEF StartFails, ReleaseReservation, Holders
<1>1. IdleOwesNothing'
  BY DEF StartFails, ReleaseReservation, IdleOwesNothing
<1>2. StartingAccounting'
  <2>1. StartingCallers' = StartingCallers \ {c} /\ pc[c] = "starting"
    BY DEF StartFails, StartingCallers
  <2>2. Promised' = Promised
    BY PromisedSame DEF StartFails
  <2>3. Promised \in Int
    BY PromisedIsInt
  <2>4. starting' = starting - 1 /\ leaked' = leaked
    BY DEF StartFails, ReleaseReservation
  <2>5. StartingAccounting /\ starting \in Int /\ leaked \in Nat
    OBVIOUS
  <2> HIDE DEF BaseInv, TypeOK, LeaseInv, Leasing, Leaving, Accounting, Custody
  <2>6. /\ Cardinality(StartingCallers) \in Nat
        /\ Cardinality(StartingCallers') = Cardinality(StartingCallers) - 1
    BY <2>1, StartEnds
  <2> QED
    BY <2>2, <2>3, <2>4, <2>5, <2>6 DEF StartingAccounting
<1>3. BusyAccounting'
  BY <1>h DEF StartFails, ReleaseReservation, BusyAccounting
<1>4. HeldExists'
  BY DEF StartFails, ReleaseReservation, HeldExists
<1>5. FreeIsUnheld'
  BY <1>h DEF StartFails, ReleaseReservation, FreeIsUnheld, ToldIdle
<1>6. CarriedIsReady'
  BY DEF StartFails, ReleaseReservation, CarriedIsReady, Ownership, Unshared,
     Carrying, Private
<1>7. OutsideIsClosed'
  BY DEF StartFails, ReleaseReservation, OutsideIsClosed, Carrying, Routable
<1>8. LeftStaysOut'
  BY DEF StartFails, ReleaseReservation, LeftStaysOut, Left
<1>9. DeferredDrains'
  BY DEF StartFails, ReleaseReservation, DeferredDrains
<1>10. OpenDrainsListed'
  BY DEF StartFails, ReleaseReservation, OpenDrainsListed, DeferredDrains
<1>11. RestingStopper'
  BY DEF StartFails, ReleaseReservation, RestingStopper
<1>12. RemovedIsDead'
  BY DEF StartFails, ReleaseReservation, RemovedIsDead
<1>13. LiveIsOwned'
  BY DEF StartFails, ReleaseReservation, LiveIsOwned, InHand
<1>14. NoLostDrain'
  BY DEF StartFails, ReleaseReservation, NoLostDrain, OpenDrainsListed
<1> QED
  BY <1>1, <1>2, <1>3, <1>4, <1>5, <1>6, <1>7, <1>8,
     <1>9, <1>10, <1>11, <1>12, <1>13, <1>14

\* StartPanics preserves it.
LEMMA StartPanicsLease ==
  ASSUME BaseInv, BaseInv', LeaseInv, NEW c \in Callers, StartPanics(c)
  PROVE  LeaseInv'
<1> USE ConstantsAssumption, ProcsAreDistinct DEF BaseInv, TypeOK, LeaseInv,
           Leasing, Leaving, Accounting, Custody
<1>h. \A j \in Instances : Holders(j)' = Holders(j)
  BY DEF StartPanics, ReleaseReservation, Holders
<1>1. IdleOwesNothing'
  BY DEF StartPanics, ReleaseReservation, IdleOwesNothing
<1>2. StartingAccounting'
  <2>1. StartingCallers' = StartingCallers \ {c} /\ pc[c] = "starting"
    BY DEF StartPanics, StartingCallers
  <2>2. Promised' = Promised
    BY PromisedSame DEF StartPanics
  <2>3. Promised \in Int
    BY PromisedIsInt
  <2>4. starting' = starting - 1 /\ leaked' = leaked
    BY DEF StartPanics, ReleaseReservation
  <2>5. StartingAccounting /\ starting \in Int /\ leaked \in Nat
    OBVIOUS
  <2> HIDE DEF BaseInv, TypeOK, LeaseInv, Leasing, Leaving, Accounting, Custody
  <2>6. /\ Cardinality(StartingCallers) \in Nat
        /\ Cardinality(StartingCallers') = Cardinality(StartingCallers) - 1
    BY <2>1, StartEnds
  <2> QED
    BY <2>2, <2>3, <2>4, <2>5, <2>6 DEF StartingAccounting
<1>3. BusyAccounting'
  BY <1>h DEF StartPanics, ReleaseReservation, BusyAccounting
<1>4. HeldExists'
  BY DEF StartPanics, ReleaseReservation, HeldExists
<1>5. FreeIsUnheld'
  BY <1>h DEF StartPanics, ReleaseReservation, FreeIsUnheld, ToldIdle
<1>6. CarriedIsReady'
  BY DEF StartPanics, ReleaseReservation, CarriedIsReady, Ownership, Unshared,
     Carrying, Private
<1>7. OutsideIsClosed'
  BY DEF StartPanics, ReleaseReservation, OutsideIsClosed, Carrying, Routable
<1>8. LeftStaysOut'
  BY DEF StartPanics, ReleaseReservation, LeftStaysOut, Left
<1>9. DeferredDrains'
  BY DEF StartPanics, ReleaseReservation, DeferredDrains
<1>10. OpenDrainsListed'
  BY DEF StartPanics, ReleaseReservation, OpenDrainsListed, DeferredDrains
<1>11. RestingStopper'
  BY DEF StartPanics, ReleaseReservation, RestingStopper
<1>12. RemovedIsDead'
  BY DEF StartPanics, ReleaseReservation, RemovedIsDead
<1>13. LiveIsOwned'
  BY DEF StartPanics, ReleaseReservation, LiveIsOwned, InHand
<1>14. NoLostDrain'
  BY DEF StartPanics, ReleaseReservation, NoLostDrain, OpenDrainsListed
<1> QED
  BY <1>1, <1>2, <1>3, <1>4, <1>5, <1>6, <1>7, <1>8,
     <1>9, <1>10, <1>11, <1>12, <1>13, <1>14

\* StartFailureSignalled preserves it.
LEMMA StartFailureSignalledLease ==
  ASSUME BaseInv, BaseInv', LeaseInv, NEW c \in Callers, StartFailureSignalled(c)
  PROVE  LeaseInv'
<1> USE ConstantsAssumption, ProcsAreDistinct DEF BaseInv, TypeOK, LeaseInv,
           Leasing, Leaving, Accounting, Custody
<1>h. \A j \in Instances : Holders(j)' = Holders(j)
  BY DEF StartFailureSignalled, SignalAnd, Woken, Holders
<1>k. \A q \in Procs : pc[q] \in Carrying \cup {"closing", "drainCheck"} /\ q # c =>
       pc'[q] = pc[q] /\ inst'[q] = inst[q]
  BY SignalKeeps DEF StartFailureSignalled, Carrying
<1>1. IdleOwesNothing'
  BY DEF StartFailureSignalled, SignalAnd, Woken, IdleOwesNothing
<1>2. StartingAccounting'
  <2>1. StartingCallers' = StartingCallers
    BY DEF StartFailureSignalled, SignalAnd, Woken, StartingCallers
  <2>2. Promised' = Promised
    BY PromisedSame DEF StartFailureSignalled, SignalAnd, Woken
  <2> QED
    BY <2>1, <2>2 DEF StartFailureSignalled, StartingAccounting
<1>3. BusyAccounting'
  BY <1>h DEF StartFailureSignalled, SignalAnd, Woken, BusyAccounting
<1>4. HeldExists'
  BY DEF StartFailureSignalled, SignalAnd, Woken, HeldExists
<1>5. FreeIsUnheld'
  BY <1>h DEF StartFailureSignalled, SignalAnd, Woken, FreeIsUnheld, ToldIdle
<1>6. CarriedIsReady'
  BY DEF StartFailureSignalled, SignalAnd, Woken, CarriedIsReady, Ownership,
     Unshared, Carrying, Private
<1>7. OutsideIsClosed'
  BY <1>k DEF StartFailureSignalled, OutsideIsClosed, Carrying, Routable
<1>8. LeftStaysOut'
  BY DEF StartFailureSignalled, SignalAnd, Woken, LeftStaysOut, Left
<1>9. DeferredDrains'
  BY DEF StartFailureSignalled, SignalAnd, Woken, DeferredDrains
<1>10. OpenDrainsListed'
  BY DEF StartFailureSignalled, SignalAnd, Woken, OpenDrainsListed,
     DeferredDrains
<1>11. RestingStopper'
  BY DEF StartFailureSignalled, SignalAnd, Woken, RestingStopper
<1>12. RemovedIsDead'
  BY DEF StartFailureSignalled, SignalAnd, Woken, RemovedIsDead
<1>13. LiveIsOwned'
  BY DEF StartFailureSignalled, SignalAnd, Woken, LiveIsOwned, InHand
<1>14. NoLostDrain'
  BY <1>k DEF StartFailureSignalled, NoLostDrain, OpenDrainsListed
<1> QED
  BY <1>1, <1>2, <1>3, <1>4, <1>5, <1>6, <1>7, <1>8,
     <1>9, <1>10, <1>11, <1>12, <1>13, <1>14

\* AcquirePublish preserves it.
LEMMA AcquirePublishLease ==
  ASSUME BaseInv, BaseInv', LeaseInv, NEW c \in Callers, AcquirePublish(c)
  PROVE  LeaseInv'
<1> USE ConstantsAssumption, ProcsAreDistinct DEF BaseInv, TypeOK, LeaseInv,
           Leasing, Leaving, Accounting, Custody
<1>i. PICK i \in Instances : i = inst[c]
  BY DEF AcquirePublish, Ownership, Unshared, Carrying
<1>p. /\ pc[c] = "started" /\ pc'[c] = "holding" /\ inst'[c] = i
      /\ i \in live /\ Private(c, i)
  BY <1>i, SignalKeeps DEF AcquirePublish, Ownership, CarriedIsLive, Unshared, Carrying
<1>q. Holders(i) = {} /\ busy[i] = 0 /\ 0 < MaxConcurrent
  <2>1. Holders(i) = {}
    BY <1>i, <1>p DEF Private, Holders
  <2>2. Cardinality(Holders(i)) = 0
    BY <2>1, FS_EmptySet
  <2>3. busy[i] = Cardinality(Holders(i))
    BY <1>p DEF BusyAccounting
  <2>4. 0 < MaxConcurrent
    OBVIOUS
  <2> QED
    BY <2>1, <2>2, <2>3, <2>4
<1>s. /\ \A j \in Instances \ {i} : Holders(j)' = Holders(j)
      /\ BusyAccounting'
  <2>0. TypeOK /\ TypeOK' /\ BusyAccounting
    OBVIOUS
  <2>1. \A d \in Callers \ {c} :
          (pc'[d] = "holding" <=> pc[d] = "holding") /\ inst'[d] = inst[d]
    BY SignalKeeps DEF AcquirePublish
  <2>2. busy' = [busy EXCEPT ![i] = @ + 1] /\ live' = live
    BY <1>i DEF AcquirePublish, Lease
  <2>3. busy[i] < MaxConcurrent /\ pc[c] # "holding"
    BY <1>p, <1>q
  <2> HIDE DEF BaseInv, TypeOK, LeaseInv, Leasing, Leaving, Accounting, Custody
  <2> QED
    BY <1>p, <2>0, <2>1, <2>2, <2>3, LeaseCounts
<1>t. ~ToldIdle(i)' /\ ~Left(i)'
  <2>1. \A q \in Procs \ {c} : inst'[q] # i
    BY <1>p DEF AcquirePublish, Private
  <2> QED
    BY <1>p, <2>1 DEF AcquirePublish, Private, ToldIdle, Left
<1>k. \A q \in Procs : pc[q] \in Carrying \cup {"closing", "drainCheck"} /\ q # c =>
       pc'[q] = pc[q] /\ inst'[q] = inst[q]
  BY SignalKeeps DEF AcquirePublish, Carrying
<1>1. IdleOwesNothing'
  BY DEF AcquirePublish, SignalAnd, Woken, Lease, IdleOwesNothing
<1>2. StartingAccounting'
  <2>1. StartingCallers' = StartingCallers
    BY DEF AcquirePublish, SignalAnd, Woken, Lease, StartingCallers
  <2>2. Promised' = Promised
    BY PromisedSame DEF AcquirePublish, SignalAnd, Woken, Lease
  <2> QED
    BY <2>1, <2>2 DEF AcquirePublish, StartingAccounting
<1>3. BusyAccounting'
  BY <1>s
<1>4. HeldExists'
  BY DEF AcquirePublish, SignalAnd, Woken, Lease, HeldExists
<1>5. FreeIsUnheld'
  <2>1. \A j \in Instances \ {i} : istate'[j] = istate[j] /\ (ToldIdle(j)' => ToldIdle(j))
    BY <1>i, SignalKeeps DEF AcquirePublish, Lease, ToldIdle
  <2>2. istate'[i] # "ready"
    BY <1>i DEF AcquirePublish, Lease
  <2> SUFFICES ASSUME NEW j \in Instances, istate'[j] = "ready" \/ ToldIdle(j)'
               PROVE  Holders(j)' = {}
    BY DEF FreeIsUnheld
  <2>3. j # i
    BY <1>t, <2>2
  <2> QED
    BY <1>s, <2>1, <2>3 DEF FreeIsUnheld
<1>6. CarriedIsReady'
  BY DEF AcquirePublish, SignalAnd, Woken, Lease, CarriedIsReady, Ownership,
     Unshared, Carrying, Private
<1>7. OutsideIsClosed'
  <2>1. \A j \in live' \ instances' : j # i /\ (Routable(j)' => Routable(j))
    BY <1>i, <1>p DEF AcquirePublish, Lease, Routable
  <2> QED
    BY <1>i, <1>k, <2>1 DEF AcquirePublish, OutsideIsClosed
<1>8. LeftStaysOut'
  <2>1. \A j \in Instances \ {i} : Left(j)' => Left(j)
    BY SignalKeeps DEF AcquirePublish, Left
  <2> QED
    BY <1>i, <1>t, <2>1 DEF AcquirePublish, LeftStaysOut
<1>9. DeferredDrains'
  BY DEF AcquirePublish, SignalAnd, Woken, Lease, DeferredDrains
<1>10. OpenDrainsListed'
  BY DEF AcquirePublish, SignalAnd, Woken, Lease, OpenDrainsListed,
     DeferredDrains
<1>11. RestingStopper'
  BY DEF AcquirePublish, SignalAnd, Woken, Lease, RestingStopper
<1>12. RemovedIsDead'
  BY DEF AcquirePublish, SignalAnd, Woken, Lease, RemovedIsDead
<1>13. LiveIsOwned'
  BY DEF AcquirePublish, SignalAnd, Woken, Lease, LiveIsOwned, InHand
<1>14. NoLostDrain'
  <2>1. \A j \in Instances : drain'[j] = "waiting" => j # i /\ busy'[j] = busy[j] /\ istate'[j] = istate[j]
    BY <1>i, <1>p DEF AcquirePublish, Lease, Private
  <2> QED
    BY <1>i, <1>k, <1>p, <2>1 DEF AcquirePublish, NoLostDrain
<1> QED
  BY <1>1, <1>2, <1>3, <1>4, <1>5, <1>6, <1>7, <1>8,
     <1>9, <1>10, <1>11, <1>12, <1>13, <1>14

\* AcquireReject preserves it.
LEMMA AcquireRejectLease ==
  ASSUME BaseInv, BaseInv', LeaseInv, NEW c \in Callers, AcquireReject(c)
  PROVE  LeaseInv'
<1> USE ConstantsAssumption, ProcsAreDistinct DEF BaseInv, TypeOK, LeaseInv,
           Leasing, Leaving, Accounting, Custody
<1>h. \A j \in Instances : Holders(j)' = Holders(j)
  BY SMTT(30) DEF AcquireReject, SignalAnd, Woken, Holders
<1>1. IdleOwesNothing'
  BY DEF AcquireReject, SignalAnd, Woken, IdleOwesNothing
<1>2. StartingAccounting'
  <2>1. StartingCallers' = StartingCallers
    BY DEF AcquireReject, SignalAnd, Woken, StartingCallers
  <2>2. Promised' = Promised
    BY PromisedSame DEF AcquireReject, SignalAnd, Woken
  <2> QED
    BY <2>1, <2>2 DEF AcquireReject, StartingAccounting
<1>3. BusyAccounting'
  BY <1>h DEF AcquireReject, SignalAnd, Woken, BusyAccounting
<1>4. HeldExists'
  BY DEF AcquireReject, SignalAnd, Woken, HeldExists
<1>5. FreeIsUnheld'
  BY <1>h DEF AcquireReject, SignalAnd, Woken, FreeIsUnheld, ToldIdle
<1>6. CarriedIsReady'
  BY DEF AcquireReject, SignalAnd, Woken, CarriedIsReady, Ownership, Unshared,
     Carrying, Private
<1>7. OutsideIsClosed'
  BY DEF AcquireReject, SignalAnd, Woken, OutsideIsClosed, Carrying, Routable
<1>8. LeftStaysOut'
  BY DEF AcquireReject, SignalAnd, Woken, LeftStaysOut, Left
<1>9. DeferredDrains'
  BY DEF AcquireReject, SignalAnd, Woken, DeferredDrains
<1>10. OpenDrainsListed'
  BY DEF AcquireReject, SignalAnd, Woken, OpenDrainsListed, DeferredDrains
<1>11. RestingStopper'
  BY SMTT(30) DEF AcquireReject, SignalAnd, Woken, RestingStopper
<1>12. RemovedIsDead'
  BY DEF AcquireReject, SignalAnd, Woken, RemovedIsDead
<1>13. LiveIsOwned'
  BY DEF AcquireReject, SignalAnd, Woken, LiveIsOwned, InHand
<1>14. NoLostDrain'
  BY DEF AcquireReject, SignalAnd, Woken, NoLostDrain, OpenDrainsListed
<1> QED
  BY <1>1, <1>2, <1>3, <1>4, <1>5, <1>6, <1>7, <1>8,
     <1>9, <1>10, <1>11, <1>12, <1>13, <1>14

\* StopSuperseded preserves it.
LEMMA StopSupersededLease ==
  ASSUME BaseInv, BaseInv', LeaseInv, NEW c \in Callers, StopSuperseded(c)
  PROVE  LeaseInv'
<1> USE ConstantsAssumption, ProcsAreDistinct DEF BaseInv, TypeOK, LeaseInv,
           Leasing, Leaving, Accounting, Custody
<1>h. \A j \in Instances : Holders(j)' = Holders(j)
  BY DEF StopSuperseded, StopInstance, Return, Holders, Ownership, Unshared,
     Carrying, Private
<1>1. IdleOwesNothing'
  BY DEF StopSuperseded, StopInstance, Return, IdleOwesNothing
<1>2. StartingAccounting'
  <2>1. StartingCallers' = StartingCallers
    BY DEF StopSuperseded, StopInstance, Return, StartingCallers
  <2>2. Promised' = Promised
    BY PromisedSame DEF StopSuperseded, StopInstance, Return
  <2> QED
    BY <2>1, <2>2 DEF StopSuperseded, StartingAccounting
<1>3. BusyAccounting'
  BY <1>h DEF StopSuperseded, StopInstance, Return, BusyAccounting
<1>4. HeldExists'
  BY DEF StopSuperseded, StopInstance, Return, HeldExists
<1>5. FreeIsUnheld'
  BY <1>h DEF StopSuperseded, StopInstance, Return, FreeIsUnheld, ToldIdle
<1>6. CarriedIsReady'
  BY DEF StopSuperseded, StopInstance, Return, CarriedIsReady, Ownership,
     Unshared, Carrying, Private
<1>7. OutsideIsClosed'
  BY DEF StopSuperseded, StopInstance, Return, OutsideIsClosed, Carrying,
     Routable
<1>8. LeftStaysOut'
  BY DEF StopSuperseded, StopInstance, Return, LeftStaysOut, Left
<1>9. DeferredDrains'
  BY DEF StopSuperseded, StopInstance, Return, DeferredDrains
<1>10. OpenDrainsListed'
  BY DEF StopSuperseded, StopInstance, Return, OpenDrainsListed, DeferredDrains
<1>11. RestingStopper'
  BY DEF StopSuperseded, StopInstance, Return, RestingStopper
<1>12. RemovedIsDead'
  BY DEF StopSuperseded, StopInstance, Return, RemovedIsDead
<1>13. LiveIsOwned'
  BY DEF StopSuperseded, StopInstance, Return, LiveIsOwned, InHand
<1>14. NoLostDrain'
  BY DEF StopSuperseded, StopInstance, Return, NoLostDrain, OpenDrainsListed
<1> QED
  BY <1>1, <1>2, <1>3, <1>4, <1>5, <1>6, <1>7, <1>8,
     <1>9, <1>10, <1>11, <1>12, <1>13, <1>14

\* StopDuplicate preserves it.
LEMMA StopDuplicateLease ==
  ASSUME BaseInv, BaseInv', LeaseInv, NEW c \in Callers, StopDuplicate(c)
  PROVE  LeaseInv'
<1> USE ConstantsAssumption, ProcsAreDistinct DEF BaseInv, TypeOK, LeaseInv,
           Leasing, Leaving, Accounting, Custody
<1>h. \A j \in Instances : Holders(j)' = Holders(j)
  BY DEF StopDuplicate, StopInstance, Holders, Ownership, Unshared, Carrying,
     Private
<1>1. IdleOwesNothing'
  BY DEF StopDuplicate, StopInstance, IdleOwesNothing
<1>2. StartingAccounting'
  <2>1. StartingCallers' = StartingCallers
    BY DEF StopDuplicate, StopInstance, StartingCallers
  <2>2. Promised' = Promised
    BY PromisedSame DEF StopDuplicate, StopInstance
  <2> QED
    BY <2>1, <2>2 DEF StopDuplicate, StartingAccounting
<1>3. BusyAccounting'
  BY <1>h DEF StopDuplicate, StopInstance, BusyAccounting
<1>4. HeldExists'
  BY DEF StopDuplicate, StopInstance, HeldExists
<1>5. FreeIsUnheld'
  BY <1>h DEF StopDuplicate, StopInstance, FreeIsUnheld, ToldIdle
<1>6. CarriedIsReady'
  BY DEF StopDuplicate, StopInstance, CarriedIsReady, Ownership, Unshared,
     Carrying, Private
<1>7. OutsideIsClosed'
  BY DEF StopDuplicate, StopInstance, OutsideIsClosed, Carrying, Routable
<1>8. LeftStaysOut'
  BY DEF StopDuplicate, StopInstance, LeftStaysOut, Left
<1>9. DeferredDrains'
  BY DEF StopDuplicate, StopInstance, DeferredDrains
<1>10. OpenDrainsListed'
  BY DEF StopDuplicate, StopInstance, OpenDrainsListed, DeferredDrains
<1>11. RestingStopper'
  BY DEF StopDuplicate, StopInstance, RestingStopper
<1>12. RemovedIsDead'
  BY DEF StopDuplicate, StopInstance, RemovedIsDead
<1>13. LiveIsOwned'
  BY DEF StopDuplicate, StopInstance, LiveIsOwned, InHand
<1>14. NoLostDrain'
  BY DEF StopDuplicate, StopInstance, NoLostDrain, OpenDrainsListed
<1> QED
  BY <1>1, <1>2, <1>3, <1>4, <1>5, <1>6, <1>7, <1>8,
     <1>9, <1>10, <1>11, <1>12, <1>13, <1>14

\* Release preserves it.
LEMMA ReleaseLease ==
  ASSUME BaseInv, BaseInv', LeaseInv, NEW c \in Callers, Release(c)
  PROVE  LeaseInv'
<1> USE ConstantsAssumption, ProcsAreDistinct DEF BaseInv, TypeOK, LeaseInv,
           Leasing, Leaving, Accounting, Custody
<1>i. PICK i \in Instances : i = inst[c]
  BY DEF Release, HeldExists
<1>p. pc[c] = "holding" /\ pc'[c] \in {"idle", "closing"}
  BY SignalKeeps DEF Release
<1>r. \A d \in Procs \ {c} : /\ pc[d] # "waiting" => pc'[d] = pc[d]
                             /\ pc[d] = "waiting" => pc'[d] \in {"waiting", "woken"}
                             /\ inst'[d] = inst[d]
  BY SignalKeeps DEF Release, Return
<1>s. /\ \A j \in Instances : Holders(j)' \subseteq Holders(j)
      /\ BusyAccounting'
  <2>0. TypeOK /\ TypeOK' /\ BusyAccounting
    OBVIOUS
  <2>1. \A d \in Callers \ {c} :
          (pc'[d] = "holding" <=> pc[d] = "holding") /\ inst'[d] = inst[d]
    BY <1>r
  <2>2. Unlease(i) /\ live' = live /\ inst[c] = i
    BY <1>i DEF Release
  <2>3. pc[c] = "holding" /\ pc'[c] # "holding"
    BY <1>p
  <2> HIDE DEF BaseInv, TypeOK, LeaseInv, Leasing, Leaving, Accounting, Custody
  <2>4. /\ Holders(i)' = Holders(i) \ {c}
        /\ \A j \in Instances \ {i} : Holders(j)' = Holders(j)
        /\ BusyAccounting'
    BY <2>0, <2>1, <2>2, <2>3, ReleaseCounts
  <2> QED
    BY <2>4
<1>t. busy'[i] = 0 => Holders(i)' = {}
  <2>1. BusyAccounting'
    BY <1>s
  <2> QED
    BY <2>1, IdleIsUnheldNext
<1>1. IdleOwesNothing'
  BY DEF Release, SignalAnd, Woken, Return, Unlease, IdleOwesNothing
<1>2. StartingAccounting'
  <2>1. StartingCallers' = StartingCallers
    BY DEF Release, SignalAnd, Woken, Return, Unlease, StartingCallers
  <2>2. Promised' = Promised
    BY PromisedSame DEF Release, SignalAnd, Woken, Return, Unlease
  <2> QED
    BY <2>1, <2>2 DEF Release, StartingAccounting
<1>3. BusyAccounting'
  BY <1>s
<1>4. HeldExists'
  BY DEF Release, SignalAnd, Woken, Return, Unlease, HeldExists
<1>5. FreeIsUnheld'
  <2>1. \A j \in Instances : istate'[j] = istate[j] \/ (j = i /\ busy'[j] = 0)
    BY <1>i DEF Release
  <2>2. \A j \in Instances : ToldIdle(j)' => ToldIdle(j) \/ (j = i /\ busy'[j] = 0)
    <3>1. drain' = drain /\ immediate' = immediate /\ candidates' = candidates
      BY DEF Release
    <3>2. \A d \in Callers \ {c} : /\ pc'[d] = "closing" => pc[d] = "closing"
                                  /\ inst'[d] = inst[d]
      BY <1>r
    <3>3. pc'[c] = "closing" => inst'[c] = i /\ busy'[i] = 0
      BY <1>i, SignalKeeps DEF Release
    <3> QED
      BY <3>1, <3>2, <3>3 DEF ToldIdle
  <2> QED
    BY <1>s, <1>t, <2>1, <2>2 DEF FreeIsUnheld
<1>6. CarriedIsReady'
  BY DEF Release, SignalAnd, Woken, Return, Unlease, CarriedIsReady, Ownership,
     Unshared, Carrying, Private
<1>7. OutsideIsClosed'
  BY SMTT(30) DEF Release, SignalAnd, Woken, Return, Unlease, OutsideIsClosed, Carrying,
     Routable
<1>8. LeftStaysOut'
  BY DEF Release, SignalAnd, Woken, Return, Unlease, LeftStaysOut, Left
<1>9. DeferredDrains'
  BY DEF Release, SignalAnd, Woken, Return, Unlease, DeferredDrains
<1>10. OpenDrainsListed'
  BY DEF Release, SignalAnd, Woken, Return, Unlease, OpenDrainsListed,
     DeferredDrains
<1>11. RestingStopper'
  BY DEF Release, SignalAnd, Woken, Return, Unlease, RestingStopper
<1>12. RemovedIsDead'
  BY DEF Release, SignalAnd, Woken, Return, Unlease, RemovedIsDead
<1>13. LiveIsOwned'
  BY DEF Release, SignalAnd, Woken, Return, Unlease, LiveIsOwned, InHand
<1>14. NoLostDrain'
  BY DEF Release, SignalAnd, Woken, Return, Unlease, NoLostDrain,
     OpenDrainsListed
<1> QED
  BY <1>1, <1>2, <1>3, <1>4, <1>5, <1>6, <1>7, <1>8,
     <1>9, <1>10, <1>11, <1>12, <1>13, <1>14

\* CloseDrain preserves it.
LEMMA CloseDrainLease ==
  ASSUME BaseInv, BaseInv', LeaseInv, NEW c \in Callers, CloseDrain(c)
  PROVE  LeaseInv'
<1> USE ConstantsAssumption, ProcsAreDistinct DEF BaseInv, TypeOK, LeaseInv,
           Leasing, Leaving, Accounting, Custody
<1>h. \A j \in Instances : Holders(j)' = Holders(j)
  BY DEF CloseDrain, CloseDrainDone, Return, Holders
<1>1. IdleOwesNothing'
  BY DEF CloseDrain, CloseDrainDone, Return, IdleOwesNothing
<1>2. StartingAccounting'
  <2>1. StartingCallers' = StartingCallers
    BY DEF CloseDrain, CloseDrainDone, Return, StartingCallers
  <2>2. Promised' = Promised
    BY PromisedSame DEF CloseDrain, CloseDrainDone, Return
  <2> QED
    BY <2>1, <2>2 DEF CloseDrain, StartingAccounting
<1>3. BusyAccounting'
  BY <1>h DEF CloseDrain, CloseDrainDone, Return, BusyAccounting
<1>4. HeldExists'
  BY DEF CloseDrain, CloseDrainDone, Return, HeldExists
<1>5. FreeIsUnheld'
  BY <1>h DEF CloseDrain, CloseDrainDone, Return, FreeIsUnheld, ToldIdle
<1>6. CarriedIsReady'
  BY DEF CloseDrain, CloseDrainDone, Return, CarriedIsReady, Ownership,
     Unshared, Carrying, Private
<1>7. OutsideIsClosed'
  BY DEF CloseDrain, CloseDrainDone, Return, OutsideIsClosed, Carrying,
     Routable
<1>8. LeftStaysOut'
  BY DEF CloseDrain, CloseDrainDone, Return, LeftStaysOut, Left
<1>9. DeferredDrains'
  BY DEF CloseDrain, CloseDrainDone, Return, DeferredDrains
<1>10. OpenDrainsListed'
  BY DEF CloseDrain, CloseDrainDone, Return, OpenDrainsListed, DeferredDrains
<1>11. RestingStopper'
  BY DEF CloseDrain, CloseDrainDone, Return, RestingStopper
<1>12. RemovedIsDead'
  BY DEF CloseDrain, CloseDrainDone, Return, RemovedIsDead
<1>13. LiveIsOwned'
  BY DEF CloseDrain, CloseDrainDone, Return, LiveIsOwned, InHand
<1>14. NoLostDrain'
  BY DEF CloseDrain, CloseDrainDone, Return, NoLostDrain, OpenDrainsListed
<1> QED
  BY <1>1, <1>2, <1>3, <1>4, <1>5, <1>6, <1>7, <1>8,
     <1>9, <1>10, <1>11, <1>12, <1>13, <1>14

\* SetMinReady preserves it.
LEMMA SetMinReadyLease ==
  ASSUME BaseInv, BaseInv', LeaseInv, NEW s \in Setters, NEW n \in 0..MaxTarget, SetMinReady(s, n)
  PROVE  LeaseInv'
<1> USE ConstantsAssumption, ProcsAreDistinct DEF BaseInv, TypeOK, LeaseInv,
           Leasing, Leaving, Accounting, Custody
<1>h. \A j \in Instances : Holders(j)' = Holders(j)
  BY DEF SetMinReady, Holders
<1>1. IdleOwesNothing'
  BY DEF SetMinReady, IdleOwesNothing
<1>2. StartingAccounting'
  <2>1. StartingCallers' = StartingCallers
    BY DEF SetMinReady, StartingCallers
  <2>2. todo[s] = 0
    BY DEF SetMinReady, IdleOwesNothing
  <2>3. CASE Shortfall(n) <= 0
    BY <2>1, <2>3, PromisedSame DEF SetMinReady, StartingAccounting
  <2>4. CASE Shortfall(n) > 0
    <3>1. /\ todo'[s] = Shortfall(n) /\ Shortfall(n) \in Int
          /\ starting' = starting + Shortfall(n) /\ leaked' = leaked
      <4>1. Cardinality(instances) \in Nat /\ n \in Int
        BY CardNat
      <4>2. Shortfall(n) \in Int
        BY <4>1 DEF Shortfall
      <4> QED
        BY <2>4, <4>2 DEF SetMinReady
    <3>2. Promised \in Int /\ Promised' = Promised - todo[s] + todo'[s]
      BY PromisedMoves DEF SetMinReady
    <3> QED
      BY <2>1, <2>2, <3>1, <3>2, StartersCounted DEF StartingAccounting
  <2> QED
    BY <2>3, <2>4 DEF SetMinReady
<1>3. BusyAccounting'
  BY <1>h DEF SetMinReady, BusyAccounting
<1>4. HeldExists'
  BY DEF SetMinReady, HeldExists
<1>5. FreeIsUnheld'
  BY <1>h DEF SetMinReady, FreeIsUnheld, ToldIdle
<1>6. CarriedIsReady'
  BY DEF SetMinReady, CarriedIsReady, Ownership, Unshared, Carrying, Private
<1>7. OutsideIsClosed'
  BY DEF SetMinReady, OutsideIsClosed, Carrying, Routable
<1>8. LeftStaysOut'
  BY DEF SetMinReady, LeftStaysOut, Left
<1>9. DeferredDrains'
  BY DEF SetMinReady, DeferredDrains
<1>10. OpenDrainsListed'
  BY DEF SetMinReady, OpenDrainsListed, DeferredDrains
<1>11. RestingStopper'
  BY DEF SetMinReady, RestingStopper
<1>12. RemovedIsDead'
  BY DEF SetMinReady, RemovedIsDead
<1>13. LiveIsOwned'
  BY DEF SetMinReady, LiveIsOwned, InHand
<1>14. NoLostDrain'
  BY DEF SetMinReady, NoLostDrain, OpenDrainsListed
<1> QED
  BY <1>1, <1>2, <1>3, <1>4, <1>5, <1>6, <1>7, <1>8,
     <1>9, <1>10, <1>11, <1>12, <1>13, <1>14

\* SetterStart preserves it.
LEMMA SetterStartLease ==
  ASSUME BaseInv, BaseInv', LeaseInv, NEW s \in Setters, SetterStart(s)
  PROVE  LeaseInv'
<1> USE ConstantsAssumption, ProcsAreDistinct DEF BaseInv, TypeOK, LeaseInv,
           Leasing, Leaving, Accounting, Custody
<1>h. \A j \in Instances : Holders(j)' = Holders(j)
  BY DEF SetterStart, Holders
<1>1. IdleOwesNothing'
  BY DEF SetterStart, IdleOwesNothing
<1>2. StartingAccounting'
  <2>1. StartingCallers' = StartingCallers
    BY DEF SetterStart, StartingCallers
  <2>2. Promised' = Promised
    BY PromisedSame DEF SetterStart
  <2> QED
    BY <2>1, <2>2 DEF SetterStart, StartingAccounting
<1>3. BusyAccounting'
  BY <1>h DEF SetterStart, BusyAccounting
<1>4. HeldExists'
  BY DEF SetterStart, HeldExists
<1>5. FreeIsUnheld'
  BY <1>h DEF SetterStart, FreeIsUnheld, ToldIdle
<1>6. CarriedIsReady'
  BY DEF SetterStart, CarriedIsReady, Ownership, Unshared, Carrying, Private
<1>7. OutsideIsClosed'
  BY DEF SetterStart, OutsideIsClosed, Carrying, Routable
<1>8. LeftStaysOut'
  BY DEF SetterStart, LeftStaysOut, Left
<1>9. DeferredDrains'
  BY DEF SetterStart, DeferredDrains
<1>10. OpenDrainsListed'
  BY DEF SetterStart, OpenDrainsListed, DeferredDrains
<1>11. RestingStopper'
  BY DEF SetterStart, RestingStopper
<1>12. RemovedIsDead'
  BY DEF SetterStart, RemovedIsDead
<1>13. LiveIsOwned'
  BY DEF SetterStart, LiveIsOwned, InHand
<1>14. NoLostDrain'
  BY DEF SetterStart, NoLostDrain, OpenDrainsListed
<1> QED
  BY <1>1, <1>2, <1>3, <1>4, <1>5, <1>6, <1>7, <1>8,
     <1>9, <1>10, <1>11, <1>12, <1>13, <1>14

\* SetterStartSucceeds preserves it.
LEMMA SetterStartSucceedsLease ==
  ASSUME BaseInv, BaseInv', LeaseInv, NEW s \in Setters, SetterStartSucceeds(s)
  PROVE  LeaseInv'
<1> USE ConstantsAssumption, ProcsAreDistinct DEF BaseInv, TypeOK, LeaseInv,
           Leasing, Leaving, Accounting, Custody
<1>h. \A j \in Instances : Holders(j)' = Holders(j)
  BY DEF SetterStartSucceeds, GiveBackOne, Launch, Fresh, Holders
<1>p. PICK i \in Instances : Launch(s, i)
  BY DEF SetterStartSucceeds
<1>q. Holders(i)' = {} /\ Cardinality(Holders(i)') = 0
  <2>1. Holders(i)' = {}
    BY <1>p DEF SetterStartSucceeds, Launch, Fresh, Holders
  <2> QED
    BY <2>1, FS_EmptySet
<1>1. IdleOwesNothing'
  BY DEF SetterStartSucceeds, GiveBackOne, Launch, Fresh, IdleOwesNothing
<1>2. StartingAccounting'
  <2>1. StartingCallers' = StartingCallers
    BY DEF SetterStartSucceeds, StartingCallers
  <2>2. /\ starting' = starting - 1 /\ todo[s] \in Nat
        /\ leaked' = leaked /\ todo'[s] = todo[s] - 1
    BY DEF SetterStartSucceeds, GiveBackOne
  <2>3. Promised \in Int /\ Promised' = Promised - todo[s] + todo'[s]
    BY PromisedMoves DEF SetterStartSucceeds, GiveBackOne
  <2> QED
    BY <2>1, <2>2, <2>3, StartersCounted DEF StartingAccounting
<1>3. BusyAccounting'
  <2>1. \A j \in Instances \ {i} : busy'[j] = busy[j] /\ (j \in live' <=> j \in live)
    BY <1>p DEF Launch
  <2>2. busy'[i] = 0 /\ 0 <= MaxConcurrent
    BY <1>p DEF Launch
  <2> SUFFICES ASSUME NEW j \in Instances, j \in live' \/ Holders(j)' # {}
               PROVE  busy'[j] = Cardinality(Holders(j)') /\ busy'[j] <= MaxConcurrent
    BY DEF BusyAccounting
  <2>3. CASE j = i
    BY <1>q, <2>2, <2>3
  <2>4. CASE j # i
    BY <1>h, <2>1, <2>4 DEF BusyAccounting
  <2> QED
    BY <2>3, <2>4
<1>4. HeldExists'
  BY DEF SetterStartSucceeds, GiveBackOne, Launch, Fresh, HeldExists
<1>5. FreeIsUnheld'
  <2>1. \A j \in Instances \ {i} : istate'[j] = istate[j] /\ (ToldIdle(j)' => ToldIdle(j))
    BY <1>p DEF SetterStartSucceeds, Launch, ToldIdle
  <2> SUFFICES ASSUME NEW j \in Instances, istate'[j] = "ready" \/ ToldIdle(j)'
               PROVE  Holders(j)' = {}
    BY DEF FreeIsUnheld
  <2>2. CASE j = i
    BY <1>q, <2>2
  <2>3. CASE j # i
    BY <1>h, <2>1, <2>3 DEF FreeIsUnheld
  <2> QED
    BY <2>2, <2>3
<1>6. CarriedIsReady'
  BY DEF SetterStartSucceeds, GiveBackOne, Launch, Fresh, CarriedIsReady,
     Ownership, Unshared, Carrying, Private
<1>7. OutsideIsClosed'
  BY DEF SetterStartSucceeds, GiveBackOne, Launch, Fresh, OutsideIsClosed,
     Carrying, Routable
<1>8. LeftStaysOut'
  BY DEF SetterStartSucceeds, GiveBackOne, Launch, Fresh, LeftStaysOut, Left
<1>9. DeferredDrains'
  BY DEF SetterStartSucceeds, GiveBackOne, Launch, Fresh, DeferredDrains
<1>10. OpenDrainsListed'
  BY DEF SetterStartSucceeds, GiveBackOne, Launch, Fresh, OpenDrainsListed,
     DeferredDrains
<1>11. RestingStopper'
  BY DEF SetterStartSucceeds, GiveBackOne, Launch, Fresh, RestingStopper
<1>12. RemovedIsDead'
  BY DEF SetterStartSucceeds, GiveBackOne, Launch, Fresh, RemovedIsDead
<1>13. LiveIsOwned'
  BY DEF SetterStartSucceeds, GiveBackOne, Launch, Fresh, LiveIsOwned, InHand
<1>14. NoLostDrain'
  BY DEF SetterStartSucceeds, GiveBackOne, Launch, Fresh, NoLostDrain,
     OpenDrainsListed
<1> QED
  BY <1>1, <1>2, <1>3, <1>4, <1>5, <1>6, <1>7, <1>8,
     <1>9, <1>10, <1>11, <1>12, <1>13, <1>14

\* SetterStartFails preserves it.
LEMMA SetterStartFailsLease ==
  ASSUME BaseInv, BaseInv', LeaseInv, NEW s \in Setters, SetterStartFails(s)
  PROVE  LeaseInv'
<1> USE ConstantsAssumption, ProcsAreDistinct DEF BaseInv, TypeOK, LeaseInv,
           Leasing, Leaving, Accounting, Custody
<1>h. \A j \in Instances : Holders(j)' = Holders(j)
  BY DEF SetterStartFails, GiveBackOne, NextStart, Holders
<1>1. IdleOwesNothing'
  BY DEF SetterStartFails, GiveBackOne, NextStart, IdleOwesNothing
<1>2. StartingAccounting'
  <2>1. StartingCallers' = StartingCallers
    BY DEF SetterStartFails, StartingCallers
  <2>2. /\ starting' = starting - 1 /\ todo[s] \in Nat
        /\ leaked' = leaked /\ todo'[s] = todo[s] - 1
    BY DEF SetterStartFails, GiveBackOne
  <2>3. Promised \in Int /\ Promised' = Promised - todo[s] + todo'[s]
    BY PromisedMoves DEF SetterStartFails, GiveBackOne
  <2> QED
    BY <2>1, <2>2, <2>3, StartersCounted DEF StartingAccounting
<1>3. BusyAccounting'
  BY <1>h DEF SetterStartFails, GiveBackOne, NextStart, BusyAccounting
<1>4. HeldExists'
  BY DEF SetterStartFails, GiveBackOne, NextStart, HeldExists
<1>5. FreeIsUnheld'
  BY <1>h DEF SetterStartFails, GiveBackOne, NextStart, FreeIsUnheld, ToldIdle
<1>6. CarriedIsReady'
  BY DEF SetterStartFails, GiveBackOne, NextStart, CarriedIsReady, Ownership,
     Unshared, Carrying, Private
<1>7. OutsideIsClosed'
  BY DEF SetterStartFails, GiveBackOne, NextStart, OutsideIsClosed, Carrying,
     Routable
<1>8. LeftStaysOut'
  BY DEF SetterStartFails, GiveBackOne, NextStart, LeftStaysOut, Left
<1>9. DeferredDrains'
  BY DEF SetterStartFails, GiveBackOne, NextStart, DeferredDrains
<1>10. OpenDrainsListed'
  BY DEF SetterStartFails, GiveBackOne, NextStart, OpenDrainsListed,
     DeferredDrains
<1>11. RestingStopper'
  BY DEF SetterStartFails, GiveBackOne, NextStart, RestingStopper
<1>12. RemovedIsDead'
  BY DEF SetterStartFails, GiveBackOne, NextStart, RemovedIsDead
<1>13. LiveIsOwned'
  BY DEF SetterStartFails, GiveBackOne, NextStart, LiveIsOwned, InHand
<1>14. NoLostDrain'
  BY DEF SetterStartFails, GiveBackOne, NextStart, NoLostDrain,
     OpenDrainsListed
<1> QED
  BY <1>1, <1>2, <1>3, <1>4, <1>5, <1>6, <1>7, <1>8,
     <1>9, <1>10, <1>11, <1>12, <1>13, <1>14

\* SetterStartPanics preserves it.
LEMMA SetterStartPanicsLease ==
  ASSUME BaseInv, BaseInv', LeaseInv, NEW s \in Setters, SetterStartPanics(s)
  PROVE  LeaseInv'
<1> USE ConstantsAssumption, ProcsAreDistinct DEF BaseInv, TypeOK, LeaseInv,
           Leasing, Leaving, Accounting, Custody
<1>h. \A j \in Instances : Holders(j)' = Holders(j)
  BY DEF SetterStartPanics, Holders
<1>1. IdleOwesNothing'
  BY DEF SetterStartPanics, IdleOwesNothing
<1>2. StartingAccounting'
  <2>1. StartingCallers' = StartingCallers
    BY DEF SetterStartPanics, StartingCallers
  <2>2. /\ starting' = starting - 1 /\ todo[s] \in Nat
        /\ leaked' = leaked + todo[s] - 1 /\ todo'[s] = 0
    BY DEF SetterStartPanics
  <2>3. Promised \in Int /\ Promised' = Promised - todo[s] + todo'[s]
    BY PromisedMoves DEF SetterStartPanics
  <2> QED
    BY <2>1, <2>2, <2>3, StartersCounted DEF StartingAccounting
<1>3. BusyAccounting'
  BY <1>h DEF SetterStartPanics, BusyAccounting
<1>4. HeldExists'
  BY DEF SetterStartPanics, HeldExists
<1>5. FreeIsUnheld'
  BY <1>h DEF SetterStartPanics, FreeIsUnheld, ToldIdle
<1>6. CarriedIsReady'
  BY DEF SetterStartPanics, CarriedIsReady, Ownership, Unshared, Carrying,
     Private
<1>7. OutsideIsClosed'
  BY DEF SetterStartPanics, OutsideIsClosed, Carrying, Routable
<1>8. LeftStaysOut'
  BY DEF SetterStartPanics, LeftStaysOut, Left
<1>9. DeferredDrains'
  BY DEF SetterStartPanics, DeferredDrains
<1>10. OpenDrainsListed'
  BY DEF SetterStartPanics, OpenDrainsListed, DeferredDrains
<1>11. RestingStopper'
  BY DEF SetterStartPanics, RestingStopper
<1>12. RemovedIsDead'
  BY DEF SetterStartPanics, RemovedIsDead
<1>13. LiveIsOwned'
  BY DEF SetterStartPanics, LiveIsOwned, InHand
<1>14. NoLostDrain'
  BY DEF SetterStartPanics, NoLostDrain, OpenDrainsListed
<1> QED
  BY <1>1, <1>2, <1>3, <1>4, <1>5, <1>6, <1>7, <1>8,
     <1>9, <1>10, <1>11, <1>12, <1>13, <1>14

\* SetterPublish preserves it.
LEMMA SetterPublishLease ==
  ASSUME BaseInv, BaseInv', LeaseInv, NEW s \in Setters, SetterPublish(s)
  PROVE  LeaseInv'
<1> USE ConstantsAssumption, ProcsAreDistinct DEF BaseInv, TypeOK, LeaseInv,
           Leasing, Leaving, Accounting, Custody
<1>h. \A j \in Instances : Holders(j)' = Holders(j)
  BY DEF SetterPublish, SignalAnd, Woken, NextStart, Return, Holders,
     Ownership, Unshared, Carrying, Private
<1>i. PICK i \in Instances : i = inst[s]
  BY DEF SetterPublish, Ownership, Unshared, Carrying
<1>p. /\ pc[s] = "started" /\ Private(s, i)
  BY <1>i DEF SetterPublish, Ownership, Unshared, Carrying
<1>t. ~Left(i)'
  <2>1. \A q \in Procs \ {s} : inst'[q] # i
    BY <1>p DEF SetterPublish, Return, Private
  <2> QED
    BY <1>p, <2>1 DEF SetterPublish, Private, Left
<1>k. \A q \in Procs : pc[q] \in Carrying \cup {"closing", "drainCheck"} /\ q # s =>
       pc'[q] = pc[q] /\ inst'[q] = inst[q]
  BY SignalKeeps DEF SetterPublish, Return, Carrying
<1>1. IdleOwesNothing'
  BY DEF SetterPublish, SignalAnd, Woken, NextStart, Return, IdleOwesNothing
<1>2. StartingAccounting'
  <2>1. StartingCallers' = StartingCallers
    BY DEF SetterPublish, SignalAnd, Woken, NextStart, Return, StartingCallers
  <2>2. Promised' = Promised
    BY PromisedSame DEF SetterPublish, SignalAnd, Woken, NextStart, Return
  <2> QED
    BY <2>1, <2>2 DEF SetterPublish, StartingAccounting
<1>3. BusyAccounting'
  BY <1>h DEF SetterPublish, SignalAnd, Woken, NextStart, Return,
     BusyAccounting
<1>4. HeldExists'
  BY DEF SetterPublish, SignalAnd, Woken, NextStart, Return, HeldExists
<1>5. FreeIsUnheld'
  BY <1>h DEF SetterPublish, SignalAnd, Woken, NextStart, Return, FreeIsUnheld,
     ToldIdle
<1>6. CarriedIsReady'
  BY DEF SetterPublish, SignalAnd, Woken, NextStart, Return, CarriedIsReady,
     Ownership, Unshared, Carrying, Private
<1>7. OutsideIsClosed'
  <2>1. \A j \in live' \ instances' : j # i /\ (Routable(j)' => Routable(j))
    BY <1>i, <1>p DEF SetterPublish, Routable
  <2> SUFFICES ASSUME NEW j \in live' \ instances', Routable(j)'
               PROVE  \E q \in Starters : pc'[q] \in Carrying /\ inst'[q] = j
    BY DEF OutsideIsClosed
  <2>2. j \in live \ instances /\ Routable(j)
    BY <2>1 DEF SetterPublish
  <2>3. PICK q \in Starters : pc[q] \in Carrying /\ inst[q] = j
    BY <2>2 DEF OutsideIsClosed
  <2>4. q # s
    BY <1>i, <2>1, <2>3
  <2> QED
    BY <1>k, <2>3, <2>4
<1>8. LeftStaysOut'
  <2>1. \A j \in Instances \ {i} : Left(j)' => Left(j)
    <3>1. /\ drain' = drain /\ draining' = draining
          /\ immediate' = immediate /\ deferred' = deferred
      BY DEF SetterPublish
    <3>2. \A q \in Callers : inst'[q] = inst[q] /\ (pc'[q] = "closing" => pc[q] = "closing")
      BY SignalKeeps DEF SetterPublish, Return
    <3> QED
      BY <3>1, <3>2 DEF Left
  <2>2. instances' = instances \cup {i}
    BY <1>i DEF SetterPublish
  <2> QED
    BY <1>t, <2>1, <2>2 DEF LeftStaysOut
<1>9. DeferredDrains'
  BY DEF SetterPublish, SignalAnd, Woken, NextStart, Return, DeferredDrains
<1>10. OpenDrainsListed'
  BY DEF SetterPublish, SignalAnd, Woken, NextStart, Return, OpenDrainsListed,
     DeferredDrains
<1>11. RestingStopper'
  BY DEF SetterPublish, SignalAnd, Woken, NextStart, Return, RestingStopper
<1>12. RemovedIsDead'
  BY DEF SetterPublish, SignalAnd, Woken, NextStart, Return, RemovedIsDead
<1>13. LiveIsOwned'
  BY DEF SetterPublish, SignalAnd, Woken, NextStart, Return, LiveIsOwned,
     InHand
<1>14. NoLostDrain'
  BY <1>k, <1>p DEF SetterPublish, NoLostDrain
<1> QED
  BY <1>1, <1>2, <1>3, <1>4, <1>5, <1>6, <1>7, <1>8,
     <1>9, <1>10, <1>11, <1>12, <1>13, <1>14

\* SetterReject preserves it.
LEMMA SetterRejectLease ==
  ASSUME BaseInv, BaseInv', LeaseInv, NEW s \in Setters, SetterReject(s)
  PROVE  LeaseInv'
<1> USE ConstantsAssumption, ProcsAreDistinct DEF BaseInv, TypeOK, LeaseInv,
           Leasing, Leaving, Accounting, Custody
<1>h. \A j \in Instances : Holders(j)' = Holders(j)
  BY DEF SetterReject, Holders
<1>1. IdleOwesNothing'
  BY DEF SetterReject, IdleOwesNothing
<1>2. StartingAccounting'
  <2>1. StartingCallers' = StartingCallers
    BY DEF SetterReject, StartingCallers
  <2>2. Promised' = Promised
    BY PromisedSame DEF SetterReject
  <2> QED
    BY <2>1, <2>2 DEF SetterReject, StartingAccounting
<1>3. BusyAccounting'
  BY <1>h DEF SetterReject, BusyAccounting
<1>4. HeldExists'
  BY DEF SetterReject, HeldExists
<1>5. FreeIsUnheld'
  BY <1>h DEF SetterReject, FreeIsUnheld, ToldIdle
<1>6. CarriedIsReady'
  BY DEF SetterReject, CarriedIsReady, Ownership, Unshared, Carrying, Private
<1>7. OutsideIsClosed'
  BY DEF SetterReject, OutsideIsClosed, Carrying, Routable
<1>8. LeftStaysOut'
  BY DEF SetterReject, LeftStaysOut, Left
<1>9. DeferredDrains'
  BY DEF SetterReject, DeferredDrains
<1>10. OpenDrainsListed'
  BY DEF SetterReject, OpenDrainsListed, DeferredDrains
<1>11. RestingStopper'
  BY DEF SetterReject, RestingStopper
<1>12. RemovedIsDead'
  BY DEF SetterReject, RemovedIsDead
<1>13. LiveIsOwned'
  BY DEF SetterReject, LiveIsOwned, InHand
<1>14. NoLostDrain'
  BY DEF SetterReject, NoLostDrain, OpenDrainsListed
<1> QED
  BY <1>1, <1>2, <1>3, <1>4, <1>5, <1>6, <1>7, <1>8,
     <1>9, <1>10, <1>11, <1>12, <1>13, <1>14

\* SetterDiscard preserves it.
LEMMA SetterDiscardLease ==
  ASSUME BaseInv, BaseInv', LeaseInv, NEW s \in Setters, SetterDiscard(s)
  PROVE  LeaseInv'
<1> USE ConstantsAssumption, ProcsAreDistinct DEF BaseInv, TypeOK, LeaseInv,
           Leasing, Leaving, Accounting, Custody
<1>h. \A j \in Instances : Holders(j)' = Holders(j)
  BY DEF SetterDiscard, StopInstance, NextStart, Return, Holders, Ownership,
     Unshared, Carrying, Private
<1>1. IdleOwesNothing'
  BY DEF SetterDiscard, StopInstance, NextStart, Return, IdleOwesNothing
<1>2. StartingAccounting'
  <2>1. StartingCallers' = StartingCallers
    BY DEF SetterDiscard, StopInstance, NextStart, Return, StartingCallers
  <2>2. Promised' = Promised
    BY PromisedSame DEF SetterDiscard, StopInstance, NextStart, Return
  <2> QED
    BY <2>1, <2>2 DEF SetterDiscard, StartingAccounting
<1>3. BusyAccounting'
  BY <1>h DEF SetterDiscard, StopInstance, NextStart, Return, BusyAccounting
<1>4. HeldExists'
  BY DEF SetterDiscard, StopInstance, NextStart, Return, HeldExists
<1>5. FreeIsUnheld'
  BY <1>h DEF SetterDiscard, StopInstance, NextStart, Return, FreeIsUnheld,
     ToldIdle
<1>6. CarriedIsReady'
  BY DEF SetterDiscard, StopInstance, NextStart, Return, CarriedIsReady,
     Ownership, Unshared, Carrying, Private
<1>7. OutsideIsClosed'
  BY DEF SetterDiscard, StopInstance, NextStart, Return, OutsideIsClosed,
     Carrying, Routable
<1>8. LeftStaysOut'
  BY DEF SetterDiscard, StopInstance, NextStart, Return, LeftStaysOut, Left
<1>9. DeferredDrains'
  BY DEF SetterDiscard, StopInstance, NextStart, Return, DeferredDrains
<1>10. OpenDrainsListed'
  BY DEF SetterDiscard, StopInstance, NextStart, Return, OpenDrainsListed,
     DeferredDrains
<1>11. RestingStopper'
  BY DEF SetterDiscard, StopInstance, NextStart, Return, RestingStopper
<1>12. RemovedIsDead'
  BY DEF SetterDiscard, StopInstance, NextStart, Return, RemovedIsDead
<1>13. LiveIsOwned'
  BY DEF SetterDiscard, StopInstance, NextStart, Return, LiveIsOwned, InHand
<1>14. NoLostDrain'
  BY DEF SetterDiscard, StopInstance, NextStart, Return, NoLostDrain,
     OpenDrainsListed
<1> QED
  BY <1>1, <1>2, <1>3, <1>4, <1>5, <1>6, <1>7, <1>8,
     <1>9, <1>10, <1>11, <1>12, <1>13, <1>14

\* StopSpec preserves it.
LEMMA StopSpecLease ==
  ASSUME BaseInv, BaseInv', LeaseInv, NEW t \in Stoppers, StopSpec(t)
  PROVE  LeaseInv'
<1> USE ConstantsAssumption, ProcsAreDistinct DEF BaseInv, TypeOK, LeaseInv,
           Leasing, Leaving, Accounting, Custody
<1>h. \A j \in Instances : Holders(j)' = Holders(j)
  BY DEF StopSpec, MarkDraining, InUse, NextGeneration, Holders
<1>1. IdleOwesNothing'
  BY DEF StopSpec, MarkDraining, InUse, NextGeneration, IdleOwesNothing
<1>2. StartingAccounting'
  <2>1. StartingCallers' = StartingCallers
    BY DEF StopSpec, MarkDraining, InUse, NextGeneration, StartingCallers
  <2>2. Promised' = Promised
    BY PromisedSame DEF StopSpec, MarkDraining, InUse, NextGeneration
  <2> QED
    BY <2>1, <2>2 DEF StopSpec, StartingAccounting
<1>3. BusyAccounting'
  BY <1>h DEF StopSpec, MarkDraining, InUse, NextGeneration, BusyAccounting
<1>4. HeldExists'
  BY DEF StopSpec, MarkDraining, InUse, NextGeneration, HeldExists
<1>5. FreeIsUnheld'
  <2>1. \A j \in instances \ InUse : Holders(j) = {}
    BY IdleIsUnheld DEF InUse
  <2>2. \A j \in Instances : istate'[j] = "ready" => istate[j] = "ready"
    BY DEF StopSpec, MarkDraining
  <2>3. \A j \in Instances : ToldIdle(j)' => ToldIdle(j) \/ j \in instances \ InUse
    BY DEF StopSpec, ToldIdle
  <2> QED
    BY <1>h, <2>1, <2>2, <2>3 DEF FreeIsUnheld
<1>6. CarriedIsReady'
  BY DEF StopSpec, MarkDraining, InUse, NextGeneration, CarriedIsReady,
     Ownership, Unshared, Carrying, Private
<1>7. OutsideIsClosed'
  BY DEF StopSpec, MarkDraining, InUse, NextGeneration, OutsideIsClosed,
     Carrying, Routable
<1>8. LeftStaysOut'
  BY DEF StopSpec, MarkDraining, InUse, NextGeneration, LeftStaysOut, Left
<1>9. DeferredDrains'
  <2>1. \A j \in instances : drain[j] = "off" /\ \A u \in Stoppers : j \notin deferred[u]
    BY DEF LeftStaysOut, Left
  <2> QED
    BY <2>1 DEF StopSpec, DeferredDrains, InUse
<1>10. OpenDrainsListed'
  BY DEF StopSpec, MarkDraining, InUse, NextGeneration, OpenDrainsListed,
     DeferredDrains
<1>11. RestingStopper'
  BY DEF StopSpec, MarkDraining, InUse, NextGeneration, RestingStopper
<1>12. RemovedIsDead'
  BY DEF StopSpec, MarkDraining, InUse, NextGeneration, RemovedIsDead
<1>13. LiveIsOwned'
  <2>1. immediate[t] = {}
    BY DEF StopSpec, RestingStopper
  <2>2. \A j \in Instances : InHand(j) => InHand(j)'
    BY <2>1 DEF StopSpec, InHand
  <2>3. \A j \in instances : j \in draining' \/ InHand(j)'
    BY DEF StopSpec, InHand
  <2> QED
    BY <2>2, <2>3 DEF StopSpec, LiveIsOwned
<1>14. NoLostDrain'
  <2>1. \A j \in instances : drain[j] = "off"
    BY DEF LeftStaysOut, Left
  <2>2. \A j \in Instances \ instances : istate'[j] = istate[j]
    BY DEF StopSpec, MarkDraining
  <2>3. \A q \in Procs : q # t => pc'[q] = pc[q]
    BY DEF StopSpec
  <2> QED
    BY <2>1, <2>2, <2>3 DEF StopSpec, NoLostDrain
<1> QED
  BY <1>1, <1>2, <1>3, <1>4, <1>5, <1>6, <1>7, <1>8,
     <1>9, <1>10, <1>11, <1>12, <1>13, <1>14

\* StopImmediate preserves it.
LEMMA StopImmediateLease ==
  ASSUME BaseInv, BaseInv', LeaseInv, NEW t \in Stoppers, StopImmediate(t)
  PROVE  LeaseInv'
<1> USE ConstantsAssumption, ProcsAreDistinct DEF BaseInv, TypeOK, LeaseInv,
           Leasing, Leaving, Accounting, Custody
<1>h. \A j \in Instances : Holders(j)' = Holders(j)
  BY DEF StopImmediate, StopInstance, Holders
<1>1. IdleOwesNothing'
  BY DEF StopImmediate, StopInstance, IdleOwesNothing
<1>2. StartingAccounting'
  <2>1. StartingCallers' = StartingCallers
    BY DEF StopImmediate, StopInstance, StartingCallers
  <2>2. Promised' = Promised
    BY PromisedSame DEF StopImmediate, StopInstance
  <2> QED
    BY <2>1, <2>2 DEF StopImmediate, StartingAccounting
<1>3. BusyAccounting'
  BY <1>h DEF StopImmediate, StopInstance, BusyAccounting
<1>4. HeldExists'
  BY DEF StopImmediate, StopInstance, HeldExists
<1>5. FreeIsUnheld'
  BY <1>h DEF StopImmediate, StopInstance, FreeIsUnheld, ToldIdle
<1>6. CarriedIsReady'
  BY DEF StopImmediate, StopInstance, CarriedIsReady, Ownership, Unshared,
     Carrying, Private
<1>7. OutsideIsClosed'
  BY DEF StopImmediate, StopInstance, OutsideIsClosed, Carrying, Routable
<1>8. LeftStaysOut'
  BY DEF StopImmediate, StopInstance, LeftStaysOut, Left
<1>9. DeferredDrains'
  BY DEF StopImmediate, StopInstance, DeferredDrains
<1>10. OpenDrainsListed'
  BY DEF StopImmediate, StopInstance, OpenDrainsListed, DeferredDrains
<1>11. RestingStopper'
  BY DEF StopImmediate, StopInstance, RestingStopper
<1>12. RemovedIsDead'
  BY DEF StopImmediate, StopInstance, RemovedIsDead
<1>13. LiveIsOwned'
  BY DEF StopImmediate, StopInstance, LiveIsOwned, InHand
<1>14. NoLostDrain'
  BY DEF StopImmediate, StopInstance, NoLostDrain, OpenDrainsListed
<1> QED
  BY <1>1, <1>2, <1>3, <1>4, <1>5, <1>6, <1>7, <1>8,
     <1>9, <1>10, <1>11, <1>12, <1>13, <1>14

\* OpenDrain preserves it.
LEMMA OpenDrainLease ==
  ASSUME BaseInv, BaseInv', LeaseInv, NEW t \in Stoppers, OpenDrain(t)
  PROVE  LeaseInv'
<1> USE ConstantsAssumption, ProcsAreDistinct DEF BaseInv, TypeOK, LeaseInv,
           Leasing, Leaving, Accounting, Custody
<1>h. \A j \in Instances : Holders(j)' = Holders(j)
  BY DEF OpenDrain, Holders
<1>1. IdleOwesNothing'
  BY DEF OpenDrain, IdleOwesNothing
<1>2. StartingAccounting'
  <2>1. StartingCallers' = StartingCallers
    BY DEF OpenDrain, StartingCallers
  <2>2. Promised' = Promised
    BY PromisedSame DEF OpenDrain
  <2> QED
    BY <2>1, <2>2 DEF OpenDrain, StartingAccounting
<1>3. BusyAccounting'
  BY <1>h DEF OpenDrain, BusyAccounting
<1>4. HeldExists'
  BY DEF OpenDrain, HeldExists
<1>5. FreeIsUnheld'
  BY <1>h DEF OpenDrain, FreeIsUnheld, ToldIdle
<1>6. CarriedIsReady'
  BY DEF OpenDrain, CarriedIsReady, Ownership, Unshared, Carrying, Private
<1>7. OutsideIsClosed'
  BY DEF OpenDrain, OutsideIsClosed, Carrying, Routable
<1>8. LeftStaysOut'
  BY DEF OpenDrain, LeftStaysOut, Left
<1>9. DeferredDrains'
  BY DEF OpenDrain, DeferredDrains
<1>10. OpenDrainsListed'
  BY DEF OpenDrain, OpenDrainsListed, DeferredDrains
<1>11. RestingStopper'
  BY DEF OpenDrain, RestingStopper
<1>12. RemovedIsDead'
  BY DEF OpenDrain, RemovedIsDead
<1>13. LiveIsOwned'
  <2>1. \A j \in Instances : InHand(j) => InHand(j)'
    BY DEF OpenDrain, InHand, DeferredDrains
  <2> QED
    BY <2>1 DEF OpenDrain, LiveIsOwned
<1>14. NoLostDrain'
  BY DEF OpenDrain, NoLostDrain, OpenDrainsListed
<1> QED
  BY <1>1, <1>2, <1>3, <1>4, <1>5, <1>6, <1>7, <1>8,
     <1>9, <1>10, <1>11, <1>12, <1>13, <1>14

\* CheckDrain preserves it.
LEMMA CheckDrainLease ==
  ASSUME BaseInv, BaseInv', LeaseInv, NEW t \in Stoppers, CheckDrain(t)
  PROVE  LeaseInv'
<1> USE ConstantsAssumption, ProcsAreDistinct DEF BaseInv, TypeOK, LeaseInv,
           Leasing, Leaving, Accounting, Custody
<1>h. \A j \in Instances : Holders(j)' = Holders(j)
  BY DEF CheckDrain, RecheckIdle, CloseDrainDone, Return, Holders
<1>1. IdleOwesNothing'
  BY DEF CheckDrain, RecheckIdle, CloseDrainDone, Return, IdleOwesNothing
<1>2. StartingAccounting'
  <2>1. StartingCallers' = StartingCallers
    BY DEF CheckDrain, RecheckIdle, CloseDrainDone, Return, StartingCallers
  <2>2. Promised' = Promised
    BY PromisedSame DEF CheckDrain, RecheckIdle, CloseDrainDone, Return
  <2> QED
    BY <2>1, <2>2 DEF CheckDrain, StartingAccounting
<1>3. BusyAccounting'
  BY <1>h DEF CheckDrain, RecheckIdle, CloseDrainDone, Return, BusyAccounting
<1>4. HeldExists'
  BY DEF CheckDrain, RecheckIdle, CloseDrainDone, Return, HeldExists
<1>5. FreeIsUnheld'
  <2>1. \A j \in Instances : busy[j] = 0 => Holders(j) = {}
    BY IdleIsUnheld
  <2>2. \A j \in Instances : ToldIdle(j)' => ToldIdle(j) \/ busy[j] = 0
    BY DEF CheckDrain, RecheckIdle, CloseDrainDone, Return, ToldIdle
  <2> QED
    BY <1>h, <2>1, <2>2 DEF CheckDrain, FreeIsUnheld
<1>6. CarriedIsReady'
  BY DEF CheckDrain, RecheckIdle, CloseDrainDone, Return, CarriedIsReady,
     Ownership, Unshared, Carrying, Private
<1>7. OutsideIsClosed'
  BY DEF CheckDrain, RecheckIdle, CloseDrainDone, Return, OutsideIsClosed,
     Carrying, Routable
<1>8. LeftStaysOut'
  BY DEF CheckDrain, RecheckIdle, CloseDrainDone, Return, LeftStaysOut, Left
<1>9. DeferredDrains'
  BY DEF CheckDrain, RecheckIdle, CloseDrainDone, Return, DeferredDrains
<1>10. OpenDrainsListed'
  BY DEF CheckDrain, RecheckIdle, CloseDrainDone, Return, OpenDrainsListed,
     DeferredDrains
<1>11. RestingStopper'
  BY DEF CheckDrain, RecheckIdle, CloseDrainDone, Return, RestingStopper
<1>12. RemovedIsDead'
  BY DEF CheckDrain, RecheckIdle, CloseDrainDone, Return, RemovedIsDead
<1>13. LiveIsOwned'
  BY DEF CheckDrain, RecheckIdle, CloseDrainDone, Return, LiveIsOwned, InHand
<1>14. NoLostDrain'
  BY DEF CheckDrain, RecheckIdle, CloseDrainDone, Return, NoLostDrain,
     OpenDrainsListed
<1> QED
  BY <1>1, <1>2, <1>3, <1>4, <1>5, <1>6, <1>7, <1>8,
     <1>9, <1>10, <1>11, <1>12, <1>13, <1>14

\* StopSpecReturns preserves it.
LEMMA StopSpecReturnsLease ==
  ASSUME BaseInv, BaseInv', LeaseInv, NEW t \in Stoppers, StopSpecReturns(t)
  PROVE  LeaseInv'
<1> USE ConstantsAssumption, ProcsAreDistinct DEF BaseInv, TypeOK, LeaseInv,
           Leasing, Leaving, Accounting, Custody
<1>h. \A j \in Instances : Holders(j)' = Holders(j)
  BY DEF StopSpecReturns, Holders
<1>1. IdleOwesNothing'
  BY DEF StopSpecReturns, IdleOwesNothing
<1>2. StartingAccounting'
  <2>1. StartingCallers' = StartingCallers
    BY DEF StopSpecReturns, StartingCallers
  <2>2. Promised' = Promised
    BY PromisedSame DEF StopSpecReturns
  <2> QED
    BY <2>1, <2>2 DEF StopSpecReturns, StartingAccounting
<1>3. BusyAccounting'
  BY <1>h DEF StopSpecReturns, BusyAccounting
<1>4. HeldExists'
  BY DEF StopSpecReturns, HeldExists
<1>5. FreeIsUnheld'
  BY <1>h DEF StopSpecReturns, FreeIsUnheld, ToldIdle
<1>6. CarriedIsReady'
  BY DEF StopSpecReturns, CarriedIsReady, Ownership, Unshared, Carrying,
     Private
<1>7. OutsideIsClosed'
  BY DEF StopSpecReturns, OutsideIsClosed, Carrying, Routable
<1>8. LeftStaysOut'
  BY DEF StopSpecReturns, LeftStaysOut, Left
<1>9. DeferredDrains'
  BY DEF StopSpecReturns, DeferredDrains
<1>10. OpenDrainsListed'
  BY DEF StopSpecReturns, OpenDrainsListed, DeferredDrains
<1>11. RestingStopper'
  BY DEF StopSpecReturns, RestingStopper
<1>12. RemovedIsDead'
  BY DEF StopSpecReturns, RemovedIsDead
<1>13. LiveIsOwned'
  BY DEF StopSpecReturns, LiveIsOwned, InHand
<1>14. NoLostDrain'
  BY DEF StopSpecReturns, NoLostDrain, OpenDrainsListed
<1> QED
  BY <1>1, <1>2, <1>3, <1>4, <1>5, <1>6, <1>7, <1>8,
     <1>9, <1>10, <1>11, <1>12, <1>13, <1>14

\* DrainWakes preserves it.
LEMMA DrainWakesLease ==
  ASSUME BaseInv, BaseInv', LeaseInv, NEW i \in Instances, DrainWakes(i)
  PROVE  LeaseInv'
<1> USE ConstantsAssumption, ProcsAreDistinct DEF BaseInv, TypeOK, LeaseInv,
           Leasing, Leaving, Accounting, Custody
<1>h. \A j \in Instances : Holders(j)' = Holders(j)
  BY DEF DrainWakes, Holders
<1>1. IdleOwesNothing'
  BY DEF DrainWakes, IdleOwesNothing
<1>2. StartingAccounting'
  <2>1. StartingCallers' = StartingCallers
    BY DEF DrainWakes, StartingCallers
  <2>2. Promised' = Promised
    BY PromisedSame DEF DrainWakes
  <2> QED
    BY <2>1, <2>2 DEF DrainWakes, StartingAccounting
<1>3. BusyAccounting'
  BY <1>h DEF DrainWakes, BusyAccounting
<1>4. HeldExists'
  BY DEF DrainWakes, HeldExists
<1>5. FreeIsUnheld'
  BY <1>h DEF DrainWakes, FreeIsUnheld, ToldIdle
<1>6. CarriedIsReady'
  BY DEF DrainWakes, CarriedIsReady, Ownership, Unshared, Carrying, Private
<1>7. OutsideIsClosed'
  BY DEF DrainWakes, OutsideIsClosed, Carrying, Routable
<1>8. LeftStaysOut'
  BY DEF DrainWakes, LeftStaysOut, Left
<1>9. DeferredDrains'
  BY DEF DrainWakes, DeferredDrains
<1>10. OpenDrainsListed'
  BY DEF DrainWakes, OpenDrainsListed, DeferredDrains
<1>11. RestingStopper'
  BY DEF DrainWakes, RestingStopper
<1>12. RemovedIsDead'
  BY DEF DrainWakes, RemovedIsDead
<1>13. LiveIsOwned'
  BY DEF DrainWakes, LiveIsOwned, InHand
<1>14. NoLostDrain'
  BY DEF DrainWakes, NoLostDrain, OpenDrainsListed
<1> QED
  BY <1>1, <1>2, <1>3, <1>4, <1>5, <1>6, <1>7, <1>8,
     <1>9, <1>10, <1>11, <1>12, <1>13, <1>14

\* DrainStops preserves it.
LEMMA DrainStopsLease ==
  ASSUME BaseInv, BaseInv', LeaseInv, NEW i \in Instances, DrainStops(i)
  PROVE  LeaseInv'
<1> USE ConstantsAssumption, ProcsAreDistinct DEF BaseInv, TypeOK, LeaseInv,
           Leasing, Leaving, Accounting, Custody
<1>h. \A j \in Instances : Holders(j)' = Holders(j)
  BY DEF DrainStops, StopInstance, Holders
<1>1. IdleOwesNothing'
  BY DEF DrainStops, StopInstance, IdleOwesNothing
<1>2. StartingAccounting'
  <2>1. StartingCallers' = StartingCallers
    BY DEF DrainStops, StopInstance, StartingCallers
  <2>2. Promised' = Promised
    BY PromisedSame DEF DrainStops, StopInstance
  <2> QED
    BY <2>1, <2>2 DEF DrainStops, StartingAccounting
<1>3. BusyAccounting'
  BY <1>h DEF DrainStops, StopInstance, BusyAccounting
<1>4. HeldExists'
  BY DEF DrainStops, StopInstance, HeldExists
<1>5. FreeIsUnheld'
  BY <1>h DEF DrainStops, StopInstance, FreeIsUnheld, ToldIdle
<1>6. CarriedIsReady'
  BY DEF DrainStops, StopInstance, CarriedIsReady, Ownership, Unshared,
     Carrying, Private
<1>7. OutsideIsClosed'
  BY DEF DrainStops, StopInstance, OutsideIsClosed, Carrying, Routable
<1>8. LeftStaysOut'
  BY DEF DrainStops, StopInstance, LeftStaysOut, Left
<1>9. DeferredDrains'
  BY DEF DrainStops, StopInstance, DeferredDrains
<1>10. OpenDrainsListed'
  BY DEF DrainStops, StopInstance, OpenDrainsListed, DeferredDrains
<1>11. RestingStopper'
  BY DEF DrainStops, StopInstance, RestingStopper
<1>12. RemovedIsDead'
  BY DEF DrainStops, StopInstance, RemovedIsDead
<1>13. LiveIsOwned'
  BY DEF DrainStops, StopInstance, LiveIsOwned, InHand
<1>14. NoLostDrain'
  BY DEF DrainStops, StopInstance, NoLostDrain, OpenDrainsListed
<1> QED
  BY <1>1, <1>2, <1>3, <1>4, <1>5, <1>6, <1>7, <1>8,
     <1>9, <1>10, <1>11, <1>12, <1>13, <1>14

\* ReapIdle preserves it.
LEMMA ReapIdleLease ==
  ASSUME BaseInv, BaseInv', LeaseInv, NEW r \in Reapers, ReapIdle(r)
  PROVE  LeaseInv'
<1> USE ConstantsAssumption, ProcsAreDistinct DEF BaseInv, TypeOK, LeaseInv,
           Leasing, Leaving, Accounting, Custody
<1>h. \A j \in Instances : Holders(j)' = Holders(j)
  BY DEF ReapIdle, MarkDraining, Reapable, ReadyInPool, AfterReap, Holders
<1>1. IdleOwesNothing'
  BY DEF ReapIdle, MarkDraining, Reapable, ReadyInPool, AfterReap,
     IdleOwesNothing
<1>2. StartingAccounting'
  <2>1. StartingCallers' = StartingCallers
    BY DEF ReapIdle, MarkDraining, Reapable, ReadyInPool, AfterReap,
       StartingCallers
  <2>2. Promised' = Promised
    BY PromisedSame DEF ReapIdle, MarkDraining, Reapable, ReadyInPool,
       AfterReap
  <2> QED
    BY <2>1, <2>2 DEF ReapIdle, StartingAccounting
<1>3. BusyAccounting'
  BY <1>h DEF ReapIdle, MarkDraining, Reapable, ReadyInPool, AfterReap,
     BusyAccounting
<1>4. HeldExists'
  BY DEF ReapIdle, MarkDraining, Reapable, ReadyInPool, AfterReap, HeldExists
<1>5. FreeIsUnheld'
  BY <1>h DEF ReapIdle, MarkDraining, Reapable, ReadyInPool, AfterReap,
     FreeIsUnheld, ToldIdle
<1>6. CarriedIsReady'
  BY DEF ReapIdle, MarkDraining, Reapable, ReadyInPool, AfterReap,
     CarriedIsReady, Ownership, Unshared, Carrying, Private
<1>7. OutsideIsClosed'
  BY DEF ReapIdle, MarkDraining, Reapable, ReadyInPool, AfterReap,
     OutsideIsClosed, Carrying, Routable
<1>8. LeftStaysOut'
  BY DEF ReapIdle, MarkDraining, Reapable, ReadyInPool, AfterReap,
     LeftStaysOut, Left
<1>9. DeferredDrains'
  BY DEF ReapIdle, MarkDraining, Reapable, ReadyInPool, AfterReap,
     DeferredDrains
<1>10. OpenDrainsListed'
  BY DEF ReapIdle, MarkDraining, Reapable, ReadyInPool, AfterReap,
     OpenDrainsListed, DeferredDrains
<1>11. RestingStopper'
  BY DEF ReapIdle, MarkDraining, Reapable, ReadyInPool, AfterReap,
     RestingStopper
<1>12. RemovedIsDead'
  BY DEF ReapIdle, MarkDraining, Reapable, ReadyInPool, AfterReap,
     RemovedIsDead
<1>13. LiveIsOwned'
  BY DEF ReapIdle, MarkDraining, Reapable, ReadyInPool, AfterReap, LiveIsOwned,
     InHand
<1>14. NoLostDrain'
  <2>1. \A j \in Instances : istate'[j] = istate[j] \/ j \in instances
    BY DEF ReapIdle, MarkDraining, Reapable, ReadyInPool
  <2>2. \A j \in instances : drain[j] = "off"
    BY DEF LeftStaysOut, Left
  <2>3. \A q \in Callers \cup Stoppers : pc'[q] = pc[q]
    BY DEF ReapIdle
  <2> QED
    BY <2>1, <2>2, <2>3 DEF ReapIdle, NoLostDrain
<1> QED
  BY <1>1, <1>2, <1>3, <1>4, <1>5, <1>6, <1>7, <1>8,
     <1>9, <1>10, <1>11, <1>12, <1>13, <1>14

\* ReapStop preserves it.
LEMMA ReapStopLease ==
  ASSUME BaseInv, BaseInv', LeaseInv, NEW r \in Reapers, ReapStop(r)
  PROVE  LeaseInv'
<1> USE ConstantsAssumption, ProcsAreDistinct DEF BaseInv, TypeOK, LeaseInv,
           Leasing, Leaving, Accounting, Custody
<1>h. \A j \in Instances : Holders(j)' = Holders(j)
  BY DEF ReapStop, StopInstance, Holders
<1>1. IdleOwesNothing'
  BY DEF ReapStop, StopInstance, IdleOwesNothing
<1>2. StartingAccounting'
  <2>1. StartingCallers' = StartingCallers
    BY DEF ReapStop, StopInstance, StartingCallers
  <2>2. Promised' = Promised
    BY PromisedSame DEF ReapStop, StopInstance
  <2> QED
    BY <2>1, <2>2 DEF ReapStop, StartingAccounting
<1>3. BusyAccounting'
  BY <1>h DEF ReapStop, StopInstance, BusyAccounting
<1>4. HeldExists'
  BY DEF ReapStop, StopInstance, HeldExists
<1>5. FreeIsUnheld'
  BY <1>h DEF ReapStop, StopInstance, FreeIsUnheld, ToldIdle
<1>6. CarriedIsReady'
  BY DEF ReapStop, StopInstance, CarriedIsReady, Ownership, Unshared, Carrying,
     Private
<1>7. OutsideIsClosed'
  BY DEF ReapStop, StopInstance, OutsideIsClosed, Carrying, Routable
<1>8. LeftStaysOut'
  BY DEF ReapStop, StopInstance, LeftStaysOut, Left
<1>9. DeferredDrains'
  BY DEF ReapStop, StopInstance, DeferredDrains
<1>10. OpenDrainsListed'
  BY DEF ReapStop, StopInstance, OpenDrainsListed, DeferredDrains
<1>11. RestingStopper'
  BY DEF ReapStop, StopInstance, RestingStopper
<1>12. RemovedIsDead'
  BY DEF ReapStop, StopInstance, RemovedIsDead
<1>13. LiveIsOwned'
  BY DEF ReapStop, StopInstance, LiveIsOwned, InHand
<1>14. NoLostDrain'
  BY DEF ReapStop, StopInstance, NoLostDrain, OpenDrainsListed
<1> QED
  BY <1>1, <1>2, <1>3, <1>4, <1>5, <1>6, <1>7, <1>8,
     <1>9, <1>10, <1>11, <1>12, <1>13, <1>14

\* RemoveStopped preserves it.
LEMMA RemoveStoppedLease ==
  ASSUME BaseInv, BaseInv', LeaseInv, NEW p \in Reapers \cup Probers, RemoveStopped(p)
  PROVE  LeaseInv'
<1> USE ConstantsAssumption, ProcsAreDistinct DEF BaseInv, TypeOK, LeaseInv,
           Leasing, Leaving, Accounting, Custody
<1>h. \A j \in Instances : Holders(j)' = Holders(j)
  BY DEF RemoveStopped, Remove, Return, AfterReap, Holders
<1>1. IdleOwesNothing'
  BY DEF RemoveStopped, Remove, Return, AfterReap, IdleOwesNothing
<1>2. StartingAccounting'
  <2>1. StartingCallers' = StartingCallers
    BY DEF RemoveStopped, Remove, Return, AfterReap, StartingCallers
  <2>2. Promised' = Promised
    BY PromisedSame DEF RemoveStopped, Remove, Return, AfterReap
  <2> QED
    BY <2>1, <2>2 DEF RemoveStopped, StartingAccounting
<1>3. BusyAccounting'
  BY <1>h DEF RemoveStopped, Remove, Return, AfterReap, BusyAccounting
<1>4. HeldExists'
  BY DEF RemoveStopped, Remove, Return, AfterReap, HeldExists
<1>5. FreeIsUnheld'
  BY <1>h DEF RemoveStopped, Remove, Return, AfterReap, FreeIsUnheld, ToldIdle
<1>6. CarriedIsReady'
  BY DEF RemoveStopped, Remove, Return, AfterReap, CarriedIsReady, Ownership,
     Unshared, Carrying, Private
<1>7. OutsideIsClosed'
  <2>1. inst[p] \notin live
    BY DEF RemoveStopped, RemovedIsDead
  <2>2. \A q \in Starters : pc'[q] = pc[q] /\ inst'[q] = inst[q]
    BY DEF RemoveStopped, Return
  <2> QED
    BY <2>1, <2>2 DEF RemoveStopped, Remove, OutsideIsClosed, Routable
<1>8. LeftStaysOut'
  BY DEF RemoveStopped, Remove, Return, AfterReap, LeftStaysOut, Left
<1>9. DeferredDrains'
  BY DEF RemoveStopped, Remove, Return, AfterReap, DeferredDrains
<1>10. OpenDrainsListed'
  BY DEF RemoveStopped, Remove, Return, AfterReap, OpenDrainsListed,
     DeferredDrains
<1>11. RestingStopper'
  BY DEF RemoveStopped, Remove, Return, AfterReap, RestingStopper
<1>12. RemovedIsDead'
  BY DEF RemoveStopped, Remove, Return, AfterReap, RemovedIsDead
<1>13. LiveIsOwned'
  <2>1. inst[p] \notin live
    BY DEF RemoveStopped, RemovedIsDead
  <2>2. \A q \in Starters : pc'[q] = pc[q] /\ inst'[q] = inst[q]
    BY DEF RemoveStopped, Return
  <2> QED
    BY <2>1, <2>2 DEF RemoveStopped, Remove, LiveIsOwned, InHand
<1>14. NoLostDrain'
  BY DEF RemoveStopped, Remove, Return, AfterReap, NoLostDrain,
     OpenDrainsListed
<1> QED
  BY <1>1, <1>2, <1>3, <1>4, <1>5, <1>6, <1>7, <1>8,
     <1>9, <1>10, <1>11, <1>12, <1>13, <1>14

\* ExpireBindings preserves it.
LEMMA ExpireBindingsLease ==
  ASSUME BaseInv, BaseInv', LeaseInv, NEW r \in Reapers, ExpireBindings(r)
  PROVE  LeaseInv'
<1> USE ConstantsAssumption, ProcsAreDistinct DEF BaseInv, TypeOK, LeaseInv,
           Leasing, Leaving, Accounting, Custody
<1>h. \A j \in Instances : Holders(j)' = Holders(j)
  BY DEF ExpireBindings, Holders
<1>1. IdleOwesNothing'
  BY DEF ExpireBindings, IdleOwesNothing
<1>2. StartingAccounting'
  <2>1. StartingCallers' = StartingCallers
    BY DEF ExpireBindings, StartingCallers
  <2>2. Promised' = Promised
    BY PromisedSame DEF ExpireBindings
  <2> QED
    BY <2>1, <2>2 DEF ExpireBindings, StartingAccounting
<1>3. BusyAccounting'
  BY <1>h DEF ExpireBindings, BusyAccounting
<1>4. HeldExists'
  BY DEF ExpireBindings, HeldExists
<1>5. FreeIsUnheld'
  BY <1>h DEF ExpireBindings, FreeIsUnheld, ToldIdle
<1>6. CarriedIsReady'
  BY DEF ExpireBindings, CarriedIsReady, Ownership, Unshared, Carrying, Private
<1>7. OutsideIsClosed'
  BY DEF ExpireBindings, OutsideIsClosed, Carrying, Routable
<1>8. LeftStaysOut'
  BY DEF ExpireBindings, LeftStaysOut, Left
<1>9. DeferredDrains'
  BY DEF ExpireBindings, DeferredDrains
<1>10. OpenDrainsListed'
  BY DEF ExpireBindings, OpenDrainsListed, DeferredDrains
<1>11. RestingStopper'
  BY DEF ExpireBindings, RestingStopper
<1>12. RemovedIsDead'
  BY DEF ExpireBindings, RemovedIsDead
<1>13. LiveIsOwned'
  BY DEF ExpireBindings, LiveIsOwned, InHand
<1>14. NoLostDrain'
  BY DEF ExpireBindings, NoLostDrain, OpenDrainsListed
<1> QED
  BY <1>1, <1>2, <1>3, <1>4, <1>5, <1>6, <1>7, <1>8,
     <1>9, <1>10, <1>11, <1>12, <1>13, <1>14

\* ProbeInstances preserves it.
LEMMA ProbeInstancesLease ==
  ASSUME BaseInv, BaseInv', LeaseInv, NEW p \in Probers, ProbeInstances(p)
  PROVE  LeaseInv'
<1> USE ConstantsAssumption, ProcsAreDistinct DEF BaseInv, TypeOK, LeaseInv,
           Leasing, Leaving, Accounting, Custody
<1>h. \A j \in Instances : Holders(j)' = Holders(j)
  BY DEF ProbeInstances, Holders
<1>1. IdleOwesNothing'
  BY DEF ProbeInstances, IdleOwesNothing
<1>2. StartingAccounting'
  <2>1. StartingCallers' = StartingCallers
    BY DEF ProbeInstances, StartingCallers
  <2>2. Promised' = Promised
    BY PromisedSame DEF ProbeInstances
  <2> QED
    BY <2>1, <2>2 DEF ProbeInstances, StartingAccounting
<1>3. BusyAccounting'
  BY <1>h DEF ProbeInstances, BusyAccounting
<1>4. HeldExists'
  BY DEF ProbeInstances, HeldExists
<1>5. FreeIsUnheld'
  BY <1>h DEF ProbeInstances, FreeIsUnheld, ToldIdle
<1>6. CarriedIsReady'
  BY DEF ProbeInstances, CarriedIsReady, Ownership, Unshared, Carrying, Private
<1>7. OutsideIsClosed'
  BY DEF ProbeInstances, OutsideIsClosed, Carrying, Routable
<1>8. LeftStaysOut'
  BY DEF ProbeInstances, LeftStaysOut, Left
<1>9. DeferredDrains'
  BY DEF ProbeInstances, DeferredDrains
<1>10. OpenDrainsListed'
  BY DEF ProbeInstances, OpenDrainsListed, DeferredDrains
<1>11. RestingStopper'
  BY DEF ProbeInstances, RestingStopper
<1>12. RemovedIsDead'
  BY DEF ProbeInstances, RemovedIsDead
<1>13. LiveIsOwned'
  BY DEF ProbeInstances, LiveIsOwned, InHand
<1>14. NoLostDrain'
  BY DEF ProbeInstances, NoLostDrain, OpenDrainsListed
<1> QED
  BY <1>1, <1>2, <1>3, <1>4, <1>5, <1>6, <1>7, <1>8,
     <1>9, <1>10, <1>11, <1>12, <1>13, <1>14

\* Ping preserves it.
LEMMA PingLease ==
  ASSUME BaseInv, BaseInv', LeaseInv, NEW p \in Probers, Ping(p)
  PROVE  LeaseInv'
<1> USE ConstantsAssumption, ProcsAreDistinct DEF BaseInv, TypeOK, LeaseInv,
           Leasing, Leaving, Accounting, Custody
<1>h. \A j \in Instances : Holders(j)' = Holders(j)
  BY DEF Ping, Holders
<1>1. IdleOwesNothing'
  BY DEF Ping, IdleOwesNothing
<1>2. StartingAccounting'
  <2>1. StartingCallers' = StartingCallers
    BY DEF Ping, StartingCallers
  <2>2. Promised' = Promised
    BY PromisedSame DEF Ping
  <2> QED
    BY <2>1, <2>2 DEF Ping, StartingAccounting
<1>3. BusyAccounting'
  BY <1>h DEF Ping, BusyAccounting
<1>4. HeldExists'
  BY DEF Ping, HeldExists
<1>5. FreeIsUnheld'
  BY <1>h DEF Ping, FreeIsUnheld, ToldIdle
<1>6. CarriedIsReady'
  BY DEF Ping, CarriedIsReady, Ownership, Unshared, Carrying, Private
<1>7. OutsideIsClosed'
  BY DEF Ping, OutsideIsClosed, Carrying, Routable
<1>8. LeftStaysOut'
  BY DEF Ping, LeftStaysOut, Left
<1>9. DeferredDrains'
  BY DEF Ping, DeferredDrains
<1>10. OpenDrainsListed'
  BY DEF Ping, OpenDrainsListed, DeferredDrains
<1>11. RestingStopper'
  BY DEF Ping, RestingStopper
<1>12. RemovedIsDead'
  BY DEF Ping, RemovedIsDead
<1>13. LiveIsOwned'
  BY DEF Ping, LiveIsOwned, InHand
<1>14. NoLostDrain'
  BY DEF Ping, NoLostDrain, OpenDrainsListed
<1> QED
  BY <1>1, <1>2, <1>3, <1>4, <1>5, <1>6, <1>7, <1>8,
     <1>9, <1>10, <1>11, <1>12, <1>13, <1>14

\* MarkFailed preserves it.
LEMMA MarkFailedLease ==
  ASSUME BaseInv, BaseInv', LeaseInv, NEW p \in Probers, MarkFailed(p)
  PROVE  LeaseInv'
<1> USE ConstantsAssumption, ProcsAreDistinct DEF BaseInv, TypeOK, LeaseInv,
           Leasing, Leaving, Accounting, Custody
<1>h. \A j \in Instances : Holders(j)' = Holders(j)
  BY DEF MarkFailed, FailedMark, Holders
<1>1. IdleOwesNothing'
  BY DEF MarkFailed, FailedMark, IdleOwesNothing
<1>2. StartingAccounting'
  <2>1. StartingCallers' = StartingCallers
    BY DEF MarkFailed, FailedMark, StartingCallers
  <2>2. Promised' = Promised
    BY PromisedSame DEF MarkFailed, FailedMark
  <2> QED
    BY <2>1, <2>2 DEF MarkFailed, StartingAccounting
<1>3. BusyAccounting'
  BY <1>h DEF MarkFailed, FailedMark, BusyAccounting
<1>4. HeldExists'
  BY DEF MarkFailed, FailedMark, HeldExists
<1>5. FreeIsUnheld'
  BY <1>h DEF MarkFailed, FailedMark, FreeIsUnheld, ToldIdle
<1>6. CarriedIsReady'
  BY DEF MarkFailed, FailedMark, CarriedIsReady, Ownership, Unshared, Carrying,
     Private
<1>7. OutsideIsClosed'
  BY DEF MarkFailed, FailedMark, OutsideIsClosed, Carrying, Routable
<1>8. LeftStaysOut'
  BY DEF MarkFailed, FailedMark, LeftStaysOut, Left
<1>9. DeferredDrains'
  BY DEF MarkFailed, FailedMark, DeferredDrains
<1>10. OpenDrainsListed'
  BY DEF MarkFailed, FailedMark, OpenDrainsListed, DeferredDrains
<1>11. RestingStopper'
  BY DEF MarkFailed, FailedMark, RestingStopper
<1>12. RemovedIsDead'
  BY DEF MarkFailed, FailedMark, RemovedIsDead
<1>13. LiveIsOwned'
  BY DEF MarkFailed, FailedMark, LiveIsOwned, InHand
<1>14. NoLostDrain'
  BY DEF MarkFailed, FailedMark, NoLostDrain, OpenDrainsListed
<1> QED
  BY <1>1, <1>2, <1>3, <1>4, <1>5, <1>6, <1>7, <1>8,
     <1>9, <1>10, <1>11, <1>12, <1>13, <1>14

\* StopFailed preserves it.
LEMMA StopFailedLease ==
  ASSUME BaseInv, BaseInv', LeaseInv, NEW p \in Probers, StopFailed(p)
  PROVE  LeaseInv'
<1> USE ConstantsAssumption, ProcsAreDistinct DEF BaseInv, TypeOK, LeaseInv,
           Leasing, Leaving, Accounting, Custody
<1>h. \A j \in Instances : Holders(j)' = Holders(j)
  BY DEF StopFailed, StopInstance, Holders
<1>1. IdleOwesNothing'
  BY DEF StopFailed, StopInstance, IdleOwesNothing
<1>2. StartingAccounting'
  <2>1. StartingCallers' = StartingCallers
    BY DEF StopFailed, StopInstance, StartingCallers
  <2>2. Promised' = Promised
    BY PromisedSame DEF StopFailed, StopInstance
  <2> QED
    BY <2>1, <2>2 DEF StopFailed, StartingAccounting
<1>3. BusyAccounting'
  BY <1>h DEF StopFailed, StopInstance, BusyAccounting
<1>4. HeldExists'
  BY DEF StopFailed, StopInstance, HeldExists
<1>5. FreeIsUnheld'
  BY <1>h DEF StopFailed, StopInstance, FreeIsUnheld, ToldIdle
<1>6. CarriedIsReady'
  BY DEF StopFailed, StopInstance, CarriedIsReady, Ownership, Unshared,
     Carrying, Private
<1>7. OutsideIsClosed'
  BY DEF StopFailed, StopInstance, OutsideIsClosed, Carrying, Routable
<1>8. LeftStaysOut'
  BY DEF StopFailed, StopInstance, LeftStaysOut, Left
<1>9. DeferredDrains'
  BY DEF StopFailed, StopInstance, DeferredDrains
<1>10. OpenDrainsListed'
  BY DEF StopFailed, StopInstance, OpenDrainsListed, DeferredDrains
<1>11. RestingStopper'
  BY DEF StopFailed, StopInstance, RestingStopper
<1>12. RemovedIsDead'
  BY DEF StopFailed, StopInstance, RemovedIsDead
<1>13. LiveIsOwned'
  BY DEF StopFailed, StopInstance, LiveIsOwned, InHand
<1>14. NoLostDrain'
  BY DEF StopFailed, StopInstance, NoLostDrain, OpenDrainsListed
<1> QED
  BY <1>1, <1>2, <1>3, <1>4, <1>5, <1>6, <1>7, <1>8,
     <1>9, <1>10, <1>11, <1>12, <1>13, <1>14
--------------------------------------------------------------------------------
(* Every step.                                                             *)

\* The steps of a caller preserve it.
LEMMA CallerLease ==
  ASSUME BaseInv, BaseInv', LeaseInv, NEW c \in Callers, CallerStep(c)
  PROVE  LeaseInv'
BY AcquireHitLease, AcquireStickyBusyLease, AcquireWaitLease, AcquireStartLease,
   AcquireReadyLease, WaitCancelledLease, StartSucceedsLease, StartFailsLease,
   StartPanicsLease, StartFailureSignalledLease, AcquirePublishLease,
   AcquireRejectLease, StopSupersededLease, StopDuplicateLease, ReleaseLease,
   CloseDrainLease DEF CallerStep

\* The steps of a setter preserve it.
LEMMA SetterLease ==
  ASSUME BaseInv, BaseInv', LeaseInv, NEW s \in Setters, SetterStep(s)
  PROVE  LeaseInv'
BY SetMinReadyLease, SetterStartLease, SetterStartSucceedsLease,
   SetterStartFailsLease, SetterStartPanicsLease, SetterPublishLease,
   SetterRejectLease, SetterDiscardLease DEF SetterStep

\* The steps of the others preserve it.
LEMMA StopperLease ==
  ASSUME BaseInv, BaseInv', LeaseInv, NEW t \in Stoppers, StopperStep(t)
  PROVE  LeaseInv'
BY StopSpecLease, StopImmediateLease, OpenDrainLease, CheckDrainLease,
   StopSpecReturnsLease DEF StopperStep

\* The steps of a drain keep the invariant.
LEMMA DrainLease ==
  ASSUME BaseInv, BaseInv', LeaseInv, NEW i \in Instances, DrainStep(i)
  PROVE  LeaseInv'
BY DrainWakesLease, DrainStopsLease DEF DrainStep

\* The steps of the idle manager keep the invariant.
LEMMA ReaperLease ==
  ASSUME BaseInv, BaseInv', LeaseInv, NEW r \in Reapers, ReaperStep(r)
  PROVE  LeaseInv'
BY ReapIdleLease, ReapStopLease, RemoveStoppedLease, ExpireBindingsLease
   DEF ReaperStep

\* The steps of the health prober keep the invariant.
LEMMA ProberLease ==
  ASSUME BaseInv, BaseInv', LeaseInv, NEW p \in Probers, ProberStep(p)
  PROVE  LeaseInv'
BY ProbeInstancesLease, PingLease, MarkFailedLease, StopFailedLease,
   RemoveStoppedLease DEF ProberStep

\* The invariant is about the variables only.
LEMMA LeaseInvStutter ==
  ASSUME LeaseInv, UNCHANGED vars
  PROVE  LeaseInv'
<1>1. \A i : Holders(i)' = Holders(i)
  BY DEF vars, Holders
<1>2. StartingCallers' = StartingCallers /\ Promised' = Promised
  BY PromisedSame DEF vars, StartingCallers
<1>3. IdleOwesNothing' /\ Accounting'
  BY <1>1, <1>2 DEF vars, LeaseInv, IdleOwesNothing, Accounting, BusyAccounting,
     StartingAccounting
<1>4. Leasing'
  BY <1>1 DEF vars, LeaseInv, Leasing, HeldExists, FreeIsUnheld, ToldIdle,
     CarriedIsReady, OutsideIsClosed, Routable
<1>5. Leaving'
  BY DEF vars, LeaseInv, Leaving, LeftStaysOut, Left, DeferredDrains,
     OpenDrainsListed, RestingStopper, RemovedIsDead
<1>6. Custody'
  BY DEF vars, LeaseInv, Custody, LiveIsOwned, InHand, NoLostDrain
<1> QED
  BY <1>3, <1>4, <1>5, <1>6 DEF LeaseInv

\* The empty pool satisfies it: no lease, no reservation, no drain.
LEMMA LeaseInvInit == Init => LeaseInv
<1> SUFFICES ASSUME Init PROVE LeaseInv
  OBVIOUS
<1>1. \A i : Holders(i) = {}
  BY DEF Init, Holders
<1>2. StartingCallers = {} /\ Cardinality(StartingCallers) = 0
  <2>1. StartingCallers = {}
    BY DEF Init, StartingCallers
  <2> QED
    BY <2>1, FS_EmptySet
<1>3. Promised = 0
  <2>1. /\ IsFiniteSet(Setters) /\ todo \in [Setters -> Int]
        /\ \A s \in Setters : todo[s] = 0
    BY ConstantsAssumption DEF Init
  <2> QED
    BY <2>1, ZeroSum DEF Promised
<1>4. IdleOwesNothing /\ Accounting
  BY <1>1, <1>2, <1>3 DEF Init, IdleOwesNothing, Accounting, BusyAccounting,
     StartingAccounting
<1>5. Leasing
  BY <1>1 DEF Init, Leasing, HeldExists, FreeIsUnheld, CarriedIsReady,
     OutsideIsClosed
<1>6. Leaving
  BY DEF Init, Leaving, LeftStaysOut, Left, DeferredDrains, OpenDrainsListed,
     RestingStopper, RemovedIsDead
<1>7. Custody
  BY DEF Init, Custody, LiveIsOwned, NoLostDrain
<1> QED
  BY <1>4, <1>5, <1>6, <1>7 DEF LeaseInv

\* Every step of every goroutine preserves the whole invariant.
LEMMA IInvStep == IInv /\ [Next]_vars => IInv'
<1> SUFFICES ASSUME BaseInv, LeaseInv, [Next]_vars PROVE BaseInv' /\ LeaseInv'
  BY DEF IInv
<1>1. BaseInv'
  BY BaseInvStep
<1>2. CASE Next
  BY <1>1, <1>2, CallerLease, SetterLease, StopperLease, DrainLease, ReaperLease,
     ProberLease DEF Next
<1>3. CASE UNCHANGED vars
  <2>1. LeaseInv'
    BY <1>3, LeaseInvStutter
  <2> QED
    BY <1>1, <2>1
<1> QED
  BY <1>1, <1>2, <1>3

--------------------------------------------------------------------------------
(* The theorems.                                                           *)

\* IInv holds in every reachable state: who owns a launched instance, that one
\* somebody will stop is neither leased again nor held by a caller (but for failed
\* pings and expired drains), and that leases and reservations are counted right.
THEOREM LeaseInvariance == Spec => []IInv
<1>1. Init => IInv
  BY BaseInvInit, LeaseInvInit DEF IInv
<1> QED
  BY <1>1, IInvStep, PTL DEF Spec

\* Every lease and every reservation is counted once and given back once, however
\* starts, panics, stops and drains interleave (acquire.go:84-106, lifecycle.go:31-77).
THEOREM AccountsBalance == Spec => []Accounting
<1>1. IInv => Accounting
  BY DEF IInv, LeaseInv
<1> QED
  BY <1>1, LeaseInvariance, PTL

\* No server process is without an owner, and no drain that ended goes unnoticed
\* (drain.go:12-60 against Release, acquire.go:203-260).
THEOREM ProcessesAreOwned == Spec => []Custody
<1>1. IInv => Custody
  BY DEF IInv, LeaseInv
<1> QED
  BY <1>1, LeaseInvariance, PTL

\* What an action may stop.
LEMMA StopsOnly ==
  ASSUME NEW j \in live \ live', NEW i, StopInstance(i)
  PROVE  j = i
BY DEF StopInstance

\* A leased instance is never stopped, but after a failed ping or an expired drain.
LEMMA StoppedIsUnheld ==
  ASSUME IInv, Next, NEW i \in live \ live'
  PROVE  \/ Holders(i) = {}
         \/ drain[i] = "timedOut"
         \/ \E p \in Probers : pc[p] = "stopping" /\ inst[p] = i
<1> USE ConstantsAssumption, ProcsAreDistinct
<1>0. i \in Instances
  BY DEF IInv, BaseInv, TypeOK
<1>1. ASSUME NEW c \in Callers, CallerStep(c)
      PROVE  Holders(i) = {}
  <2>1. pc[c] \in {"superseded", "duplicate"} /\ i = inst[c]
    BY <1>1 DEF CallerStep, AcquireHit, AcquireStickyBusy, AcquireWait,
       AcquireStart, AcquireReady, WaitCancelled, StartSucceeds, Launch, StartFails,
       StartPanics, StartFailureSignalled, AcquirePublish, AcquireReject,
       StopSuperseded, StopDuplicate, StopInstance, Release, CloseDrain
  <2>2. Private(c, i)
    BY <2>1 DEF IInv, BaseInv, Ownership, Unshared, Carrying
  <2> QED
    BY <2>1, <2>2 DEF Private, Holders
<1>2. ASSUME NEW s \in Setters, SetterStep(s)
      PROVE  Holders(i) = {}
  <2>1. pc[s] = "discarding" /\ i = inst[s]
    BY <1>2 DEF SetterStep, SetMinReady, SetterStart, SetterStartSucceeds, Launch,
       SetterStartFails, SetterStartPanics, SetterPublish, SetterReject,
       SetterDiscard, StopInstance
  <2>2. Private(s, i)
    BY <2>1 DEF IInv, BaseInv, Ownership, Unshared, Carrying
  <2> QED
    BY <2>1, <2>2 DEF Private, Holders
<1>3. ASSUME NEW t \in Stoppers, StopperStep(t)
      PROVE  Holders(i) = {}
  <2>1. i \in immediate[t]
    BY <1>3 DEF StopperStep, StopSpec, StopImmediate, StopInstance, OpenDrain,
       CheckDrain, StopSpecReturns
  <2> QED
    BY <1>0, <2>1 DEF IInv, LeaseInv, Leasing, FreeIsUnheld, ToldIdle
<1>4. ASSUME NEW j \in Instances, DrainStep(j)
      PROVE  Holders(i) = {} \/ drain[i] = "timedOut"
  <2>1. i = j /\ drain[j] \in {"drained", "timedOut"}
    BY <1>4 DEF DrainStep, DrainWakes, DrainStops, StopInstance
  <2> QED
    BY <1>0, <2>1 DEF IInv, LeaseInv, Leasing, FreeIsUnheld, ToldIdle
<1>5. ASSUME NEW r \in Reapers, ReaperStep(r)
      PROVE  Holders(i) = {}
  <2>1. i \in candidates[r]
    BY <1>5 DEF ReaperStep, ReapIdle, ReapStop, StopInstance, RemoveStopped,
       ExpireBindings
  <2> QED
    BY <1>0, <2>1 DEF IInv, LeaseInv, Leasing, FreeIsUnheld, ToldIdle
<1>6. ASSUME NEW p \in Probers, ProberStep(p)
      PROVE  pc[p] = "stopping" /\ inst[p] = i
  BY <1>6 DEF ProberStep, ProbeInstances, Ping, MarkFailed, StopFailed,
     StopInstance, RemoveStopped
<1> QED
  BY <1>1, <1>2, <1>3, <1>4, <1>5, <1>6 DEF Next

\* The idle manager, StopSpec and a late start never end a lease under its caller;
\* only a failed ping and an expired drain do (drain.go:35, maintenance.go:96-160).
THEOREM LeasesAreNotCut == Spec => NoStopWhileLeased
<1>1. IInv /\ [Next]_vars =>
        [\A i \in live \ live' :
           \/ Holders(i) = {}
           \/ drain[i] = "timedOut"
           \/ \E p \in Probers : pc[p] = "stopping" /\ inst[p] = i]_vars
  <2> SUFFICES ASSUME IInv, Next, NEW i \in live \ live'
               PROVE  \/ Holders(i) = {}
                      \/ drain[i] = "timedOut"
                      \/ \E p \in Probers : pc[p] = "stopping" /\ inst[p] = i
    OBVIOUS
  <2> QED
    BY StoppedIsUnheld
<1> QED
  BY <1>1, LeaseInvariance, PTL DEF NoStopWhileLeased, Spec

--------------------------------------------------------------------------------
(* Refinement: what a step of the pool is to its callers.  Each action of     *)
(* SchedulerPool is an action of the lessor or a stutter, one lemma per kind. *)

USE DEF poolVars, instVars, stopVars, maintVars, endVars, Procs, Starters

LeaseOf(c) == IF pc[c] = "holding" THEN inst[c] ELSE NoInst

\* The abstract holders of an instance are the concrete ones.
LEMMA HoldingIsHolders ==
  ASSUME NEW i \in Instances
  PROVE  Lessor!Holding(i) = Holders(i)
BY ConstantsAssumption DEF Lessor!Holding, Holders

\* Both modules count with the same Cardinality.
LEMMA SameCardinality ==
  ASSUME NEW S
  PROVE  Lessor!Cardinality(S) = Cardinality(S)
BY DEF Lessor!Cardinality, Cardinality

\* The abstract actions, instance by instance.
LEMMA AbstractStutter ==
  ASSUME \A j \in Instances : PhaseOf(j)' = PhaseOf(j),
         \A d \in Callers : LeaseOf(d)' = LeaseOf(d)
  PROVE  UNCHANGED Lessor!leaseVars
BY DEF Lessor!leaseVars, LeaseOf

\* The abstract Launch: one phase goes from off to up.
LEMMA AbstractLaunch ==
  ASSUME NEW i \in Instances, PhaseOf(i) = "off", PhaseOf(i)' = "up",
         Holders(i) = {},
         \A j \in Instances \ {i} : PhaseOf(j)' = PhaseOf(j),
         \A d \in Callers : LeaseOf(d)' = LeaseOf(d)
  PROVE  Lessor!Next
<1>1. Lessor!Launch(i)
  BY HoldingIsHolders DEF Lessor!Launch, LeaseOf
<1> QED
  BY <1>1 DEF Lessor!Next

\* The abstract Open: one phase goes from up to open.
LEMMA AbstractOpen ==
  ASSUME NEW i \in Instances, PhaseOf(i) = "up", PhaseOf(i)' = "open",
         \A j \in Instances \ {i} : PhaseOf(j)' = PhaseOf(j),
         \A d \in Callers : LeaseOf(d)' = LeaseOf(d)
  PROVE  Lessor!Next
<1>1. Lessor!Open(i)
  BY DEF Lessor!Open, LeaseOf
<1> QED
  BY <1>1 DEF Lessor!Next

\* The abstract OpenFor: an instance opens and is leased in one step.
LEMMA AbstractOpenFor ==
  ASSUME NEW i \in Instances, NEW c \in Callers,
         PhaseOf(i) = "up", PhaseOf(i)' = "open", Holders(i) = {},
         LeaseOf(c) = NoInst, LeaseOf(c)' = i,
         \A j \in Instances \ {i} : PhaseOf(j)' = PhaseOf(j),
         \A d \in Callers \ {c} : LeaseOf(d)' = LeaseOf(d)
  PROVE  Lessor!Next
<1>1. Lessor!OpenFor(c, i)
  BY HoldingIsHolders DEF Lessor!OpenFor, LeaseOf
<1> QED
  BY <1>1 DEF Lessor!Next

\* The abstract Grant: one caller gets an open instance.
LEMMA AbstractGrant ==
  ASSUME NEW i \in Instances, NEW c \in Callers,
         PhaseOf(i) = "open", Cardinality(Holders(i)) < MaxConcurrent,
         LeaseOf(c) = NoInst, LeaseOf(c)' = i,
         \A j \in Instances : PhaseOf(j)' = PhaseOf(j),
         \A d \in Callers \ {c} : LeaseOf(d)' = LeaseOf(d)
  PROVE  Lessor!Next
<1>1. Lessor!Cardinality(Lessor!Holding(i)) < MaxConcurrent
  BY HoldingIsHolders, SameCardinality
<1>2. Lessor!Grant(c, i)
  BY <1>1 DEF Lessor!Grant, LeaseOf
<1> QED
  BY <1>2 DEF Lessor!Next

\* The abstract GiveBack: one caller lets its instance go.
LEMMA AbstractGiveBack ==
  ASSUME NEW c \in Callers, LeaseOf(c) # NoInst, LeaseOf(c)' = NoInst,
         \A j \in Instances : PhaseOf(j)' = PhaseOf(j),
         \A d \in Callers \ {c} : LeaseOf(d)' = LeaseOf(d)
  PROVE  Lessor!Next
<1>1. Lessor!GiveBack(c)
  BY DEF Lessor!GiveBack, LeaseOf
<1> QED
  BY <1>1 DEF Lessor!Next

\* The abstract Close: an open instance takes no new lease.
LEMMA AbstractClose ==
  ASSUME NEW S \in SUBSET Instances,
         \A j \in S : PhaseOf(j) = "open" /\ PhaseOf(j)' = "closed",
         \A j \in Instances \ S : PhaseOf(j)' = PhaseOf(j),
         \A d \in Callers : LeaseOf(d)' = LeaseOf(d)
  PROVE  Lessor!Next
<1>1. Lessor!Close(S)
  BY DEF Lessor!Close, LeaseOf
<1> QED
  BY <1>1 DEF Lessor!Next

\* The abstract Stop: a phase goes back to off.
LEMMA AbstractStop ==
  ASSUME NEW i \in Instances, PhaseOf(i) \in {"up", "closed"}, PhaseOf(i)' = "off",
         \A j \in Instances \ {i} : PhaseOf(j)' = PhaseOf(j),
         \A d \in Callers : LeaseOf(d)' = LeaseOf(d)
  PROVE  Lessor!Next
<1>1. Lessor!Stop(i)
  BY DEF Lessor!Stop, LeaseOf
<1> QED
  BY <1>1 DEF Lessor!Next

\* A step that stops no instance, marks none, moves none and touches no lease.
LEMMA QuietStep ==
  ASSUME UNCHANGED <<instances, istate, live>>,
         \A d \in Callers : LeaseOf(d)' = LeaseOf(d)
  PROVE  UNCHANGED Lessor!leaseVars
<1>1. \A j \in Instances : PhaseOf(j)' = PhaseOf(j)
  BY DEF PhaseOf, Routable
<1> QED
  BY <1>1, AbstractStutter

\* A stop of an instance that cannot be leased.
LEMMA StopStep ==
  ASSUME BaseInv, NEW i, StopInstance(i), instances' = instances,
         ~(i \in instances /\ Routable(i)),
         \A d \in Callers : LeaseOf(d)' = LeaseOf(d)
  PROVE  Lessor!Next \/ UNCHANGED Lessor!leaseVars
<1>1. CASE i \in live
  <2>1. i \in Instances
    BY <1>1 DEF BaseInv, TypeOK
  <2>2. PhaseOf(i) \in {"up", "closed"} /\ PhaseOf(i)' = "off"
    BY <1>1 DEF PhaseOf, StopInstance
  <2>3. \A j \in Instances \ {i} : PhaseOf(j)' = PhaseOf(j)
    BY DEF PhaseOf, StopInstance, Routable, BaseInv, TypeOK
  <2> QED
    BY <2>1, <2>2, <2>3, AbstractStop
<1>2. CASE i \notin live
  BY <1>2, QuietStep DEF StopInstance
<1> QED
  BY <1>1, <1>2

\* A start that succeeded.
LEMMA LaunchStep ==
  ASSUME BaseInv, NEW p \in Starters, pc[p] = "starting", pc'[p] = "started",
         \A q \in Procs \ {p} : pc'[q] = pc[q],
         NEW i \in Instances, Launch(p, i), instances' = instances
  PROVE  Lessor!Next
<1>1. PhaseOf(i) = "off" /\ PhaseOf(i)' = "up"
  BY DEF Launch, Fresh, PhaseOf, Routable, BaseInv, TypeOK
<1>2. \A j \in Instances \ {i} : PhaseOf(j)' = PhaseOf(j)
  BY DEF Launch, PhaseOf, Routable, BaseInv, TypeOK
<1>3. Holders(i) = {}
  BY DEF Launch, Fresh, Holders
<1>4. \A d \in Callers : LeaseOf(d)' = LeaseOf(d)
  BY DEF LeaseOf, Launch, BaseInv, TypeOK
<1> QED
  BY <1>1, <1>2, <1>3, <1>4, AbstractLaunch

\* Acquire of an idle or routed instance grants it.
LEMMA AcquireHitRefines ==
  ASSUME IInv, NEW c \in Callers, NEW k \in Keys, AcquireHit(c, k)
  PROVE  Lessor!Next
<1>1. PICK i \in Leasable(k) : Lease(i) /\ inst' = [inst EXCEPT ![c] = i]
  BY DEF AcquireHit
<1>2. i \in instances /\ i \in Instances /\ Routable(i) /\ i \in live
  <2>1. i \in instances /\ i \in Instances /\ Routable(i)
    BY LeasableInPool DEF IInv, BaseInv, Ownership
  <2> QED
    BY <2>1 DEF IInv, BaseInv, Closure, RoutableIsLive
<1>3. Cardinality(Holders(i)) < MaxConcurrent
  <2>1. HasRoom(i)
    BY DEF Leasable, LeastLoaded, StickyBusy
  <2> QED
    BY <1>2, <2>1 DEF HasRoom, IInv, LeaseInv, Accounting, BusyAccounting
<1>4. PhaseOf(i) = "open"
  BY <1>2 DEF PhaseOf
<1>5. \A j \in Instances : PhaseOf(j)' = PhaseOf(j)
  BY <1>1, <1>2 DEF AcquireHit, Lease, PhaseOf, Routable, IInv, BaseInv, TypeOK
<1>6. LeaseOf(c) = NoInst /\ LeaseOf(c)' = i
  BY <1>1 DEF AcquireHit, AtLoopHead, LeaseOf, IInv, BaseInv, TypeOK
<1>7. \A d \in Callers \ {c} : LeaseOf(d)' = LeaseOf(d)
  BY <1>1 DEF AcquireHit, LeaseOf, IInv, BaseInv, TypeOK
<1> QED
  BY <1>2, <1>3, <1>4, <1>5, <1>6, <1>7, AbstractGrant

\* An Acquire that finds a ready instance grants it, or has changed nothing.
LEMMA AcquireReadyRefines ==
  ASSUME IInv, NEW c \in Callers, NEW k \in Keys, AcquireReady(c, k)
  PROVE  Lessor!Next \/ UNCHANGED Lessor!leaseVars
<1>1. CASE AcquireHit(c, k)
  BY <1>1, AcquireHitRefines
<1>2. CASE UNCHANGED <<istate, busy, inst, pc, key>>
  <2>1. UNCHANGED <<instances, istate, live>>
    BY <1>2 DEF AcquireReady
  <2>2. \A d \in Callers : LeaseOf(d)' = LeaseOf(d)
    BY <1>2 DEF LeaseOf
  <2> QED
    BY <2>1, <2>2, QuietStep
<1> QED
  BY <1>1, <1>2 DEF AcquireReady, AcquireHit, AtLoopHead

\* A caller that publishes the instance it started opens it for itself.
LEMMA AcquirePublishRefines ==
  ASSUME IInv, NEW c \in Callers, AcquirePublish(c)
  PROVE  Lessor!Next
<1>1. PICK i \in Instances : i = inst[c]
  BY DEF AcquirePublish, IInv, BaseInv, Ownership, Unshared, Carrying
<1>2. /\ pc[c] = "started" /\ pc'[c] = "holding" /\ inst'[c] = i
      /\ i \in live /\ Private(c, i) /\ istate[i] = "ready"
  BY <1>1, SignalKeeps DEF AcquirePublish, IInv, BaseInv, TypeOK, Ownership,
     CarriedIsLive, Unshared, Carrying, LeaseInv, Leasing, CarriedIsReady
<1>3. PhaseOf(i) = "up" /\ Holders(i) = {}
  BY <1>1, <1>2 DEF PhaseOf, Routable, Private, Holders
<1>4. PhaseOf(i)' = "open"
  BY <1>1, <1>2 DEF AcquirePublish, Lease, PhaseOf, Routable, IInv, BaseInv, TypeOK
<1>5. \A j \in Instances \ {i} : PhaseOf(j)' = PhaseOf(j)
  BY <1>1 DEF AcquirePublish, Lease, PhaseOf, Routable, IInv, BaseInv, TypeOK
<1>6. LeaseOf(c) = NoInst /\ LeaseOf(c)' = i
  BY <1>2 DEF LeaseOf
<1>7. \A d \in Callers \ {c} : LeaseOf(d)' = LeaseOf(d)
  BY SignalKeeps DEF AcquirePublish, LeaseOf, IInv, BaseInv
<1> QED
  BY <1>3, <1>4, <1>5, <1>6, <1>7, AbstractOpenFor

\* A start for the minimum opens its instance to all.
LEMMA SetterPublishRefines ==
  ASSUME IInv, NEW s \in Setters, SetterPublish(s)
  PROVE  Lessor!Next
<1>1. PICK i \in Instances : i = inst[s]
  BY DEF SetterPublish, IInv, BaseInv, Ownership, Unshared, Carrying
<1>2. i \in live /\ i \notin instances /\ istate[i] = "ready"
  BY <1>1 DEF SetterPublish, IInv, BaseInv, Ownership, CarriedIsLive, Unshared,
     Carrying, Private, LeaseInv, Leasing, CarriedIsReady
<1>3. PhaseOf(i) = "up" /\ PhaseOf(i)' = "open"
  BY <1>1, <1>2 DEF SetterPublish, PhaseOf, Routable
<1>4. \A j \in Instances \ {i} : PhaseOf(j)' = PhaseOf(j)
  BY <1>1 DEF SetterPublish, PhaseOf, Routable
<1>5. \A d \in Callers : LeaseOf(d)' = LeaseOf(d)
  BY SignalKeeps, ProcsAreDistinct DEF SetterPublish, Return, LeaseOf, IInv,
     BaseInv, TypeOK
<1> QED
  BY <1>3, <1>4, <1>5, AbstractOpen

\* Release gives the instance back.
LEMMA ReleaseRefines ==
  ASSUME IInv, NEW c \in Callers, Release(c)
  PROVE  Lessor!Next
<1>1. PICK i \in Instances : i = inst[c]
  BY DEF Release, IInv, LeaseInv, Leasing, HeldExists
<1>2. pc[c] = "holding" /\ pc'[c] \in {"idle", "closing"}
  BY SignalKeeps DEF Release, IInv, BaseInv, TypeOK
<1>3. LeaseOf(c) # NoInst /\ LeaseOf(c)' = NoInst
  BY <1>1, <1>2, ConstantsAssumption DEF LeaseOf
<1>4. \A d \in Callers \ {c} : LeaseOf(d)' = LeaseOf(d)
  BY SignalKeeps DEF Release, Return, LeaseOf, IInv, BaseInv, TypeOK
<1>5. i \in live \ instances => ~Routable(i)
  <2> SUFFICES ASSUME i \in live \ instances, Routable(i)
               PROVE  FALSE
    OBVIOUS
  <2>1. PICK p \in Starters : pc[p] \in Carrying /\ inst[p] = i
    BY DEF IInv, LeaseInv, Leasing, OutsideIsClosed
  <2>2. c = p
    BY <1>1, <2>1 DEF IInv, BaseInv, Ownership, Unshared, Private
  <2> QED
    BY <1>2, <2>1, <2>2 DEF Carrying
<1>6. /\ \A j \in Instances \ {i} : istate'[j] = istate[j]
      /\ istate'[i] = istate[i] \/ (istate[i] = "busy" /\ istate'[i] = "ready")
      /\ UNCHANGED <<instances, live>>
  BY <1>1 DEF Release, IInv, BaseInv, TypeOK
<1>7. \A j \in Instances : PhaseOf(j)' = PhaseOf(j)
  BY <1>5, <1>6 DEF PhaseOf, Routable
<1> QED
  BY <1>3, <1>4, <1>7, AbstractGiveBack

\* StopSpec closes what it drains and does not touch a lease.
LEMMA StopSpecRefines ==
  ASSUME IInv, NEW t \in Stoppers, StopSpec(t)
  PROVE  Lessor!Next
<1> DEFINE S == {j \in instances : Routable(j)}
<1>1. S \in SUBSET Instances
  BY DEF IInv, BaseInv, TypeOK
<1>2. \A j \in S : PhaseOf(j) = "open" /\ PhaseOf(j)' = "closed"
  <2>1. \A j \in S : j \in live
    BY DEF IInv, BaseInv, Closure, RoutableIsLive
  <2> QED
    BY <1>1, <2>1 DEF StopSpec, MarkDraining, PhaseOf, Routable
<1>3. \A j \in Instances \ S : PhaseOf(j)' = PhaseOf(j)
  BY DEF StopSpec, MarkDraining, PhaseOf, Routable
<1>4. \A d \in Callers : LeaseOf(d)' = LeaseOf(d)
  BY ProcsAreDistinct DEF StopSpec, LeaseOf, IInv, BaseInv, TypeOK
<1> HIDE DEF S
<1> QED
  BY <1>1, <1>2, <1>3, <1>4, AbstractClose

\* The idle manager closes what it takes.
LEMMA ReapIdleRefines ==
  ASSUME IInv, NEW r \in Reapers, ReapIdle(r)
  PROVE  Lessor!Next
<1>1. PICK idle \in SUBSET Reapable : istate' = MarkDraining(idle)
  BY DEF ReapIdle
<1>2. idle \in SUBSET Instances
  BY DEF Reapable, ReadyInPool, IInv, BaseInv, TypeOK
<1>3. \A j \in idle : j \in instances /\ istate[j] = "ready" /\ j \in live
  BY DEF Reapable, ReadyInPool, IInv, BaseInv, Closure, RoutableIsLive, Routable
<1>4. UNCHANGED <<instances, live>>
  BY DEF ReapIdle
<1>5. \A j \in idle : PhaseOf(j) = "open" /\ PhaseOf(j)' = "closed"
  BY <1>1, <1>2, <1>3, <1>4 DEF MarkDraining, PhaseOf, Routable
<1>6. \A j \in Instances \ idle : PhaseOf(j)' = PhaseOf(j)
  BY <1>1, <1>4 DEF MarkDraining, PhaseOf, Routable
<1>7. \A d \in Callers : LeaseOf(d)' = LeaseOf(d)
  BY ProcsAreDistinct DEF ReapIdle, LeaseOf, IInv, BaseInv, TypeOK
<1> QED
  BY <1>2, <1>5, <1>6, <1>7, AbstractClose

\* A failed ping closes its instance, or it was closed before.
LEMMA MarkFailedRefines ==
  ASSUME IInv, NEW p \in Probers, MarkFailed(p)
  PROVE  Lessor!Next \/ UNCHANGED Lessor!leaseVars
<1>1. PICK i \in candidates[p] : istate' = FailedMark(i)
  BY DEF MarkFailed
<1>2. i \in Instances /\ UNCHANGED <<instances, live>>
  BY DEF MarkFailed, IInv, BaseInv, TypeOK
<1>3. \A j \in Instances \ {i} : PhaseOf(j)' = PhaseOf(j)
  BY <1>1, <1>2 DEF FailedMark, PhaseOf, Routable, IInv, BaseInv, TypeOK
<1>4. i \in live => PhaseOf(i)' = "closed"
  BY <1>1, <1>2 DEF FailedMark, PhaseOf, Routable, IInv, BaseInv, TypeOK
<1>5. i \notin live => PhaseOf(i)' = PhaseOf(i)
  BY <1>2 DEF PhaseOf
<1>6. PhaseOf(i) # "up"
  <2> SUFFICES ASSUME i \in live \ instances, istate[i] = "ready"
               PROVE  FALSE
    BY DEF PhaseOf
  <2>1. PICK q \in Starters : pc[q] \in Carrying /\ inst[q] = i
    BY DEF IInv, LeaseInv, Leasing, OutsideIsClosed, Routable
  <2> QED
    BY <1>1, <2>1 DEF IInv, BaseInv, Ownership, Unshared, Private
<1>7. \A d \in Callers : LeaseOf(d)' = LeaseOf(d)
  BY ProcsAreDistinct DEF MarkFailed, LeaseOf, IInv, BaseInv, TypeOK
<1>8. CASE PhaseOf(i) = "open"
  <2>1. {i} \in SUBSET Instances /\ PhaseOf(i)' = "closed"
    BY <1>2, <1>4, <1>8 DEF PhaseOf
  <2> QED
    BY <1>3, <1>7, <1>8, <2>1, AbstractClose
<1>9. CASE PhaseOf(i) # "open"
  <2>1. PhaseOf(i)' = PhaseOf(i)
    BY <1>4, <1>5, <1>6, <1>9 DEF PhaseOf
  <2> QED
    BY <1>3, <1>7, <2>1, AbstractStutter
<1> QED
  BY <1>8, <1>9

\* Dropping a stopped instance from the tables is a stutter.
LEMMA RemoveStoppedRefines ==
  ASSUME IInv, NEW p \in Reapers \cup Probers, RemoveStopped(p)
  PROVE  UNCHANGED Lessor!leaseVars
<1>1. inst[p] \notin live
  BY DEF RemoveStopped, IInv, LeaseInv, Leaving, RemovedIsDead
<1>2. \A j \in Instances : PhaseOf(j)' = PhaseOf(j)
  BY <1>1 DEF RemoveStopped, Remove, PhaseOf, Routable
<1>3. \A d \in Callers : LeaseOf(d)' = LeaseOf(d)
  BY ProcsAreDistinct DEF RemoveStopped, Return, LeaseOf, IInv, BaseInv, TypeOK
<1> QED
  BY <1>2, <1>3, AbstractStutter

\* A caller's steps.
LEMMA CallerRefines ==
  ASSUME IInv, NEW c \in Callers, CallerStep(c)
  PROVE  Lessor!Next \/ UNCHANGED Lessor!leaseVars
<1> USE DEF IInv, BaseInv, TypeOK
<1>1. ASSUME NEW k \in Keys, AcquireHit(c, k) \/ AcquireReady(c, k)
      PROVE  Lessor!Next \/ UNCHANGED Lessor!leaseVars
  <2> HIDE DEF IInv
  <2> QED
    BY <1>1, AcquireHitRefines, AcquireReadyRefines
<1>2. ASSUME NEW k \in Keys,
             AcquireStickyBusy(c, k) \/ AcquireWait(c, k) \/ AcquireStart(c, k)
      PROVE  UNCHANGED Lessor!leaseVars
  <2>1. UNCHANGED <<instances, istate, live>>
    BY <1>2 DEF AcquireStickyBusy, AcquireWait, AcquireStart
  <2>2. \A d \in Callers : LeaseOf(d)' = LeaseOf(d)
    BY <1>2 DEF AcquireStickyBusy, AcquireWait, AcquireStart, AtLoopHead, LeaseOf
  <2> QED
    BY <2>1, <2>2, QuietStep
<1>3. CASE WaitCancelled(c) \/ StartFailureSignalled(c) \/ AcquireReject(c)
  <2>1. UNCHANGED <<instances, istate, live>>
    BY <1>3 DEF WaitCancelled, StartFailureSignalled, AcquireReject
  <2>2. \A d \in Callers : LeaseOf(d)' = LeaseOf(d)
    BY <1>3, SignalKeeps
       DEF WaitCancelled, StartFailureSignalled, AcquireReject, LeaseOf
  <2> QED
    BY <2>1, <2>2, QuietStep
<1>4. CASE StartFails(c) \/ StartPanics(c) \/ CloseDrain(c)
  <2>1. UNCHANGED <<instances, istate, live>>
    BY <1>4 DEF StartFails, StartPanics, CloseDrain
  <2>2. \A d \in Callers : LeaseOf(d)' = LeaseOf(d)
    BY <1>4 DEF StartFails, StartPanics, CloseDrain, Return, LeaseOf
  <2> QED
    BY <2>1, <2>2, QuietStep
<1>5. CASE StartSucceeds(c)
  <2>1. PICK i \in Instances : Launch(c, i)
    BY <1>5 DEF StartSucceeds
  <2>2. /\ pc[c] = "starting" /\ pc'[c] = "started" /\ instances' = instances
        /\ \A q \in Procs \ {c} : pc'[q] = pc[q]
    BY <1>5 DEF StartSucceeds
  <2> HIDE DEF BaseInv
  <2> QED
    BY <2>1, <2>2, LaunchStep
<1>6. CASE AcquirePublish(c) \/ Release(c)
  <2> HIDE DEF IInv
  <2> QED
    BY <1>6, AcquirePublishRefines, ReleaseRefines
<1>7. CASE StopSuperseded(c) \/ StopDuplicate(c)
  <2>1. StopInstance(inst[c]) /\ instances' = instances /\ inst[c] \notin instances
    BY <1>7 DEF StopSuperseded, StopDuplicate, Ownership, Unshared, Carrying, Private
  <2>2. \A d \in Callers : LeaseOf(d)' = LeaseOf(d)
    BY <1>7 DEF StopSuperseded, StopDuplicate, Return, LeaseOf
  <2> HIDE DEF BaseInv
  <2> QED
    BY <2>1, <2>2, StopStep
<1> QED
  BY <1>1, <1>2, <1>3, <1>4, <1>5, <1>6, <1>7 DEF CallerStep

\* A setter's steps.
LEMMA SetterRefines ==
  ASSUME IInv, NEW s \in Setters, SetterStep(s)
  PROVE  Lessor!Next \/ UNCHANGED Lessor!leaseVars
<1> USE ProcsAreDistinct DEF IInv, BaseInv, TypeOK
<1>1. ASSUME \/ \E n \in 0..MaxTarget : SetMinReady(s, n)
             \/ SetterStart(s) \/ SetterStartFails(s) \/ SetterStartPanics(s)
             \/ SetterReject(s)
      PROVE  UNCHANGED Lessor!leaseVars
  <2>1. UNCHANGED <<instances, istate, live>>
    BY <1>1 DEF SetMinReady, SetterStart, SetterStartFails, SetterStartPanics,
       SetterReject
  <2>2. \A d \in Callers : LeaseOf(d)' = LeaseOf(d)
    BY <1>1 DEF SetMinReady, SetterStart, SetterStartFails, SetterStartPanics,
       SetterReject, LeaseOf
  <2> QED
    BY <2>1, <2>2, QuietStep
<1>2. CASE SetterStartSucceeds(s)
  <2>1. PICK i \in Instances : Launch(s, i)
    BY <1>2 DEF SetterStartSucceeds
  <2>2. /\ pc[s] = "starting" /\ pc'[s] = "started" /\ instances' = instances
        /\ \A q \in Procs \ {s} : pc'[q] = pc[q]
    BY <1>2 DEF SetterStartSucceeds
  <2> HIDE DEF BaseInv
  <2> QED
    BY <2>1, <2>2, LaunchStep
<1>3. CASE SetterPublish(s)
  <2> HIDE DEF IInv
  <2> QED
    BY <1>3, SetterPublishRefines
<1>4. CASE SetterDiscard(s)
  <2>1. StopInstance(inst[s]) /\ instances' = instances /\ inst[s] \notin instances
    BY <1>4 DEF SetterDiscard, Ownership, Unshared, Carrying, Private
  <2>2. \A d \in Callers : LeaseOf(d)' = LeaseOf(d)
    BY <1>4 DEF SetterDiscard, Return, LeaseOf
  <2> HIDE DEF BaseInv
  <2> QED
    BY <2>1, <2>2, StopStep
<1> QED
  BY <1>1, <1>2, <1>3, <1>4 DEF SetterStep

\* The steps of a stopper, a drain goroutine, a reaper and a prober.
LEMMA StopperRefines ==
  ASSUME IInv, NEW t \in Stoppers, StopperStep(t)
  PROVE  Lessor!Next \/ UNCHANGED Lessor!leaseVars
<1> USE ProcsAreDistinct DEF IInv, BaseInv, TypeOK
<1>1. CASE OpenDrain(t) \/ CheckDrain(t) \/ StopSpecReturns(t)
  <2>1. UNCHANGED <<instances, istate, live>>
    BY <1>1 DEF OpenDrain, CheckDrain, StopSpecReturns
  <2>2. \A d \in Callers : LeaseOf(d)' = LeaseOf(d)
    BY <1>1 DEF OpenDrain, CheckDrain, StopSpecReturns, Return, LeaseOf
  <2> QED
    BY <2>1, <2>2, QuietStep
<1>2. CASE StopSpec(t)
  <2> HIDE DEF IInv
  <2> QED
    BY <1>2, StopSpecRefines
<1>3. CASE StopImmediate(t)
  <2>1. PICK i \in immediate[t] : StopInstance(i)
    BY <1>3 DEF StopImmediate
  <2>2. instances' = instances /\ ~(i \in instances /\ Routable(i))
    BY <1>3 DEF StopImmediate, Closure, NoneReopened, Doomed
  <2>3. \A d \in Callers : LeaseOf(d)' = LeaseOf(d)
    BY <1>3 DEF StopImmediate, LeaseOf
  <2> HIDE DEF BaseInv
  <2> QED
    BY <2>1, <2>2, <2>3, StopStep
<1> QED
  BY <1>1, <1>2, <1>3 DEF StopperStep

\* The steps of a drain.
LEMMA DrainRefines ==
  ASSUME IInv, NEW i \in Instances, DrainStep(i)
  PROVE  Lessor!Next \/ UNCHANGED Lessor!leaseVars
<1> USE DEF IInv, BaseInv, TypeOK
<1>1. CASE DrainWakes(i)
  <2>1. UNCHANGED <<instances, istate, live, pc, inst>>
    BY <1>1 DEF DrainWakes
  <2> QED
    BY <2>1, QuietStep DEF LeaseOf
<1>2. CASE DrainStops(i)
  <2>1. StopInstance(i) /\ UNCHANGED <<instances, pc, inst>>
    BY <1>2 DEF DrainStops
  <2>2. ~(i \in instances /\ Routable(i))
    BY <1>2 DEF DrainStops, Closure, NoneReopened, Doomed
  <2>3. \A d \in Callers : LeaseOf(d)' = LeaseOf(d)
    BY <2>1 DEF LeaseOf
  <2> HIDE DEF BaseInv
  <2> QED
    BY <2>1, <2>2, <2>3, StopStep
<1> QED
  BY <1>1, <1>2 DEF DrainStep

\* The steps of the idle manager.
LEMMA ReaperRefines ==
  ASSUME IInv, NEW r \in Reapers, ReaperStep(r)
  PROVE  Lessor!Next \/ UNCHANGED Lessor!leaseVars
<1> USE ProcsAreDistinct DEF IInv, BaseInv, TypeOK
<1>1. CASE ReapIdle(r) \/ RemoveStopped(r)
  <2> HIDE DEF IInv
  <2> QED
    BY <1>1, ReapIdleRefines, RemoveStoppedRefines
<1>2. CASE ExpireBindings(r)
  <2>1. UNCHANGED <<instances, istate, live>>
    BY <1>2 DEF ExpireBindings
  <2>2. \A d \in Callers : LeaseOf(d)' = LeaseOf(d)
    BY <1>2 DEF ExpireBindings, LeaseOf
  <2> QED
    BY <2>1, <2>2, QuietStep
<1>3. CASE ReapStop(r)
  <2>1. PICK i \in candidates[r] : StopInstance(i)
    BY <1>3 DEF ReapStop
  <2>2. instances' = instances /\ ~(i \in instances /\ Routable(i))
    BY <1>3 DEF ReapStop, Closure, NoneReopened, Doomed
  <2>3. \A d \in Callers : LeaseOf(d)' = LeaseOf(d)
    BY <1>3 DEF ReapStop, LeaseOf
  <2> HIDE DEF BaseInv
  <2> QED
    BY <2>1, <2>2, <2>3, StopStep
<1> QED
  BY <1>1, <1>2, <1>3 DEF ReaperStep

\* The steps of the health prober.
LEMMA ProberRefines ==
  ASSUME IInv, NEW p \in Probers, ProberStep(p)
  PROVE  Lessor!Next \/ UNCHANGED Lessor!leaseVars
<1> USE ProcsAreDistinct DEF IInv, BaseInv, TypeOK
<1>1. CASE MarkFailed(p) \/ RemoveStopped(p)
  <2> HIDE DEF IInv
  <2> QED
    BY <1>1, MarkFailedRefines, RemoveStoppedRefines
<1>2. CASE ProbeInstances(p) \/ Ping(p)
  <2>1. UNCHANGED <<instances, istate, live>>
    BY <1>2 DEF ProbeInstances, Ping
  <2>2. \A d \in Callers : LeaseOf(d)' = LeaseOf(d)
    BY <1>2 DEF ProbeInstances, Ping, LeaseOf
  <2> QED
    BY <2>1, <2>2, QuietStep
<1>3. CASE StopFailed(p)
  <2>1. StopInstance(inst[p]) /\ instances' = instances
    BY <1>3 DEF StopFailed
  <2>2. ~(inst[p] \in instances /\ Routable(inst[p]))
    BY <1>3 DEF StopFailed, Closure, NoneReopened, Doomed
  <2>3. \A d \in Callers : LeaseOf(d)' = LeaseOf(d)
    BY <1>3 DEF StopFailed, LeaseOf
  <2> HIDE DEF BaseInv
  <2> QED
    BY <2>1, <2>2, <2>3, StopStep
<1> QED
  BY <1>1, <1>2, <1>3 DEF ProberStep

\* To its callers the pool is an InstanceLease: leases are granted on open
\* instances only, within capacity; an open instance is never stopped and a closed
\* one never leased again (acquire.go, drain.go, maintenance.go as a whole).
THEOREM PoolImplementsLease == Spec => ImplementsLease
<1>1. Init => Lessor!Init
  BY DEF Init, Lessor!Init, PhaseOf
<1>2. IInv /\ [Next]_vars => [Lessor!Next]_Lessor!leaseVars
  <2> SUFFICES ASSUME IInv, [Next]_vars
               PROVE  Lessor!Next \/ UNCHANGED Lessor!leaseVars
    OBVIOUS
  <2>1. CASE Next
    BY <2>1, CallerRefines, SetterRefines, StopperRefines, DrainRefines,
       ReaperRefines, ProberRefines DEF Next
  <2>2. CASE UNCHANGED vars
    BY <2>2, QuietStep DEF vars, LeaseOf
  <2> QED
    BY <2>1, <2>2
<1> QED
  BY <1>1, <1>2, LeaseInvariance, PTL DEF Spec, ImplementsLease, Lessor!Spec

================================================================================
