----------------------- MODULE WorkflowRuntime_proofs -----------------------
(***************************************************************************)
(* What the ordering and the levels of a workflow promise, for any number  *)
(* of steps and any set of graphs: the inductive invariants IInv, behind   *)
(* DependenciesFirst, and OInv, behind VerdictIsRight.                     *)
(***************************************************************************)
EXTENDS WorkflowRuntime, FiniteSetTheorems, WellFoundedInduction, TLAPS

States == {"no", "runs", "result", "raised", "cancelled"}

(* A dependency lies in an earlier level, and a step in one level only. *)
Layered ==
  \A i \in 1..Len(levels) : \A s \in levels[i] :
    /\ \A j \in 1..(i - 1) : s \notin levels[j]
    /\ \A d \in dependsOn[s] : \E j \in 1..(i - 1) : d \in levels[j]

(* What has started lies in a level that was reached. *)
Reached == \A s \in Steps : step[s] # "no" => \E j \in 1..level : s \in levels[j]

(* The levels before the one that runs have left all their results. *)
LeftBehind == \A j \in 1..(level - 1) : \A s \in levels[j] : step[s] = "result"

(* Only a complete split is run. *)
Split ==
  /\ stage \in {"run", "done"} => Placed = Steps
  /\ stage \in {"order", "level", "rejected", "stuck"} => level = 0
  /\ stage = "done" => level = Len(levels) /\ \A s \in Here : step[s] = "result"

Types ==
  /\ dependsOn \in [Steps -> SUBSET (Steps \union {Unknown})]
  /\ levels \in Seq(SUBSET Steps)
  /\ level \in Nat /\ level <= Len(levels)
  /\ step \in [Steps -> States]

IInv == Types /\ Layered /\ Reached /\ LeftBehind /\ Split

(* The initial state has the invariant: there are no levels. *)
LEMMA InitInvariant == Init => IInv
<1> SUFFICES ASSUME Init PROVE IInv
  OBVIOUS
<1>1. Types
  BY WorkflowConstants DEF Init, Types, States
<1>2. Layered /\ Reached /\ LeftBehind
  BY DEF Init, Layered, Reached, LeftBehind
<1>3. Split
  BY DEF Init, Split
<1> QED
  BY <1>1, <1>2, <1>3 DEF IInv

(* Appending a level leaves the others where they are. *)
LEMMA Appending ==
  ASSUME NEW l \in Seq(SUBSET Steps), NEW r \in SUBSET Steps
  PROVE  /\ Append(l, r) \in Seq(SUBSET Steps)
         /\ Len(l) \in Nat /\ Len(Append(l, r)) = Len(l) + 1
         /\ \A i \in 1..Len(l) : Append(l, r)[i] = l[i]
         /\ Append(l, r)[Len(l) + 1] = r
  OBVIOUS

-----------------------------------------------------------------------------
(* The steps that only order or split the graph keep the invariant. *)
LEMMA OrderingStep ==
  ASSUME IInv,
         RejectMissing \/ VisitRoot \/ Descend \/ FindCycle \/ Finish \/ Ordered
  PROVE  IInv'
<1>1. UNCHANGED <<dependsOn, levels, level, step>>
  BY DEF RejectMissing, VisitRoot, Descend, FindCycle, Finish, Ordered, running
<1>2. stage = "order" /\ stage' \in {"order", "level", "rejected"}
  BY DEF RejectMissing, VisitRoot, Descend, FindCycle, Finish, Ordered
<1>3. Types' /\ Layered' /\ Reached' /\ LeftBehind'
  BY <1>1 DEF IInv, Types, Layered, Reached, LeftBehind
<1>4. Split'
  BY <1>1, <1>2 DEF IInv, Split, Placed, Here
<1> QED
  BY <1>3, <1>4 DEF IInv

(* A new level takes what is ready: its dependencies are placed already. *)
LEMMA NextLevelStep ==
  ASSUME IInv, NextLevel
  PROVE  IInv'
<1>1. CASE Ready = {}
  <2>1. UNCHANGED <<dependsOn, levels, level, step>> /\ stage = "level" /\ stage' = "stuck"
    BY <1>1 DEF NextLevel, running
  <2>2. Types' /\ Layered' /\ Reached' /\ LeftBehind'
    BY <2>1 DEF IInv, Types, Layered, Reached, LeftBehind
  <2>3. Split'
    BY <2>1 DEF IInv, Split, Placed, Here
  <2> QED
    BY <2>2, <2>3 DEF IInv
<1>2. CASE Ready # {}
  <2>1. /\ stage = "level" /\ stage' = "level" /\ UNCHANGED <<dependsOn, level, step>>
        /\ levels' = Append(levels, Ready)
    BY <1>2 DEF NextLevel, running
  <2>2. Ready \in SUBSET Steps
    BY DEF Ready
  <2> DEFINE n == Len(levels)
  <2>3. /\ levels' \in Seq(SUBSET Steps) /\ n \in Nat /\ Len(levels') = n + 1
        /\ \A i \in 1..n : levels'[i] = levels[i]
        /\ levels'[n + 1] = Ready
    BY <2>1, <2>2, Appending DEF IInv, Types
  <2> HIDE DEF n
  <2>4. level = 0
    BY <2>1 DEF IInv, Split
  <2>5. Types'
    BY <2>1, <2>3, <2>4 DEF IInv, Types
  <2>6. Reached' /\ LeftBehind'
    BY <2>1, <2>4 DEF IInv, Reached, LeftBehind
  <2>7. Split'
    BY <2>1, <2>4 DEF Split
  <2>8. \A s \in Ready : /\ \A j \in 1..n : s \notin levels[j]
                         /\ \A d \in dependsOn[s] : \E j \in 1..n : d \in levels[j]
    BY DEF Ready, Placed, n
  <2>9. Layered'
    <3> SUFFICES ASSUME NEW i \in 1..(n + 1), NEW s \in levels'[i]
                 PROVE  /\ \A j \in 1..(i - 1) : s \notin levels'[j]
                        /\ \A d \in dependsOn[s] : \E j \in 1..(i - 1) : d \in levels'[j]
      BY <2>1, <2>3 DEF Layered
    <3>1. CASE i = n + 1
      BY <3>1, <2>3, <2>8
    <3>2. CASE i \in 1..n
      <4>1. s \in levels[i]
        BY <3>2, <2>3
      <4>2. /\ \A j \in 1..(i - 1) : s \notin levels[j]
            /\ \A d \in dependsOn[s] : \E j \in 1..(i - 1) : d \in levels[j]
        BY <3>2, <4>1 DEF IInv, Layered, n
      <4>3. \A j \in 1..(i - 1) : levels'[j] = levels[j]
        BY <3>2, <2>3
      <4> QED
        BY <4>2, <4>3
    <3> QED
      BY <3>1, <3>2, <2>3
  <2> QED
    BY <2>5, <2>6, <2>7, <2>9 DEF IInv
<1> QED
  BY <1>1, <1>2

(* The next level starts when the one before it has left its results. *)
LEMMA StartLevelStep ==
  ASSUME IInv, StartLevel
  PROVE  IInv'
<1>1. /\ UNCHANGED <<dependsOn, levels>> /\ level' = level + 1 /\ stage' = "run"
      /\ level < Len(levels) /\ level \in Nat
      /\ step' = [s \in Steps |-> IF s \in levels[level + 1] THEN "runs" ELSE step[s]]
  BY DEF StartLevel, graph, IInv, Types
<1>2. Placed = Steps /\ Placed' = Placed
  BY <1>1 DEF StartLevel, IInv, Split, Placed
<1>3. \A j \in 1..level : \A s \in levels[j] : step[s] = "result"
  <2>1. CASE stage = "level"
    BY <2>1, <1>1 DEF IInv, Split
  <2>2. CASE stage = "run" /\ \A s \in Here : step[s] = "result"
    <3>1. \A j \in 1..(level - 1) : \A s \in levels[j] : step[s] = "result"
      BY DEF IInv, LeftBehind
    <3>2. level # 0 => \A s \in levels[level] : step[s] = "result"
      BY <2>2 DEF Here
    <3> QED
      BY <1>1, <3>1, <3>2
  <2> QED
    BY <2>1, <2>2 DEF StartLevel
<1>4. Types'
  <2>1. step' \in [Steps -> States]
    BY <1>1 DEF IInv, Types, States
  <2>2. Len(levels) \in Nat
    BY DEF IInv, Types
  <2> QED
    BY <1>1, <2>1, <2>2 DEF IInv, Types
<1>5. Layered'
  BY <1>1 DEF IInv, Layered
<1>6. Reached'
  <2> SUFFICES ASSUME NEW s \in Steps, step'[s] # "no"
               PROVE  \E j \in 1..(level + 1) : s \in levels[j]
    BY <1>1 DEF Reached
  <2>1. CASE s \in levels[level + 1]
    BY <1>1, <2>1
  <2>2. CASE s \notin levels[level + 1]
    BY <1>1, <2>2 DEF IInv, Reached
  <2> QED
    BY <2>1, <2>2
<1>7. LeftBehind'
  <2> SUFFICES ASSUME NEW j \in 1..level, NEW s \in levels[j]
               PROVE  step'[s] = "result"
    BY <1>1 DEF LeftBehind
  <2>1. s \in Steps
    BY <1>1 DEF IInv, Types
  <2>2. s \notin levels[level + 1]
    <3>1. level + 1 \in 1..Len(levels) /\ j \in 1..((level + 1) - 1)
      BY <1>1 DEF IInv, Types
    <3> QED
      BY <3>1 DEF IInv, Layered
  <2> QED
    BY <1>1, <1>3, <2>1, <2>2
<1>8. Split'
  BY <1>1, <1>2 DEF Split
<1> QED
  BY <1>4, <1>5, <1>6, <1>7, <1>8 DEF IInv

(* A step that ends was in the level that runs, and no result is lost. *)
LEMMA StepEnds ==
  ASSUME IInv, UNCHANGED <<dependsOn, levels, level>>,
         step' \in [Steps -> States],
         \A s \in Steps : step[s] # "runs" => step'[s] = step[s],
         stage' = stage \/ (stage = "run" /\ stage' \in {"raised", "cancelled"})
  PROVE  IInv'
<1>1. Types' /\ Layered'
  BY DEF IInv, Types, Layered
<1>2. Reached'
  BY DEF IInv, Reached
<1>3. \A j \in 1..Len(levels) : levels[j] \subseteq Steps
  BY DEF IInv, Types
<1>4. LeftBehind'
  <2> SUFFICES ASSUME NEW j \in 1..(level - 1), NEW s \in levels[j]
               PROVE  step'[s] = "result"
    BY DEF LeftBehind
  <2>1. j \in 1..Len(levels) /\ step[s] = "result"
    BY DEF IInv, Types, LeftBehind
  <2> QED
    BY <1>3, <2>1
<1>5. Split'
  <2>1. Placed' = Placed /\ Here' = Here
    BY DEF Placed, Here
  <2>2. Here \subseteq Steps
    BY <1>3 DEF Here, IInv, Types
  <2>3. stage' = "done" => \A s \in Here : step'[s] = "result"
    BY <2>2 DEF IInv, Split
  <2> QED
    BY <2>1, <2>3 DEF IInv, Split
<1> QED
  BY <1>1, <1>2, <1>4, <1>5 DEF IInv

(* Every step keeps the invariant. *)
LEMMA NextInvariant == IInv /\ [Next]_vars => IInv'
<1> SUFFICES ASSUME IInv, [Next]_vars PROVE IInv'
  OBVIOUS
<1>1. CASE RejectMissing \/ VisitRoot \/ Descend \/ FindCycle \/ Finish \/ Ordered
  BY <1>1, OrderingStep
<1>2. CASE NextLevel
  BY <1>2, NextLevelStep
<1>3. CASE StartLevel
  BY <1>3, StartLevelStep
<1>4. ASSUME NEW s \in Steps, StepReturns(s) \/ StepRaises(s) PROVE IInv'
  <2>1. step' \in [Steps -> States]
    BY <1>4 DEF StepReturns, StepRaises, IInv, Types, States
  <2>2. \A t \in Steps : step[t] # "runs" => step'[t] = step[t]
    BY <1>4 DEF StepReturns, StepRaises, IInv, Types
  <2>3. UNCHANGED <<dependsOn, levels, level>>
    BY <1>4 DEF StepReturns, StepRaises, graph
  <2>4. stage' = stage \/ (stage = "run" /\ stage' \in {"raised", "cancelled"})
    BY <1>4 DEF StepReturns, StepRaises
  <2> QED
    BY <2>1, <2>2, <2>3, <2>4, StepEnds
<1>5. CASE Cancel
  <2>1. step' \in [Steps -> States]
    BY <1>5 DEF Cancel, IInv, Types, States
  <2> QED
    BY <1>5, <2>1, StepEnds DEF Cancel, graph
<1>6. CASE AllReturned
  <2>1. UNCHANGED <<dependsOn, levels, level, step>>
    BY <1>6 DEF AllReturned, graph
  <2>2. Types' /\ Layered' /\ Reached' /\ LeftBehind'
    BY <2>1 DEF IInv, Types, Layered, Reached, LeftBehind
  <2>3. Placed' = Placed /\ Here' = Here
    BY <2>1 DEF Placed, Here
  <2>4. Split'
    BY <1>6, <2>1, <2>3 DEF AllReturned, IInv, Split
  <2> QED
    BY <2>2, <2>4 DEF IInv
<1>7. CASE UNCHANGED vars
  BY <1>7 DEF vars, IInv, Types, Layered, Reached, LeftBehind, Split, Placed, Here
<1> QED
  BY <1>1, <1>2, <1>3, <1>4, <1>5, <1>6, <1>7 DEF Next

-----------------------------------------------------------------------------
(* The invariant holds in every reachable state. *)
THEOREM Invariance == Spec => []IInv
  BY InitInvariant, NextInvariant, PTL DEF Spec

(* Of any graph, a step starts only after the results of all it depends on. *)
THEOREM ResultsBeforeDependents == Spec => []DependenciesFirst
<1>1. IInv => DependenciesFirst
  <2> SUFFICES ASSUME IInv, NEW s \in Steps, step[s] # "no", NEW d \in dependsOn[s]
               PROVE  d \in Steps /\ step[d] = "result"
    BY DEF DependenciesFirst
  <2>1. PICK i \in 1..level : s \in levels[i]
    BY DEF IInv, Reached
  <2>2. i \in 1..Len(levels) /\ level \in Nat
    BY DEF IInv, Types
  <2>3. PICK j \in 1..(i - 1) : d \in levels[j]
    BY <2>1, <2>2 DEF IInv, Layered
  <2>4. j \in 1..(level - 1) /\ j \in 1..Len(levels)
    BY <2>2
  <2>5. d \in Steps
    BY <2>3, <2>4 DEF IInv, Types
  <2> QED
    BY <2>3, <2>4, <2>5 DEF IInv, LeftBehind
<1> QED
  BY <1>1, Invariance, PTL

(* A run that is reported as done has the result of every step. *)
THEOREM DoneHasAllResults ==
  Spec => [](stage = "done" => \A s \in Steps : step[s] = "result")
<1>1. IInv => (stage = "done" => \A s \in Steps : step[s] = "result")
  <2> SUFFICES ASSUME IInv, stage = "done", NEW s \in Steps
               PROVE  step[s] = "result"
    OBVIOUS
  <2>1. /\ level = Len(levels) /\ level \in Nat
        /\ Placed = Steps /\ \A t \in Here : step[t] = "result"
    BY DEF IInv, Split, Types
  <2>2. PICK i \in 1..level : s \in levels[i]
    BY <2>1 DEF Placed
  <2>3. CASE i = level
    BY <2>1, <2>2, <2>3 DEF Here
  <2>4. CASE i \in 1..(level - 1)
    BY <2>2, <2>4 DEF IInv, LeftBehind
  <2> QED
    BY <2>1, <2>3, <2>4
<1> QED
  BY <1>1, Invariance, PTL

-----------------------------------------------------------------------------
(* The rest is about the verdict.  Facts on natural numbers stand in for   *)
(* induction on the length of a path, a rank or a distance in the graph.   *)

(* Every nonempty set of natural numbers has a least element. *)
LEMMA LeastNatural ==
  ASSUME NEW T \in SUBSET Nat, T # {}
  PROVE  \E n \in T : \A m \in T : n <= m
<1>1. IsWellFoundedOn({ss \in Nat \X Nat : ss[1] < ss[2]}, Nat)
  BY NatLessThanWellFounded DEF OpToRel
<1>2. PICK n \in T : \A m \in T : ~(<<m, n>> \in {ss \in Nat \X Nat : ss[1] < ss[2]})
  BY <1>1, WFMin
<1>3. \A m \in T : ~(m < n)
  BY <1>2
<1> QED
  BY <1>3

(* A set that has 0 and with every number the next one has all of them. *)
LEMMA AllNaturals ==
  ASSUME NEW T, 0 \in T, \A n \in Nat : n \in T => n + 1 \in T
  PROVE  Nat \subseteq T
<1> SUFFICES ASSUME Nat \ T # {} PROVE FALSE
  OBVIOUS
<1>1. PICK n \in Nat \ T : \A m \in Nat \ T : n <= m
  BY LeastNatural
<1>2. n # 0 /\ n - 1 \in Nat
  BY <1>1
<1>3. n - 1 \in T
  BY <1>1, <1>2
<1> QED
  BY <1>1, <1>2, <1>3

-----------------------------------------------------------------------------
(* What Behind is: its definition is a choice, of which we show that it    *)
(* exists.                                                                 *)
Grow(b) ==
  [s \in Steps |-> b[s] \union UNION {dependsOn[d] : d \in b[s] \intersect Steps}]

LEMMA BehindExists ==
  \E f : f = [n \in 0..N |-> IF n = 0 THEN [s \in Steps |-> dependsOn[s]] ELSE Grow(f[n - 1])]
<1>1. PICK first : first = [s \in Steps |-> dependsOn[s]]
  OBVIOUS
<1> DEFINE T == {m \in Nat : \E f : f = [n \in 0..m |-> IF n = 0 THEN first ELSE Grow(f[n - 1])]}
<1>2. 0 \in T
  <2>1. PICK f : f = [n \in 0..0 |-> first]
    OBVIOUS
  <2>2. f = [n \in 0..0 |-> IF n = 0 THEN first ELSE Grow(f[n - 1])]
    BY <2>1
  <2> QED
    BY <2>2
<1>3. ASSUME NEW m \in Nat, m \in T PROVE m + 1 \in T
  <2>1. PICK f : f = [n \in 0..m |-> IF n = 0 THEN first ELSE Grow(f[n - 1])]
    BY <1>3
  <2>2. PICK g : g = [n \in 0..(m + 1) |-> IF n <= m THEN f[n] ELSE Grow(f[m])]
    OBVIOUS
  <2>3. \A n \in 0..m : g[n] = f[n] /\ f[n] = IF n = 0 THEN first ELSE Grow(f[n - 1])
    BY <2>1, <2>2
  <2>4. \A n \in 0..(m + 1) : g[n] = IF n = 0 THEN first ELSE Grow(g[n - 1])
    <3> SUFFICES ASSUME NEW n \in 0..(m + 1)
                 PROVE  g[n] = IF n = 0 THEN first ELSE Grow(g[n - 1])
      OBVIOUS
    <3>1. CASE n = 0
      BY <2>3, <3>1
    <3>2. CASE n # 0
      <4>1. n - 1 \in 0..m /\ g[n - 1] = f[n - 1]
        BY <2>3, <3>2
      <4>2. CASE n = m + 1
        <5>1. g[n] = Grow(f[m]) /\ n - 1 = m
          BY <2>2, <4>2
        <5> QED
          BY <3>2, <4>1, <5>1
      <4>3. CASE n <= m
        <5>1. g[n] = Grow(f[n - 1])
          BY <2>3, <3>2, <4>3
        <5> QED
          BY <3>2, <4>1, <5>1
      <4> QED
        BY <4>2, <4>3
    <3> QED
      BY <3>1, <3>2
  <2>5. g = [n \in 0..(m + 1) |-> IF n = 0 THEN first ELSE Grow(g[n - 1])]
    BY <2>2, <2>4
  <2> QED
    BY <2>5
<1>4. N \in T
  <2> HIDE DEF T
  <2> QED
    BY <1>2, <1>3, AllNaturals, WorkflowConstants
<1> QED
  BY <1>1, <1>4

LEMMA BehindEquation ==
  /\ Behind[0] = [s \in Steps |-> dependsOn[s]]
  /\ \A n \in 1..N : Behind[n] = Grow(Behind[n - 1])
<1>1. Behind = [n \in 0..N |-> IF n = 0 THEN [s \in Steps |-> dependsOn[s]]
                               ELSE Grow(Behind[n - 1])]
  BY BehindExists DEF Behind, Grow
<1> QED
  BY <1>1, WorkflowConstants

(* The same, step by step. *)
LEMMA BehindOf ==
  ASSUME NEW s \in Steps
  PROVE  /\ Behind[0][s] = dependsOn[s]
         /\ \A n \in 1..N :
              Behind[n][s] = Behind[n - 1][s] \union
                UNION {dependsOn[d] : d \in Behind[n - 1][s] \intersect Steps}
<1>1. ASSUME NEW b
      PROVE  Grow(b)[s] = b[s] \union UNION {dependsOn[d] : d \in b[s] \intersect Steps}
  BY DEF Grow
<1> QED
  BY <1>1, BehindEquation

(* What is behind a step stays behind it. *)
LEMMA BehindGrows ==
  ASSUME NEW s \in Steps, NEW k \in 0..N
  PROVE  Behind[k][s] \subseteq Behind[N][s]
<1> DEFINE T == {j \in Nat : k + j <= N => Behind[k][s] \subseteq Behind[k + j][s]}
<1>1. 0 \in T
  OBVIOUS
<1>2. ASSUME NEW j \in Nat, j \in T PROVE j + 1 \in T
  <2> SUFFICES ASSUME k + (j + 1) <= N PROVE Behind[k][s] \subseteq Behind[k + (j + 1)][s]
    OBVIOUS
  <2>1. Behind[k][s] \subseteq Behind[k + j][s]
    BY <1>2, WorkflowConstants
  <2>2. k + (j + 1) \in 1..N /\ (k + (j + 1)) - 1 = k + j
    BY WorkflowConstants
  <2>3. Behind[k + j][s] \subseteq Behind[k + (j + 1)][s]
    BY <2>2, BehindOf
  <2> QED
    BY <2>1, <2>3
<1>3. N - k \in T
  <2> HIDE DEF T
  <2> QED
    BY <1>1, <1>2, AllNaturals, WorkflowConstants
<1> QED
  BY <1>3, WorkflowConstants

-----------------------------------------------------------------------------
(* The path of nested visits follows dependencies, and no step twice; what *)
(* is permanent is apart from it, closed under dependencies, and can be    *)
(* ranked so that every dependency ranks lower.                            *)
PathTypes ==
  /\ dependsOn \in [Steps -> SUBSET (Steps \union {Unknown})]
  /\ path \in Seq(Steps) /\ permanent \subseteq Steps
  /\ levels \in Seq(SUBSET Steps)

Chain == \A i \in 1..(Len(path) - 1) : path[i + 1] \in dependsOn[path[i]]

NoStepTwice ==
  /\ \A i, j \in 1..Len(path) : path[i] = path[j] => i = j
  /\ OnPath \intersect permanent = {}
  /\ Cardinality(OnPath) = Len(path)

Ranks(rank) ==
  \A s \in permanent :
    /\ rank[s] < Cardinality(permanent)
    /\ dependsOn[s] \subseteq permanent
    /\ \A d \in dependsOn[s] : rank[d] < rank[s]

Ranked == \E rank \in [Steps -> Nat] : Ranks(rank)

(* What each stage knows of the graph. *)
Verdict ==
  /\ stage = "order" /\ path # <<>> => ~Missing
  /\ stage = "rejected" =>
       Missing \/ (path # <<>> /\ dependsOn[Top] \intersect OnPath # {})
  /\ stage \in {"level", "run", "done", "raised", "cancelled"} => permanent = Steps
  /\ stage # "stuck"

OInv == PathTypes /\ Chain /\ NoStepTwice /\ Ranked /\ Verdict

(* The sets of steps are finite. *)
LEMMA StepsAreFinite ==
  ASSUME NEW S \in SUBSET Steps
  PROVE  IsFiniteSet(S) /\ Cardinality(S) \in Nat /\ Cardinality(S) <= N
<1>1. IsFiniteSet(Steps) /\ Cardinality(Steps) = N
  BY FS_Interval, WorkflowConstants DEF Steps
<1> QED
  BY <1>1, FS_Subset, FS_CardinalityType

(* A path is no longer than there are steps. *)
LEMMA PathIsShort ==
  ASSUME PathTypes, NoStepTwice
  PROVE  Len(path) \in Nat /\ Len(path) <= N
<1>1. OnPath \in SUBSET Steps
  BY DEF OnPath, PathTypes
<1>2. Cardinality(OnPath) <= N
  BY <1>1, StepsAreFinite
<1> QED
  BY <1>2 DEF NoStepTwice, PathTypes

(* Every step further down the path is behind those before it. *)
LEMMA PathIsBehind ==
  ASSUME PathTypes, Chain, NoStepTwice, NEW i \in 1..Len(path), NEW j \in (i + 1)..Len(path)
  PROVE  path[j] \in Behind[j - i - 1][path[i]]
<1> DEFINE T == {k \in Nat : i + k + 1 <= Len(path) => path[i + k + 1] \in Behind[k][path[i]]}
<1>1. Len(path) \in Nat /\ Len(path) <= N /\ \A m \in 1..Len(path) : path[m] \in Steps
  BY PathIsShort DEF PathTypes
<1>2. 0 \in T
  <2> SUFFICES ASSUME i + 1 <= Len(path) PROVE path[i + 1] \in Behind[0][path[i]]
    OBVIOUS
  <2>1. path[i + 1] \in dependsOn[path[i]]
    BY <1>1 DEF Chain
  <2> QED
    BY <1>1, <2>1, BehindOf
<1>3. ASSUME NEW k \in Nat, k \in T PROVE k + 1 \in T
  <2> SUFFICES ASSUME i + (k + 1) + 1 <= Len(path)
               PROVE  path[i + (k + 1) + 1] \in Behind[k + 1][path[i]]
    OBVIOUS
  <2>1. path[i + k + 1] \in Behind[k][path[i]]
    BY <1>1, <1>3
  <2>2. i + k + 1 \in 1..(Len(path) - 1) /\ (i + k + 1) + 1 = i + (k + 1) + 1
    BY <1>1
  <2>3. path[i + (k + 1) + 1] \in dependsOn[path[i + k + 1]] /\ path[i + k + 1] \in Steps
    BY <1>1, <2>2 DEF Chain
  <2>4. k + 1 \in 1..N /\ (k + 1) - 1 = k
    BY <1>1, WorkflowConstants
  <2>5. Behind[k + 1][path[i]] = Behind[k][path[i]] \union
          UNION {dependsOn[d] : d \in Behind[k][path[i]] \intersect Steps}
    BY <1>1, <2>4, BehindOf
  <2> QED
    BY <2>1, <2>3, <2>5
<1>4. j - i - 1 \in T
  <2> HIDE DEF T
  <2>1. j - i - 1 \in Nat
    BY <1>1
  <2> QED
    BY <1>2, <1>3, <2>1, AllNaturals
<1>5. i + (j - i - 1) + 1 = j /\ j <= Len(path)
  BY <1>1
<1> QED
  BY <1>4, <1>5

-----------------------------------------------------------------------------
(* A dependency on an unknown step is behind somebody. *)
LEMMA MissingIsBad ==
  ASSUME PathTypes, Missing
  PROVE  ~WellFormed
<1>1. PICK s \in Steps : Unknown \in dependsOn[s]
  BY DEF Missing
<1>2. 0 \in 0..N /\ N \in Nat
  BY WorkflowConstants
<1>3. Unknown \in Behind[N][s]
  BY <1>1, <1>2, BehindOf, BehindGrows
<1> QED
  BY <1>1, <1>3, WorkflowConstants DEF WellFormed

(* So is a step that the last one on the path depends on again. *)
LEMMA CycleIsBad ==
  ASSUME PathTypes, Chain, NoStepTwice, path # <<>>, dependsOn[Top] \intersect OnPath # {}
  PROVE  ~WellFormed
<1>1. Len(path) \in Nat /\ Len(path) <= N /\ \A m \in 1..Len(path) : path[m] \in Steps
  BY PathIsShort DEF PathTypes
<1>2. PICK i \in 1..Len(path) : path[i] \in dependsOn[path[Len(path)]]
  BY DEF Top, OnPath
<1>3. \E n \in 0..N : path[i] \in Behind[n][path[i]]
  <2>1. CASE i = Len(path)
    <3>1. path[i] \in Behind[0][path[i]]
      BY <1>1, <1>2, <2>1, BehindOf
    <3> QED
      BY <3>1, WorkflowConstants
  <2>2. CASE i # Len(path)
    <3>1. PICK k \in 0..(N - 1) : k = Len(path) - i - 1
      <4>1. Len(path) - i - 1 \in 0..(N - 1)
        BY <1>1, <2>2, WorkflowConstants
      <4> QED
        BY <4>1
    <3>2. Len(path) \in (i + 1)..Len(path)
      BY <1>1, <2>2
    <3>3. path[Len(path)] \in Behind[k][path[i]] /\ path[Len(path)] \in Steps
      BY <1>1, <3>1, <3>2, PathIsBehind
    <3>4. k + 1 \in 1..N /\ (k + 1) - 1 = k /\ k + 1 \in 0..N
      BY WorkflowConstants
    <3>5. Behind[k + 1][path[i]] = Behind[k][path[i]] \union
            UNION {dependsOn[d] : d \in Behind[k][path[i]] \intersect Steps}
      BY <1>1, <3>4, BehindOf
    <3> QED
      BY <1>2, <3>3, <3>4, <3>5
  <2> QED
    BY <2>1, <2>2
<1>4. path[i] \in Behind[N][path[i]]
  BY <1>1, <1>3, BehindGrows
<1> QED
  BY <1>1, <1>4 DEF WellFormed

(* What is behind a step ranks lower, so it is not the step itself. *)
LEMMA RankedIsGood ==
  ASSUME PathTypes, Ranked, permanent = Steps
  PROVE  WellFormed
<1>1. PICK rank \in [Steps -> Nat] : Ranks(rank)
  BY DEF Ranked
<1>2. \A s \in Steps : dependsOn[s] \subseteq Steps /\ \A d \in dependsOn[s] : rank[d] < rank[s]
  BY <1>1 DEF Ranks
<1> SUFFICES ASSUME NEW s \in Steps
             PROVE  Behind[N][s] \subseteq {d \in Steps : rank[d] < rank[s]}
  BY <1>1 DEF WellFormed
<1> DEFINE Lower == {d \in Steps : rank[d] < rank[s]}
           T == {n \in Nat : n <= N => Behind[n][s] \subseteq Lower}
<1>3. 0 \in T
  BY <1>2, BehindOf
<1>4. ASSUME NEW n \in Nat, n \in T PROVE n + 1 \in T
  <2> SUFFICES ASSUME n + 1 <= N PROVE Behind[n + 1][s] \subseteq Lower
    OBVIOUS
  <2>1. n + 1 \in 1..N /\ (n + 1) - 1 = n /\ n <= N
    BY WorkflowConstants
  <2>2. Behind[n + 1][s] = Behind[n][s] \union
          UNION {dependsOn[d] : d \in Behind[n][s] \intersect Steps}
    BY <2>1, BehindOf
  <2>3. Behind[n][s] \subseteq Lower
    BY <1>4, <2>1
  <2>4. \A d \in Lower : dependsOn[d] \subseteq Lower
    BY <1>1, <1>2
  <2> QED
    BY <2>2, <2>3, <2>4
<1>5. N \in T
  <2> HIDE DEF T
  <2> QED
    BY <1>3, <1>4, AllNaturals, WorkflowConstants
<1> QED
  BY <1>5, WorkflowConstants

(* The invariant gives the verdict. *)
LEMMA VerdictFollows ==
  ASSUME OInv
  PROVE  VerdictIsRight
<1>1. stage = "rejected" => ~WellFormed
  BY MissingIsBad, CycleIsBad DEF OInv, Verdict
<1>2. stage \in {"level", "run", "done", "raised", "cancelled"} => WellFormed
  BY RankedIsGood DEF OInv, Verdict
<1> QED
  BY <1>1, <1>2 DEF OInv, Verdict, VerdictIsRight

-----------------------------------------------------------------------------
(* The initial state has the invariant. *)
LEMMA InitOrdering == Init => OInv
<1> SUFFICES ASSUME Init PROVE OInv
  OBVIOUS
<1>1. PathTypes
  BY WorkflowConstants DEF Init, PathTypes
<1>2. OnPath = {}
  BY DEF Init, OnPath
<1>3. NoStepTwice
  BY <1>2, FS_EmptySet DEF Init, NoStepTwice
<1>4. Ranked
  <2>1. [s \in Steps |-> 0] \in [Steps -> Nat] /\ Ranks([s \in Steps |-> 0])
    BY DEF Init, Ranks
  <2> QED
    BY <2>1 DEF Ranked
<1> QED
  BY <1>1, <1>3, <1>4 DEF Init, OInv, Chain, Verdict

(* A new step on the path: one that is not permanent and not on it. *)
LEMMA VisitOrdering ==
  ASSUME OInv, VisitRoot \/ Descend
  PROVE  OInv'
<1>1. PICK d \in Steps : /\ path' = Append(path, d)
                         /\ d \notin permanent /\ d \notin OnPath
                         /\ path # <<>> => d \in dependsOn[Top]
  <2>1. CASE VisitRoot
    <3>1. PICK d \in Steps \ permanent : path' = <<d>>
      BY <2>1 DEF VisitRoot
    <3>2. path = <<>> /\ OnPath = {} /\ <<d>> = Append(<<>>, d)
      BY <2>1 DEF VisitRoot, OnPath
    <3> QED
      BY <3>1, <3>2
  <2>2. CASE Descend
    <3>1. /\ stage = "order" /\ path # <<>>
          /\ \E d \in dependsOn[Top] \ (permanent \union OnPath) : path' = Append(path, d)
      BY <2>2 DEF Descend
    <3>2. ~Missing /\ Top \in Steps
      BY <3>1 DEF OInv, Verdict, PathTypes, Top
    <3>3. dependsOn[Top] \subseteq Steps
      BY <3>2 DEF OInv, PathTypes, Missing
    <3> QED
      BY <3>1, <3>3
  <2> QED
    BY <2>1, <2>2
<1>2. /\ path \in Seq(Steps) /\ Len(path) \in Nat /\ path' \in Seq(Steps)
      /\ Len(path') = Len(path) + 1 /\ path'[Len(path) + 1] = d
      /\ \A i \in 1..Len(path) : path'[i] = path[i]
  BY <1>1 DEF OInv, PathTypes
<1>3. /\ stage = "order" /\ UNCHANGED <<dependsOn, stage, permanent, levels>>
  BY DEF VisitRoot, Descend
<1>4. PathTypes'
  BY <1>2, <1>3 DEF OInv, PathTypes
<1>5. Chain'
  <2> SUFFICES ASSUME NEW i \in 1..Len(path)
               PROVE  path'[i + 1] \in dependsOn[path'[i]]
    BY <1>2, <1>3 DEF Chain
  <2>1. CASE i = Len(path)
    BY <1>1, <1>2, <2>1 DEF Top
  <2>2. CASE i # Len(path)
    <3>1. i \in 1..(Len(path) - 1) /\ i + 1 \in 1..Len(path)
      BY <1>2, <2>2
    <3> QED
      BY <1>2, <3>1 DEF OInv, Chain
  <2> QED
    BY <2>1, <2>2
<1>6. OnPath' = OnPath \union {d}
  BY <1>2 DEF OnPath
<1>7. NoStepTwice'
  <2>1. \A i, j \in 1..Len(path') : path'[i] = path'[j] => i = j
    <3>1. \A i \in 1..Len(path) : path'[i] # d /\ path'[i] = path[i]
      BY <1>1, <1>2 DEF OnPath
    <3>2. \A i \in 1..Len(path') : i \in 1..Len(path) \/ i = Len(path) + 1
      BY <1>2
    <3> QED
      BY <1>2, <3>1, <3>2 DEF OInv, NoStepTwice
  <2>2. OnPath' \intersect permanent' = {}
    BY <1>1, <1>3, <1>6 DEF OInv, NoStepTwice
  <2>3. Cardinality(OnPath \union {d}) = Cardinality(OnPath) + 1
    <3>1. OnPath \in SUBSET Steps
      BY DEF OnPath, OInv, PathTypes
    <3> QED
      BY <1>1, <3>1, StepsAreFinite, FS_AddElement
  <2>4. Cardinality(OnPath') = Len(path')
    BY <1>2, <1>6, <2>3 DEF OInv, NoStepTwice
  <2> QED
    BY <2>1, <2>2, <2>4 DEF NoStepTwice
<1>8. ~Missing /\ ~Missing'
  <2>1. ~Missing
    BY DEF VisitRoot, Descend, OInv, Verdict
  <2> QED
    BY <1>3, <2>1 DEF Missing
<1>9. Ranked' /\ Verdict'
  BY <1>3, <1>8 DEF OInv, Ranked, Ranks, Verdict
<1> QED
  BY <1>4, <1>5, <1>7, <1>9 DEF OInv

(* The step at the end of the path becomes permanent: it ranks above all   *)
(* that are.                                                               *)
LEMMA FinishOrdering ==
  ASSUME OInv, Finish
  PROVE  OInv'
<1>1. PICK t \in Steps, n \in Nat : t = Top /\ Len(path) = n + 1
  <2>1. Len(path) \in Nat \ {0} /\ Top \in Steps
    BY DEF Finish, OInv, PathTypes, Top
  <2>2. Len(path) - 1 \in Nat /\ Len(path) = (Len(path) - 1) + 1
    BY <2>1
  <2> QED
    BY <2>1, <2>2
<1>2. /\ stage = "order" /\ UNCHANGED <<dependsOn, stage, levels>>
      /\ path # <<>> /\ dependsOn[t] \subseteq permanent
      /\ permanent' = permanent \union {t}
      /\ path' = SubSeq(path, 1, n)
  BY <1>1 DEF Finish
<1>3. /\ path \in Seq(Steps) /\ path' \in Seq(Steps) /\ Len(path') = n
      /\ \A i \in 1..n : path'[i] = path[i]
      /\ path[n + 1] = t
  BY <1>1, <1>2 DEF OInv, PathTypes, Top
<1>4. PathTypes'
  BY <1>2, <1>3 DEF OInv, PathTypes
<1>5. Chain'
  BY <1>1, <1>2, <1>3 DEF OInv, Chain
<1>6. \A i \in 1..n : path[i] # t
  BY <1>1, <1>3 DEF OInv, NoStepTwice
<1>7. OnPath' = OnPath \ {t} /\ t \in OnPath
  <2>1. OnPath' = {path[i] : i \in 1..n}
    BY <1>3 DEF OnPath
  <2>2. OnPath = {path[i] : i \in 1..n} \union {t}
    <3>1. \A i \in 1..(n + 1) : i \in 1..n \/ i = n + 1
      OBVIOUS
    <3> QED
      BY <1>1, <1>3, <3>1 DEF OnPath
  <2> QED
    BY <1>6, <2>1, <2>2
<1>8. t \notin permanent
  BY <1>7 DEF OInv, NoStepTwice
<1>9. NoStepTwice'
  <2>1. \A i, j \in 1..Len(path') : path'[i] = path'[j] => i = j
    BY <1>1, <1>3 DEF OInv, NoStepTwice
  <2>2. OnPath' \intersect permanent' = {}
    BY <1>2, <1>7 DEF OInv, NoStepTwice
  <2>3. Cardinality(OnPath \ {t}) = Cardinality(OnPath) - 1
    <3>1. OnPath \in SUBSET Steps
      BY DEF OnPath, OInv, PathTypes
    <3> QED
      BY <1>7, <3>1, StepsAreFinite, FS_RemoveElement
  <2>4. Cardinality(OnPath') = Len(path')
    BY <1>1, <1>3, <1>7, <2>3 DEF OInv, NoStepTwice
  <2> QED
    BY <2>1, <2>2, <2>4 DEF NoStepTwice
<1>10. Ranked'
  <2>1. PICK rank \in [Steps -> Nat] : Ranks(rank)
    BY DEF OInv, Ranked
  <2>2. PICK c \in Nat : /\ c = Cardinality(permanent)
                         /\ Cardinality(permanent \union {t}) = c + 1
    <3>1. permanent \in SUBSET Steps
      BY DEF OInv, PathTypes
    <3> QED
      BY <1>8, <3>1, StepsAreFinite, FS_AddElement
  <2>3. PICK r \in [Steps -> Nat] : r = [rank EXCEPT ![t] = c]
    OBVIOUS
  <2>4. r[t] = c /\ \A s \in Steps : s # t => r[s] = rank[s]
    BY <2>3
  <2>5. \A s \in permanent : s # t /\ s \in Steps /\ r[s] = rank[s]
    BY <1>8, <2>4 DEF OInv, PathTypes
  <2>6. \A s \in permanent : /\ rank[s] < c /\ dependsOn[s] \subseteq permanent
                             /\ \A d \in dependsOn[s] : rank[d] < rank[s]
    BY <2>1, <2>2 DEF Ranks
  <2>7. \A s \in permanent \union {t} :
          /\ r[s] < c + 1
          /\ dependsOn[s] \subseteq permanent \union {t}
          /\ \A d \in dependsOn[s] : r[d] < r[s]
    <3> SUFFICES ASSUME NEW s \in permanent \union {t}
                 PROVE  /\ r[s] < c + 1
                        /\ dependsOn[s] \subseteq permanent \union {t}
                        /\ \A d \in dependsOn[s] : r[d] < r[s]
      OBVIOUS
    <3>1. CASE s = t
      <4>1. \A d \in dependsOn[t] : d \in permanent /\ r[d] < c
        BY <1>2, <2>5, <2>6
      <4> QED
        BY <1>2, <2>4, <3>1, <4>1
    <3>2. CASE s \in permanent
      <4>1. r[s] = rank[s] /\ rank[s] \in Nat
        BY <2>5, <3>2
      <4>2. \A d \in dependsOn[s] : d \in permanent /\ r[d] = rank[d]
        BY <2>5, <2>6, <3>2
      <4> QED
        BY <2>6, <3>2, <4>1, <4>2
    <3> QED
      BY <3>1, <3>2
  <2>8. \E q \in [Steps -> Nat] : \A s \in permanent' :
          /\ q[s] < Cardinality(permanent')
          /\ dependsOn'[s] \subseteq permanent'
          /\ \A d \in dependsOn'[s] : q[d] < q[s]
    BY <1>2, <2>2, <2>7
  <2> QED
    BY <2>8 DEF Ranked, Ranks
<1>11. Verdict'
  <2>1. ~Missing
    BY <1>2 DEF OInv, Verdict
  <2>2. ~(Missing')
    BY <1>2, <2>1 DEF Missing
  <2> QED
    BY <1>2, <2>2 DEF Verdict
<1> QED
  BY <1>4, <1>5, <1>9, <1>10, <1>11 DEF OInv

(* The other steps leave the path alone; the split is never stuck, because *)
(* of the steps that are left one has the lowest rank.                     *)
LEMMA NeverStuck ==
  ASSUME OInv, permanent = Steps, Placed # Steps
  PROVE  Ready # {}
<1>1. PICK rank \in [Steps -> Nat] : Ranks(rank)
  BY DEF OInv, Ranked
<1>2. Placed \subseteq Steps
  BY DEF Placed, OInv, PathTypes
<1>3. PICK s \in Steps \ Placed : \A u \in Steps \ Placed : rank[s] <= rank[u]
  <2> DEFINE T == {rank[u] : u \in Steps \ Placed}
  <2>1. T \in SUBSET Nat /\ T # {}
    BY <1>1, <1>2
  <2>2. PICK n \in T : \A m \in T : n <= m
    <3> HIDE DEF T
    <3> QED
      BY <2>1, LeastNatural
  <2> QED
    BY <2>2
<1>4. \A d \in dependsOn[s] : d \in Steps /\ rank[d] < rank[s]
  BY <1>1 DEF Ranks
<1>5. dependsOn[s] \subseteq Placed
  BY <1>1, <1>3, <1>4
<1> QED
  BY <1>5 DEF Ready

LEMMA OtherOrdering ==
  ASSUME OInv,
         \/ RejectMissing \/ FindCycle \/ Ordered \/ NextLevel
         \/ StartLevel \/ AllReturned \/ Cancel
         \/ \E s \in Steps : StepReturns(s) \/ StepRaises(s)
         \/ UNCHANGED vars
  PROVE  OInv'
<1>1. UNCHANGED <<dependsOn, path, permanent>>
  BY DEF RejectMissing, FindCycle, Ordered, NextLevel, StartLevel, AllReturned, Cancel,
         StepReturns, StepRaises, vars, graph
<1>2. levels' \in Seq(SUBSET Steps)
  <2>1. CASE levels' = levels
    BY <2>1 DEF OInv, PathTypes
  <2>2. CASE levels' = Append(levels, Ready)
    <3>1. Ready \in SUBSET Steps
      BY DEF Ready
    <3> QED
      BY <2>2, <3>1 DEF OInv, PathTypes
  <2> QED
    BY <2>1, <2>2
       DEF RejectMissing, FindCycle, Ordered, NextLevel, StartLevel, AllReturned, Cancel,
           StepReturns, StepRaises, vars, graph
<1>3. (OnPath' = OnPath) /\ (Top' = Top) /\ (Missing' <=> Missing)
  BY <1>1 DEF OnPath, Top, Missing
<1>4. PathTypes' /\ Chain' /\ NoStepTwice' /\ Ranked'
  BY <1>1, <1>2, <1>3 DEF OInv, PathTypes, Chain, NoStepTwice, Ranked, Ranks
<1>5. Verdict'
  <2>1. CASE RejectMissing \/ FindCycle
    BY <1>1, <1>3, <2>1 DEF RejectMissing, FindCycle, Verdict
  <2>2. CASE Ordered
    BY <1>1, <2>2 DEF Ordered, Verdict
  <2>3. CASE NextLevel
    <3>1. stage = "level" /\ permanent = Steps /\ Placed # Steps
      BY <2>3 DEF NextLevel, OInv, Verdict
    <3>2. stage' = "level"
      BY <2>3, <3>1, NeverStuck DEF NextLevel
    <3> QED
      BY <1>1, <3>1, <3>2 DEF Verdict
  <2>4. CASE StartLevel \/ AllReturned \/ Cancel
    BY <1>1, <2>4 DEF StartLevel, AllReturned, Cancel, OInv, Verdict
  <2>5. CASE stage' = stage \/ (stage = "run" /\ stage' = "raised")
    BY <1>1, <1>3, <2>5 DEF OInv, Verdict
  <2>6. CASE (\E s \in Steps : StepReturns(s) \/ StepRaises(s)) \/ UNCHANGED vars
    BY <2>5, <2>6 DEF StepReturns, StepRaises, vars
  <2> QED
    BY <2>1, <2>2, <2>3, <2>4, <2>6
<1> QED
  BY <1>4, <1>5 DEF OInv

(* The invariant of the ordering holds in every reachable state. *)
THEOREM OrderingInvariance == Spec => []OInv
<1>1. OInv /\ [Next]_vars => OInv'
  BY VisitOrdering, FinishOrdering, OtherOrdering DEF Next
<1> QED
  BY <1>1, InitOrdering, PTL DEF Spec

(* A definition is rejected exactly if a step depends on an unknown one or, *)
(* through others, on itself, and the split into levels never gets stuck:   *)
(* for any number of steps and any graphs.                                  *)
THEOREM TheVerdictIsRight == Spec => []VerdictIsRight
  BY OrderingInvariance, VerdictFollows, PTL

-----------------------------------------------------------------------------
(* What the type invariant says beyond IInv and OInv: each level placed a  *)
(* step at least, so there are no more levels than steps.                  *)
Filled ==
  /\ dependsOn \in Graphs
  /\ stage \in {"order", "level", "run"} \union Ends
  /\ Len(levels) <= Cardinality(Placed)

LEMMA FilledStep ==
  ASSUME IInv, Filled, [Next]_vars
  PROVE  Filled'
<1>1. UNCHANGED dependsOn
  BY DEF Next, RejectMissing, VisitRoot, Descend, FindCycle, Finish, Ordered, NextLevel,
         StartLevel, AllReturned, Cancel, StepReturns, StepRaises, vars, graph
<1>2. stage' \in {"order", "level", "run"} \union Ends
  BY DEF Filled, Ends, Next, RejectMissing, VisitRoot, Descend, FindCycle, Finish, Ordered,
         NextLevel, StartLevel, AllReturned, Cancel, StepReturns, StepRaises, vars
<1>3. Len(levels') <= Cardinality(Placed')
  <2>1. CASE levels' = levels
    BY <2>1 DEF Filled, Placed
  <2>2. CASE NextLevel /\ levels' = Append(levels, Ready) /\ Ready # {}
    <3>1. Ready \in SUBSET Steps /\ Ready \intersect Placed = {}
      BY DEF Ready
    <3> DEFINE n == Len(levels)
    <3>2. /\ n \in Nat /\ Len(levels') = n + 1
          /\ \A i \in 1..n : levels'[i] = levels[i]
          /\ levels'[n + 1] = Ready
          /\ \A i \in 1..n : levels[i] \subseteq Steps
      BY <2>2, <3>1, Appending DEF IInv, Types
    <3> HIDE DEF n
    <3>3. Placed = UNION {levels[i] : i \in 1..n} /\ Placed \subseteq Steps
      BY <3>2 DEF Placed, n
    <3>4. Placed' = Placed \union Ready
      <4>1. Placed' = UNION {levels'[i] : i \in 1..(n + 1)}
        BY <3>2 DEF Placed
      <4>2. \A i \in 1..(n + 1) : i \in 1..n \/ i = n + 1
        BY <3>2
      <4>3. n + 1 \in 1..(n + 1) /\ \A i \in 1..n : i \in 1..(n + 1)
        BY <3>2
      <4> QED
        BY <3>2, <3>3, <4>1, <4>2, <4>3
    <3>5. Placed \in SUBSET (Placed') /\ Placed # Placed' /\ Placed' \in SUBSET Steps
      BY <2>2, <3>1, <3>3, <3>4
    <3>6. Cardinality(Placed) + 1 <= Cardinality(Placed')
      <4>1. /\ IsFiniteSet(Placed') /\ Cardinality(Placed') \in Nat
            /\ Cardinality(Placed) \in Nat
        BY <3>3, <3>5, StepsAreFinite
      <4>2. /\ Cardinality(Placed) <= Cardinality(Placed')
            /\ Cardinality(Placed') = Cardinality(Placed) => Placed' = Placed
        BY <3>5, <4>1, FS_Subset
      <4> QED
        BY <3>5, <4>1, <4>2
    <3>7. Cardinality(Placed) \in Nat /\ Cardinality(Placed') \in Nat
      BY <3>3, <3>5, StepsAreFinite
    <3> QED
      BY <3>2, <3>6, <3>7 DEF Filled, n
  <2> QED
    BY <2>1, <2>2
       DEF Next, RejectMissing, VisitRoot, Descend, FindCycle, Finish, Ordered, NextLevel,
           StartLevel, AllReturned, Cancel, StepReturns, StepRaises, vars, graph
<1> QED
  BY <1>1, <1>2, <1>3 DEF Filled

(* Every variable keeps its type; neither the nesting of visit() nor the   *)
(* levels exceed the number of steps.                                      *)
THEOREM TypeCorrect == Spec => []TypeOK
<1>1. Init => Filled
  <2> SUFFICES ASSUME Init PROVE Filled
    OBVIOUS
  <2>1. levels = <<>> /\ Placed = {}
    BY DEF Init, Placed
  <2> QED
    BY <2>1, FS_EmptySet DEF Init, Filled
<1>2. IInv /\ OInv /\ Filled => TypeOK
  <2> SUFFICES ASSUME IInv, OInv, Filled PROVE TypeOK
    OBVIOUS
  <2>1. Placed \in SUBSET Steps
    BY DEF Placed, IInv, Types
  <2>2. Len(levels) <= N /\ level \in 0..N
    <3>1. Cardinality(Placed) <= N /\ Cardinality(Placed) \in Nat
      BY <2>1, StepsAreFinite
    <3>2. Len(levels) \in Nat
      BY DEF IInv, Types
    <3> QED
      BY <3>1, <3>2, WorkflowConstants DEF Filled, IInv, Types
  <2>3. Len(path) <= N
    BY PathIsShort DEF OInv
  <2> QED
    BY <2>2, <2>3 DEF TypeOK, IInv, Types, States, OInv, PathTypes, Filled
<1> QED
  BY <1>1, <1>2, FilledStep, Invariance, OrderingInvariance, PTL DEF Spec
=============================================================================
