------------------------- MODULE RetimeSearch_proofs -------------------------
(***************************************************************************)
(* For every grid, resolution and iteration count, and for every feasible  *)
(* set: the search is well typed, keeps its bracket, implements its        *)
(* contract, and is minimal within a final bracket if the margin is        *)
(* monotonic.                                                              *)
(***************************************************************************)
EXTENDS RetimeSearch, TLAPS, FiniteSetTheorems

(* Grid points are ticks, and grow with their index. *)
LEMMA GridTickType ==
  ASSUME NEW k \in 0 .. GridCells
  PROVE  GridTick(k) \in Ticks
BY GridAssumption DEF GridTick, Ticks, LastTick

LEMMA GridTickStep ==
  ASSUME NEW k \in Int
  PROVE  /\ GridTick(k) \in Int
         /\ GridTick(k - 1) = GridTick(k) - Cell
         /\ GridTick(0) = 0
         /\ Cell > 0
BY GridAssumption DEF GridTick

LEMMA LastTickType == LastTick \in Ticks /\ 0 \in Ticks /\ Ticks \subseteq Int
BY GridAssumption DEF Ticks, LastTick

(* The midpoint of a bracket is inside it. *)
LEMMA Midpoint ==
  ASSUME NEW a \in Ticks, NEW b \in Ticks, a <= b
  PROVE  /\ (a + b) \div 2 \in Ticks
         /\ a <= (a + b) \div 2
         /\ (a + b) \div 2 <= b
BY GridAssumption DEF Ticks, LastTick

-----------------------------------------------------------------------------
(* The type invariant is inductive only together with the order of the     *)
(* bracket, which keeps its midpoint between its ends.                     *)
TypeInv == TypeOK /\ lo <= hi

LEMMA TypeInit == Init => TypeInv
BY GridAssumption, IterationsAssumption, LastTickType
   DEF Init, TypeInv, TypeOK

LEMMA TypeStep == TypeInv /\ [Next]_vars => TypeInv'
<1> SUFFICES ASSUME TypeInv, [Next]_vars PROVE TypeInv'
  OBVIOUS
<1> USE GridAssumption, IterationsAssumption DEF TypeInv, TypeOK
<1>1. CASE ProbeLamMaxClears
  BY <1>1, LastTickType DEF ProbeLamMaxClears, Ticks
<1>2. CASE ProbeLamMaxFails
  BY <1>2 DEF ProbeLamMaxFails
<1>3. CASE ScanGridPoint
  BY <1>3 DEF ScanGridPoint
<1>4. CASE ScanExhausted
  BY <1>4 DEF ScanExhausted
<1>5. CASE ScanBracket
  <2>1. first_feasible \in 0 .. GridCells /\ BracketStart(first_feasible) \in 0 .. GridCells
    BY <1>5 DEF ScanBracket, BracketStart
  <2>2. GridTick(BracketStart(first_feasible)) <= GridTick(first_feasible)
    BY <2>1, GridTickStep, LastTickType DEF BracketStart
  <2>3. QED
    BY <1>5, <2>1, <2>2, GridTickType DEF ScanBracket
<1>6. CASE Bisect
  <2> DEFINE mid == (lo + hi) \div 2
  <2>1. mid \in Ticks /\ lo <= mid /\ mid <= hi
    BY Midpoint
  <2>2. iter' \in 0 .. Iterations
    BY <1>6 DEF Bisect, MoreIterations
  <2>3. lo' \in Ticks /\ hi' \in Ticks /\ lo' <= hi'
    BY <1>6, <2>1 DEF Bisect
  <2>4. QED
    BY <1>6, <2>2, <2>3 DEF Bisect
<1>7. CASE ReturnHi
  BY <1>7 DEF ReturnHi, Returned
<1>8. CASE UNCHANGED vars
  BY <1>8 DEF vars
<1>9. QED
  BY <1>1, <1>2, <1>3, <1>4, <1>5, <1>6, <1>7, <1>8 DEF Next

(* The search's state is always well typed, for every grid and every       *)
(* margin landscape.                                                       *)
THEOREM TypeCorrect == Spec => []TypeOK
<1>1. TypeInv => TypeOK
  BY DEF TypeInv
<1>2. QED
  BY TypeInit, TypeStep, <1>1, PTL DEF Spec

-----------------------------------------------------------------------------
(* What the refinement needs beyond Bracket and ScanIsLeast: on the slow   *)
(* path the bracket stays inside the cell of the first feasible grid       *)
(* point, and a result is one the contract allows.                         *)
InFirstCell(k) ==
  /\ FirstFeasibleCell(feasible, k)
  /\ GridTick(k - 1) <= lo
  /\ GridTick(k - 1) < hi
  /\ hi <= GridTick(k)

SearchInv ==
  /\ TypeInv
  /\ Bracket
  /\ ScanIsLeast
  /\ pc = "probe" => i = 0 /\ first_feasible = -1
  /\ pc = "bisect" /\ LastTick \notin feasible => \E k \in 0 .. GridCells : InFirstCell(k)
  /\ pc # "done" => result = Pending
  /\ pc = "done" => result \in Results(feasible)

LEMMA SearchInit == Init => SearchInv
<1> SUFFICES ASSUME Init PROVE SearchInv
  OBVIOUS
<1>1. Pending \notin Ticks
  BY DEF Ticks, Pending
<1>2. QED
  BY TypeInit, <1>1 DEF Init, SearchInv, Bracket, ScanIsLeast

(* A feasible tick at or above an infeasible grid point, or above the      *)
(* start, is strictly above it.                                            *)
LEMMA AboveFirstCell ==
  ASSUME TypeOK, NEW k \in 0 .. GridCells, FirstFeasibleCell(feasible, k),
         NEW t \in feasible, GridTick(k - 1) <= t
  PROVE  GridTick(k - 1) < t
<1>1. t \in Int /\ t >= 0 /\ k \in Int
  BY GridAssumption DEF TypeOK, Ticks
<1>2. CASE k = 0
  <2>1. GridTick(k - 1) = 0 - Cell /\ Cell \in Nat \ {0}
    BY <1>2, GridAssumption DEF GridTick
  <2>2. QED
    BY <1>1, <2>1
<1>3. CASE k # 0
  <2>1. k - 1 \in 0 .. k - 1
    BY <1>1, <1>3, GridAssumption
  <2>2. GridTick(k - 1) \notin feasible
    BY <2>1 DEF FirstFeasibleCell
  <2>3. GridTick(k - 1) \in Int
    BY <1>1, GridTickStep
  <2>4. QED
    BY <1>1, <2>2, <2>3
<1>4. QED
  BY <1>2, <1>3

LEMMA ScanStep == SearchInv /\ ScanGridPoint => SearchInv'
<1> SUFFICES ASSUME SearchInv, ScanGridPoint PROVE SearchInv'
  OBVIOUS
<1> USE GridAssumption DEF SearchInv, TypeInv, TypeOK
<1>1. TypeInv'
  BY TypeStep DEF Next
<1>2. /\ pc = "scan" /\ pc' = "scan" /\ i' = i + 1 /\ i \in 0 .. GridCells
      /\ feasible' = feasible /\ result' = result
  BY DEF ScanGridPoint
<1>3. ScanIsLeast'
  <2>1. CASE first_feasible >= 0
    <3>1. first_feasible' = first_feasible
      BY <2>1 DEF ScanGridPoint, IsFirstHit
    <3>2. QED
      BY <1>2, <2>1, <3>1 DEF ScanIsLeast, FirstFeasibleCell
  <2>2. CASE first_feasible < 0 /\ GridTick(i) \in feasible
    <3>1. first_feasible' = i
      BY <2>2 DEF ScanGridPoint, IsFirstHit, MarginClears
    <3>2. QED
      BY <1>2, <2>2, <3>1 DEF ScanIsLeast, FirstFeasibleCell
  <2>3. CASE first_feasible < 0 /\ GridTick(i) \notin feasible
    <3>1. first_feasible' = first_feasible
      BY <2>3 DEF ScanGridPoint, IsFirstHit, MarginClears
    <3>2. \A k \in 0 .. i : k = i \/ k \in 0 .. i - 1
      BY <1>2
    <3>3. QED
      BY <1>2, <2>3, <3>1, <3>2 DEF ScanIsLeast
  <2>4. QED
    BY <2>1, <2>2, <2>3
<1>4. Bracket'
  BY <1>2 DEF Bracket
<1>5. QED
  BY <1>1, <1>2, <1>3, <1>4

LEMMA ExhaustedStep == SearchInv /\ ScanExhausted => SearchInv'
<1> SUFFICES ASSUME SearchInv, ScanExhausted PROVE SearchInv'
  OBVIOUS
<1> USE GridAssumption DEF SearchInv, TypeInv, TypeOK
<1>1. TypeInv'
  BY TypeStep DEF Next
<1>2. /\ pc = "scan" /\ pc' = "done" /\ result' = NoLambda /\ feasible' = feasible
      /\ i = GridCells + 1 /\ first_feasible < 0
  BY DEF ScanExhausted
<1>3. NoLambda \in Results(feasible)
  BY <1>2 DEF ScanIsLeast, Results
<1>4. NoLambda \notin Ticks
  BY DEF NoLambda, Ticks
<1>5. QED
  BY <1>1, <1>2, <1>3, <1>4 DEF Bracket, ScanIsLeast

LEMMA BracketStep == SearchInv /\ ScanBracket => SearchInv'
<1> SUFFICES ASSUME SearchInv, ScanBracket PROVE SearchInv'
  OBVIOUS
<1> USE GridAssumption DEF SearchInv, TypeInv, TypeOK
<1>1. TypeInv'
  BY TypeStep DEF Next
<1>k. PICK k \in 0 .. GridCells : k = first_feasible
  BY DEF ScanBracket
<1>2. /\ pc = "scan" /\ pc' = "bisect" /\ result' = Pending /\ feasible' = feasible
      /\ k \in 0 .. GridCells /\ FirstFeasibleCell(feasible, k)
      /\ lo' = GridTick(BracketStart(k)) /\ hi' = GridTick(k)
  BY <1>k DEF ScanBracket, ScanIsLeast
<1>3. /\ GridTick(k - 1) <= lo'
      /\ lo' = 0 \/ lo' \notin feasible
  <2>1. CASE k = 0
    BY <1>2, <2>1, GridTickStep DEF BracketStart
  <2>2. CASE k # 0
    <3>1. k - 1 \in 0 .. k - 1 /\ lo' = GridTick(k - 1)
      BY <1>2, <2>2 DEF BracketStart
    <3>2. QED
      BY <1>2, <3>1, GridTickStep DEF FirstFeasibleCell
  <2>3. QED
    BY <2>1, <2>2
<1>4. GridTick(k - 1) < hi' /\ hi' \in feasible /\ hi' <= GridTick(k)
  BY <1>2, GridTickStep DEF FirstFeasibleCell
<1>5. InFirstCell(k)'
  BY <1>2, <1>3, <1>4 DEF InFirstCell, FirstFeasibleCell
<1>6. Pending \notin Ticks
  BY DEF Pending, Ticks
<1>7. Bracket'
  BY <1>1, <1>2, <1>3, <1>4, <1>6 DEF Bracket
<1>8. \E c \in 0 .. GridCells : InFirstCell(c)'
  BY <1>2, <1>5
<1>9. QED
  BY <1>1, <1>2, <1>7, <1>8 DEF ScanIsLeast

LEMMA ProbeStep == SearchInv /\ (ProbeLamMaxClears \/ ProbeLamMaxFails) => SearchInv'
<1> SUFFICES ASSUME SearchInv, ProbeLamMaxClears \/ ProbeLamMaxFails PROVE SearchInv'
  OBVIOUS
<1> USE GridAssumption DEF SearchInv, TypeInv, TypeOK
<1>1. TypeInv'
  BY TypeStep DEF Next
<1>2. Pending \notin Ticks
  BY DEF Pending, Ticks
<1>3. CASE ProbeLamMaxClears
  <2>1. /\ pc' = "bisect" /\ lo' = 0 /\ hi' = LastTick /\ LastTick \in feasible
        /\ feasible' = feasible /\ result' = Pending
    BY <1>3 DEF ProbeLamMaxClears, MarginClears
  <2>2. 0 <= LastTick
    BY LastTickType DEF Ticks
  <2>3. Bracket'
    BY <1>2, <2>1, <2>2 DEF Bracket
  <2>4. QED
    BY <1>1, <2>1, <2>3 DEF ScanIsLeast
<1>4. CASE ProbeLamMaxFails
  <2>1. /\ pc' = "scan" /\ LastTick \notin feasible /\ i' = 0 /\ first_feasible' = -1
        /\ feasible' = feasible /\ result' = Pending
    BY <1>4 DEF ProbeLamMaxFails, MarginClears
  <2>2. 0 .. i' - 1 = {}
    BY <2>1
  <2>3. ScanIsLeast'
    BY <2>1, <2>2 DEF ScanIsLeast
  <2>4. QED
    BY <1>1, <1>2, <2>1, <2>3 DEF Bracket
<1>5. QED
  BY <1>3, <1>4

LEMMA BisectStep == SearchInv /\ Bisect => SearchInv'
<1> SUFFICES ASSUME SearchInv, Bisect PROVE SearchInv'
  OBVIOUS
<1> USE GridAssumption DEF SearchInv, TypeInv, TypeOK
<1>1. TypeInv'
  BY TypeStep DEF Next
<1>m. PICK mid \in Ticks : mid = (lo + hi) \div 2 /\ lo <= mid /\ mid <= hi
  BY Midpoint
<1>2. /\ pc = "bisect" /\ pc' = "bisect" /\ result' = Pending /\ result = Pending
      /\ feasible' = feasible
      /\ \/ mid \in feasible /\ hi' = mid /\ lo' = lo
         \/ mid \notin feasible /\ lo' = mid /\ hi' = hi
  BY <1>m DEF Bisect, MarginClears
<1>3. Bracket'
  BY <1>1, <1>2, <1>m DEF Bracket
<1>4. ASSUME LastTick \notin feasible
      PROVE  \E k \in 0 .. GridCells : InFirstCell(k)'
  <2>1. PICK k \in 0 .. GridCells : InFirstCell(k)
    BY <1>2, <1>4
  <2>2. GridTick(k) \in Int /\ GridTick(k - 1) \in Int /\ lo \in Int /\ hi \in Int /\ mid \in Int
    BY GridTickStep, LastTickType
  <2>3. GridTick(k - 1) <= mid /\ mid <= GridTick(k)
    BY <1>m, <2>1, <2>2 DEF InFirstCell
  <2>4. CASE mid \in feasible
    <3>1. GridTick(k - 1) < mid
      BY <2>1, <2>3, <2>4, AboveFirstCell DEF InFirstCell
    <3>2. QED
      BY <1>2, <2>1, <2>3, <2>4, <3>1 DEF InFirstCell, FirstFeasibleCell
  <2>5. CASE mid \notin feasible
    BY <1>2, <2>1, <2>3, <2>5 DEF InFirstCell, FirstFeasibleCell
  <2>6. QED
    BY <2>4, <2>5
<1>5. QED
  BY <1>1, <1>2, <1>3, <1>4 DEF ScanIsLeast

LEMMA ReturnStep == SearchInv /\ ReturnHi => SearchInv'
<1> SUFFICES ASSUME SearchInv, ReturnHi PROVE SearchInv'
  OBVIOUS
<1> USE GridAssumption DEF SearchInv, TypeInv, TypeOK
<1>1. TypeInv'
  BY TypeStep DEF Next
<1>2. /\ pc = "bisect" /\ pc' = "done" /\ result' = hi /\ hi \in feasible /\ feasible' = feasible
  BY DEF ReturnHi, Returned, Bracket
<1>3. hi \in Results(feasible)
  <2>1. CASE LastTick \in feasible
    BY <1>2, <2>1 DEF Results
  <2>2. CASE LastTick \notin feasible
    <3>1. PICK k \in 0 .. GridCells : InFirstCell(k)
      BY <1>2, <2>2
    <3>2. GridTick(k) \in feasible
      BY <3>1 DEF InFirstCell, FirstFeasibleCell
    <3>3. QED
      BY <1>2, <2>2, <3>1, <3>2 DEF Results, InFirstCell
  <2>3. QED
    BY <2>1, <2>2
<1>4. QED
  BY <1>1, <1>2, <1>3 DEF Bracket, ScanIsLeast

LEMMA SearchStep == SearchInv /\ [Next]_vars => SearchInv'
<1>1. SearchInv /\ UNCHANGED vars => SearchInv'
  BY DEF vars, SearchInv, TypeInv, TypeOK, Bracket, ScanIsLeast, InFirstCell, FirstFeasibleCell
<1>2. QED
  BY <1>1, ProbeStep, ScanStep, ExhaustedStep, BracketStep, BisectStep, ReturnStep DEF Next

(* Whatever the margin landscape, and however many bisection steps: the    *)
(* dilation returned is one whose retimed route clears the target.         *)
THEOREM BracketCorrect == Spec => []Bracket
<1>1. SearchInv => Bracket
  BY DEF SearchInv
<1>2. QED
  BY SearchInit, SearchStep, <1>1, PTL DEF Spec

-----------------------------------------------------------------------------
(* The contract instance has this module's constants. *)
LEMMA ContractResults ==
  /\ Contract!Results(feasible) = Results(feasible)
  /\ Contract!Ticks = Ticks
  /\ Contract!Pending = Pending
BY DEF Contract!Results, Contract!FirstFeasibleCell, Contract!GridTick, Contract!LastTick,
       Contract!NoLambda, Contract!Ticks, Contract!Pending,
       Results, FirstFeasibleCell, GridTick, LastTick, NoLambda, Ticks, Pending

LEMMA RefineStep ==
  SearchInv /\ SearchInv' /\ [Next]_vars => [Contract!Return]_<<feasible, result>>
<1> SUFFICES ASSUME SearchInv, SearchInv', [Next]_vars
             PROVE  [Contract!Return]_<<feasible, result>>
  OBVIOUS
<1>1. CASE ScanExhausted \/ ReturnHi
  <2>1. feasible' = feasible /\ pc # "done" /\ pc' = "done"
    BY <1>1 DEF ScanExhausted, ReturnHi
  <2>2. result = Pending /\ result' \in Results(feasible)
    BY <2>1 DEF SearchInv
  <2>3. QED
    BY <2>1, <2>2, ContractResults DEF Contract!Return
<1>2. CASE ~(ScanExhausted \/ ReturnHi)
  BY <1>2 DEF Next, vars, ProbeLamMaxClears, ProbeLamMaxFails, ScanGridPoint, ScanBracket, Bisect
<1>3. QED
  BY <1>1, <1>2

(* The stepwise search, scan and bisection included, does what one atomic  *)
(* choice from the contract's results does.                                *)
THEOREM Implements == Spec => RefinesContract
<1>1. Init => Contract!Init
  BY ContractResults DEF Init, Contract!Init
<1>2. QED
  BY <1>1, SearchInit, SearchStep, RefineStep, PTL DEF Spec, RefinesContract, Contract!Spec

-----------------------------------------------------------------------------
(* Powers of two, counted as subsets: those of 1 .. k + 1 are those of     *)
(* 1 .. k, without and with k + 1.                                         *)
LEMMA PowerOfTwo ==
  ASSUME NEW k \in Nat
  PROVE  2^k \in Nat \ {0} /\ 2^(k + 1) = 2 * 2^k
<1> DEFINE Without == SUBSET (1 .. k)
           With == {B \cup {k + 1} : B \in Without}
           f == [B \in Without |-> B \cup {k + 1}]
<1>1. /\ IsFiniteSet(1 .. k) /\ Cardinality(1 .. k) = k
      /\ IsFiniteSet(1 .. k + 1) /\ Cardinality(1 .. k + 1) = k + 1
  BY FS_Interval
<1>2. /\ IsFiniteSet(Without) /\ Cardinality(Without) = 2^k
      /\ Cardinality(SUBSET (1 .. k + 1)) = 2^(k + 1)
  BY <1>1, FS_SUBSET
<1>3. k + 1 \notin 1 .. k /\ 1 .. k + 1 = (1 .. k) \cup {k + 1}
  OBVIOUS
<1>4. f \in Bijection(Without, With)
  <2>1. f \in [Without -> With] /\ \A C \in With : \E B \in Without : f[B] = C
    OBVIOUS
  <2>2. ASSUME NEW A \in Without, NEW B \in Without, f[A] = f[B]
        PROVE  A = B
    <3>1. A \cup {k + 1} = B \cup {k + 1} /\ k + 1 \notin A /\ k + 1 \notin B
      BY <1>3, <2>2
    <3>2. QED
      BY <3>1
  <2>3. QED
    BY <2>1, <2>2 DEF Bijection, Injection, Surjection, IsInjective
<1>5. IsFiniteSet(With) /\ Cardinality(With) = 2^k
  BY <1>2, <1>4, FS_Bijection DEF ExistsBijection
<1>6. SUBSET (1 .. k + 1) = Without \cup With
  <2>1. ASSUME NEW C \in SUBSET (1 .. k + 1)
        PROVE  C \in Without \cup With
    <3>1. CASE k + 1 \in C
      <4>1. C \ {k + 1} \in Without /\ C = (C \ {k + 1}) \cup {k + 1}
        BY <1>3, <3>1
      <4>2. QED
        BY <4>1
    <3>2. CASE k + 1 \notin C
      BY <1>3, <3>2
    <3>3. QED
      BY <3>1, <3>2
  <2>2. ASSUME NEW C \in Without \cup With
        PROVE  C \in SUBSET (1 .. k + 1)
    <3>1. C \in Without => C \subseteq (1 .. k) \cup {k + 1}
      OBVIOUS
    <3>2. C \in With => C \subseteq (1 .. k) \cup {k + 1}
      OBVIOUS
    <3>3. QED
      BY <1>3, <3>1, <3>2
  <2>3. QED
    BY <2>1, <2>2
<1>7. Without \cap With = {}
  BY <1>3
<1>8. 2^(k + 1) = 2^k + 2^k
  <2>1. 2^k \in Nat
    BY <1>2, FS_CardinalityType
  <2>2. Cardinality(Without \cup With)
          = Cardinality(Without) + Cardinality(With) - Cardinality(Without \cap With)
    BY <1>2, <1>5, FS_Union, Zenon
  <2>3. Cardinality(Without \cap With) = 0
    BY <1>7, FS_EmptySet, Zenon
  <2>4. Cardinality(Without \cup With) = 2^(k + 1)
    BY <1>2, <1>6, Zenon
  <2>5. 2^(k + 1) = 2^k + 2^k - 0
    BY <1>2, <1>5, <2>2, <2>3, <2>4, Zenon
  <2>6. QED
    BY <2>1, <2>5
<1>9. 2^k \in Nat \ {0}
  <2>1. 2^k \in Nat /\ {} \in Without
    BY <1>2, FS_CardinalityType
  <2>2. QED
    BY <1>2, <2>1, FS_EmptySet
<1>10. QED
  BY <1>8, <1>9

(* A factor of at most the dividend is at most the quotient.               *)
LEMMA Quotient ==
  ASSUME NEW total \in Nat, NEW parts \in Nat \ {0}, NEW part \in Int, part * parts <= total
  PROVE  part <= total \div parts
<1>1. CASE part >= 0
  BY <1>1
<1>2. CASE part < 0
  <2>1. total \div parts >= 0
    OBVIOUS
  <2>2. QED
    BY <1>2, <2>1
<1>3. QED
  BY <1>1, <1>2

(* The bracket narrows: after each halving, what may lie between the       *)
(* smallest feasible dilation and the upper end, which is the width itself *)
(* from an untested start and one tick less from a tested one, is at most  *)
(* the whole range divided by the halvings taken.                          *)
Narrow ==
  \/ lo = 0 /\ hi * 2^iter <= LastTick
  \/ lo \notin feasible /\ (hi - lo - 1) * 2^iter <= LastTick

NarrowInv ==
  /\ pc \in {"probe", "scan"} => iter = 0
  /\ pc = "bisect" => Narrow
  /\ result \in Ticks => result = hi /\ iter = Iterations /\ Narrow

LEMMA NarrowInit == Init => NarrowInv
BY DEF Init, NarrowInv, Ticks, Pending

\* A bracket in which nothing has been halved yet.
LEMMA NotHalved ==
  ASSUME NEW width \in Int
  PROVE  2^0 = 1 /\ width * 2^0 = width
<1>1. 2^0 = 1
  OBVIOUS
<1>2. QED
  BY <1>1

\* Half a width, and its power.
LEMMA Halved ==
  ASSUME NEW k \in Nat, NEW width \in Int, NEW half \in Int, 2 * half <= width,
         width * 2^k <= LastTick
  PROVE  half * 2^(k + 1) <= LastTick
<1>1. PICK p \in Nat \ {0} : p = 2^k /\ 2^(k + 1) = 2 * p
  BY PowerOfTwo
<1>2. half * (2 * p) = (2 * half) * p
  BY <1>1
<1>3. (width - 2 * half) * p >= 0
  BY <1>1
<1>4. (width - 2 * half) * p = width * p - (2 * half) * p
  BY <1>1
<1>5. LastTick \in Int
  BY LastTickType
<1>6. QED
  BY <1>1, <1>2, <1>3, <1>4, <1>5

LEMMA NarrowBisect == SearchInv /\ NarrowInv /\ Bisect => NarrowInv'
<1> SUFFICES ASSUME SearchInv, NarrowInv, Bisect PROVE NarrowInv'
  OBVIOUS
<1> USE DEF SearchInv, TypeInv, TypeOK
<1>1. /\ pc = "bisect" /\ pc' = "bisect" /\ iter' = iter + 1 /\ feasible' = feasible
      /\ result' = result /\ result \notin Ticks
  BY DEF Bisect, Ticks, Pending
<1>m. PICK mid \in Ticks : mid = (lo + hi) \div 2 /\ lo <= mid /\ mid <= hi
  BY Midpoint
<1>2. \/ mid \in feasible /\ hi' = mid /\ lo' = lo
      \/ mid \notin feasible /\ lo' = mid /\ hi' = hi
  BY <1>m DEF Bisect, MarginClears
<1>3. lo \in Nat /\ hi \in Nat /\ mid \in Nat /\ iter \in Nat
  BY DEF Ticks
<1>4. 2 * mid <= lo + hi /\ lo + hi <= 2 * mid + 1
  BY <1>m, <1>3
<1>5. CASE lo = 0 /\ hi * 2^iter <= LastTick
  <2>1. CASE mid \in feasible
    <3>1. mid * 2^(iter + 1) <= LastTick
      BY <1>3, <1>4, <1>5, Halved
    <3>2. QED
      BY <1>1, <1>2, <1>5, <2>1, <3>1 DEF NarrowInv, Narrow
  <2>2. CASE mid \notin feasible
    <3>1. (hi - mid - 1) * 2^(iter + 1) <= LastTick
      <4>1. hi - mid - 1 \in Int /\ hi \in Int /\ 2 * (hi - mid - 1) <= hi
        BY <1>3, <1>4, <1>5
      <4>2. QED
        BY <1>3, <1>5, <4>1, Halved
    <3>2. QED
      BY <1>1, <1>2, <2>2, <3>1 DEF NarrowInv, Narrow
  <2>3. QED
    BY <2>1, <2>2
<1>6. CASE lo \notin feasible /\ (hi - lo - 1) * 2^iter <= LastTick
  <2>1. CASE mid \in feasible
    <3>1. (mid - lo - 1) * 2^(iter + 1) <= LastTick
      <4>1. /\ mid - lo - 1 \in Int /\ hi - lo - 1 \in Int
            /\ 2 * (mid - lo - 1) <= hi - lo - 1
        BY <1>3, <1>4
      <4>2. QED
        BY <1>3, <1>6, <4>1, Halved
    <3>2. QED
      BY <1>1, <1>2, <1>6, <2>1, <3>1 DEF NarrowInv, Narrow
  <2>2. CASE mid \notin feasible
    <3>1. (hi - mid - 1) * 2^(iter + 1) <= LastTick
      <4>1. /\ hi - mid - 1 \in Int /\ hi - lo - 1 \in Int
            /\ 2 * (hi - mid - 1) <= hi - lo - 1
        BY <1>3, <1>4
      <4>2. QED
        BY <1>3, <1>6, <4>1, Halved
    <3>2. QED
      BY <1>1, <1>2, <2>2, <3>1 DEF NarrowInv, Narrow
  <2>3. QED
    BY <2>1, <2>2
<1>7. QED
  BY <1>1, <1>5, <1>6 DEF NarrowInv, Narrow

LEMMA NarrowStart ==
  SearchInv /\ NarrowInv /\ (ProbeLamMaxClears \/ ScanBracket) => NarrowInv'
<1> SUFFICES ASSUME SearchInv, NarrowInv, ProbeLamMaxClears \/ ScanBracket PROVE NarrowInv'
  OBVIOUS
<1> USE DEF SearchInv, TypeInv, TypeOK
<1>1. /\ pc' = "bisect" /\ iter' = 0 /\ feasible' = feasible
      /\ result' = result /\ result \notin Ticks
  BY DEF ProbeLamMaxClears, ScanBracket, NarrowInv, Ticks, Pending
<1>2. Narrow'
  <2>1. CASE ProbeLamMaxClears
    <3>1. lo' = 0 /\ hi' = LastTick /\ LastTick \in Int
      BY <2>1, LastTickType DEF ProbeLamMaxClears
    <3>2. LastTick * 2^0 = LastTick
      BY <3>1, NotHalved
    <3>3. QED
      BY <1>1, <3>1, <3>2 DEF Narrow
  <2>2. CASE ScanBracket
    <3>k. PICK k \in 0 .. GridCells : k = first_feasible
      BY <2>2, GridAssumption DEF ScanBracket
    <3>1. FirstFeasibleCell(feasible, k) /\ lo' = GridTick(BracketStart(k)) /\ hi' = GridTick(k)
      BY <2>2, <3>k DEF ScanBracket, ScanIsLeast
    <3>2. CASE k = 0
      <4>1. lo' = 0 /\ hi' = 0
        BY <3>1, <3>2, GridTickStep DEF BracketStart
      <4>2. hi' * 2^0 = 0 /\ 0 <= LastTick
        BY <4>1, NotHalved, LastTickType DEF Ticks
      <4>3. QED
        BY <1>1, <4>1, <4>2 DEF Narrow
    <3>3. CASE k # 0
      <4>1. k - 1 \in 0 .. k - 1 /\ lo' = GridTick(k - 1)
        BY <3>1, <3>3, GridAssumption DEF BracketStart
      <4>2. lo' \notin feasible
        BY <3>1, <4>1 DEF FirstFeasibleCell
      <4>3. hi' - lo' - 1 = Cell - 1 /\ Cell - 1 \in Int
        BY <3>1, <4>1, GridTickStep, GridAssumption
      <4>4. (hi' - lo' - 1) * 2^0 = Cell - 1
        BY <4>3, NotHalved
      <4>5. Cell - 1 <= LastTick
        <5>1. (GridCells - 1) * Cell >= 0 /\ (GridCells - 1) * Cell = LastTick - Cell
          BY GridAssumption DEF LastTick
        <5>2. QED
          BY <5>1, GridAssumption DEF LastTick
      <4>6. QED
        BY <1>1, <4>2, <4>4, <4>5 DEF Narrow
    <3>4. QED
      BY <3>2, <3>3
  <2>3. QED
    BY <2>1, <2>2
<1>3. QED
  BY <1>1, <1>2 DEF NarrowInv

LEMMA NarrowStep == SearchInv /\ NarrowInv /\ [Next]_vars => NarrowInv'
<1> SUFFICES ASSUME SearchInv, NarrowInv, [Next]_vars PROVE NarrowInv'
  OBVIOUS
<1> USE DEF SearchInv, TypeInv, TypeOK
<1>1. CASE ProbeLamMaxFails \/ ScanGridPoint \/ ScanExhausted
  <2>1. pc' \in {"scan", "done"} /\ iter' = iter /\ iter = 0 /\ result' \notin Ticks
    BY <1>1 DEF ProbeLamMaxFails, ScanGridPoint, ScanExhausted, NarrowInv, Ticks, Pending, NoLambda
  <2>2. QED
    BY <2>1 DEF NarrowInv
<1>2. CASE ReturnHi
  <2>1. /\ pc = "bisect" /\ pc' = "done" /\ result' = hi
        /\ UNCHANGED <<feasible, lo, hi, iter>> /\ ~(iter < Iterations)
    BY <1>2 DEF ReturnHi, Returned, MoreIterations
  <2>2. iter = Iterations
    BY <2>1, IterationsAssumption
  <2>3. QED
    BY <2>1, <2>2 DEF NarrowInv, Narrow
<1>3. CASE UNCHANGED vars
  BY <1>3 DEF vars, NarrowInv, Narrow
<1>4. QED
  BY <1>1, <1>2, <1>3, NarrowBisect, NarrowStart DEF Next

LEMMA NarrowSuffices == SearchInv /\ NarrowInv => SmallestIfMonotonic
<1> SUFFICES ASSUME SearchInv, NarrowInv, Monotonic, result \in Ticks, NEW t \in feasible
             PROVE  result <= t + LastTick \div 2^Iterations
  BY DEF SmallestIfMonotonic
<1> USE DEF SearchInv, TypeInv, TypeOK
<1>1. result = hi /\ iter = Iterations /\ Narrow
  BY DEF NarrowInv
<1>p. PICK parts \in Nat \ {0} : parts = 2^Iterations
  BY PowerOfTwo, IterationsAssumption
<1>2. /\ t \in 0 .. LastTick /\ lo \in 0 .. LastTick /\ hi \in 0 .. LastTick
      /\ LastTick \in Nat
  BY LastTickType DEF Ticks
<1>3. CASE lo = 0 /\ hi * parts <= LastTick
  <2>1. hi <= LastTick \div parts
    BY <1>2, <1>3, Quotient
  <2>2. QED
    BY <1>1, <1>2, <1>p, <2>1
<1>4. CASE lo \notin feasible /\ (hi - lo - 1) * parts <= LastTick
  <2>1. lo < t
    <3>1. ~(t <= lo)
      BY <1>2, <1>4 DEF Monotonic
    <3>2. QED
      BY <1>2, <3>1
  <2>2. hi - lo - 1 <= LastTick \div parts
    <3>1. hi - lo - 1 \in Int
      BY <1>2
    <3>2. QED
      BY <1>2, <1>4, <3>1, Quotient
  <2>3. LastTick \div parts \in Int
    BY <1>2
  <2>4. QED
    BY <1>1, <1>2, <1>p, <2>1, <2>2, <2>3
<1>5. QED
  BY <1>1, <1>3, <1>4, <1>p DEF Narrow

(* If the margin is monotonic, no feasible dilation lies more than one     *)
(* final bracket below the result, for every grid and number of halvings,  *)
(* on the whole interval as in a cell, although the halves of a bracket    *)
(* need not be equal.                                                      *)
THEOREM SmallestCorrect == Spec => []SmallestIfMonotonic
BY SearchInit, SearchStep, NarrowInit, NarrowStep, NarrowSuffices, PTL DEF Spec
=============================================================================
