------------------------ MODULE RouteCascade_proofs -------------------------
(***************************************************************************)
(* For every lam_max, every grid of the searches and every margin          *)
(* landscape over and between its points: the cascade is well typed, slows *)
(* a route by at most lam_max, and leaves a route below m_safe only when   *)
(* everything it tries has failed.                                         *)
(***************************************************************************)
EXTENDS RouteCascade, TLAPS

(* The factors a search may choose from, in units of 1 / Unit.             *)
LEMMA LambdaFacts ==
  /\ Unit \in Nat \ {0}
  /\ \A t \in Search!Ticks : LambdaAt(t) \in Lambdas
  /\ Unit \in Lambdas
  /\ \A l \in Lambdas : l \in Int /\ Unit <= l /\ l <= LamMax * Unit
<1>1. Unit \in Nat \ {0} /\ Search!Ticks = 0 .. Unit
  BY LamMaxAssumption DEF Unit, Search!LastTick, Search!Ticks
<1>2. \A t \in Search!Ticks : LambdaAt(t) \in Lambdas
  BY DEF Lambdas
<1>3. Unit \in Lambdas
  <2>1. 0 \in Search!Ticks /\ LambdaAt(0) = Unit
    BY <1>1, LamMaxAssumption DEF LambdaAt
  <2>2. QED
    BY <1>2, <2>1
<1>4. ASSUME NEW t \in 0 .. Unit
      PROVE  LambdaAt(t) \in Int /\ Unit <= LambdaAt(t) /\ LambdaAt(t) <= LamMax * Unit
  <2>1. PICK m \in Nat : m = LamMax - 1
    BY LamMaxAssumption
  <2>2. LamMax * Unit = Unit + Unit * m
    BY <1>1, <2>1, LamMaxAssumption
  <2>3. t * m \in Nat /\ t * m <= Unit * m
    BY <1>1
  <2>4. LambdaAt(t) = Unit + t * m
    BY <2>1 DEF LambdaAt
  <2>5. QED
    BY <1>1, <2>2, <2>3, <2>4
<1>5. QED
  BY <1>1, <1>2, <1>3, <1>4 DEF Lambdas

(* Every grid point is a tick. *)
LEMMA GridTicks == \A k \in 0 .. GridCells : Search!GridTick(k) \in Search!Ticks
<1> SUFFICES ASSUME NEW k \in 0 .. GridCells PROVE Search!GridTick(k) \in Search!Ticks
  OBVIOUS
<1>1. k * Cell \in Nat /\ k * Cell <= GridCells * Cell
  BY LamMaxAssumption
<1>2. QED
  BY <1>1, LamMaxAssumption DEF Search!GridTick, Search!Ticks, Search!LastTick

(* What a search may return: nothing, and then no point of its grid        *)
(* clears, or a dilation in [1, lam_max] that does.                        *)
LEMMA SearchResult ==
  ASSUME NEW r, NEW clears, NEW t \in SearchRetimeLambda(r, clears)
  PROVE  \/ /\ t = Search!NoLambda
            /\ \A l \in GridLambdas : Retimed(r, l) \notin clears
         \/ /\ t # Search!NoLambda
            /\ LambdaAt(t) \in Lambdas
            /\ Retimed(r, LambdaAt(t)) \in clears
<1> DEFINE F == { u \in Search!Ticks : Retimed(r, LambdaAt(u)) \in clears }
<1>1. t \in Search!Results(F)
  BY DEF SearchRetimeLambda
<1>2. CASE t \in F
  <2>1. t \in Search!Ticks /\ Retimed(r, LambdaAt(t)) \in clears
    BY <1>2
  <2>2. t # Search!NoLambda
    BY <2>1, LamMaxAssumption DEF Search!Ticks, Search!LastTick, Search!NoLambda
  <2>3. QED
    BY <2>1, <2>2, LambdaFacts
<1>3. CASE t \notin F
  <2>1. t = Search!NoLambda /\ \A k \in 0 .. GridCells : Search!GridTick(k) \notin F
    BY <1>1, <1>3 DEF Search!Results
  <2>2. ASSUME NEW l \in GridLambdas PROVE Retimed(r, l) \notin clears
    <3>1. PICK k \in 0 .. GridCells : l = LambdaAt(Search!GridTick(k))
      BY DEF GridLambdas
    <3>2. QED
      BY <2>1, <3>1, GridTicks
  <2>3. QED
    BY <2>1, <2>2
<1>4. QED
  BY <1>2, <1>3

-----------------------------------------------------------------------------
(* A route retimed at most once, and retimed again: no rounding.           *)
Once(g, d) == Route(g, Unit * d)

LEMMA ExactQuotient ==
  ASSUME NEW u \in Nat \ {0}, NEW x \in Int PROVE (u * x) \div u = x
<1>1. /\ (u * x) \div u \in Int
      /\ u * ((u * x) \div u) <= u * x
      /\ u * x < u * ((u * x) \div u) + u
  OBVIOUS
<1>2. QED
  BY <1>1

LEMMA RetimedRoute ==
  /\ \A g : \A d, l \in Lambdas : Retimed(Once(g, d), l) = Route(g, d * l)
  /\ \A g : \A l \in Lambdas : Retimed(Once(g, Unit), l) = Once(g, l)
  /\ \A g : \A d \in Lambdas : Retimed(Once(g, d), Unit) = Once(g, d)
  /\ PlannedRoute = Once("planned", Unit)
<1>1. ASSUME NEW g, NEW d \in Lambdas, NEW l \in Lambdas
      PROVE  Retimed(Once(g, d), l) = Route(g, d * l)
  <2>1. d \in Int /\ l \in Int /\ Unit \in Nat \ {0}
    BY LambdaFacts
  <2>2. d * l \in Int /\ (Unit * d) * l = Unit * (d * l)
    BY <2>1
  <2>3. ((Unit * d) * l) \div Unit = d * l
    BY <2>1, <2>2, ExactQuotient
  <2>4. QED
    BY <2>3 DEF Retimed, Once, Route
<1>2. \A d \in Lambdas : d * Unit = Unit * d
  BY LambdaFacts
<1>3. QED
  BY <1>1, <1>2, LambdaFacts DEF Once, PlannedRoute

LEMMA RouteFields ==
  /\ \A g, d : Route(g, d).geometry = g /\ Route(g, d).dilation = d
  /\ \A g, d : Once(g, d).geometry = g /\ Once(g, d).dilation = Unit * d
  /\ \A g, d, h, e : Route(g, d) = Route(h, e) => g = h /\ d = e
  /\ \A g, d, l : Retimed(Route(g, d), l).geometry = g
  /\ \A g, d, l : Retimed(Once(g, d), l).geometry = g
BY DEF Route, Retimed, Once

LEMMA RoutesType ==
  /\ \A g \in Geometries, d \in Lambdas : Once(g, d) \in Routes
  /\ \A g \in Geometries, d, l \in Lambdas : Retimed(Once(g, d), l) \in Routes
  /\ \A d : /\ Reshaped(Route("planned", d)) = Route("planned_reshaped", d)
            /\ Reshaped(Route("via", d)) = Route("via_reshaped", d)
            /\ Reshaped(Once("planned", d)) = Once("planned_reshaped", d)
            /\ Reshaped(Once("via", d)) = Once("via_reshaped", d)
<1>1. \A g \in Geometries, d \in Dilations : Route(g, d) \in Routes
  BY DEF Route, Routes
<1>2. \A d, l \in Lambdas : d * l \in Dilations
  BY DEF Dilations
<1>3. \A g \in Geometries, d \in Lambdas : Once(g, d) \in Routes
  BY <1>1, <1>2, LambdaFacts DEF Once
<1>4. \A g \in Geometries, d, l \in Lambdas : Retimed(Once(g, d), l) \in Routes
  BY <1>1, <1>2, RetimedRoute
<1>5. \A d : /\ Reshaped(Route("planned", d)) = Route("planned_reshaped", d)
             /\ Reshaped(Route("via", d)) = Route("via_reshaped", d)
  BY DEF Reshaped, Route
<1>6. QED
  BY <1>3, <1>4, <1>5 DEF Once

-----------------------------------------------------------------------------
(* Until the cascade settles, the reference is the planned geometry,       *)
(* retimed by the pretrack or not, and the candidate takes as long: one    *)
(* retiming more keeps either in the type.                                 *)
Unsettled == pc # "done" =>
  /\ \E d \in Lambdas :
       /\ reference = Once("planned", d)
       /\ pc \in {"sublevel0", "sublevel1", "sublevel2"} => alt = Once("via", d)
  /\ level = "none"

TypeInv == TypeOK /\ Unsettled /\ (pc = "pretrack" => reference = PlannedRoute)

LEMMA TypeInit == Init => TypeInv
<1> SUFFICES ASSUME Init PROVE TypeInv
  OBVIOUS
<1>1. Retimings(PlannedRoute) \subseteq Routes
  BY RoutesType, RetimedRoute, LambdaFacts DEF Retimings, Geometries
<1>2. reference \in Routes /\ alt \in Routes
  BY RoutesType, RetimedRoute, LambdaFacts DEF Init, Geometries
<1>3. Unsettled
  BY RetimedRoute, LambdaFacts DEF Init, Unsettled
<1>4. QED
  BY <1>1, <1>2, <1>3 DEF Init, TypeInv, TypeOK

(* What is chosen to be safe are routes, of the geometry asked about, and  *)
(* if the configuration ensures it, the roomy ones among them.             *)
LEMMA ChosenSafe ==
  ASSUME NEW g \in Geometries, NEW d \in Lambdas, NEW r, r = Once(g, d), ChooseSafe(r)
  PROVE  /\ safe \subseteq safe'
         /\ \A x \in safe' \ safe : x \in Routes /\ x.geometry = g
         /\ roomy_is_safe /\ r \in roomy => r \in safe'
<1>1. PICK s \in SUBSET Retimings(r) :
        /\ roomy_is_safe => roomy \cap Retimings(r) \subseteq s
        /\ safe' = safe \cup s
  BY DEF ChooseSafe
<1>2. \A x \in Retimings(r) : x \in Routes /\ x.geometry = g
  BY RoutesType, RouteFields DEF Retimings
<1>3. r \in Retimings(r)
  BY RetimedRoute, LambdaFacts DEF Retimings
<1>4. QED
  BY <1>1, <1>2, <1>3

LEMMA TypeStep == TypeInv /\ [Next]_vars => TypeInv'
<1> SUFFICES ASSUME TypeInv, [Next]_vars PROVE TypeInv'
  OBVIOUS
<1> USE DEF TypeInv, TypeOK, Settle, Continue
<1>g. {"planned", "planned_reshaped", "via", "via_reshaped"} \subseteq Geometries
  BY DEF Geometries
<1>1. CASE PretrackNotNeeded
  <2>1. reference = Once("planned", Unit)
    BY <1>1, RetimedRoute DEF PretrackNotNeeded
  <2>2. safe' \in SUBSET Routes
    BY <1>1, <1>g, <2>1, ChosenSafe, LambdaFacts DEF PretrackNotNeeded
  <2>3. QED
    BY <1>1, <2>2 DEF PretrackNotNeeded, Unsettled
<1>2. CASE Pretrack
  <2>1. PICK t \in SearchRetimeLambda(reference, roomy) :
          reference' = IF t = Search!NoLambda THEN reference
                                              ELSE Retimed(reference, LambdaAt(t))
    BY <1>2 DEF Pretrack
  <2>2. reference = Once("planned", Unit) /\ pc = "pretrack" /\ pc' = "margin"
    BY <1>2, RetimedRoute DEF Pretrack
  <2>3. PICK d \in Lambdas : reference' = Once("planned", d)
    <3>1. CASE t = Search!NoLambda
      BY <2>1, <2>2, <3>1, LambdaFacts
    <3>2. CASE t # Search!NoLambda
      <4>1. LambdaAt(t) \in Lambdas
        BY <3>2, SearchResult
      <4>2. reference' = Once("planned", LambdaAt(t))
        BY <2>1, <2>2, <3>2, <4>1, RetimedRoute
      <4>3. QED
        BY <4>1, <4>2
    <3>3. QED
      BY <3>1, <3>2
  <2>4. reference' \in Routes
    BY <1>g, <2>3, RoutesType
  <2>5. safe' \in SUBSET Routes
    <3>1. ChooseSafe(reference')
      BY <1>2 DEF Pretrack
    <3>2. QED
      BY <1>g, <2>3, <3>1, ChosenSafe
  <2>6. QED
    BY <1>2, <2>2, <2>3, <2>4, <2>5 DEF Pretrack, Unsettled
<1>3. CASE Level0
  BY <1>3 DEF Level0, Unsettled
<1>4. CASE Level1
  <2>1. PICK t \in SearchRetimeLambda(reference, safe) :
          IF t = Search!NoLambda THEN Continue("reshape")
                                 ELSE Settle(Retimed(reference, LambdaAt(t)), "1")
    BY <1>4 DEF Level1
  <2>2. pc = "retime" /\ UNCHANGED <<roomy, safe, roomy_is_safe, via_point_offset, alt>>
    BY <1>4 DEF Level1
  <2>3. PICK d \in Lambdas : reference = Once("planned", d)
    BY <2>2 DEF Unsettled
  <2>4. CASE t = Search!NoLambda
    BY <2>1, <2>2, <2>4 DEF Unsettled
  <2>5. CASE t # Search!NoLambda
    <3>1. Retimed(reference, LambdaAt(t)) \in Routes
      BY <1>g, <2>3, <2>5, SearchResult, RoutesType
    <3>2. QED
      BY <2>1, <2>2, <2>5, <3>1 DEF Unsettled
  <2>6. QED
    BY <2>4, <2>5
<1>5. CASE Level2
  <2>2. pc = "reshape" /\ UNCHANGED <<roomy, roomy_is_safe, via_point_offset, alt>>
    BY <1>5 DEF Level2
  <2>3. PICK d \in Lambdas : reference = Once("planned", d)
    BY <2>2 DEF Unsettled
  <2>4. Reshaped(reference) \in Routes
    BY <1>g, <2>3, RoutesType
  <2>5. CASE Settle(Reshaped(reference), "2")
    BY <1>5, <2>2, <2>4, <2>5 DEF Level2, Unsettled
  <2>6. CASE Continue("reroute")
    BY <1>5, <2>2, <2>4, <2>6 DEF Level2, Unsettled
  <2>7. QED
    BY <1>5, <2>5, <2>6 DEF Level2
<1>6. CASE NoCandidate
  BY <1>6 DEF NoCandidate, Unsettled
<1>7. CASE BuildViaPoint
  <2>2. /\ pc = "reroute" /\ pc' = "sublevel0"
        /\ UNCHANGED <<roomy, roomy_is_safe, via_point_offset, reference, level>>
    BY <1>7 DEF BuildViaPoint
  <2>3. PICK d \in Lambdas : reference = Once("planned", d)
    BY <2>2 DEF Unsettled
  <2>4. alt' = Once("via", d)
    BY <1>7, <2>3, RouteFields DEF BuildViaPoint, Once
  <2>5. alt' \in Routes
    BY <1>g, <2>4, RoutesType
  <2>6. safe' \in SUBSET Routes
    <3>1. ChooseSafe(alt')
      BY <1>7 DEF BuildViaPoint
    <3>2. QED
      BY <1>g, <2>4, <3>1, ChosenSafe
  <2>7. QED
    BY <2>2, <2>3, <2>4, <2>5, <2>6 DEF Unsettled
<1>8. CASE SubLevel0
  BY <1>8 DEF SubLevel0, Unsettled
<1>9. CASE SubLevel1
  <2>1. PICK t \in SearchRetimeLambda(alt, safe) :
          IF t = Search!NoLambda THEN Continue("sublevel2")
                                 ELSE Settle(Retimed(alt, LambdaAt(t)), "3")
    BY <1>9 DEF SubLevel1
  <2>2. pc = "sublevel1" /\ UNCHANGED <<roomy, safe, roomy_is_safe, via_point_offset, alt>>
    BY <1>9 DEF SubLevel1
  <2>3. PICK d \in Lambdas : alt = Once("via", d) /\ reference = Once("planned", d)
    BY <2>2 DEF Unsettled
  <2>4. CASE t = Search!NoLambda
    BY <2>1, <2>2, <2>3, <2>4 DEF Unsettled
  <2>5. CASE t # Search!NoLambda
    <3>1. Retimed(alt, LambdaAt(t)) \in Routes
      BY <1>g, <2>3, <2>5, SearchResult, RoutesType
    <3>2. QED
      BY <2>1, <2>2, <2>5, <3>1 DEF Unsettled
  <2>6. QED
    BY <2>4, <2>5
<1>10. CASE SubLevel2
  <2>2. pc = "sublevel2" /\ UNCHANGED <<roomy, roomy_is_safe, via_point_offset, alt>>
    BY <1>10 DEF SubLevel2
  <2>3. PICK d \in Lambdas : alt = Once("via", d)
    BY <2>2 DEF Unsettled
  <2>4. Reshaped(alt) \in Routes
    BY <1>g, <2>3, RoutesType
  <2>5. QED
    BY <1>10, <2>2, <2>4 DEF SubLevel2, Unsettled
<1>11. CASE UNCHANGED vars
  BY <1>11 DEF vars, Unsettled
<1>12. QED
  BY <1>1, <1>2, <1>3, <1>4, <1>5, <1>6, <1>7, <1>8, <1>9, <1>10, <1>11 DEF Next

(* Every route the cascade handles is one of the four geometries at a      *)
(* product of two dilations in range.                                      *)
THEOREM TypeCorrect == Spec => []TypeOK
<1>1. TypeInv => TypeOK
  BY DEF TypeInv
<1>2. QED
  BY TypeInit, TypeStep, <1>1, PTL DEF Spec

-----------------------------------------------------------------------------
(* Where the pretrack slowed the route, the margin already clears, so the  *)
(* cascade past m0 starts from the planned time law.                       *)
SlowInv ==
  /\ TypeInv
  /\ roomy_is_safe =>
       /\ pc = "margin" => reference = PlannedRoute \/ reference \in safe
       /\ pc \notin {"pretrack", "margin", "done"} => reference = PlannedRoute
       /\ pc = "done" => reference.dilation <= LamMax * Unit * Unit

LEMMA SlowInit == Init => SlowInv
BY TypeInit DEF Init, SlowInv

(* A route retimed once is within lam_max, reshaped or not.                *)
LEMMA OnceBounded == \A g : \A d \in Lambdas : Once(g, d).dilation <= LamMax * Unit * Unit
<1> SUFFICES ASSUME NEW d \in Lambdas PROVE Unit * d <= LamMax * Unit * Unit
  BY RouteFields
<1>1. d \in Int /\ d <= LamMax * Unit /\ Unit \in Nat
  BY LambdaFacts
<1>2. PICK b \in Int : b = LamMax * Unit
  BY <1>1, LamMaxAssumption
<1>3. Unit * d <= Unit * b
  BY <1>1, <1>2
<1>4. QED
  BY <1>1, <1>2, <1>3

LEMMA SlowStep == SlowInv /\ [Next]_vars => SlowInv'
<1> SUFFICES ASSUME SlowInv, [Next]_vars PROVE SlowInv'
  OBVIOUS
<1>0. TypeInv /\ TypeInv'
  BY TypeStep DEF SlowInv
<1>r. roomy_is_safe' = roomy_is_safe
  BY DEF Next, vars, PretrackNotNeeded, Pretrack, Level0, Level1, Level2, NoCandidate,
         BuildViaPoint, SubLevel0, SubLevel1, SubLevel2
<1>1. SUFFICES ASSUME roomy_is_safe
               PROVE  /\ pc' = "margin" => reference' = PlannedRoute \/ reference' \in safe'
                      /\ pc' \notin {"pretrack", "margin", "done"} => reference' = PlannedRoute
                      /\ pc' = "done" => reference'.dilation <= LamMax * Unit * Unit
  BY <1>0, <1>r DEF SlowInv, PlannedRoute, Unit
<1>2. /\ pc = "margin" => reference = PlannedRoute \/ reference \in safe
      /\ pc \notin {"pretrack", "margin", "done"} => reference = PlannedRoute
      /\ pc = "done" => reference.dilation <= LamMax * Unit * Unit
      /\ pc = "pretrack" => reference = PlannedRoute
  BY <1>1 DEF SlowInv, TypeInv
<1>3. PlannedRoute = Once("planned", Unit) /\ PlannedRoute.dilation <= LamMax * Unit * Unit
  BY RetimedRoute, LambdaFacts, OnceBounded
<1>4. ASSUME NEW g, NEW clears, NEW t \in SearchRetimeLambda(Once(g, Unit), clears),
             t # Search!NoLambda
      PROVE  Retimed(Once(g, Unit), LambdaAt(t)).dilation <= LamMax * Unit * Unit
  BY <1>4, SearchResult, RetimedRoute, OnceBounded
<1>5. "planned" \in Geometries
  BY DEF Geometries
<1>6. CASE PretrackNotNeeded
  BY <1>2, <1>6 DEF PretrackNotNeeded, Continue
<1>7. CASE Pretrack
  <2>1. PICK t \in SearchRetimeLambda(reference, roomy) :
          reference' = IF t = Search!NoLambda THEN reference
                                              ELSE Retimed(reference, LambdaAt(t))
    BY <1>7 DEF Pretrack
  <2>2. reference = PlannedRoute /\ pc' = "margin" /\ ChooseSafe(reference')
    BY <1>2, <1>7 DEF Pretrack
  <2>3. CASE t = Search!NoLambda
    BY <2>1, <2>2, <2>3
  <2>4. CASE t # Search!NoLambda
    <3>1. LambdaAt(t) \in Lambdas /\ reference' \in roomy
      BY <2>1, <2>4, SearchResult
    <3>2. reference' = Once("planned", LambdaAt(t))
      BY <1>3, <2>1, <2>2, <2>4, <3>1, RetimedRoute
    <3>3. reference' \in safe'
      BY <1>1, <1>5, <2>2, <3>1, <3>2, ChosenSafe
    <3>4. QED
      BY <2>2, <3>3
  <2>5. QED
    BY <2>3, <2>4
<1>8. CASE Level0
  <2>1. CASE reference \in safe
    <3>1. reference' = reference /\ pc' = "done" /\ pc = "margin"
      BY <1>8, <2>1 DEF Level0, Settle, MeasuredRoute
    <3>2. PICK d \in Lambdas : reference = Once("planned", d)
      BY <1>0, <3>1 DEF TypeInv, Unsettled
    <3>3. QED
      BY <3>1, <3>2, OnceBounded
  <2>2. CASE reference \notin safe
    BY <1>2, <1>8, <2>2 DEF Level0, Continue, MeasuredRoute
  <2>3. QED
    BY <2>1, <2>2
<1>9. CASE Level1
  <2>1. PICK t \in SearchRetimeLambda(reference, safe) :
          IF t = Search!NoLambda THEN Continue("reshape")
                                 ELSE Settle(Retimed(reference, LambdaAt(t)), "1")
    BY <1>9 DEF Level1
  <2>2. reference = PlannedRoute
    BY <1>2, <1>9 DEF Level1
  <2>3. QED
    BY <1>3, <1>4, <2>1, <2>2 DEF Continue, Settle
<1>10. CASE Level2
  <2>1. reference = PlannedRoute
    BY <1>2, <1>10 DEF Level2
  <2>2. Reshaped(reference).dilation <= LamMax * Unit * Unit
    BY <1>3, <2>1, RoutesType, LambdaFacts, OnceBounded
  <2>3. QED
    BY <1>10, <2>1, <2>2 DEF Level2, Continue, Settle
<1>11. CASE NoCandidate
  BY <1>2, <1>3, <1>11 DEF NoCandidate, Settle
<1>12. CASE BuildViaPoint
  BY <1>2, <1>12 DEF BuildViaPoint, Continue
<1>13. CASE SubLevel0 \/ SubLevel1 \/ SubLevel2
  <2>1. /\ reference = PlannedRoute
        /\ pc # "done" /\ pc \in {"sublevel0", "sublevel1", "sublevel2"}
    BY <1>2, <1>13 DEF SubLevel0, SubLevel1, SubLevel2
  <2>2. alt = Once("via", Unit)
    <3>1. PICK d \in Lambdas : reference = Once("planned", d) /\ alt = Once("via", d)
      BY <1>0, <2>1 DEF TypeInv, Unsettled
    <3>2. Unit * d = Unit * Unit
      BY <1>3, <2>1, <3>1, RouteFields
    <3>3. QED
      BY <3>1, <3>2 DEF Once
  <2>3. alt.dilation <= LamMax * Unit * Unit
    BY <2>2, LambdaFacts, OnceBounded
  <2>4. CASE SubLevel0
    BY <2>1, <2>3, <2>4 DEF SubLevel0, Continue, Settle
  <2>5. CASE SubLevel1
    <3>1. PICK t \in SearchRetimeLambda(alt, safe) :
            IF t = Search!NoLambda THEN Continue("sublevel2")
                                   ELSE Settle(Retimed(alt, LambdaAt(t)), "3")
      BY <2>5 DEF SubLevel1
    <3>2. CASE t = Search!NoLambda
      BY <2>1, <3>1, <3>2 DEF Continue
    <3>3. CASE t # Search!NoLambda
      BY <1>4, <2>2, <3>1, <3>3 DEF Settle
    <3>4. QED
      BY <3>2, <3>3
  <2>6. CASE SubLevel2
    <3>1. Reshaped(alt).dilation <= LamMax * Unit * Unit
      BY <2>2, RoutesType, LambdaFacts, OnceBounded
    <3>2. QED
      BY <1>3, <2>1, <2>6, <3>1 DEF SubLevel2, Settle
  <2>7. QED
    BY <1>13, <2>4, <2>5, <2>6
<1>14. CASE UNCHANGED vars
  BY <1>2, <1>14 DEF vars
<1>15. QED
  BY <1>6, <1>7, <1>8, <1>9, <1>10, <1>11, <1>12, <1>13, <1>14 DEF Next

(* The two searches never multiply beyond lam_max, whatever lam_max is.    *)
THEOREM DilationCorrect == Spec => []DilationBounded
<1>1. SlowInv => DilationBounded
  <2> SUFFICES ASSUME SlowInv, roomy_is_safe PROVE reference.dilation <= LamMax * Unit * Unit
    BY DEF DilationBounded
  <2>1. CASE pc = "done"
    BY <2>1 DEF SlowInv
  <2>2. CASE pc # "done"
    BY <2>2, OnceBounded DEF SlowInv, TypeInv, Unsettled
  <2>3. QED
    BY <2>1, <2>2
<1>2. QED
  BY SlowInit, SlowStep, <1>1, PTL DEF Spec

-----------------------------------------------------------------------------
(* What each stage has ruled out by the time the next one begins.          *)
SubLevels    == {"sublevel0", "sublevel1", "sublevel2"}
AfterReshape == SubLevels \cup {"reroute"}
AfterRetime  == AfterReshape \cup {"reshape"}
AfterMargin  == AfterRetime \cup {"retime"}

\* Only routes that have been built are rated.
Fresh ==
  \A r \in safe :
    /\ pc \in {"pretrack", "margin", "retime", "reshape"} => r.geometry = "planned"
    /\ pc = "reroute" => r.geometry \in {"planned", "planned_reshaped"}
    /\ pc \in SubLevels => r.geometry # "via_reshaped"

RuledOut ==
  /\ pc \in AfterMargin => reference \notin safe
  /\ pc \in AfterRetime => NoProbeClears(Route("planned", reference.dilation))
  /\ pc \in AfterReshape => Route("planned_reshaped", reference.dilation) \notin safe
  /\ pc \in SubLevels => via_point_offset
  /\ pc = "sublevel2" => NoProbeClears(Route("via", reference.dilation))

CascadeInv ==
  /\ TypeInv
  /\ Fresh
  /\ RuledOut
  /\ UncertifiedOnlyWhenExhausted
  /\ DeviationIsJustified

LEMMA CascadeInit == Init => CascadeInv
BY TypeInit, RouteFields
   DEF Init, CascadeInv, Fresh, RuledOut, SubLevels, AfterReshape, AfterRetime, AfterMargin,
       UncertifiedOnlyWhenExhausted, DeviationIsJustified

(* A search that finds nothing has tried every point of its grid.          *)
LEMMA SearchFails ==
  ASSUME NEW g, NEW d, NEW t \in SearchRetimeLambda(Route(g, d), safe), t = Search!NoLambda
  PROVE  NoProbeClears(Route(g, d))
BY SearchResult DEF NoProbeClears

(* The dilation an unsettled reference has, and what was ruled out for it. *)
LEMMA UnsettledFacts ==
  ASSUME CascadeInv, pc # "done"
  PROVE  \E d \in Dilations :
           /\ reference = Route("planned", d)
           /\ reference.geometry = "planned"
           /\ reference.dilation = d
           /\ pc \in SubLevels => alt = Route("via", d) /\ alt.geometry = "via" /\ alt.dilation = d
<1>1. PICK d \in Lambdas :
        /\ reference = Once("planned", d)
        /\ pc \in SubLevels => alt = Once("via", d)
  BY DEF CascadeInv, TypeInv, Unsettled, SubLevels
<1>2. Unit * d \in Dilations
  BY LambdaFacts DEF Dilations
<1>3. QED
  BY <1>1, <1>2, RouteFields DEF Once

(* The margins chosen with the pretrack are of planned routes.             *)
LEMMA PlannedMargins ==
  ASSUME TypeInv', pc' = "margin", ChooseSafe(reference')
  PROVE  \A x \in safe' \ safe : x.geometry = "planned"
<1>1. PICK d \in Lambdas : reference' = Once("planned", d)
  BY DEF TypeInv, Unsettled
<1>2. QED
  BY <1>1, ChosenSafe DEF Geometries

LEMMA CascadeStep == CascadeInv /\ [Next]_vars => CascadeInv'
<1> SUFFICES ASSUME CascadeInv, [Next]_vars PROVE CascadeInv'
  OBVIOUS
<1> USE DEF CascadeInv, Settle, Continue
<1>0. TypeInv'
  BY TypeStep
<1>s. /\ SubLevels = {"sublevel0", "sublevel1", "sublevel2"}
      /\ AfterReshape = {"reroute", "sublevel0", "sublevel1", "sublevel2"}
      /\ AfterRetime = {"reshape", "reroute", "sublevel0", "sublevel1", "sublevel2"}
      /\ AfterMargin = {"retime", "reshape", "reroute", "sublevel0", "sublevel1", "sublevel2"}
  BY DEF SubLevels, AfterReshape, AfterRetime, AfterMargin
<1>1. CASE PretrackNotNeeded \/ Pretrack
  <2>1. pc = "pretrack" /\ pc' = "margin" /\ ChooseSafe(reference')
    BY <1>1 DEF PretrackNotNeeded, Pretrack
  <2>2. \A x \in safe' : x.geometry = "planned"
    BY <1>0, <2>1, PlannedMargins DEF Fresh
  <2>3. Fresh' /\ RuledOut'
    BY <1>s, <2>1, <2>2 DEF Fresh, RuledOut
  <2>4. QED
    BY <1>0, <2>1, <2>3 DEF UncertifiedOnlyWhenExhausted, DeviationIsJustified
<1>3. CASE Level0
  <2>1. /\ pc = "margin" /\ pc # "done" /\ safe' = safe /\ reference' = reference
        /\ \/ pc' = "done" /\ reference \in safe
           \/ pc' = "retime" /\ reference \notin safe
    <3>1. CASE reference \in safe
      BY <1>3, <3>1 DEF Level0, MeasuredRoute
    <3>2. CASE reference \notin safe
      BY <1>3, <3>2 DEF Level0, MeasuredRoute
    <3>3. QED
      BY <3>1, <3>2
  <2>2. reference.geometry = "planned"
    BY <2>1, UnsettledFacts
  <2>3. Fresh' /\ RuledOut'
    BY <1>s, <2>1 DEF Fresh, RuledOut
  <2>4. UncertifiedOnlyWhenExhausted' /\ DeviationIsJustified'
    BY <2>1, <2>2 DEF UncertifiedOnlyWhenExhausted, DeviationIsJustified
  <2>5. QED
    BY <1>0, <2>3, <2>4
<1>4. CASE Level1
  <2>1. PICK t \in SearchRetimeLambda(reference, safe) :
          IF t = Search!NoLambda THEN Continue("reshape")
                                 ELSE Settle(Retimed(reference, LambdaAt(t)), "1")
    BY <1>4 DEF Level1
  <2>2. pc = "retime" /\ pc # "done" /\ safe' = safe
    BY <1>4 DEF Level1
  <2>3. PICK d \in Dilations : /\ reference = Route("planned", d)
                             /\ reference.geometry = "planned" /\ reference.dilation = d
    BY <2>2, UnsettledFacts
  <2>4. CASE t = Search!NoLambda
    <3>1. NoProbeClears(Route("planned", d))
      BY <2>3, <2>4, SearchFails
    <3>2. pc' = "reshape" /\ reference' = reference
      BY <2>1, <2>4
    <3>3. Fresh' /\ RuledOut'
      BY <1>s, <2>2, <2>3, <3>1, <3>2 DEF Fresh, RuledOut, NoProbeClears
    <3>4. QED
      BY <1>0, <3>2, <3>3 DEF UncertifiedOnlyWhenExhausted, DeviationIsJustified
  <2>5. CASE t # Search!NoLambda
    <3>1. pc' = "done" /\ reference' = Retimed(reference, LambdaAt(t))
      BY <2>1, <2>5
    <3>2. reference' \in safe'
      BY <2>2, <2>5, <3>1, SearchResult
    <3>3. reference'.geometry = "planned"
      BY <2>3, <3>1, RouteFields
    <3>4. Fresh' /\ RuledOut'
      BY <1>s, <3>1 DEF Fresh, RuledOut
    <3>5. QED
      BY <1>0, <3>2, <3>3, <3>4 DEF UncertifiedOnlyWhenExhausted, DeviationIsJustified
  <2>6. QED
    BY <2>4, <2>5
<1>5. CASE Level2
  <2>1. PICK outcome \in ReshapeOutcomes :
          /\ safe' = IF outcome = "clear" THEN safe \cup { Reshaped(reference) } ELSE safe
          /\ IF outcome = "clear" THEN Settle(Reshaped(reference), "2")
                                  ELSE Continue("reroute")
    BY <1>5 DEF Level2, ReshapeAccepted
  <2>2. pc = "reshape" /\ pc # "done" /\ alt' = alt /\ via_point_offset' = via_point_offset
    BY <1>5 DEF Level2
  <2>3. PICK d \in Dilations : /\ reference = Route("planned", d)
                             /\ reference.geometry = "planned" /\ reference.dilation = d
    BY <2>2, UnsettledFacts
  <2>4. Reshaped(reference) = Route("planned_reshaped", d)
    BY <2>3, RoutesType
  <2>5. NoProbeClears(Route("planned", d))
    BY <1>s, <2>2, <2>3 DEF RuledOut
  <2>6. Route("planned_reshaped", d) \notin safe
    BY <2>2, RouteFields DEF Fresh
  <2>7. CASE outcome = "clear"
    <3>1. /\ pc' = "done" /\ reference' = Route("planned_reshaped", d)
          /\ safe' = safe \cup { Route("planned_reshaped", d) }
      BY <2>1, <2>4, <2>7
    <3>2. reference' \in safe'
      BY <3>1
    <3>3. reference'.geometry = "planned_reshaped" /\ reference'.dilation = d
      BY <3>1, RouteFields
    <3>4. NoProbeClears(Route("planned", d))'
      BY <2>5, <3>1, RouteFields DEF NoProbeClears
    <3>5. Fresh' /\ RuledOut'
      BY <1>s, <3>1 DEF Fresh, RuledOut
    <3>6. DeviationIsJustified'
      BY <3>3, <3>4 DEF DeviationIsJustified, NoProbeClears
    <3>7. UncertifiedOnlyWhenExhausted'
      BY <3>2 DEF UncertifiedOnlyWhenExhausted
    <3>8. QED
      BY <1>0, <3>5, <3>6, <3>7
  <2>8. CASE outcome # "clear"
    <3>1. pc' = "reroute" /\ reference' = reference /\ safe' = safe
      BY <2>1, <2>8
    <3>2. Fresh'
      BY <1>s, <2>2, <3>1 DEF Fresh
    <3>3. RuledOut'
      BY <1>s, <2>2, <2>3, <2>5, <2>6, <3>1 DEF RuledOut, NoProbeClears
    <3>4. QED
      BY <1>0, <3>1, <3>2, <3>3 DEF UncertifiedOnlyWhenExhausted, DeviationIsJustified
  <2>9. QED
    BY <2>7, <2>8
<1>6. CASE NoCandidate
  <2>1. /\ pc = "reroute" /\ pc # "done" /\ ~via_point_offset /\ pc' = "done" /\ level' = "exhausted"
        /\ UNCHANGED <<safe, via_point_offset, reference, alt>>
    BY <1>6 DEF NoCandidate
  <2>2. reference.geometry = "planned" /\ reference = Route("planned", reference.dilation)
    BY <2>1, UnsettledFacts
  <2>3. Fresh' /\ RuledOut'
    BY <1>s, <2>1 DEF Fresh, RuledOut
  <2>4. UncertifiedOnlyWhenExhausted'
    <3>1. /\ NoProbeClears(reference)
          /\ Route("planned_reshaped", reference.dilation) \notin safe
      BY <1>s, <2>1, <2>2 DEF RuledOut
    <3>2. /\ NoProbeClears(reference)'
          /\ Route("planned_reshaped", reference'.dilation) \notin safe'
      BY <2>1, <3>1 DEF NoProbeClears
    <3>3. QED
      BY <2>1, <2>2, <3>2 DEF UncertifiedOnlyWhenExhausted
  <2>5. DeviationIsJustified'
    BY <2>1, <2>2 DEF DeviationIsJustified
  <2>6. QED
    BY <1>0, <2>3, <2>4, <2>5
<1>7. CASE BuildViaPoint
  <2>1. /\ pc = "reroute" /\ pc # "done" /\ via_point_offset /\ pc' = "sublevel0"
        /\ UNCHANGED <<via_point_offset, reference>>
        /\ alt' = Route("via", reference.dilation)
    BY <1>7 DEF BuildViaPoint
  <2>2. PICK d \in Dilations : /\ reference = Route("planned", d)
                             /\ reference.geometry = "planned" /\ reference.dilation = d
    BY <2>1, UnsettledFacts
  <2>3. safe \subseteq safe' /\ \A r \in safe' \ safe : r.geometry = "via"
    <3>1. PICK l \in Lambdas : alt' = Once("via", l)
      BY <1>0, <2>1 DEF TypeInv, Unsettled
    <3>2. ChooseSafe(alt')
      BY <1>7 DEF BuildViaPoint
    <3>3. QED
      BY <3>1, <3>2, ChosenSafe DEF Geometries
  <2>4. \A r : r.geometry # "via" /\ r \notin safe => r \notin safe'
    BY <2>3
  <2>5. Fresh'
    <3>1. \A r \in safe' : r.geometry # "via_reshaped"
      BY <2>1, <2>3 DEF Fresh
    <3>2. QED
      BY <1>s, <2>1, <3>1 DEF Fresh
  <2>6. RuledOut'
    BY <1>s, <2>1, <2>2, <2>4, RouteFields DEF RuledOut, NoProbeClears
  <2>7. QED
    BY <1>0, <2>1, <2>5, <2>6 DEF UncertifiedOnlyWhenExhausted, DeviationIsJustified
<1>8. CASE SubLevel0 \/ SubLevel1
  <2>1. pc \in SubLevels /\ pc # "done" /\ UNCHANGED <<safe, via_point_offset, alt>>
    BY <1>8 DEF SubLevel0, SubLevel1, SubLevels
  <2>2. PICK d \in Dilations : /\ reference = Route("planned", d)
                             /\ reference.geometry = "planned" /\ reference.dilation = d
                             /\ alt = Route("via", d) /\ alt.geometry = "via" /\ alt.dilation = d
    BY <2>1, UnsettledFacts
  <2>3. /\ NoProbeClears(Route("planned", d)) /\ Route("planned_reshaped", d) \notin safe
        /\ via_point_offset
    BY <1>s, <2>1, <2>2 DEF RuledOut
  \* Either way the candidate is installed once it clears.
  <2>4. ASSUME pc' = "done", reference' \in safe, reference'.geometry = "via" PROVE CascadeInv'
    <3>1. Fresh' /\ RuledOut' /\ UncertifiedOnlyWhenExhausted'
      BY <1>s, <2>1, <2>4 DEF Fresh, RuledOut, UncertifiedOnlyWhenExhausted
    <3>2. DeviationIsJustified'
      BY <2>1, <2>2, <2>3, <2>4 DEF DeviationIsJustified, NoProbeClears
    <3>3. QED
      BY <1>0, <3>1, <3>2
  <2>5. CASE SubLevel0
    <3>1. CASE alt \in safe
      BY <2>2, <2>4, <2>5, <3>1 DEF SubLevel0
    <3>2. CASE alt \notin safe
      <4>1. pc' = "sublevel1" /\ reference' = reference
        BY <2>5, <3>2 DEF SubLevel0
      <4>2. Fresh' /\ RuledOut'
        BY <1>s, <2>1, <2>5, <4>1 DEF Fresh, RuledOut, NoProbeClears, SubLevel0
      <4>3. QED
        BY <1>0, <4>1, <4>2 DEF UncertifiedOnlyWhenExhausted, DeviationIsJustified
    <3>3. QED
      BY <3>1, <3>2
  <2>6. CASE SubLevel1
    <3>1. PICK t \in SearchRetimeLambda(alt, safe) :
            IF t = Search!NoLambda THEN Continue("sublevel2")
                                   ELSE Settle(Retimed(alt, LambdaAt(t)), "3")
      BY <2>6 DEF SubLevel1
    <3>2. CASE t = Search!NoLambda
      <4>1. NoProbeClears(Route("via", d))
        BY <2>2, <3>2, SearchFails
      <4>2. pc' = "sublevel2" /\ reference' = reference
        BY <3>1, <3>2
      <4>3. Fresh'
        BY <1>s, <2>1, <4>2 DEF Fresh
      <4>4. RuledOut'
        BY <1>s, <2>1, <2>2, <4>1, <4>2 DEF RuledOut, NoProbeClears
      <4>5. QED
        BY <1>0, <4>2, <4>3, <4>4 DEF UncertifiedOnlyWhenExhausted, DeviationIsJustified
    <3>3. CASE t # Search!NoLambda
      <4>1. pc' = "done" /\ reference' = Retimed(alt, LambdaAt(t))
        BY <3>1, <3>3
      <4>2. reference' \in safe
        BY <3>3, <4>1, SearchResult
      <4>3. reference'.geometry = "via"
        BY <2>2, <4>1, RouteFields
      <4>4. QED
        BY <2>4, <4>1, <4>2, <4>3
    <3>4. QED
      BY <3>2, <3>3
  <2>7. QED
    BY <1>8, <2>5, <2>6
<1>9. CASE SubLevel2
  <2>1. PICK outcome \in ReshapeOutcomes :
          /\ safe' = IF outcome = "clear" THEN safe \cup { Reshaped(alt) } ELSE safe
          /\ IF outcome = "clear" THEN Settle(Reshaped(alt), "3")
                                  ELSE Settle(reference, "exhausted")
    BY <1>9 DEF SubLevel2, ReshapeAccepted
  <2>2. /\ pc = "sublevel2" /\ pc # "done" /\ pc \in SubLevels
        /\ UNCHANGED <<via_point_offset, alt>>
    BY <1>9, <1>s DEF SubLevel2
  <2>3. PICK d \in Dilations : /\ reference = Route("planned", d)
                             /\ reference.geometry = "planned" /\ reference.dilation = d
                             /\ alt = Route("via", d) /\ alt.geometry = "via" /\ alt.dilation = d
    BY <2>2, UnsettledFacts
  <2>4. Reshaped(alt) = Route("via_reshaped", d)
    BY <2>3, RoutesType
  <2>5. /\ NoProbeClears(Route("planned", d)) /\ NoProbeClears(Route("via", d))
        /\ Route("planned_reshaped", d) \notin safe
    BY <1>s, <2>2, <2>3 DEF RuledOut
  <2>6. Route("via_reshaped", d) \notin safe
    BY <2>2, RouteFields DEF Fresh
  <2>7. CASE outcome = "clear"
    <3>1. /\ pc' = "done" /\ reference' = Route("via_reshaped", d)
          /\ safe' = safe \cup { Route("via_reshaped", d) }
      BY <2>1, <2>4, <2>7
    <3>2. \A r : r \in safe' => r \in safe \/ r.geometry = "via_reshaped"
      BY <3>1, RouteFields
    <3>3. NoProbeClears(Route("planned", d))' /\ Route("planned_reshaped", d) \notin safe'
      BY <2>5, <3>2, RouteFields DEF NoProbeClears
    <3>4. reference'.geometry = "via_reshaped" /\ alt'.dilation = d
      BY <2>2, <2>3, <3>1, RouteFields
    <3>5. Fresh' /\ RuledOut' /\ UncertifiedOnlyWhenExhausted'
      BY <1>s, <3>1 DEF Fresh, RuledOut, UncertifiedOnlyWhenExhausted
    <3>6. DeviationIsJustified'
      BY <3>3, <3>4 DEF DeviationIsJustified, NoProbeClears
    <3>7. QED
      BY <1>0, <3>5, <3>6
  <2>8. CASE outcome # "clear"
    <3>1. pc' = "done" /\ level' = "exhausted" /\ reference' = reference /\ safe' = safe
      BY <2>1, <2>8
    <3>2. Fresh' /\ RuledOut'
      BY <1>s, <3>1 DEF Fresh, RuledOut
    <3>3. UncertifiedOnlyWhenExhausted'
      BY <2>3, <2>5, <2>6, <3>1 DEF UncertifiedOnlyWhenExhausted, NoProbeClears
    <3>4. DeviationIsJustified'
      BY <2>3, <3>1 DEF DeviationIsJustified
    <3>5. QED
      BY <1>0, <3>2, <3>3, <3>4
  <2>9. QED
    BY <2>7, <2>8
<1>10. CASE UNCHANGED vars
  BY <1>0, <1>10
     DEF vars, Fresh, RuledOut, UncertifiedOnlyWhenExhausted, DeviationIsJustified, NoProbeClears
<1>11. QED
  BY <1>1, <1>3, <1>4, <1>5, <1>6, <1>7, <1>8, <1>9, <1>10 DEF Next

(* An uncertified route is tracked only when the whole cascade has failed  *)
(* on it, although two of its levels install routes unchecked.             *)
THEOREM UncertifiedCorrect == Spec => []UncertifiedOnlyWhenExhausted
<1>1. CascadeInv => UncertifiedOnlyWhenExhausted
  BY DEF CascadeInv
<1>2. QED
  BY CascadeInit, CascadeStep, <1>1, PTL DEF Spec

(* The planned path is left only when none of the dilations probed made it *)
(* clear, and for the via point only when reshaping did not help either.   *)
THEOREM DeviationCorrect == Spec => []DeviationIsJustified
<1>1. CascadeInv => DeviationIsJustified
  BY DEF CascadeInv
<1>2. QED
  BY CascadeInit, CascadeStep, <1>1, PTL DEF Spec
=============================================================================
