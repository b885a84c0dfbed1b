---------------------- MODULE SampleTemperature_proofs ----------------------
(***************************************************************************)
(* Proofs about SampleTemperature, for every scene: any readings, jobs,    *)
(* commands, faults and series.                                            *)
(*                                                                         *)
(* The first lemmas say what one question leaves of the evaluator, and     *)
(* that asking twice at one sight is asking once.  The second part is the  *)
(* Lake Shore thread: whatever step of its work fails, the last setpoint   *)
(* on its way to the panel is the instrument's.  Then come the panel and,  *)
(* with the clocks of the evaluator against the ticks they stand for, the  *)
(* batch.                                                                  *)
(***************************************************************************)
EXTENDS SampleTemperature, TLAPS

Evaluators == [since : None .. Dwell, msince : None .. LongDwell, mset : Nat \cup {None},
               ran : 0 .. Interval]
Sights == [r : Readings, age : Nat, field : Fields \cup {None}]
Goals == Nat \cup {None}

-----------------------------------------------------------------------------
LEMMA Constants ==
    /\ Margin \in Nat /\ SampleRecovery \in Nat /\ SampleWarning \in Nat /\ SampleTrip \in Nat
    /\ MagnetRecovery \in Nat /\ Precharge \in Nat /\ MaxAge \in Nat /\ Dwell \in Nat
    /\ SampleDwell \in Nat /\ Interval \in Nat /\ LongDwell \in Nat
    /\ Dwell <= LongDwell /\ SampleDwell <= LongDwell
    /\ Margin > 0 /\ SampleWarning < SampleTrip
    /\ \A f \in Fields : f \in Nat /\ Ceiling[f] \in Nat
  BY ConstantsAssumption DEF LongDwell

LEMMA SightFields ==
    ASSUME NEW x \in Sights
    PROVE  /\ x.r \in Readings /\ x.age \in Nat /\ x.field \in Fields \cup {None}
           /\ x.r.ok \in BOOLEAN /\ x.r.s \in Nat /\ x.r.m \in Nat /\ x.r.up \in BOOLEAN
  BY DEF Sights, Readings

\* With no goal the level is clear exactly when the reading is fresh, the
\* field is known and no warning is near.
LEMMA ClearIsProper ==
    ASSUME NEW x \in Sights
    PROVE  Level(x, None) = "clear" <=> Proper(x)
<1> USE Constants, SightFields
<1>1. CASE ~Fresh(x) \/ x.field = None
  BY <1>1 DEF Level, Proper
<1>2. CASE Fresh(x) /\ x.field # None
  <2>1. Boundary(x, None) = Ceiling[x.field] /\ Ceiling[x.field] \in Nat
    BY <1>2 DEF Boundary, None
  <2> DEFINE B == Boundary(x, None)
  <2> HIDE DEF B
  <2>2. Proper(x) <=> x.r.s < SampleWarning /\ x.r.m < B - Margin
    BY <1>2, <2>1 DEF Proper, B
  <2>3. CASE x.r.s >= SampleTrip \/ x.r.m >= B
    <3>0. ~(x.r.s < SampleTrip /\ x.r.m < B)
      BY <2>1, <2>3 DEF B
    <3>1. Level(x, None) = "tripped"
      BY <1>2, <2>3, <3>0 DEF Level, B
    <3>2. ~Proper(x)
      BY <2>1, <2>2, <2>3 DEF B
    <3>3. QED
      BY <3>1, <3>2
  <2>4. CASE x.r.s < SampleTrip /\ x.r.m < B /\ (x.r.s >= SampleWarning \/ x.r.m >= B - Margin)
    <3>1. ~(x.r.s >= SampleTrip \/ x.r.m >= B)
      BY <2>1, <2>4 DEF B
    <3>2. Level(x, None) = "warning"
      BY <1>2, <2>4, <3>1 DEF Level, B
    <3>3. ~Proper(x)
      BY <2>1, <2>2, <2>4 DEF B
    <3>4. QED
      BY <3>2, <3>3
  <2>5. CASE x.r.s < SampleWarning /\ x.r.m < B - Margin
    <3>1. ~(x.r.s >= SampleTrip \/ x.r.m >= B) /\ ~(x.r.s >= SampleWarning \/ x.r.m >= B - Margin)
      BY <2>1, <2>5 DEF B
    <3>2. Level(x, None) = "clear"
      BY <1>2, <3>1 DEF Level, B
    <3>3. QED
      BY <3>2, <2>2, <2>5
  <2>6. QED
    BY <2>1, <2>3, <2>4, <2>5 DEF B
<1>3. QED
  BY <1>1, <1>2

LEMMA QuietIsRecovered ==
    ASSUME NEW x \in Sights
    PROVE  Quiet(x) <=> Proper(x) /\ Recovered(x)
  BY Constants, SightFields DEF Quiet, Proper, Recovered, Fresh

LEMMA EvaluatorFields ==
    ASSUME NEW e \in Evaluators
    PROVE  /\ e.since \in None .. Dwell /\ e.msince \in None .. LongDwell
           /\ e.mset \in Nat \cup {None} /\ e.ran \in 0 .. Interval
           /\ e.since \in Int /\ e.msince \in Int /\ e.ran \in Int
  BY Constants DEF Evaluators, None

\* Two evaluators with the same parts are the same.
LEMMA SameEvaluator ==
    ASSUME NEW e \in Evaluators, NEW f \in Evaluators,
           e.since = f.since, e.msince = f.msince, e.mset = f.mset, e.ran = f.ran
    PROVE  e = f
  BY DEF Evaluators

LEMMA RefuseFacts ==
    ASSUME NEW e \in Evaluators
    PROVE  LET f == Refuse(e) IN
             /\ f \in Evaluators /\ f.since = None /\ f.msince = None
             /\ f.mset = e.mset /\ f.ran = e.ran
<1>1. None \in None .. Dwell /\ None \in None .. LongDwell
  BY Constants DEF None
<1>2. QED
  BY <1>1 DEF Evaluators, Refuse

\* What a permission for a move asks of the evaluator.
LEMMA EvaluateFacts ==
    ASSUME NEW e \in Evaluators, NEW x \in Sights
    PROVE  LET f == Evaluate(e, x) IN
             /\ f \in Evaluators /\ f.mset = e.mset /\ f.ran = e.ran
             /\ f.since = (IF Quiet(x) THEN Since(e.since) ELSE None)
             /\ f.msince = (IF Proper(x) THEN e.msince ELSE None)
<1> USE Constants, EvaluatorFields
<1>1. CASE ~Proper(x)
  BY <1>1, ClearIsProper, QuietIsRecovered, RefuseFacts DEF Evaluate
<1>2. CASE Quiet(x)
  <2>1. Evaluate(e, x) = [e EXCEPT !.since = Since(e.since)]
    BY <1>2, ClearIsProper, QuietIsRecovered DEF Evaluate
  <2>2. Since(e.since) \in 0 .. Dwell
    BY DEF Since, None
  <2>3. QED
    BY <2>1, <2>2, <1>2, QuietIsRecovered DEF Evaluators, None
<1>3. CASE Proper(x) /\ ~Quiet(x)
  <2>1. Evaluate(e, x) = [e EXCEPT !.since = None]
    BY <1>3, ClearIsProper, QuietIsRecovered DEF Evaluate, HoldFor
  <2>2. QED
    BY <2>1, <1>3 DEF Evaluators, None
<1>4. QED
  BY <1>1, <1>2, <1>3, QuietIsRecovered

LEMMA ContinueFacts ==
    ASSUME NEW e \in Evaluators, NEW x \in Sights
    PROVE  Continue(e, x) = IF Proper(x) THEN e ELSE Refuse(e)
  BY ClearIsProper DEF Continue

LEMMA NoteHeaterFacts ==
    ASSUME NEW e \in Evaluators
    PROVE  LET f == NoteHeater(e) IN
             /\ f \in Evaluators /\ f.since = e.since /\ f.msince = None
             /\ f.mset = e.mset /\ f.ran = 0
<1>1. None \in None .. LongDwell /\ 0 \in 0 .. Interval
  BY Constants DEF None
<1>2. QED
  BY <1>1 DEF Evaluators, NoteHeater

\* A measurement's question: what is left of the evaluator.
Agreed(x, goal) == Proper(x) /\ (goal = None \/ goal < SampleWarning)

LEMMA MeasureFacts ==
    ASSUME NEW e \in Evaluators, NEW x \in Sights, NEW goal \in Goals
    PROVE  LET f == Measure(e, x, goal) IN
             /\ f \in Evaluators /\ f.ran = e.ran
             /\ f.since = (IF Proper(x) THEN e.since ELSE None)
             /\ f.mset = (IF Agreed(x, goal) THEN goal ELSE e.mset)
             /\ f.msince = (IF Agreed(x, goal) /\ Requirement(x, goal)
                            THEN Since(IF e.mset = goal THEN e.msince ELSE None)
                            ELSE None)
<1> USE Constants, EvaluatorFields
<1>1. CASE ~Proper(x)
  BY <1>1, ClearIsProper, RefuseFacts DEF Measure, Agreed
<1>2. CASE Proper(x) /\ ~Agreed(x, goal)
  <2>1. goal # None /\ goal >= SampleWarning
    BY <1>2 DEF Agreed, Goals
  <2>2. Measure(e, x, goal) = [e EXCEPT !.msince = None]
    BY <1>2, <2>1, ClearIsProper DEF Measure
  <2>3. QED
    BY <1>2, <2>2 DEF Evaluators, None
<1>3. CASE Agreed(x, goal)
  <2>1. ~(goal # None /\ goal >= SampleWarning) /\ Proper(x)
    BY <1>3 DEF Agreed, Goals
  <2> DEFINE c == Chosen(e, goal)
  <2>2. /\ c \in Evaluators /\ c.since = e.since /\ c.mset = goal /\ c.ran = e.ran
        /\ c.msince = IF e.mset = goal THEN e.msince ELSE None
    <3>1. None \in None .. LongDwell
      BY DEF None
    <3>2. CASE e.mset = goal
      BY <3>2 DEF Chosen, Evaluators
    <3>3. CASE e.mset # goal
      BY <3>1, <3>3 DEF Chosen, Evaluators, Goals
    <3>4. QED
      BY <3>2, <3>3
  <2> HIDE DEF c
  <2>3. (Meets(x, goal) /\ ~x.r.up) <=> Requirement(x, goal)
    BY SightFields DEF Meets, Requirement
  <2>4. Since(c.msince) \in 0 .. LongDwell
    BY <2>2 DEF Since, None, Evaluators
  <2>5. CASE Requirement(x, goal)
    <3>1. Measure(e, x, goal) = [c EXCEPT !.msince = Since(c.msince)]
      BY <2>1, <2>3, <2>5, ClearIsProper DEF Measure, c
    <3>2. QED
      BY <3>1, <2>1, <2>2, <2>4, <2>5, <1>3 DEF Evaluators, None
  <2>6. CASE ~Requirement(x, goal)
    <3>1. Measure(e, x, goal) = [c EXCEPT !.msince = None]
      BY <2>1, <2>3, <2>6, ClearIsProper DEF Measure, c
    <3>2. QED
      BY <3>1, <2>1, <2>2, <2>6, <1>3 DEF Evaluators, None
  <2>7. QED
    BY <2>5, <2>6
<1>4. QED
  BY <1>1, <1>2, <1>3 DEF Agreed

\* A permission is given on recovered temperatures, after the dwell and the
\* interval.
LEMMA VerdictFacts ==
    ASSUME NEW e \in Evaluators, NEW x \in Sights
    PROVE  Verdict(e, x) = "safe" <=> Quiet(x) /\ Since(e.since) >= Dwell /\ e.ran = Interval
<1>0. e.ran \in 0 .. Interval /\ Interval \in Nat
  BY Constants DEF Evaluators
<1>1. CASE ~Proper(x)
  <2>1. Level(x, None) \in {"fault", "tripped", "warning", "clear"}
    BY DEF Level
  <2>2. Level(x, None) # "clear"
    BY <1>1, ClearIsProper
  <2>3. QED
    BY <1>1, <2>1, <2>2, QuietIsRecovered DEF Verdict
<1>2. CASE Proper(x)
  <2>1. Level(x, None) = "clear"
    BY <1>2, ClearIsProper
  <2>2. Quiet(x) <=> Recovered(x)
    BY <1>2, QuietIsRecovered
  <2>3. Since(e.since) \in Int /\ Dwell \in Int
    BY Constants, EvaluatorFields DEF Since
  <2>4. Since(e.since) < Dwell <=> ~(Since(e.since) >= Dwell)
    BY <2>3
  <2>5. e.ran < Interval <=> e.ran # Interval
    BY <1>0
  <2>6. QED
    BY <2>1, <2>2, <2>4, <2>5 DEF Verdict
<1>3. QED
  BY <1>1, <1>2

-----------------------------------------------------------------------------
(***************************************************************************)
(* The questions of the batch.  Whatever it asks in one sight, and however *)
(* often, the evaluator is left as one question of either kind leaves it.  *)
(***************************************************************************)
Remeasured(e, x) == IF Unknown THEN e ELSE Measure(e, x, Goal)

LEMMA RemeasuredFacts ==
    ASSUME Goal \in Goals, NEW e \in Evaluators, NEW x \in Sights
    PROVE  LET f == Remeasured(e, x) IN
             /\ f \in Evaluators /\ f.ran = e.ran
             /\ Unknown => f = e
             /\ ~Unknown =>
                  /\ f.since = (IF Proper(x) THEN e.since ELSE None)
                  /\ f.mset = (IF Agreed(x, Goal) THEN Goal ELSE e.mset)
                  /\ f.msince = (IF Agreed(x, Goal) /\ Requirement(x, Goal)
                                 THEN Since(IF e.mset = Goal THEN e.msince ELSE None)
                                 ELSE None)
  BY MeasureFacts DEF Remeasured

LEMMA AskedOnce ==
    ASSUME Goal \in Goals, NEW e \in Evaluators, NEW x \in Sights
    PROVE  AskMeasurement(e, x).e = Remeasured(e, x)
  BY DEF AskMeasurement, Says, Remeasured

\* A measurement is allowed after the dwell of its requirement.
LEMMA AllowedAfterDwell ==
    ASSUME Goal \in Goals, NEW e \in Evaluators, NEW x \in Sights,
           AskMeasurement(e, x).verdict = "safe"
    PROVE  /\ ~Unknown
           /\ AskMeasurement(e, x).e.msince >= MeasurementDwell(Goal)
<1>1. ~Unknown /\ MeasureVerdict(e, x, Goal) = "safe"
  BY DEF AskMeasurement, Says
<1>2. AskMeasurement(e, x).e = Measure(e, x, Goal)
  BY <1>1 DEF AskMeasurement, Says
<1>3. Level(x, None) \in {"fault", "tripped", "warning", "clear"}
  BY DEF Level
<1>4. Measure(e, x, Goal).msince >= MeasurementDwell(Goal)
  BY <1>1, <1>3 DEF MeasureVerdict
<1>5. QED
  BY <1>1, <1>2, <1>4

LEMMA RemeasuredTwice ==
    ASSUME Goal \in Goals, NEW e \in Evaluators, NEW x \in Sights
    PROVE  Remeasured(Remeasured(e, x), x) = Remeasured(e, x)
<1> DEFINE f == Remeasured(e, x)
           g == Remeasured(f, x)
<1>1. CASE Unknown
  BY <1>1 DEF Remeasured
<1>2. CASE ~Unknown
  <2>1. /\ f \in Evaluators
        /\ f.since = (IF Proper(x) THEN e.since ELSE None)
        /\ f.mset = (IF Agreed(x, Goal) THEN Goal ELSE e.mset)
        /\ f.msince = (IF Agreed(x, Goal) /\ Requirement(x, Goal)
                       THEN Since(IF e.mset = Goal THEN e.msince ELSE None) ELSE None)
    BY <1>2, RemeasuredFacts
  <2> HIDE DEF f
  <2>2. /\ g \in Evaluators /\ g.ran = f.ran
        /\ g.since = (IF Proper(x) THEN f.since ELSE None)
        /\ g.mset = (IF Agreed(x, Goal) THEN Goal ELSE f.mset)
        /\ g.msince = (IF Agreed(x, Goal) /\ Requirement(x, Goal)
                       THEN Since(IF f.mset = Goal THEN f.msince ELSE None) ELSE None)
    BY <1>2, <2>1, RemeasuredFacts
  <2> HIDE DEF g
  <2>3. \A n : Since(Since(n)) = Since(n)
    BY DEF Since
  <2>4. g.msince = f.msince
    BY <2>1, <2>2, <2>3
  <2>5. g = f
    BY <2>1, <2>2, <2>4, SameEvaluator
  <2>6. QED
    BY <2>5 DEF f, g
<1>3. QED
  BY <1>1, <1>2

LEMMA EvaluatedTwice ==
    ASSUME NEW e \in Evaluators, NEW x \in Sights
    PROVE  Evaluate(Evaluate(e, x), x) = Evaluate(e, x)
<1> DEFINE f == Evaluate(e, x)
           g == Evaluate(f, x)
<1>1. /\ f \in Evaluators
      /\ f.since = (IF Quiet(x) THEN Since(e.since) ELSE None)
      /\ f.msince = (IF Proper(x) THEN e.msince ELSE None)
  BY EvaluateFacts
<1> HIDE DEF f
<1>2. /\ g \in Evaluators /\ g.mset = f.mset /\ g.ran = f.ran
      /\ g.since = (IF Quiet(x) THEN Since(f.since) ELSE None)
      /\ g.msince = (IF Proper(x) THEN f.msince ELSE None)
  BY <1>1, EvaluateFacts
<1> HIDE DEF g
<1>3. \A n : Since(Since(n)) = Since(n)
  BY DEF Since
<1>4. g.msince = f.msince /\ g.since = f.since
  BY <1>1, <1>2, <1>3
<1>5. g = f
  BY <1>1, <1>2, <1>4, SameEvaluator
<1>6. QED
  BY <1>5 DEF f, g

LEMMA LiveAfterEvaluate ==
    ASSUME NEW e \in Evaluators, NEW x \in Sights, NEW b
    PROVE  Live(b, Evaluate(e, x), x) = Evaluate(e, x)
<1> DEFINE f == Evaluate(e, x)
<1>1. f \in Evaluators /\ (~Proper(x) => f.since = None /\ f.msince = None)
  BY EvaluateFacts, QuietIsRecovered
<1>2. Evaluate(f, x) = f
  BY EvaluatedTwice
<1> HIDE DEF f
<1>3. Continue(f, x) = f
  <2>1. CASE Proper(x)
    BY <2>1, <1>1, ContinueFacts
  <2>2. CASE ~Proper(x)
    <3>1. Refuse(f) = f
      BY <1>1, <2>2, RefuseFacts, SameEvaluator
    <3>2. QED
      BY <2>2, <3>1, <1>1, ContinueFacts
  <2>3. QED
    BY <2>1, <2>2
<1>4. QED
  BY <1>2, <1>3 DEF Live, f

-----------------------------------------------------------------------------
Batches == [phase : {"idle", "wait", "moving", "measuring"},
            context : {"none", "preflight", "pre_move", "post_move"},
            job : Nat, last : Fields \cup {None}, manual : BOOLEAN]

\* A batch that may measure, and one that waits for that.
ToMeasure(b, e) ==
    \/ b.phase = "measuring" /\ b.context = "none"
         /\ ~Unknown /\ e.msince >= MeasurementDwell(Goal)
    \/ b.phase = "wait" /\ b.context = "post_move"

\* A batch that may move, and one that waits for that.
ToMove(b, e, x) ==
    \/ b.phase = "moving" /\ b.context = "none"
         /\ Quiet(x) /\ e.since >= Dwell /\ e.ran = Interval
    \/ b.phase = "wait" /\ b.context \in {"preflight", "pre_move"}

LEMMA EnterFacts ==
    ASSUME NEW b \in Batches, NEW p \in {"idle", "wait", "moving", "measuring"},
           NEW c \in {"none", "preflight", "pre_move", "post_move"}
    PROVE  LET n == Enter(b, p, c) IN
             /\ n \in Batches /\ n.phase = p /\ n.context = c
             /\ n.job = b.job /\ n.last = b.last /\ n.manual = b.manual
  BY DEF Enter, Batches

LEMMA VerifyFacts ==
    ASSUME Goal \in Goals, NEW e \in Evaluators, NEW x \in Sights, NEW b \in Batches,
           scene.jobs[b.job] \in Fields, NEW ran \in BOOLEAN
    PROVE  LET a == Verify(b, e, x, ran) IN
             /\ a.e = Remeasured(IF ran THEN NoteHeater(e) ELSE e, x)
             /\ a.b \in Batches /\ a.b.job = b.job /\ a.b.last = scene.jobs[b.job]
             /\ ToMeasure(a.b, a.e)
<1> DEFINE g == IF ran THEN NoteHeater(e) ELSE e
           q == AskMeasurement(g, x)
           v == [b EXCEPT !.last = scene.jobs[b.job]]
           a == Verify(b, e, x, ran)
<1>1. g \in Evaluators
  BY NoteHeaterFacts
<1>2. v \in Batches /\ v.job = b.job /\ v.last = scene.jobs[b.job]
  BY DEF Batches
<1>3. a = Answer(IF q.verdict = "safe" THEN Enter(v, "measuring", "none")
                                     ELSE Enter(v, "wait", "post_move"), q.e)
  BY DEF Verify
<1> HIDE DEF g, v, a
<1>4. q.e = Remeasured(g, x)
  BY <1>1, AskedOnce
<1>5. q.verdict = "safe" => ~Unknown /\ q.e.msince >= MeasurementDwell(Goal)
  BY <1>1, AllowedAfterDwell
<1> HIDE DEF q
<1>6. CASE q.verdict = "safe"
  <2>1. a.b = Enter(v, "measuring", "none") /\ a.e = q.e
    BY <1>3, <1>6 DEF Answer
  <2>2. /\ a.b \in Batches /\ a.b.phase = "measuring" /\ a.b.context = "none"
        /\ a.b.job = v.job /\ a.b.last = v.last
    BY <1>2, <2>1, EnterFacts
  <2>3. QED
    BY <1>2, <1>4, <1>5, <1>6, <2>1, <2>2 DEF ToMeasure, a, g
<1>7. CASE q.verdict # "safe"
  <2>1. a.b = Enter(v, "wait", "post_move") /\ a.e = q.e
    BY <1>3, <1>7 DEF Answer
  <2>2. /\ a.b \in Batches /\ a.b.phase = "wait" /\ a.b.context = "post_move"
        /\ a.b.job = v.job /\ a.b.last = v.last
    BY <1>2, <2>1, EnterFacts
  <2>3. QED
    BY <1>2, <1>4, <2>1, <2>2 DEF ToMeasure, a, g
<1>8. QED
  BY <1>6, <1>7

\* Having permission, the evaluator keeps it when asked again.
LEMMA EvaluatedVerdict ==
    ASSUME NEW e \in Evaluators, NEW x \in Sights, Verdict(e, x) = "safe"
    PROVE  /\ Quiet(x) /\ Evaluate(e, x).since >= Dwell /\ Evaluate(e, x).ran = Interval
  BY VerdictFacts, EvaluateFacts

LEMMA NextMoveFacts ==
    ASSUME Goal \in Goals, NEW e \in Evaluators, NEW x \in Sights, NEW b \in Batches,
           scene.jobs[b.job] \in Fields
    PROVE  LET a == RequestNextMove(b, e, x) IN
             /\ a.b \in Batches /\ a.b.job = b.job /\ a.b.last = b.last
             /\ scene.jobs[b.job] = b.last => a.e = Remeasured(e, x) /\ ToMeasure(a.b, a.e)
             /\ scene.jobs[b.job] # b.last =>
                  a.e = Evaluate(e, x) /\ ToMove(a.b, a.e, x) /\ a.b.context # "preflight"
<1> DEFINE q == AskMove(e, x)
           a == RequestNextMove(b, e, x)
<1>1. CASE scene.jobs[b.job] = b.last
  <2>1. a = Verify(b, e, x, FALSE)
    BY <1>1 DEF RequestNextMove
  <2>2. /\ a.e = Remeasured(IF FALSE THEN NoteHeater(e) ELSE e, x)
        /\ a.b \in Batches /\ a.b.job = b.job /\ a.b.last = scene.jobs[b.job]
        /\ ToMeasure(a.b, a.e)
    <3>1. FALSE \in BOOLEAN
      OBVIOUS
    <3> HIDE DEF a
    <3>2. QED
      BY <2>1, <3>1, VerifyFacts
  <2>3. QED
    BY <1>1, <2>2
<1>2. CASE scene.jobs[b.job] # b.last
  <2>1. a = IF q.verdict = "safe" THEN Answer(Enter(b, "moving", "none"), q.e)
            ELSE Answer(Enter(b, "wait", "pre_move"), q.e)
    BY <1>2 DEF RequestNextMove
  <2>2. q.e = Evaluate(e, x) /\ q.verdict = Verdict(e, x)
    BY DEF AskMove, Says
  <2> HIDE DEF q, a
  <2>3. CASE q.verdict = "safe"
    <3>1. a.b = Enter(b, "moving", "none") /\ a.e = q.e
      BY <2>1, <2>3 DEF Answer
    <3>2. /\ a.b \in Batches /\ a.b.phase = "moving" /\ a.b.context = "none"
          /\ a.b.job = b.job /\ a.b.last = b.last
      BY <3>1, EnterFacts
    <3>3. QED
      BY <1>2, <2>2, <2>3, <3>1, <3>2, EvaluatedVerdict DEF ToMove, a
  <2>4. CASE q.verdict # "safe"
    <3>1. a.b = Enter(b, "wait", "pre_move") /\ a.e = q.e
      BY <2>1, <2>4 DEF Answer
    <3>2. /\ a.b \in Batches /\ a.b.phase = "wait" /\ a.b.context = "pre_move"
          /\ a.b.job = b.job /\ a.b.last = b.last
      BY <3>1, EnterFacts
    <3>3. QED
      BY <1>2, <2>2, <3>1, <3>2 DEF ToMove, a
  <2>5. QED
    BY <2>3, <2>4
<1>3. QED
  BY <1>1, <1>2

\* A waiting batch asks one of the two questions, until it goes on.
LEMMA PollFacts ==
    ASSUME Goal \in Goals, NEW e \in Evaluators, NEW x \in Sights, NEW b \in Batches,
           scene.jobs[b.job] \in Fields, NEW pressed \in BOOLEAN, b.phase = "wait"
    PROVE  LET a == PollCooldown(b, e, x, pressed) IN
             /\ b.context = "post_move" /\ scene.jobs[b.job] = b.last =>
                  /\ a.e = Remeasured(e, x) /\ ToMeasure(a.b, a.e)
                  /\ a.b \in Batches /\ a.b.job = b.job /\ a.b.last = b.last
             /\ b.context \in {"preflight", "pre_move"} /\ scene.jobs[b.job] # b.last =>
                  /\ a.e = Evaluate(e, x)
                  /\ \/ a.b = Idle
                     \/ /\ ToMove(a.b, a.e, x)
                        /\ a.b \in Batches /\ a.b.job = b.job /\ a.b.last = b.last
<1> DEFINE q == Ask(b, e, x)
           m == [b EXCEPT !.manual = @ \/ q.verdict \in NeedsOperator]
           n == [m EXCEPT !.manual = FALSE, !.context = "none"]
           a == PollCooldown(b, e, x, pressed)
<1>1. /\ m \in Batches /\ m.phase = b.phase /\ m.context = b.context
      /\ m.job = b.job /\ m.last = b.last
  <2>1. (b.manual \/ q.verdict \in NeedsOperator) \in BOOLEAN
    OBVIOUS
  <2> DEFINE w == (b.manual \/ q.verdict \in NeedsOperator)
  <2>2. m = [b EXCEPT !.manual = w]
    OBVIOUS
  <2> HIDE DEF w, q
  <2>3. w \in BOOLEAN
    BY <2>1 DEF w
  <2> HIDE DEF m
  <2>4. QED
    BY <2>2, <2>3 DEF Batches
<1> HIDE DEF m
<1>2. /\ n \in Batches /\ n.phase = b.phase /\ n.context = "none"
      /\ n.job = b.job /\ n.last = b.last
  BY <1>1 DEF Batches
<1>3. a = IF q.verdict = "safe" /\ (pressed \/ ~m.manual)
          THEN RequestNextMove(n, q.e, x)
          ELSE IF b.context = "preflight" /\ q.verdict \notin {"safe", "dwell", "interval"}
          THEN Answer(Idle, q.e) ELSE Answer(m, q.e)
  BY DEF PollCooldown, m
<1> HIDE DEF n, a
<1>4. ASSUME b.context = "post_move", scene.jobs[b.job] = b.last
      PROVE  /\ a.e = Remeasured(e, x) /\ ToMeasure(a.b, a.e)
             /\ a.b \in Batches /\ a.b.job = b.job /\ a.b.last = b.last
  <2>1. q.e = Remeasured(e, x) /\ q.e \in Evaluators
    BY <1>4, AskedOnce, RemeasuredFacts DEF Ask
  <2> HIDE DEF q
  <2>2. CASE q.verdict = "safe" /\ (pressed \/ ~m.manual)
    <3>1. a = RequestNextMove(n, q.e, x)
      BY <1>3, <2>2
    <3>2. scene.jobs[n.job] \in Fields /\ scene.jobs[n.job] = n.last
      BY <1>2, <1>4
    <3>3. /\ a.b \in Batches /\ a.b.job = n.job /\ a.b.last = n.last
          /\ a.e = Remeasured(q.e, x) /\ ToMeasure(a.b, a.e)
      BY <1>2, <2>1, <3>1, <3>2, NextMoveFacts
    <3>4. QED
      BY <1>2, <2>1, <3>3, RemeasuredTwice
  <2>3. CASE ~(q.verdict = "safe" /\ (pressed \/ ~m.manual))
    <3>1. a = Answer(m, q.e)
      BY <1>3, <1>4, <2>3
    <3>2. a.b = m /\ a.e = q.e
      BY <3>1 DEF Answer
    <3>3. QED
      BY <1>1, <1>4, <2>1, <3>2 DEF ToMeasure
  <2>4. QED
    BY <2>2, <2>3
<1>5. ASSUME b.context \in {"preflight", "pre_move"}, scene.jobs[b.job] # b.last
      PROVE  /\ a.e = Evaluate(e, x)
             /\ \/ a.b = Idle
                \/ /\ ToMove(a.b, a.e, x)
                   /\ a.b \in Batches /\ a.b.job = b.job /\ a.b.last = b.last
  <2>1. q.e = Evaluate(e, x) /\ q.e \in Evaluators
    BY <1>5, EvaluateFacts DEF Ask, AskMove, Says
  <2> HIDE DEF q
  <2>2. CASE q.verdict = "safe" /\ (pressed \/ ~m.manual)
    <3>1. a = RequestNextMove(n, q.e, x)
      BY <1>3, <2>2
    <3>2. scene.jobs[n.job] \in Fields /\ scene.jobs[n.job] # n.last
      BY <1>2, <1>5
    <3>3. /\ a.b \in Batches /\ a.b.job = n.job /\ a.b.last = n.last
          /\ a.e = Evaluate(q.e, x) /\ ToMove(a.b, a.e, x)
      BY <1>2, <2>1, <3>1, <3>2, NextMoveFacts
    <3>4. QED
      BY <1>2, <2>1, <3>3, EvaluatedTwice
  <2>3. CASE /\ ~(q.verdict = "safe" /\ (pressed \/ ~m.manual))
             /\ b.context = "preflight" /\ q.verdict \notin {"safe", "dwell", "interval"}
    <3>1. a = Answer(Idle, q.e)
      BY <1>3, <2>3
    <3>2. QED
      BY <3>1, <2>1 DEF Answer
  <2>4. CASE /\ ~(q.verdict = "safe" /\ (pressed \/ ~m.manual))
             /\ ~(b.context = "preflight" /\ q.verdict \notin {"safe", "dwell", "interval"})
    <3>1. a = Answer(m, q.e)
      BY <1>3, <2>4
    <3>2. a.b = m /\ a.e = q.e
      BY <3>1 DEF Answer
    <3>3. QED
      BY <1>1, <1>5, <2>1, <3>2 DEF ToMove
  <2>5. QED
    BY <2>2, <2>3, <2>4
<1>6. QED
  BY <1>4, <1>5 DEF a

\* The batch takes a reading: it ends, goes on as it was, asks for the
\* measurement, or polls its wait.
LEMMA BatchSeesFacts ==
    ASSUME Goal \in Goals, NEW e \in Evaluators, NEW x \in Sights, NEW b \in Batches,
           b.phase # "idle" => scene.jobs[b.job] \in Fields
    PROVE  LET f == Evaluate(e, x)
               a == BatchSees(b, f, x)
           IN  \/ a.e = f /\ a.b = Idle
               \/ a.e = f /\ a.b = b /\ b.phase \in {"idle", "moving"}
               \/ a.e = Remeasured(f, x) /\ a.b = b /\ b.phase = "measuring"
               \/ a = PollCooldown(b, f, x, FALSE) /\ b.phase = "wait"
<1> DEFINE f == Evaluate(e, x)
           a == BatchSees(b, f, x)
<1>1. Live(b, f, x) = f /\ f \in Evaluators
  BY LiveAfterEvaluate, EvaluateFacts
<1> HIDE DEF f
<1>2. AskMeasurement(f, x).e = Remeasured(f, x)
  BY <1>1, AskedOnce
<1>3. CASE Stopped(b, x)
  BY <1>1, <1>3 DEF BatchSees, Answer, f
<1>4. CASE ~Stopped(b, x) /\ b.phase = "wait"
  BY <1>1, <1>4 DEF BatchSees, f
<1>5. CASE ~Stopped(b, x) /\ b.phase = "measuring"
  BY <1>1, <1>2, <1>5 DEF BatchSees, Answer, f
<1>6. CASE ~Stopped(b, x) /\ b.phase \in {"idle", "moving"}
  BY <1>1, <1>6 DEF BatchSees, Answer, f
<1>7. QED
  BY <1>3, <1>4, <1>5, <1>6 DEF Batches, f

-----------------------------------------------------------------------------
(***************************************************************************)
(* The signals of the Lake Shore thread.                                   *)
(***************************************************************************)
Kinds == {"reading", "connected", "disconnected", "alarm", "sample_control", "heater_off",
          "read_control"}
Signals == [kind : Kinds, ok : BOOLEAN, r : scene.readings \cup {Bad}, set : Nat \cup {None}]
Instruments == [set : Nat, heat : BOOLEAN]
Outcomes == [inst : Instruments, told : Seq(Signals), cost : Nat, read : BOOLEAN]

\* The signals that tell the panel a setpoint, and those that leave what it
\* knows of the setpoint alone.
Sets == {"sample_control", "read_control"}
Silent == {"reading", "connected"}
LastWord(q, n) == \A k \in n + 1 .. Len(q) : q[k].kind \in Silent

\* The last setpoint on its way to the panel, or the one the panel has when
\* none is, is the instrument's unless somebody changed it there.
Pipe(q, c, i, t) ==
    /\ \A n \in 1 .. Len(q) :
          q[n].kind \in Sets /\ q[n].ok /\ LastWord(q, n) => t \/ q[n].set = i.set
    /\ c # None /\ LastWord(q, 0) => t \/ c = i.set

Fine(o) == o \in Outcomes /\ Pipe(o.told, ctl, o.inst, touched /\ ~o.read)

LEMMA SilentPipe ==
    ASSUME NEW q \in Seq(Signals), NEW s \in Signals, NEW c, NEW i, NEW t,
           s.kind \in Silent, Pipe(q, c, i, t)
    PROVE  Pipe(Append(q, s), c, i, t)
<1> DEFINE p == Append(q, s)
<1>1. Len(p) = Len(q) + 1 /\ p[Len(q) + 1] = s /\ \A n \in 1 .. Len(q) : p[n] = q[n]
  OBVIOUS
<1>2. Len(q) \in Nat
  OBVIOUS
<1> HIDE DEF p
<1>3. ASSUME NEW n \in 0 .. Len(q), LastWord(p, n) PROVE LastWord(q, n)
  BY <1>1, <1>2, <1>3 DEF LastWord
<1>4. ASSUME NEW n \in 1 .. Len(p), p[n].kind \in Sets, p[n].ok, LastWord(p, n)
      PROVE  t \/ p[n].set = i.set
  <2>1. n # Len(q) + 1
    BY <1>1, <1>4 DEF Sets, Silent
  <2>2. n \in 1 .. Len(q)
    BY <2>1, <1>1, <1>2
  <2>3. QED
    BY <2>2, <1>1, <1>2, <1>3, <1>4 DEF Pipe
<1>5. ASSUME c # None, LastWord(p, 0) PROVE t \/ c = i.set
  BY <1>2, <1>3, <1>5 DEF Pipe
<1>6. QED
  BY <1>4, <1>5 DEF Pipe, p

LEMMA LoudPipe ==
    ASSUME NEW q \in Seq(Signals), NEW s \in Signals, NEW c, NEW i, NEW t,
           s.kind \notin Silent, s.kind \in Sets /\ s.ok => s.set = i.set
    PROVE  Pipe(Append(q, s), c, i, t)
<1> DEFINE p == Append(q, s)
<1>1. Len(p) = Len(q) + 1 /\ p[Len(q) + 1] = s /\ Len(q) \in Nat
  OBVIOUS
<1> HIDE DEF p
<1>2. ASSUME NEW n \in 0 .. Len(q) PROVE ~LastWord(p, n)
  <2>1. Len(p) \in n + 1 .. Len(p)
    BY <1>1
  <2>2. QED
    BY <2>1, <1>1 DEF LastWord
<1>3. ASSUME NEW n \in 1 .. Len(p), p[n].kind \in Sets, p[n].ok, LastWord(p, n)
      PROVE  t \/ p[n].set = i.set
  <2>1. n = Len(q) + 1
    BY <1>1, <1>2, <1>3
  <2>2. QED
    BY <2>1, <1>1, <1>3
<1>4. QED
  BY <1>1, <1>2, <1>3 DEF Pipe, p

\* Changing nothing but the readings that are queued.
LEMMA ReadingsPipe ==
    ASSUME NEW q \in Seq(Signals), NEW p \in Seq(Signals), NEW c, NEW i, NEW t, Pipe(q, c, i, t),
           Len(p) = Len(q),
           \A n \in 1 .. Len(q) : p[n] = q[n] \/ (p[n].kind = "reading" /\ q[n].kind = "reading")
    PROVE  Pipe(p, c, i, t)
<1>1. \A n \in 1 .. Len(q) : p[n].kind = q[n].kind
  OBVIOUS
<1>2. ASSUME NEW n \in 0 .. Len(q), LastWord(p, n) PROVE LastWord(q, n)
  BY <1>1, <1>2 DEF LastWord
<1>3. QED
  BY <1>1, <1>2 DEF Pipe, Sets

LEMMA SceneReadings ==
    ASSUME scene \in Scenes
    PROVE  scene.readings \subseteq Readings /\ Bad \in Readings
  BY ScenesAssumption DEF Readings, Bad

LEMMA SignalTypes ==
    /\ \A k \in Kinds : Signal(k) \in Signals /\ Signal(k).kind = k
    /\ \A k \in Kinds, ok \in BOOLEAN, set \in Nat \cup {None} :
          /\ Result(k, ok, set) \in Signals
          /\ Result(k, ok, set).kind = k /\ Result(k, ok, set).ok = ok
          /\ Result(k, ok, set).set = set
  BY DEF Signal, Result, Signals

LEMMA ReadingSignal ==
    ASSUME NEW r \in scene.readings \cup {Bad}
    PROVE  [Signal("reading") EXCEPT !.r = r] \in Signals /\ [Signal("reading") EXCEPT !.r = r].kind = "reading"
  BY DEF Signal, Signals, Kinds

LEMMA PublishFacts ==
    ASSUME NEW q \in Seq(Signals), NEW r \in scene.readings \cup {Bad}
    PROVE  /\ Publish(q, r) \in Seq(Signals)
           /\ \A c, i, t : Pipe(q, c, i, t) => Pipe(Publish(q, r), c, i, t)
<1>1. CASE \E n \in 1 .. Len(q) : q[n].kind = "reading"
  <2> DEFINE g(n) == IF q[n].kind = "reading" THEN [q[n] EXCEPT !.r = r, !.ok = TRUE] ELSE q[n]
             p == [n \in 1 .. Len(q) |-> g(n)]
  <2>1. Publish(q, r) = p
    BY <1>1 DEF Publish
  <2>2. ASSUME NEW n \in 1 .. Len(q)
        PROVE  g(n) \in Signals
    <3>1. q[n] \in Signals
      OBVIOUS
    <3>2. QED
      BY <3>1 DEF Signals
  <2>5. ASSUME NEW n \in 1 .. Len(q)
        PROVE  p[n] = q[n] \/ (p[n].kind = "reading" /\ q[n].kind = "reading")
    <3>1. q[n] \in Signals
      OBVIOUS
    <3>2. CASE q[n].kind = "reading"
      <4>1. p[n] = [q[n] EXCEPT !.r = r, !.ok = TRUE]
        BY <3>2
      <4> HIDE DEF p
      <4>2. QED
        BY <3>1, <3>2, <4>1 DEF Signals
    <3>3. CASE q[n].kind # "reading"
      BY <3>1, <3>3
    <3>4. QED
      BY <3>2, <3>3
  <2>3. p \in Seq(Signals) /\ Len(p) = Len(q)
    <3>1. p \in [1 .. Len(q) -> Signals] /\ Len(q) \in Nat
      <4> HIDE DEF g
      <4>1. QED
        BY <2>2
    <3> HIDE DEF p
    <3>2. QED
      BY <3>1
  <2> HIDE DEF p
  <2>4. QED
    BY <2>1, <2>5, <2>3, ReadingsPipe
<1>2. CASE ~\E n \in 1 .. Len(q) : q[n].kind = "reading"
  <2> DEFINE s == [Signal("reading") EXCEPT !.r = r]
  <2>1. Publish(q, r) = Append(q, s)
    BY <1>2 DEF Publish
  <2>2. s \in Signals /\ s.kind \in Silent
    BY ReadingSignal DEF Silent
  <2> HIDE DEF s
  <2>3. QED
    BY <2>1, <2>2, SilentPipe
<1>3. QED
  BY <1>1, <1>2

LEMMA ForgetFacts ==
    ASSUME NEW q \in Seq(Signals)
    PROVE  Forget(q) \in Seq(Signals)
<1> DEFINE p == [n \in 1 .. Len(q) |-> IF q[n].kind = "reading" THEN [q[n] EXCEPT !.ok = FALSE] ELSE q[n]]
<1>1. ASSUME NEW n \in 1 .. Len(q) PROVE p[n] \in Signals
  <2>1. q[n] \in Signals
    OBVIOUS
  <2>2. QED
    BY <2>1 DEF Signals
<1>2. p \in [1 .. Len(q) -> Signals] /\ Len(q) \in Nat
  BY <1>1
<1> HIDE DEF p
<1>3. p \in Seq(Signals)
  BY <1>2
<1>4. QED
  BY <1>3 DEF Forget, p

-----------------------------------------------------------------------------
LEMMA OutcomeFields ==
    ASSUME NEW o \in Outcomes
    PROVE  /\ o.inst \in Instruments /\ o.told \in Seq(Signals) /\ o.cost \in Nat /\ o.read \in BOOLEAN
           /\ o.inst.set \in Nat /\ o.inst.heat \in BOOLEAN
  BY DEF Outcomes, Instruments

LEMMA OutcomeType ==
    ASSUME NEW i \in Instruments, NEW q \in Seq(Signals), NEW n \in Nat
    PROVE  Outcome(i, q, n) \in Outcomes /\ Outcome(i, q, n).inst = i /\ Outcome(i, q, n).told = q
  BY DEF Outcome, Outcomes

LEMMA ToldFacts ==
    ASSUME NEW o \in Outcomes, NEW s \in Signals
    PROVE  LET p == Told(o, s) IN
             /\ p \in Outcomes /\ p.inst = o.inst /\ p.told = Append(o.told, s)
             /\ p.cost = o.cost /\ p.read = o.read
<1>1. Append(o.told, s) \in Seq(Signals)
  BY OutcomeFields
<1>2. QED
  BY <1>1 DEF Told, Outcomes

LEMMA HeardFacts ==
    ASSUME NEW o \in Outcomes, NEW r \in scene.readings \cup {Bad}
    PROVE  LET p == Heard(o, r) IN
             /\ p \in Outcomes /\ p.inst = o.inst /\ p.told = Publish(o.told, r)
             /\ p.cost = o.cost /\ p.read = o.read
<1>1. Publish(o.told, r) \in Seq(Signals)
  BY OutcomeFields, PublishFacts
<1>2. QED
  BY <1>1 DEF Heard, Outcomes

LEMMA FaultyFacts ==
    ASSUME NEW o \in Outcomes
    PROVE  LET p == Faulty(o) IN
             /\ p \in Outcomes /\ p.inst = o.inst /\ p.told = o.told
             /\ p.cost = o.cost + 1 /\ p.read = o.read
<1>1. o.cost + 1 \in Nat
  BY OutcomeFields
<1>2. QED
  BY <1>1 DEF Faulty, Outcomes

LEMMA CurrentFacts ==
    ASSUME NEW o \in Outcomes
    PROVE  LET p == Current(o) IN
             /\ p \in Outcomes /\ p.inst = o.inst /\ p.told = o.told
             /\ p.cost = o.cost /\ p.read = TRUE
  BY DEF Current, Outcomes

LEMMA HeatFacts ==
    ASSUME NEW i \in Instruments, NEW on \in BOOLEAN
    PROVE  Heat(i, on) \in Instruments /\ Heat(i, on).set = i.set /\ Heat(i, on).heat = on
  BY DEF Heat, Instruments

\* A result or an alarm ends what was said before.
LEMMA LoudFine ==
    ASSUME NEW o \in Outcomes, NEW s \in Signals, s.kind \notin Silent,
           s.kind \in Sets /\ s.ok => s.set = o.inst.set
    PROVE  Fine(Told(o, s))
<1> DEFINE p == Told(o, s)
<1>1. o.told \in Seq(Signals)
  BY OutcomeFields
<1>2. p \in Outcomes /\ p.inst = o.inst /\ p.told = Append(o.told, s)
  BY ToldFacts
<1> HIDE DEF p
<1>3. Pipe(p.told, ctl, p.inst, touched /\ ~p.read)
  BY <1>1, <1>2, LoudPipe
<1>4. QED
  BY <1>2, <1>3 DEF Fine, p

LEMMA AlarmFine ==
    ASSUME NEW o \in Outcomes
    PROVE  Fine(Told(o, Signal("alarm")))
<1>1. Signal("alarm") \in Signals /\ Signal("alarm").kind = "alarm"
  BY SignalTypes DEF Kinds
<1>2. QED
  BY <1>1, LoudFine DEF Silent, Sets

LEMMA TwoSignals ==
    ASSUME NEW q \in Seq(Signals), NEW a \in Signals, NEW b \in Signals
    PROVE  q \o <<a, b>> = Append(Append(q, a), b)
  OBVIOUS

LEMMA TwoWords ==
    ASSUME NEW q \in Seq(Signals), NEW a \in Signals
    PROVE  LET p == q \o <<a, Signal("alarm")>> IN
             p \in Seq(Signals) /\ \A c, i, t : Pipe(p, c, i, t)
<1>1. Signal("alarm") \in Signals /\ Signal("alarm").kind = "alarm"
  BY SignalTypes DEF Kinds
<1>2. Append(q, a) \in Seq(Signals)
  OBVIOUS
<1>3. Append(Append(q, a), Signal("alarm")) \in Seq(Signals)
  BY <1>1, <1>2
<1>4. QED
  BY <1>1, <1>2, <1>3, TwoSignals, LoudPipe DEF Silent, Sets

LEMMA ShutTypes ==
    ASSUME NEW i \in Instruments, NEW n \in Nat, NEW s \in ShutOutputs(i, n)
    PROVE  s.inst \in Instruments /\ s.cost \in Nat /\ s.ok \in BOOLEAN
<1>1. Heat(i, FALSE) \in Instruments
  BY HeatFacts
<1>2. n + 1 \in Nat
  OBVIOUS
<1>3. \/ s = [inst |-> Heat(i, FALSE), cost |-> n, ok |-> TRUE]
      \/ s = [inst |-> Heat(i, FALSE), cost |-> n + 1, ok |-> FALSE]
      \/ s = [inst |-> i, cost |-> n + 1, ok |-> FALSE]
  BY DEF ShutOutputs
<1>4. CASE s = [inst |-> Heat(i, FALSE), cost |-> n, ok |-> TRUE]
  BY <1>1, <1>4
<1>5. CASE s = [inst |-> Heat(i, FALSE), cost |-> n + 1, ok |-> FALSE]
  BY <1>1, <1>2, <1>5
<1>6. CASE s = [inst |-> i, cost |-> n + 1, ok |-> FALSE]
  BY <1>2, <1>6
<1>7. QED
  BY <1>3, <1>4, <1>5, <1>6

LEMMA HeaterOffFine ==
    ASSUME NEW o \in Outcomes, NEW e \in HeaterOff(o)
    PROVE  Fine(e)
<1>1. PICK s \in ShutOutputs(o.inst, o.cost) :
        e = Outcome(s.inst, IF s.ok THEN Append(o.told, Result("heater_off", TRUE, None))
                     ELSE o.told \o <<Result("heater_off", FALSE, None), Signal("alarm")>>, s.cost)
  BY DEF HeaterOff
<1>2. s.inst \in Instruments /\ s.cost \in Nat
  BY ShutTypes, OutcomeFields
<1> DEFINE q == IF s.ok THEN Append(o.told, Result("heater_off", TRUE, None))
                ELSE o.told \o <<Result("heater_off", FALSE, None), Signal("alarm")>>
<1>3. /\ Result("heater_off", TRUE, None) \in Signals /\ Result("heater_off", FALSE, None) \in Signals
      /\ Result("heater_off", TRUE, None).kind = "heater_off"
  BY SignalTypes DEF Kinds
<1>4. q \in Seq(Signals) /\ \A c, i, t : Pipe(q, c, i, t)
  <2>1. CASE s.ok
    <3> DEFINE w == Result("heater_off", TRUE, None)
    <3>1. w \in Signals /\ w.kind \notin Silent /\ w.kind \notin Sets
      BY <1>3 DEF Silent, Sets
    <3>2. q = Append(o.told, w)
      BY <2>1
    <3>3. o.told \in Seq(Signals)
      BY OutcomeFields
    <3> HIDE DEF w, q
    <3>4. QED
      BY <3>1, <3>2, <3>3, LoudPipe
  <2>2. CASE ~s.ok
    BY <2>2, <1>3, OutcomeFields, TwoWords
  <2>3. QED
    BY <2>1, <2>2
<1>5. e = Outcome(s.inst, q, s.cost)
  BY <1>1
<1> HIDE DEF q
<1>6. e \in Outcomes /\ e.told = q
  BY <1>2, <1>4, <1>5, OutcomeType
<1>7. QED
  BY <1>4, <1>6 DEF Fine

LEMMA EnforceFine ==
    ASSUME NEW o, Fine(o), NEW e \in Enforce(o)
    PROVE  Fine(e)
<1>1. CASE e = o
  BY <1>1
<1>2. CASE e # o
  <2>1. Faulty(o) \in Outcomes
    BY FaultyFacts DEF Fine
  <2>2. PICK h \in HeaterOff(Faulty(o)) : e = Told(h, Signal("alarm"))
    BY <1>2 DEF Enforce
  <2>3. h \in Outcomes
    BY <2>1, <2>2, HeaterOffFine DEF Fine
  <2>4. QED
    BY <2>2, <2>3, AlarmFine
<1>3. QED
  BY <1>1, <1>2

\* A setpoint that has been read is not one somebody changed since.
LEMMA CurrentFine ==
    ASSUME NEW o \in Outcomes, NEW k \in Sets
    PROVE  Fine(Current(Told(o, Result(k, TRUE, o.inst.set))))
<1> DEFINE s == Result(k, TRUE, o.inst.set)
           p == Told(o, s)
           c == Current(p)
<1>1. s \in Signals /\ s.kind = k /\ s.set = o.inst.set
  <2>1. k \in Kinds /\ o.inst.set \in Nat \cup {None} /\ TRUE \in BOOLEAN
    BY OutcomeFields DEF Kinds, Sets
  <2>2. QED
    BY <2>1, SignalTypes, ZenonT(40)
<1> HIDE DEF s
<1>2. p \in Outcomes /\ p.inst = o.inst /\ p.told = Append(o.told, s)
  BY <1>1, ToldFacts
<1> HIDE DEF p
<1>3. c \in Outcomes /\ c.inst = o.inst /\ c.told = Append(o.told, s)
  BY <1>2, CurrentFacts
<1> HIDE DEF c
<1>4. Pipe(c.told, ctl, c.inst, touched /\ ~c.read)
  <2>1. o.told \in Seq(Signals) /\ s.kind \notin Silent
    BY <1>1, OutcomeFields DEF Sets, Silent
  <2>2. QED
    BY <1>1, <1>3, <2>1, LoudPipe
<1>5. QED
  BY <1>3, <1>4 DEF Fine, c, p, s

LEMMA ControlPollFine ==
    ASSUME NEW o, Fine(o), NEW e \in ControlPoll(o)
    PROVE  Fine(e)
<1>0. o \in Outcomes
  BY DEF Fine
<1> DEFINE a == Current(Told(o, Result("read_control", TRUE, o.inst.set)))
           b == Told(Faulty(o), Result("read_control", FALSE, None))
<1>1. Fine(a)
  BY <1>0, CurrentFine DEF Sets
<1>2. Fine(b)
  <2> DEFINE s == Result("read_control", FALSE, None)
  <2>1. s \in Signals /\ s.kind = "read_control" /\ s.ok = FALSE
    BY SignalTypes DEF Kinds
  <2> HIDE DEF s
  <2>2. Faulty(o) \in Outcomes
    BY <1>0, FaultyFacts
  <2>3. Fine(Told(Faulty(o), s))
    BY <2>1, <2>2, LoudFine DEF Silent
  <2>4. QED
    BY <2>3 DEF s
<1>3. e = o \/ e \in Enforce(a) \/ e \in Enforce(b)
  BY DEF ControlPoll
<1> HIDE DEF a, b
<1>4. QED
  BY <1>1, <1>2, <1>3, EnforceFine

LEMMA HeardFine ==
    ASSUME NEW o, Fine(o), NEW r \in scene.readings \cup {Bad}
    PROVE  Fine(Heard(o, r))
<1> DEFINE p == Heard(o, r)
<1>1. o \in Outcomes /\ o.told \in Seq(Signals)
  BY OutcomeFields DEF Fine
<1>2. p \in Outcomes /\ p.inst = o.inst /\ p.told = Publish(o.told, r) /\ p.read = o.read
  BY <1>1, HeardFacts
<1>3. Pipe(Publish(o.told, r), ctl, o.inst, touched /\ ~o.read)
  BY <1>1, PublishFacts DEF Fine
<1> HIDE DEF p
<1>4. Fine(p)
  BY <1>2, <1>3 DEF Fine
<1>5. QED
  BY <1>4 DEF p

LEMMA RefreshFine ==
    ASSUME NEW o, Fine(o), NEW e \in Refresh(o)
    PROVE  Fine(e)
<1>1. CASE \E r \in scene.readings : e \in ControlPoll(Heard(o, r))
  BY <1>1, HeardFine, ControlPollFine
<1>2. CASE \E h \in Enforce(Heard(Faulty(o), Bad)) : e = Told(h, Signal("alarm"))
  <2>1. PICK h \in Enforce(Heard(Faulty(o), Bad)) : e = Told(h, Signal("alarm"))
    BY <1>2
  <2>2. Fine(Faulty(o))
    BY FaultyFacts DEF Fine
  <2>3. Fine(Heard(Faulty(o), Bad))
    BY <2>2, HeardFine
  <2>4. h \in Outcomes
    BY <2>1, <2>3, EnforceFine DEF Fine
  <2>5. QED
    BY <2>1, <2>4, AlarmFine
<1>3. \/ \E r \in scene.readings : e \in ControlPoll(Heard(o, r))
      \/ \E h \in Enforce(Heard(Faulty(o), Bad)) : e = Told(h, Signal("alarm"))
  BY DEF Refresh
<1>4. QED
  BY <1>1, <1>2, <1>3

-----------------------------------------------------------------------------
(***************************************************************************)
(* A setting of the sample's control.                                      *)
(***************************************************************************)
Ranges == {"keep", "off", "on"}

\* The heater is off, or nothing was changed, or the adapter says that it does
\* not know.
Safe(a, i) ==
    /\ a.inst \in Instruments /\ a.cost \in Nat /\ a.ok \in BOOLEAN
    /\ ~a.ok /\ a.inst.heat => a.inst = i \/ a.off = "unconfirmed"

LEMMA LeftSafe ==
    ASSUME NEW i, NEW j \in Instruments, NEW n \in Nat, NEW ok \in BOOLEAN, NEW off,
           ok \/ ~j.heat \/ j = i \/ off = "unconfirmed"
    PROVE  Safe(Left(j, n, ok, off), i) /\ Left(j, n, ok, off).ok = ok
  BY DEF Safe, Left

LEMMA ShutDownSafe ==
    ASSUME NEW i, NEW j \in Instruments, NEW a \in ShutDown(j)
    PROVE  Safe(a, i)
<1>1. PICK s \in ShutOutputs(j, 1) : a = Left(s.inst, s.cost, FALSE, IF s.ok THEN "confirmed" ELSE "unconfirmed")
  BY DEF ShutDown
<1>2. s.inst \in Instruments /\ s.cost \in Nat /\ s.ok \in BOOLEAN
  BY <1>1, ShutTypes
<1>3. s.ok => ~s.inst.heat
  <2>1. Heat(j, FALSE).heat = FALSE
    BY HeatFacts
  <2>2. \/ s = [inst |-> Heat(j, FALSE), cost |-> 1, ok |-> TRUE]
        \/ s = [inst |-> Heat(j, FALSE), cost |-> 1 + 1, ok |-> FALSE]
        \/ s = [inst |-> j, cost |-> 1 + 1, ok |-> FALSE]
    BY <1>1 DEF ShutOutputs
  <2>3. CASE s = [inst |-> Heat(j, FALSE), cost |-> 1, ok |-> TRUE]
    BY <2>1, <2>3
  <2>4. CASE s = [inst |-> Heat(j, FALSE), cost |-> 1 + 1, ok |-> FALSE]
    BY <2>4
  <2>5. CASE s = [inst |-> j, cost |-> 1 + 1, ok |-> FALSE]
    BY <2>5
  <2>6. QED
    BY <2>2, <2>3, <2>4, <2>5
<1>4. FALSE \in BOOLEAN
  OBVIOUS
<1>5. CASE s.ok
  BY <1>1, <1>2, <1>3, <1>4, <1>5, LeftSafe
<1>6. CASE ~s.ok
  BY <1>1, <1>2, <1>4, <1>6, LeftSafe
<1>7. QED
  BY <1>5, <1>6

LEMMA UnlessSafe ==
    ASSUME NEW i, NEW j \in Instruments, NEW attempted \in BOOLEAN, attempted \/ ~j.heat,
           NEW a \in Unless(attempted, j)
    PROVE  Safe(a, i)
<1>1. CASE attempted
  BY <1>1, ShutDownSafe DEF Unless
<1>2. CASE ~attempted
  <2>1. a = Left(j, 1, FALSE, "none") /\ ~j.heat
    BY <1>2 DEF Unless
  <2>2. QED
    BY <2>1, LeftSafe
<1>3. QED
  BY <1>1, <1>2

\* Whatever step of a setting fails.
LEMMA ApplySafe ==
    ASSUME NEW i \in Instruments, NEW t \in Nat, NEW range \in Ranges,
           NEW a \in ApplyOutcomes(i, t, range)
    PROVE  Safe(a, i)
<1> DEFINE base == IF range = "off" THEN Heat(i, FALSE) ELSE i
           done == [base EXCEPT !.set = t]
           on == Heating(i, range) \/ range = "on"
           full == Heat(done, on)
           tried == Attempted(i, range)
<1>1. base \in Instruments /\ (range = "off" => ~base.heat) /\ (range # "off" => base = i)
  BY HeatFacts
<1>2. tried \in BOOLEAN /\ on \in BOOLEAN /\ (range # "off" /\ i.heat => tried)
  BY DEF Attempted, Heating, Ranges
<1>3. done \in Instruments /\ done.heat = base.heat
  <2> HIDE DEF base
  <2>1. QED
    BY <1>1 DEF Instruments
<1>4. tried \/ ~base.heat
  BY <1>1, <1>2 DEF Instruments
<1>5. full \in Instruments /\ full.heat \in BOOLEAN
  <2> HIDE DEF done, on
  <2>1. QED
    BY <1>2, <1>3, HeatFacts
<1>6. \/ a = Left(full, 0, TRUE, "none")
      \/ a = Left(i, 1, FALSE, "none")
      \/ range = "off" /\ a = Left(base, 1, FALSE, "none")
      \/ a \in Unless(tried, base) \/ a \in Unless(tried, done)
      \/ a \in ShutDown(done) \/ a \in ShutDown(full)
      \/ a \in Unless(full.heat, full)
  BY DEF ApplyOutcomes
<1> HIDE DEF base, done, full, on, tried
<1>7. TRUE \in BOOLEAN /\ FALSE \in BOOLEAN /\ 0 \in Nat /\ 1 \in Nat
  OBVIOUS
<1>8. CASE a = Left(full, 0, TRUE, "none")
  BY <1>5, <1>7, <1>8, LeftSafe
<1>9. CASE a = Left(i, 1, FALSE, "none")
  BY <1>7, <1>9, LeftSafe
<1>10. CASE range = "off" /\ a = Left(base, 1, FALSE, "none")
  BY <1>1, <1>7, <1>10, LeftSafe
<1>11. CASE a \in Unless(tried, base)
  BY <1>1, <1>2, <1>4, <1>11, UnlessSafe
<1>12. CASE a \in Unless(tried, done)
  BY <1>2, <1>3, <1>4, <1>12, UnlessSafe
<1>13. CASE a \in ShutDown(done) \/ a \in ShutDown(full)
  BY <1>3, <1>5, <1>13, ShutDownSafe
<1>14. CASE a \in Unless(full.heat, full)
  BY <1>5, <1>14, UnlessSafe
<1>15. QED
  BY <1>6, <1>8, <1>9, <1>10, <1>11, <1>12, <1>13, <1>14

LEMMA ApplyFailedFine ==
    ASSUME NEW i \in Instruments, NEW n \in Nat, told \in Seq(Signals)
    PROVE  Fine(Outcome(i, ApplyFailed(told), n))
<1> DEFINE q == ApplyFailed(told)
           o == Outcome(i, q, n)
<1>1. Result("sample_control", FALSE, None) \in Signals
  BY SignalTypes DEF Kinds
<1>2. q \in Seq(Signals) /\ \A c, k, t : Pipe(q, c, k, t)
  BY <1>1, TwoWords DEF ApplyFailed
<1> HIDE DEF q
<1>3. o \in Outcomes /\ o.told = q
  BY <1>2, OutcomeType
<1> HIDE DEF o
<1>4. Fine(o)
  BY <1>2, <1>3 DEF Fine
<1>5. QED
  BY <1>4 DEF o, q

\* The slot around it reports what is left.
LEMMA ApplyFine ==
    ASSUME inst \in Instruments, told \in Seq(Signals), NEW t \in Nat, NEW range \in Ranges,
           NEW o \in Apply(t, range)
    PROVE  Fine(o)
<1>1. PICK a \in ApplyOutcomes(inst, t, range) :
        o \in IF a.ok
              THEN {Current(Told(Outcome(a.inst, told, a.cost), Result("sample_control", TRUE, a.inst.set)))}
                   \cup {Told(Told(h, Result("sample_control", FALSE, None)), Signal("alarm")) :
                          h \in HeaterOff(Outcome(a.inst, told, a.cost + 1))}
              ELSE {Outcome(a.inst, ApplyFailed(told), a.cost)}
  BY DEF Apply
<1>2. a.inst \in Instruments /\ a.cost \in Nat /\ a.cost + 1 \in Nat
  BY <1>1, ApplySafe DEF Safe
<1>3. CASE ~a.ok
  <2>1. o = Outcome(a.inst, ApplyFailed(told), a.cost)
    BY <1>1, <1>3
  <2>2. QED
    BY <1>2, <2>1, ApplyFailedFine
<1>4. CASE a.ok /\ o = Current(Told(Outcome(a.inst, told, a.cost), Result("sample_control", TRUE, a.inst.set)))
  <2> DEFINE p == Outcome(a.inst, told, a.cost)
  <2>1. p \in Outcomes /\ p.inst = a.inst
    BY <1>2, OutcomeType
  <2>2. o = Current(Told(p, Result("sample_control", TRUE, p.inst.set)))
    BY <1>4, <2>1
  <2> HIDE DEF p
  <2>3. QED
    BY <2>1, <2>2, CurrentFine DEF Sets
<1>5. CASE a.ok /\ \E h \in HeaterOff(Outcome(a.inst, told, a.cost + 1)) :
                     o = Told(Told(h, Result("sample_control", FALSE, None)), Signal("alarm"))
  <2>1. PICK h \in HeaterOff(Outcome(a.inst, told, a.cost + 1)) :
          o = Told(Told(h, Result("sample_control", FALSE, None)), Signal("alarm"))
    BY <1>5
  <2>2. h \in Outcomes
    BY <1>2, <2>1, OutcomeType, HeaterOffFine DEF Fine
  <2>3. Result("sample_control", FALSE, None) \in Signals
    BY SignalTypes DEF Kinds
  <2>4. Told(h, Result("sample_control", FALSE, None)) \in Outcomes
    BY <2>2, <2>3, ToldFacts
  <2>5. QED
    BY <2>1, <2>4, AlarmFine
<1>6. QED
  BY <1>1, <1>3, <1>4, <1>5

-----------------------------------------------------------------------------
(***************************************************************************)
(* The invariant.                                                          *)
(***************************************************************************)
Orders == {[kind |-> "connect"], [kind |-> "disconnect"], [kind |-> "heater_off"]}
            \cup [kind : {"sample_control"}, set : Nat, range : Ranges]

\* What the thread's step keeps.
LakeTyped ==
    /\ open \in BOOLEAN /\ inst \in Instruments /\ todo \in Seq(Orders) /\ told \in Seq(Signals)
    /\ touched \in BOOLEAN /\ faults \in Nat /\ commands \in Nat

LakeSound == LakeTyped /\ Pipe(told, ctl, inst, touched)

LEMMA BecomesSound ==
    ASSUME LakeTyped, NEW o, Fine(o), Becomes(o)
    PROVE  /\ inst' \in Instruments /\ told' \in Seq(Signals) /\ touched' \in BOOLEAN /\ faults' \in Nat
           /\ Pipe(told', ctl, inst', touched')
<1>1. o \in Outcomes /\ Pipe(o.told, ctl, o.inst, touched /\ ~o.read)
  BY DEF Fine
<1>2. /\ o.inst \in Instruments /\ o.told \in Seq(Signals) /\ o.cost \in Nat /\ o.read \in BOOLEAN
  BY <1>1, OutcomeFields
<1>3. /\ faults' = faults + o.cost /\ inst' = o.inst /\ told' = o.told
      /\ touched' = (touched /\ ~o.read)
  BY DEF Becomes
<1>4. Pipe(told', ctl, inst', touched')
  BY <1>1, <1>3, Zenon
<1>5. touched' \in BOOLEAN
  BY <1>2, <1>3, Zenon DEF LakeTyped
<1>6. faults' \in Nat
  BY <1>2, <1>3 DEF LakeTyped
<1>7. QED
  BY <1>2, <1>3, <1>4, <1>5, <1>6

\* The instrument as it is, with the closed session's signals or with an alarm.
LEMMA LoudTold ==
    ASSUME LakeTyped, NEW q \in Seq(Signals), NEW k \in Kinds \ (Silent \cup Sets), NEW n \in Nat
    PROVE  Fine(Outcome(inst, Append(q, Signal(k)), n))
<1> DEFINE p == Append(q, Signal(k))
           o == Outcome(inst, p, n)
<1>1. Signal(k) \in Signals /\ Signal(k).kind = k
  BY SignalTypes
<1>2. p \in Seq(Signals) /\ \A c, i, t : Pipe(p, c, i, t)
  BY <1>1, LoudPipe
<1> HIDE DEF p
<1>3. o \in Outcomes /\ o.told = p
  BY <1>2, OutcomeType DEF LakeTyped
<1> HIDE DEF o
<1>4. Fine(o)
  BY <1>2, <1>3 DEF Fine
<1>5. QED
  BY <1>4 DEF o, p

LEMMA ConnectsSound ==
    ASSUME LakeTyped, Connects
    PROVE  /\ inst' \in Instruments /\ told' \in Seq(Signals) /\ touched' \in BOOLEAN /\ faults' \in Nat
           /\ Pipe(told', ctl, inst', touched') /\ open' \in BOOLEAN
<1> DEFINE closed == Append(Forget(told), Signal("disconnected"))
<1>0. Forget(told) \in Seq(Signals)
  BY ForgetFacts DEF LakeTyped
<1>1. closed \in Seq(Signals) /\ \A c, i, t : Pipe(closed, c, i, t)
  <2>1. Signal("disconnected") \in Signals /\ Signal("disconnected").kind = "disconnected"
    BY SignalTypes DEF Kinds
  <2>2. QED
    BY <1>0, <2>1, LoudPipe DEF Silent, Sets
<1> HIDE DEF closed
<1>2. CASE /\ \E o \in Refresh(Outcome(inst, Append(closed, Signal("connected")), 0)) : Becomes(o)
           /\ open' = TRUE
  <2> DEFINE q == Append(closed, Signal("connected"))
             p == Outcome(inst, q, 0)
  <2>1. Signal("connected") \in Signals /\ Signal("connected").kind \in Silent
    BY SignalTypes DEF Kinds, Silent
  <2>2. q \in Seq(Signals) /\ \A c, i, t : Pipe(q, c, i, t)
    BY <1>1, <2>1, SilentPipe
  <2> HIDE DEF q
  <2>3. p \in Outcomes /\ p.told = q
    BY <2>2, OutcomeType DEF LakeTyped
  <2>4. PICK o \in Refresh(p) : Becomes(o)
    BY <1>2 DEF q
  <2> HIDE DEF p
  <2>5. Fine(p)
    BY <2>2, <2>3 DEF Fine
  <2>6. Fine(o)
    BY <2>4, <2>5, RefreshFine
  <2>7. open' \in BOOLEAN
    BY <1>2
  <2>8. QED
    BY <2>4, <2>6, <2>7, BecomesSound
<1>3. CASE Becomes(Outcome(inst, Append(closed, Signal("alarm")), 1)) /\ open' = FALSE
  <2>1. Fine(Outcome(inst, Append(closed, Signal("alarm")), 1))
    BY <1>1, LoudTold DEF Kinds, Silent, Sets
  <2>2. open' \in BOOLEAN
    BY <1>3
  <2>3. QED
    BY <1>3, <2>1, <2>2, BecomesSound
<1>4. QED
  BY <1>2, <1>3 DEF Connects, closed

-----------------------------------------------------------------------------
LEMMA TargetsAreNumbers ==
    ASSUME scene \in Scenes
    PROVE  Targets \subseteq Nat
  BY SceneReadings DEF Targets, Readings

\* Every command's execution.
LEMMA ExecutesSound ==
    ASSUME LakeTyped, NEW c \in Orders, Executes(c)
    PROVE  /\ inst' \in Instruments /\ told' \in Seq(Signals) /\ touched' \in BOOLEAN /\ faults' \in Nat
           /\ Pipe(told', ctl, inst', touched') /\ open' \in BOOLEAN
<1>0. told \in Seq(Signals) /\ inst \in Instruments /\ open \in BOOLEAN /\ 0 \in Nat
  BY DEF LakeTyped
<1>1. CASE c.kind = "connect"
  BY <1>1, ConnectsSound DEF Executes
<1>2. CASE c.kind = "disconnect"
  <2>1. Becomes(Outcome(inst, Append(Forget(told), Signal("disconnected")), 0)) /\ open' = FALSE
    BY <1>2 DEF Executes
  <2>2. Forget(told) \in Seq(Signals)
    BY <1>0, ForgetFacts
  <2>3. Fine(Outcome(inst, Append(Forget(told), Signal("disconnected")), 0))
    BY <1>0, <2>2, LoudTold DEF Kinds, Silent, Sets
  <2>4. open' \in BOOLEAN
    BY <2>1
  <2>5. QED
    BY <2>1, <2>3, <2>4, BecomesSound
<1>3. CASE c.kind = "sample_control"
  <2>1. /\ IF open THEN \E o \in Apply(c.set, c.range) : Becomes(o)
                   ELSE Becomes(Outcome(inst, ApplyFailed(told), 0))
        /\ UNCHANGED open
    BY <1>3 DEF Executes
  <2>2. c.set \in Nat /\ c.range \in Ranges
    BY <1>3 DEF Orders
  <2>3. open' \in BOOLEAN
    BY <1>0, <2>1, Zenon
  <2>4. CASE open
    <3>1. PICK o \in Apply(c.set, c.range) : Becomes(o)
      BY <2>1, <2>4
    <3>2. Fine(o)
      BY <1>0, <2>2, <3>1, ApplyFine
    <3>3. QED
      BY <2>3, <3>1, <3>2, BecomesSound
  <2>5. CASE ~open
    <3>1. Becomes(Outcome(inst, ApplyFailed(told), 0))
      BY <2>1, <2>5
    <3>2. Fine(Outcome(inst, ApplyFailed(told), 0))
      BY <1>0, ApplyFailedFine
    <3>3. QED
      BY <2>3, <3>1, <3>2, BecomesSound
  <2>6. QED
    BY <2>4, <2>5
<1>4. CASE c.kind = "heater_off"
  <2> DEFINE q == told \o <<Result("heater_off", FALSE, None), Signal("alarm")>>
  <2>1. /\ IF open THEN \E o \in HeaterOff(Outcome(inst, told, 0)) : Becomes(o)
                   ELSE Becomes(Outcome(inst, q, 0))
        /\ UNCHANGED open
    BY <1>4 DEF Executes
  <2>2. open' \in BOOLEAN
    BY <1>0, <2>1, Zenon
  <2>3. CASE open
    <3>1. PICK o \in HeaterOff(Outcome(inst, told, 0)) : Becomes(o)
      BY <2>1, <2>3
    <3>2. Outcome(inst, told, 0) \in Outcomes
      BY <1>0, OutcomeType
    <3>3. Fine(o)
      BY <3>1, <3>2, HeaterOffFine
    <3>4. QED
      BY <2>2, <3>1, <3>3, BecomesSound
  <2>4. CASE ~open
    <3>1. Becomes(Outcome(inst, q, 0))
      BY <2>1, <2>4
    <3>2. Result("heater_off", FALSE, None) \in Signals
      BY SignalTypes DEF Kinds
    <3>3. q \in Seq(Signals) /\ \A k, i, t : Pipe(q, k, i, t)
      BY <1>0, <3>2, TwoWords
    <3> HIDE DEF q
    <3>4. Outcome(inst, q, 0) \in Outcomes /\ Outcome(inst, q, 0).told = q
      BY <1>0, <3>3, OutcomeType
    <3>5. Fine(Outcome(inst, q, 0))
      BY <3>3, <3>4 DEF Fine
    <3>6. QED
      BY <2>2, <3>1, <3>5, BecomesSound
  <2>5. QED
    BY <2>3, <2>4
<1>5. c.kind \in {"connect", "disconnect", "heater_off", "sample_control"}
  BY DEF Orders
<1>6. QED
  BY <1>1, <1>2, <1>3, <1>4, <1>5

\* The Lake Shore thread, and a hand at the instrument.
LEMMA LakeStep ==
    ASSUME LakeSound, scene \in Scenes, Lake
    PROVE  LakeSound' /\ GuiAside
<1>0. LakeTyped /\ Pipe(told, ctl, inst, touched)
  BY DEF LakeSound
<1>1. CASE Poll
  <2> DEFINE p == Outcome(inst, told, 0)
  <2>1. PICK o \in Refresh(p) : Becomes(o)
    BY <1>1 DEF Poll
  <2>2. Fine(p)
    <3>1. p \in Outcomes /\ p.inst = inst /\ p.told = told
      BY <1>0, OutcomeType DEF LakeTyped
    <3>2. p.read = FALSE
      BY DEF Outcome
    <3> HIDE DEF p
    <3>3. Pipe(p.told, ctl, p.inst, touched /\ ~p.read)
      <4>1. (touched /\ ~p.read) = touched
        BY <1>0, <3>2, Zenon DEF LakeTyped
      <4>2. QED
        BY <1>0, <3>1, <4>1, Zenon
    <3>4. QED
      BY <3>1, <3>3 DEF Fine
  <2> HIDE DEF p
  <2>3. Fine(o)
    BY <2>1, <2>2, RefreshFine
  <2>4. GuiAside /\ UNCHANGED <<open, todo, commands>>
    BY <1>1 DEF Poll
  <2>5. UNCHANGED ctl /\ UNCHANGED scene
    BY <2>4 DEF GuiAside, panelVars
  <2>6. QED
    BY <1>0, <2>1, <2>3, <2>4, <2>5, BecomesSound DEF LakeSound, LakeTyped, Signals
<1>2. CASE Execute
  <2>1. /\ todo # <<>> /\ todo' = Tail(todo) /\ Executes(Head(todo))
        /\ UNCHANGED commands /\ GuiAside
    BY <1>2 DEF Execute
  <2>2. Head(todo) \in Orders /\ todo' \in Seq(Orders)
    BY <1>0, <2>1 DEF LakeTyped
  <2>3. /\ inst' \in Instruments /\ told' \in Seq(Signals) /\ touched' \in BOOLEAN /\ faults' \in Nat
        /\ Pipe(told', ctl, inst', touched') /\ open' \in BOOLEAN
    BY <1>0, <2>1, <2>2, ExecutesSound
  <2>5. UNCHANGED ctl /\ UNCHANGED scene
    BY <2>1 DEF GuiAside, panelVars
  <2>6. QED
    BY <1>0, <2>1, <2>2, <2>3, <2>5 DEF LakeSound, LakeTyped, Signals
<1>3. CASE FrontPanel
  <2>1. /\ commands' = commands + 1 /\ touched' = TRUE /\ UNCHANGED <<open, todo, told, faults>>
        /\ GuiAside
    BY <1>3 DEF FrontPanel
  <2>2. PICK t \in Targets : inst' = [inst EXCEPT !.set = t]
    BY <1>3 DEF FrontPanel
  <2>3. inst' \in Instruments
    BY <1>0, <2>2, TargetsAreNumbers DEF LakeTyped, Instruments
  <2>5. UNCHANGED ctl /\ UNCHANGED scene
    BY <2>1 DEF GuiAside, panelVars
  <2>4. Pipe(told', ctl', inst', touched')
    BY <2>1 DEF Pipe
  <2>7. touched' \in BOOLEAN
    BY <2>1
  <2>8. told' \in Seq(Signals)'
    BY <1>0, <2>1, <2>5 DEF LakeTyped, Signals
  <2>6. QED
    BY <1>0, <2>1, <2>3, <2>4, <2>7, <2>8 DEF LakeSound, LakeTyped
<1>4. QED
  BY <1>1, <1>2, <1>3 DEF Lake

-----------------------------------------------------------------------------
(***************************************************************************)
(* The panel.                                                              *)
(***************************************************************************)
PanelTyped ==
    /\ up \in BOOLEAN /\ pending \subseteq Commands \cup {"connect"}
    /\ snap \in scene.readings \cup {Bad} /\ age \in 0 .. MaxAge + 1
    /\ ctl \in Goals /\ target \in Goals /\ failed \in BOOLEAN
    /\ stable \in None .. SampleDwell /\ near \in None .. SampleDwell

AtTheTarget == stable # None => near >= stable
TargetIsControl == ctl # None /\ ~failed /\ pending \cap Commands = {} => target = ctl

PanelSound == LakeSound /\ PanelTyped /\ AtTheTarget /\ TargetIsControl /\ scene \in Scenes

PanelAside == UNCHANGED <<lakeVars, told, panelVars, touched, near, scene>>

\* What the GUI thread takes is the oldest signal.
LEMMA TakenPipe ==
    ASSUME NEW q \in Seq(Signals), q # <<>>, NEW c, NEW i, NEW t, Pipe(q, c, i, t)
    PROVE  /\ Head(q) \in Signals /\ Tail(q) \in Seq(Signals)
           /\ Head(q).kind \in Silent => Pipe(Tail(q), c, i, t)
           /\ Head(q).kind \in Sets /\ Head(q).ok => Pipe(Tail(q), Head(q).set, i, t)
           /\ Pipe(Tail(q), None, i, t)
<1> DEFINE p == Tail(q)
           h == Head(q)
<1>1. /\ h \in Signals /\ p \in Seq(Signals) /\ h = q[1] /\ Len(q) \in Nat /\ Len(q) >= 1
      /\ Len(p) = Len(q) - 1 /\ \A n \in 1 .. Len(p) : p[n] = q[n + 1]
  OBVIOUS
<1> HIDE DEF p, h
<1>2. ASSUME NEW n \in 0 .. Len(p), LastWord(p, n) PROVE LastWord(q, n + 1)
  <2>1. ASSUME NEW k \in (n + 1) + 1 .. Len(q) PROVE q[k].kind \in Silent
    <3>1. k - 1 \in n + 1 .. Len(p) /\ k - 1 \in 1 .. Len(p) /\ (k - 1) + 1 = k
      BY <1>1
    <3>2. p[k - 1].kind \in Silent
      BY <1>2, <3>1 DEF LastWord
    <3>3. QED
      BY <1>1, <3>1, <3>2
  <2>2. QED
    BY <2>1 DEF LastWord
<1>3. ASSUME NEW n \in 1 .. Len(p), p[n].kind \in Sets, p[n].ok, LastWord(p, n)
      PROVE  t \/ p[n].set = i.set
  <2>1. n + 1 \in 1 .. Len(q) /\ p[n] = q[n + 1] /\ LastWord(q, n + 1)
    BY <1>1, <1>2, <1>3
  <2>2. QED
    BY <1>3, <2>1 DEF Pipe
<1>4. Pipe(p, None, i, t)
  BY <1>3 DEF Pipe
<1>5. ASSUME h.kind \in Sets, h.ok PROVE Pipe(p, h.set, i, t)
  <2>1. ASSUME LastWord(p, 0) PROVE t \/ h.set = i.set
    <3>1. 0 \in 0 .. Len(p) /\ 1 \in 1 .. Len(q) /\ 0 + 1 = 1
      BY <1>1
    <3>2. LastWord(q, 1)
      BY <1>2, <2>1, <3>1
    <3>3. QED
      BY <1>1, <1>5, <3>1, <3>2 DEF Pipe
  <2>2. QED
    BY <1>3, <2>1 DEF Pipe
<1>6. ASSUME h.kind \in Silent PROVE Pipe(p, c, i, t)
  <2>1. ASSUME LastWord(p, 0) PROVE LastWord(q, 0)
    <3>1. 0 \in 0 .. Len(p) /\ 0 + 1 = 1
      BY <1>1
    <3>2. LastWord(q, 1)
      BY <1>2, <2>1, <3>1
    <3>3. \A k \in 1 .. Len(q) : k = 1 \/ k \in 1 + 1 .. Len(q)
      BY <1>1
    <3>4. \A k \in 0 + 1 .. Len(q) : q[k].kind \in Silent
      BY <1>1, <1>6, <3>2, <3>3 DEF LastWord
    <3>5. QED
      BY <3>4 DEF LastWord
  <2>2. QED
    BY <1>3, <2>1 DEF Pipe
<1>7. QED
  BY <1>1, <1>4, <1>5, <1>6 DEF p, h

LEMMA PanelAsideSound ==
    ASSUME PanelSound, PanelAside, faults' \in Nat, commands' \in Nat
    PROVE  PanelSound'
<1>1. /\ UNCHANGED <<open, inst, todo, told, touched, near, scene>>
      /\ UNCHANGED <<up, pending, snap, age, ctl, target, stable, failed>>
  BY DEF PanelAside, lakeVars, panelVars
<1>2. LakeTyped'
  BY <1>1 DEF PanelSound, LakeSound, LakeTyped, Signals
<1>3. Pipe(told', ctl', inst', touched')
  BY <1>1 DEF PanelSound, LakeSound
<1>4. PanelTyped' /\ AtTheTarget' /\ TargetIsControl'
  BY <1>1 DEF PanelSound, PanelTyped, AtTheTarget, TargetIsControl
<1>5. QED
  BY <1>1, <1>2, <1>3, <1>4 DEF PanelSound, LakeSound

\* The GUI thread has taken a signal, and keeps or replaces what it knows of
\* the setpoint.
LEMMA TakenSound ==
    ASSUME PanelSound, told # <<>>, told' = Tail(told), UNCHANGED <<open, inst, todo, touched>>,
           UNCHANGED <<faults, commands, scene>>,
           \/ ctl' = None
           \/ ctl' = ctl /\ Head(told).kind \in Silent
           \/ ctl' = Head(told).set /\ Head(told).kind \in Sets /\ Head(told).ok
    PROVE  LakeSound' /\ Head(told) \in Signals
<1>1. told \in Seq(Signals) /\ Pipe(told, ctl, inst, touched)
  BY DEF PanelSound, LakeSound, LakeTyped
<1>2. /\ Head(told) \in Signals /\ Tail(told) \in Seq(Signals)
      /\ Head(told).kind \in Silent => Pipe(Tail(told), ctl, inst, touched)
      /\ Head(told).kind \in Sets /\ Head(told).ok => Pipe(Tail(told), Head(told).set, inst, touched)
      /\ Pipe(Tail(told), None, inst, touched)
  BY <1>1, TakenPipe
<1>3. Pipe(told', ctl', inst', touched')
  BY <1>2
<1>4. LakeTyped'
  BY <1>2 DEF PanelSound, LakeSound, LakeTyped, Signals
<1>5. QED
  BY <1>2, <1>3, <1>4 DEF LakeSound

LEMMA SinceFacts ==
    ASSUME NEW most \in Nat, NEW n \in None .. most
    PROVE  Since(n) \in 0 .. most /\ Since(n) >= n
  BY DEF Since, None

LEMMA NotedFacts ==
    ASSUME NEW most \in Nat, NEW n \in None .. most, NEW good \in BOOLEAN
    PROVE  /\ Noted(n, good) \in None .. most
           /\ good => Noted(n, good) >= n /\ Noted(n, good) >= 0
           /\ ~good => Noted(n, good) = None
           /\ good /\ n # None => Noted(n, good) = n
           /\ good /\ n = None => Noted(n, good) = 0
  BY DEF Noted, None

LEMMA LaterFacts ==
    ASSUME NEW most \in Nat, NEW n \in None .. most
    PROVE  /\ Later(n, most) \in None .. most
           /\ n = None => Later(n, most) = None
           /\ n # None /\ n < most => Later(n, most) = n + 1
           /\ n = most => Later(n, most) = most
  BY DEF Later, None

LEMMA PanelReading == PanelSound /\ Reading => PanelSound'
<1>1. SUFFICES ASSUME PanelSound, Reading PROVE PanelSound'
  OBVIOUS
<1>2. /\ told # <<>> /\ told' = Tail(told) /\ Head(told).kind \in Silent
      /\ UNCHANGED <<open, inst, todo, touched>> /\ UNCHANGED <<faults, commands, scene>>
  BY <1>1 DEF Reading, Taken, LakeAside, Settle, bounds, Silent
<1> DEFINE r == Head(told).r
<1>3. CASE ~Head(told).ok
  <2>1. UNCHANGED <<up, pending, snap, age, ctl, target, stable, failed>> /\ UNCHANGED near
    BY <1>1, <1>3 DEF Reading, panelVars, ghosts
  <2>2. LakeSound'
    BY <1>1, <1>2, <2>1, TakenSound
  <2>3. PanelTyped' /\ AtTheTarget' /\ TargetIsControl'
    BY <1>1, <1>2, <2>1 DEF PanelSound, PanelTyped, AtTheTarget, TargetIsControl
  <2>4. QED
    BY <1>1, <1>2, <2>2, <2>3 DEF PanelSound
<1>4. CASE Head(told).ok
  <2>1. /\ snap' = r /\ age' = 0
        /\ stable' = IF AtTarget(r) THEN Since(stable) ELSE None
        /\ near' = Noted(near, r.ok /\ r.s = target)
        /\ UNCHANGED <<up, pending, ctl, target, failed, heated>>
    BY <1>1, <1>4 DEF Reading
  <2>2. LakeSound' /\ Head(told) \in Signals
    BY <1>1, <1>2, <2>1, TakenSound
  <2>3. r \in scene.readings \cup {Bad} /\ r \in Readings
    BY <1>1, <2>2, SceneReadings DEF Signals, PanelSound
  <2> HIDE DEF r
  <2>4. (r.ok /\ r.s = target) \in BOOLEAN
    BY <2>3 DEF Readings
  <2>5. /\ near \in None .. SampleDwell /\ stable \in None .. SampleDwell
        /\ (stable # None => near >= stable)
    BY <1>1 DEF PanelSound, PanelTyped, AtTheTarget
  <2>6. near' \in None .. SampleDwell /\ stable' \in None .. SampleDwell
    <3>1. near' \in None .. SampleDwell
      BY <2>1, <2>4, <2>5, NotedFacts, Constants
    <3>2. Since(stable) \in 0 .. SampleDwell
      BY <2>5, SinceFacts, Constants
    <3>3. QED
      BY <2>1, <3>1, <3>2, Constants DEF None
  <2>7. stable' # None => near' >= stable'
    <3>1. CASE ~AtTarget(r)
      BY <2>1, <3>1
    <3>2. CASE AtTarget(r)
      <4>1. r.ok /\ r.s = target
        BY <3>2 DEF AtTarget
      <4>2. near' = (IF near = None THEN 0 ELSE near) /\ stable' = (IF stable = None THEN 0 ELSE stable)
        BY <2>1, <3>2, <4>1 DEF Noted, Since
      <4>3. QED
        BY <4>2, <2>5, Constants DEF None
    <3>3. QED
      BY <3>1, <3>2
  <2>8. PanelTyped'
    <3>1. age' \in 0 .. MaxAge + 1
      BY <2>1, Constants
    <3>2. QED
      BY <1>1, <1>2, <2>1, <2>3, <2>6, <3>1 DEF PanelSound, PanelTyped
  <2>9. TargetIsControl'
    BY <1>1, <2>1 DEF PanelSound, TargetIsControl
  <2>10. QED
    BY <1>1, <1>2, <2>2, <2>7, <2>8, <2>9 DEF PanelSound, AtTheTarget
<1>5. QED
  BY <1>3, <1>4

LEMMA PanelConnected == PanelSound /\ Connected => PanelSound'
<1>1. SUFFICES ASSUME PanelSound, Connected PROVE PanelSound'
  OBVIOUS
<1>2. /\ told # <<>> /\ told' = Tail(told) /\ Head(told).kind \in Silent
      /\ UNCHANGED <<open, inst, todo, touched>> /\ UNCHANGED <<faults, commands, scene>>
      /\ UNCHANGED <<snap, age, ctl, target, stable, failed, near>>
      /\ up' = TRUE /\ pending' = pending \ {"connect"}
  BY <1>1 DEF Connected, Taken, LakeAside, Settle, bounds, Silent, ghosts
<1>3. LakeSound'
  BY <1>1, <1>2, TakenSound
<1>4. PanelTyped' /\ AtTheTarget' /\ TargetIsControl'
  BY <1>1, <1>2 DEF PanelSound, PanelTyped, AtTheTarget, TargetIsControl, Commands
<1>5. QED
  BY <1>1, <1>2, <1>3, <1>4 DEF PanelSound

\* Without a connection, or after an error, the panel has nothing to go by.
LEMMA PanelBlinded ==
    ASSUME PanelSound, Disconnected \/ Alarm
    PROVE  PanelSound'
<1>1. /\ told # <<>> /\ told' = Tail(told)
      /\ UNCHANGED <<open, inst, todo, touched>> /\ UNCHANGED <<faults, commands, scene>>
      /\ snap' = Bad /\ age' = 0 /\ stable' = None /\ ctl' = None /\ near' = None
      /\ failed' \in BOOLEAN
  BY DEF Disconnected, Alarm, Blinded, Taken, LakeAside, Settle, bounds
<1>2. (target' = None \/ target' = target) /\ pending' \subseteq pending /\ up' \in BOOLEAN
  BY DEF Disconnected, Alarm, PanelSound, PanelTyped
<1>3. LakeSound'
  BY <1>1, TakenSound
<1>4. PanelTyped'
  BY <1>1, <1>2, Constants DEF PanelSound, PanelTyped, Goals, None
<1>5. AtTheTarget' /\ TargetIsControl'
  BY <1>1 DEF AtTheTarget, TargetIsControl
<1>6. QED
  BY <1>1, <1>3, <1>4, <1>5 DEF PanelSound

LEMMA PanelControlResult == PanelSound /\ ControlResult => PanelSound'
<1>1. SUFFICES ASSUME PanelSound, ControlResult PROVE PanelSound'
  OBVIOUS
<1> DEFINE m == Head(told)
<1>2. /\ told # <<>> /\ told' = Tail(told)
      /\ UNCHANGED <<open, inst, todo, touched>> /\ UNCHANGED <<faults, commands, scene>>
      /\ UNCHANGED <<up, snap, age>>
      /\ m.kind \in {"sample_control", "heater_off", "read_control"}
      /\ pending' = pending \ {m.kind}
      /\ near' = IF target' = target THEN near ELSE None
  BY <1>1 DEF ControlResult, LakeAside, Settle, bounds
<1>3. Head(told) \in Signals
  BY <1>1, <1>2 DEF PanelSound, LakeSound, LakeTyped
<1>4. m.ok \in BOOLEAN /\ m.set \in Goals
  BY <1>3 DEF Signals, Goals
<1>5. /\ near \in None .. SampleDwell /\ stable \in None .. SampleDwell
      /\ (stable # None => near >= stable) /\ pending \subseteq Commands \cup {"connect"}
      /\ target \in Goals /\ failed \in BOOLEAN
  BY <1>1 DEF PanelSound, PanelTyped, AtTheTarget
<1>6. CASE ~m.ok
  <2>1. /\ ctl' = None /\ stable' = None /\ target' = target
        /\ failed' = (failed \/ m.kind # "read_control")
    BY <1>1, <1>6 DEF ControlResult
  <2>2. failed' \in BOOLEAN
    BY <2>1, <1>5, Zenon
  <2>3. LakeSound'
    BY <1>1, <1>2, <2>1, TakenSound
  <2>4. PanelTyped' /\ AtTheTarget' /\ TargetIsControl'
    BY <1>1, <1>2, <1>5, <2>1, <2>2, Constants
       DEF PanelSound, PanelTyped, AtTheTarget, TargetIsControl, Goals, None
  <2>5. QED
    BY <1>1, <1>2, <2>3, <2>4 DEF PanelSound
<1>7. CASE m.ok /\ m.kind = "heater_off"
  <2>1. ctl' = None /\ stable' = None /\ target' = target /\ failed' = FALSE
    BY <1>1, <1>7 DEF ControlResult
  <2>3. LakeSound'
    BY <1>1, <1>2, <2>1, TakenSound
  <2>4. None \in Goals /\ None \in None .. SampleDwell
    BY Constants DEF Goals, None
  <2>5. PanelTyped'
    <3>1. near' = near /\ pending' \subseteq Commands \cup {"connect"} /\ FALSE \in BOOLEAN
      BY <1>2, <1>5, <2>1
    <3>2. QED
      BY <1>1, <1>2, <2>1, <2>4, <3>1 DEF PanelSound, PanelTyped
  <2>6. AtTheTarget' /\ TargetIsControl'
    BY <2>1 DEF AtTheTarget, TargetIsControl
  <2>7. QED
    BY <1>1, <1>2, <2>3, <2>5, <2>6 DEF PanelSound
<1>8. CASE m.ok /\ m.kind # "heater_off"
  <2>1. /\ ctl' = m.set /\ target' = (IF Adopts(m) THEN m.set ELSE target)
        /\ stable' = (IF Restarts(m) THEN None ELSE stable)
        /\ failed' = (failed /\ m.kind = "read_control")
    BY <1>1, <1>8 DEF ControlResult
  <2>2. m.kind \in Sets /\ failed' \in BOOLEAN
    <3>1. m.kind \in Sets
      BY <1>2, <1>8 DEF Sets
    <3>2. failed' \in BOOLEAN
      BY <2>1, <1>5, Zenon
    <3>3. QED
      BY <3>1, <3>2
  <2>3. LakeSound'
    BY <1>1, <1>2, <1>8, <2>1, <2>2, TakenSound
  <2>4. ~Restarts(m) => target' = target
    BY <2>1 DEF Restarts
  <2>5. AtTheTarget'
    BY <1>2, <1>5, <2>1, <2>4 DEF AtTheTarget
  <2>6. TargetIsControl'
    <3>1. SUFFICES ASSUME ~failed', pending' \cap Commands = {} PROVE Adopts(m)
      BY <2>1 DEF TargetIsControl
    <3>2. m.kind # "read_control" \/ ~failed
      BY <2>1, <3>1
    <3>3. QED
      BY <1>2, <3>1, <3>2 DEF Adopts
  <2>7. near' \in None .. SampleDwell /\ stable' \in None .. SampleDwell
    BY <1>2, <1>5, <2>1, Constants DEF None
  <2>8. ctl' \in Goals /\ target' \in Goals
    BY <1>4, <1>5, <2>1
  <2>9. PanelTyped'
    BY <1>1, <1>2, <2>2, <2>7, <2>8 DEF PanelSound, PanelTyped
  <2>10. QED
    BY <1>1, <1>2, <2>3, <2>5, <2>6, <2>9 DEF PanelSound
<1>9. QED
  BY <1>4, <1>6, <1>7, <1>8

\* A button or the timer leaves what the thread says alone.
LEMMA PressSound ==
    ASSUME PanelSound,
           UNCHANGED <<open, inst, told, touched, scene, faults>>, UNCHANGED <<up, snap, age, ctl, target>>,
           commands' \in Nat, todo' \in Seq(Orders), failed' \in BOOLEAN,
           pending' \subseteq Commands \cup {"connect"},
           \/ failed' = failed /\ pending' \cap Commands = pending \cap Commands
           \/ pending' \cap Commands # {},
           \/ stable' = None /\ near' \in {None, near}
           \/ stable' = stable /\ near' = near
    PROVE  PanelSound'
<1>1. LakeTyped'
  BY DEF PanelSound, LakeSound, LakeTyped, Signals
<1>2. Pipe(told', ctl', inst', touched')
  BY DEF PanelSound, LakeSound
<1>3. stable' \in None .. SampleDwell /\ near' \in None .. SampleDwell
  BY Constants DEF PanelSound, PanelTyped, None
<1>4. PanelTyped'
  BY <1>3 DEF PanelSound, PanelTyped
<1>5. AtTheTarget'
  BY DEF PanelSound, AtTheTarget
<1>6. TargetIsControl'
  BY DEF PanelSound, TargetIsControl
<1>7. QED
  BY <1>1, <1>2, <1>4, <1>5, <1>6 DEF PanelSound, LakeSound

LEMMA PressFacts ==
    ASSUME Presses, PanelSound
    PROVE  /\ UNCHANGED <<open, inst, told, touched, scene, faults>>
           /\ UNCHANGED <<up, snap, age, ctl, target>>
           /\ commands' \in Nat /\ todo \in Seq(Orders) /\ failed \in BOOLEAN
           /\ pending \subseteq Commands \cup {"connect"}
  BY DEF Presses, PanelSound, LakeSound, LakeTyped, PanelTyped

LEMMA TickedFacts ==
    ASSUME Ticked
    PROVE  \/ stable' = None /\ near' \in {None, near}
           \/ stable' = stable /\ near' = near
  BY DEF Ticked

LEMMA PanelPresses ==
    ASSUME PanelSound, PressApply \/ PressOff \/ PressConnect \/ PressDisconnect \/ PanelTimer
    PROVE  PanelSound'
<1>1. CASE PressApply
  <2>1. PICK t \in Targets, range \in {"keep", "off", "on"} :
          Queue([kind |-> "sample_control", set |-> t, range |-> range])
    BY <1>1 DEF PressApply
  <2>2. /\ stable' = None /\ failed' = FALSE /\ pending' = pending \cup {"sample_control"}
        /\ near' = near /\ Presses
    BY <1>1 DEF PressApply, Aside
  <2>3. t \in Nat
    BY TargetsAreNumbers DEF PanelSound
  <2> DEFINE c == [kind |-> "sample_control", set |-> t, range |-> range]
  <2>4. c \in Orders
    BY <2>1, <2>3 DEF Orders, Ranges
  <2>5. todo' = Append(todo, c)
    BY <2>1 DEF Queue
  <2> HIDE DEF c
  <2>6. todo' \in Seq(Orders)
    BY <2>2, <2>4, <2>5, PressFacts
  <2>7. "sample_control" \in Commands
    BY DEF Commands
  <2>8. failed' \in BOOLEAN /\ near' \in {None, near}
    BY <2>2
  <2>9. pending' \subseteq Commands \cup {"connect"} /\ pending' \cap Commands # {}
    BY <2>2, <2>7, PressFacts
  <2>10. QED
    BY <2>2, <2>6, <2>8, <2>9, PressFacts, PressSound
<1>2. CASE PressOff
  <2>1. /\ todo' = Append(todo, [kind |-> "heater_off"]) /\ Presses /\ Ticked
        /\ failed' = failed /\ pending' = pending \cup {"heater_off"}
    BY <1>2 DEF PressOff, Queue
  <2>2. [kind |-> "heater_off"] \in Orders
    BY DEF Orders
  <2>3. todo' \in Seq(Orders)
    BY <2>1, <2>2, PressFacts
  <2>4. "heater_off" \in Commands
    BY DEF Commands
  <2>5. failed' \in BOOLEAN /\ pending' \subseteq Commands \cup {"connect"} /\ pending' \cap Commands # {}
    BY <2>1, <2>4, PressFacts
  <2>6. QED
    BY <2>1, <2>3, <2>5, PressFacts, PressSound, TickedFacts
<1>3. CASE PressConnect
  <2>1. /\ todo' = Append(todo, [kind |-> "connect"]) /\ Presses
        /\ failed' = failed /\ stable' = stable /\ near' = near /\ pending' = pending \cup {"connect"}
    BY <1>3 DEF PressConnect, Queue, Aside
  <2>2. [kind |-> "connect"] \in Orders
    BY DEF Orders
  <2>3. todo' \in Seq(Orders)
    BY <2>1, <2>2, PressFacts
  <2>4. "connect" \notin Commands
    BY DEF Commands
  <2>5. /\ failed' \in BOOLEAN /\ pending' \subseteq Commands \cup {"connect"}
        /\ pending' \cap Commands = pending \cap Commands
    BY <2>1, <2>4, PressFacts
  <2>6. QED
    BY <2>1, <2>3, <2>5, PressFacts, PressSound
<1>4. CASE PressDisconnect
  <2>1. /\ todo' = Append(todo, [kind |-> "disconnect"]) /\ Presses
        /\ failed' = failed /\ stable' = stable /\ near' = near /\ pending' = pending
    BY <1>4 DEF PressDisconnect, Queue, Aside
  <2>2. [kind |-> "disconnect"] \in Orders
    BY DEF Orders
  <2>3. todo' \in Seq(Orders)
    BY <2>1, <2>2, PressFacts
  <2>4. failed' \in BOOLEAN /\ pending' \subseteq Commands \cup {"connect"}
    BY <2>1, PressFacts
  <2>5. QED
    BY <2>1, <2>3, <2>4, PressFacts, PressSound
<1>5. CASE PanelTimer
  <2>1. /\ Ticked /\ UNCHANGED <<open, inst, todo, told, touched, scene, faults, commands>>
        /\ UNCHANGED <<up, snap, age, ctl, target>> /\ failed' = failed /\ pending' = pending
    BY <1>5 DEF PanelTimer, lakeVars, bounds
  <2>2. /\ commands' \in Nat /\ todo' \in Seq(Orders) /\ failed' \in BOOLEAN
        /\ pending' \subseteq Commands \cup {"connect"}
    BY <2>1 DEF PanelSound, LakeSound, LakeTyped, PanelTyped
  <2>3. QED
    BY <2>1, <2>2, TickedFacts, PressSound
<1>6. QED
  BY <1>1, <1>2, <1>3, <1>4, <1>5

\* Time passes for both counts alike.
LEMMA PanelTick == PanelSound /\ Tick => PanelSound'
<1>1. SUFFICES ASSUME PanelSound, Tick PROVE PanelSound'
  OBVIOUS
<1>2. /\ UNCHANGED <<open, inst, todo, told, touched, scene, faults, commands>>
      /\ UNCHANGED <<up, pending, snap, ctl, target, failed>>
      /\ age' = Later(age, MaxAge + 1) /\ stable' = Later(stable, SampleDwell)
      /\ near' = Later(near, SampleDwell)
  BY <1>1 DEF Tick, lakeVars, bounds
<1>3. /\ near \in None .. SampleDwell /\ stable \in None .. SampleDwell /\ age \in 0 .. MaxAge + 1
      /\ (stable # None => near >= stable)
  BY <1>1 DEF PanelSound, PanelTyped, AtTheTarget
<1>4. /\ near' \in None .. SampleDwell /\ stable' \in None .. SampleDwell /\ age' \in 0 .. MaxAge + 1
  <2>1. MaxAge + 1 \in Nat /\ age \in None .. MaxAge + 1
    BY <1>3, Constants DEF None
  <2>2. near' \in None .. SampleDwell /\ stable' \in None .. SampleDwell
    BY <1>2, <1>3, Constants, LaterFacts
  <2>3. age' \in 0 .. MaxAge + 1
    BY <1>2, <1>3, <2>1 DEF Later, None
  <2>4. QED
    BY <2>2, <2>3
<1>5. stable' # None => near' >= stable'
  BY <1>2, <1>3, Constants DEF Later, None
<1>6. LakeTyped'
  BY <1>1, <1>2 DEF PanelSound, LakeSound, LakeTyped, Signals
<1>7. Pipe(told', ctl', inst', touched')
  BY <1>1, <1>2 DEF PanelSound, LakeSound
<1>8. PanelTyped'
  BY <1>1, <1>2, <1>4 DEF PanelSound, PanelTyped
<1>9. TargetIsControl'
  BY <1>1, <1>2 DEF PanelSound, TargetIsControl
<1>10. QED
  BY <1>1, <1>2, <1>5, <1>6, <1>7, <1>8, <1>9 DEF PanelSound, LakeSound, AtTheTarget

\* The batch and the magnet do not touch the panel.
LEMMA ElsewhereAside ==
    ASSUME Series \/ Field
    PROVE  PanelAside /\ commands' = commands /\ (faults' = faults \/ faults' = faults + 1)
<1>1. ASSUME NEW a, Batch(a)
      PROVE  PanelAside /\ commands' = commands /\ faults' = faults
  BY <1>1 DEF Batch, PanelAside
<1>2. ASSUME NEW a, Asking(a)
      PROVE  PanelAside /\ commands' = commands /\ faults' = faults
  BY <1>1, <1>2 DEF Asking
<1>3. Ending => PanelAside /\ commands' = commands /\ faults' = faults
  BY <1>1 DEF Ending
<1>4. CASE StartSeries
  BY <1>2, <1>4 DEF StartSeries
<1>5. CASE StopSeries
  BY <1>3, <1>5 DEF StopSeries
<1>6. CASE ContinueButton
  BY <1>2, <1>6 DEF ContinueButton
<1>7. CASE BatchTimer
  BY <1>1, <1>2, <1>7 DEF BatchTimer
<1>8. CASE MeasurementEnds
  BY <1>2, <1>3, <1>8 DEF MeasurementEnds
<1>9. CASE FieldStep
  BY <1>9 DEF FieldStep, PanelAside, bounds, ghosts
<1>10. CASE FieldRefused
  BY <1>3, <1>10 DEF FieldRefused
<1>11. CASE Arrive
  BY <1>2, <1>11 DEF Arrive
<1>12. CASE MagnetReport \/ MagnetLost
  BY <1>12 DEF MagnetReport, MagnetLost, Magnet, PanelAside
<1>13. QED
  BY <1>4, <1>5, <1>6, <1>7, <1>8, <1>9, <1>10, <1>11, <1>12 DEF Series, Field

LEMMA PanelStep == PanelSound /\ [Next]_vars => PanelSound'
<1>1. SUFFICES ASSUME PanelSound, [Next]_vars PROVE PanelSound'
  OBVIOUS
<1>2. faults \in Nat /\ commands \in Nat
  BY <1>1 DEF PanelSound, LakeSound, LakeTyped
<1>3. CASE Lake
  <2>1. LakeSound' /\ GuiAside
    BY <1>1, <1>3, LakeStep DEF PanelSound
  <2>2. UNCHANGED <<up, pending, snap, age, ctl, target, stable, failed>> /\ UNCHANGED <<near, scene>>
    BY <2>1 DEF GuiAside, panelVars, ghosts
  <2>3. PanelTyped' /\ AtTheTarget' /\ TargetIsControl'
    BY <1>1, <2>2 DEF PanelSound, PanelTyped, AtTheTarget, TargetIsControl
  <2>4. QED
    BY <1>1, <2>1, <2>2, <2>3 DEF PanelSound
<1>4. CASE Gui
  BY <1>1, <1>4, PanelReading, PanelConnected, PanelBlinded, PanelControlResult, PanelPresses DEF Gui
<1>5. CASE Series \/ Field
  BY <1>1, <1>2, <1>5, ElsewhereAside, PanelAsideSound
<1>6. CASE Tick
  BY <1>1, <1>6, PanelTick
<1>7. CASE UNCHANGED vars
  <2>1. PanelAside /\ UNCHANGED <<faults, commands>>
    BY <1>7 DEF vars, PanelAside, bounds, ghosts
  <2>2. QED
    BY <1>1, <1>2, <2>1, PanelAsideSound
<1>8. QED
  BY <1>1, <1>3, <1>4, <1>5, <1>6, <1>7 DEF Next

-----------------------------------------------------------------------------
(***************************************************************************)
(* The evaluator's clocks against the ticks they stand for.                *)
(***************************************************************************)
Clocks ==
    /\ ev \in Evaluators /\ calm \in None .. Dwell + 1 /\ steady \in None .. LongDwell
    /\ aim \in Goals

\* The dwell that counts towards a move is never longer than the sights were
\* recovered, and at most one tick behind.
Counting ==
    /\ ev.since # None => snap.ok /\ Recovered(Sight) /\ calm # None /\ ev.since <= calm
    /\ calm > 1 => ev.since >= calm - 1
    /\ calm = 1 /\ "panel" \notin due => ev.since # None

\* The dwell that counts towards a measurement is backed by the sights of that
\* requirement.
Backed == ev.msince # None => aim = ev.mset /\ steady >= ev.msince

LEMMA RecoveredSight ==
    /\ Recovered(Sight) <=> snap.s <= SampleRecovery /\ snap.m <= MagnetRecovery /\ ~snap.up
    /\ Recovered(Sight)' <=> snap'.s <= SampleRecovery /\ snap'.m <= MagnetRecovery /\ ~snap'.up
  BY DEF Recovered, Sight

\* Everything the evaluator takes in at one sight is put down at that sight.
LEMMA CountSeen ==
    ASSUME Clocks, Counting, NEW x \in Sights, snap' = x.r,
           ev'.since = IF Quiet(x) THEN Since(ev.since) ELSE None,
           calm' = Noted(calm, Quiet(x))
    PROVE  calm' \in None .. Dwell + 1 /\ Counting'
<1>1. /\ ev.since \in None .. Dwell /\ ev.since \in Int
      /\ calm \in None .. Dwell + 1 /\ calm \in Int /\ Dwell \in Nat
  BY EvaluatorFields, Constants DEF Clocks, None
<1>2. CASE Quiet(x)
  <2>1. ev'.since = (IF ev.since = None THEN 0 ELSE ev.since) /\ calm' = IF calm = None THEN 0 ELSE calm
    BY <1>2 DEF Since, Noted
  <2>2. snap'.ok /\ Recovered(Sight)'
    BY <1>2, RecoveredSight DEF Quiet, Fresh
  <2>3. calm' \in None .. Dwell + 1
    BY <1>1, <2>1 DEF None
  <2>4. calm' # None /\ ev'.since # None /\ ev'.since <= calm'
    BY <1>1, <2>1 DEF None, Counting
  <2>5. calm' > 1 => ev'.since >= calm' - 1
    BY <1>1, <2>1 DEF None, Counting
  <2>6. QED
    BY <2>2, <2>3, <2>4, <2>5 DEF Counting
<1>3. CASE ~Quiet(x)
  <2>1. ev'.since = None /\ calm' = None
    BY <1>3 DEF Noted
  <2>2. QED
    BY <1>1, <2>1 DEF Counting, None
<1>4. QED
  BY <1>2, <1>3

\* A question that leaves the dwell alone, on a sight that is no worse.
LEMMA CountKept ==
    ASSUME Clocks, Counting, snap' = snap, "panel" \in due => "panel" \in due',
           NEW x \in Sights, x.r = snap,
           \/ /\ ev'.since = IF Proper(x) THEN ev.since ELSE None
              /\ \/ calm' = Noted(calm, Quiet(x))
                 \/ calm' = Noted(calm, calm # None /\ Proper(x))
           \/ ev'.since = ev.since /\ calm' = calm
           \/ ev'.since = None /\ calm' = None
    PROVE  calm' \in None .. Dwell + 1 /\ Counting'
<1>1. /\ ev.since \in None .. Dwell /\ ev.since \in Int
      /\ calm \in None .. Dwell + 1 /\ calm \in Int /\ Dwell \in Nat
  BY EvaluatorFields, Constants DEF Clocks, None
<1>2. CASE ev'.since = None /\ calm' = None
  BY <1>1, <1>2 DEF Counting, None
<1>3. CASE ev'.since = ev.since /\ (calm' = calm \/ (calm = None /\ calm' = 0))
  <2>1. calm' \in None .. Dwell + 1
    BY <1>1, <1>3 DEF None
  <2>2. ev'.since # None => snap'.ok /\ Recovered(Sight)' /\ calm' # None /\ ev'.since <= calm'
    BY <1>1, <1>3, RecoveredSight DEF Counting, None
  <2>3. /\ calm' > 1 => ev'.since >= calm' - 1
        /\ calm' = 1 /\ "panel" \notin due' => ev'.since # None
    BY <1>1, <1>3 DEF Counting, None
  <2>4. QED
    BY <2>1, <2>2, <2>3 DEF Counting
<1>4. CASE /\ ev'.since = IF Proper(x) THEN ev.since ELSE None
           /\ \/ calm' = Noted(calm, Quiet(x))
              \/ calm' = Noted(calm, calm # None /\ Proper(x))
  <2>1. CASE ~Proper(x)
    <3>1. ~Quiet(x)
      BY <2>1, QuietIsRecovered
    <3>2. ev'.since = None /\ calm' = None
      BY <1>4, <2>1, <3>1 DEF Noted
    <3>3. QED
      BY <3>2, <1>2
  <2>2. CASE Proper(x) /\ calm' = Noted(calm, Quiet(x)) /\ ~Quiet(x)
    <3>1. ~Recovered(x)
      BY <2>2, QuietIsRecovered
    <3>2. ~Recovered(Sight)
      BY <3>1, RecoveredSight DEF Recovered
    <3>3. ev'.since = None /\ calm' = None
      BY <1>4, <2>2, <3>2 DEF Counting, Noted
    <3>4. QED
      BY <3>3, <1>2
  <2>3. CASE Proper(x) /\ calm' = Noted(calm, Quiet(x)) /\ Quiet(x)
    <3>1. ev'.since = ev.since /\ (calm' = calm \/ (calm = None /\ calm' = 0))
      BY <1>4, <2>3 DEF Noted
    <3>2. QED
      BY <3>1, <1>3
  <2>4. CASE Proper(x) /\ calm' = Noted(calm, calm # None /\ Proper(x))
    <3>1. ev'.since = ev.since /\ calm' = calm
      BY <1>4, <2>4 DEF Noted
    <3>2. QED
      BY <3>1, <1>3
  <2>5. QED
    BY <1>4, <2>1, <2>2, <2>3, <2>4
<1>5. QED
  BY <1>2, <1>3, <1>4

\* A tick adds to both, and the panel's timer is due.
LEMMA CountTick ==
    ASSUME Clocks, Counting, Tick
    PROVE  calm' \in None .. Dwell + 1 /\ Counting' /\ ev' \in Evaluators
<1>1. /\ ev.since \in None .. Dwell /\ ev.since \in Int
      /\ calm \in None .. Dwell + 1 /\ calm \in Int /\ Dwell \in Nat /\ Dwell + 1 \in Nat
      /\ ev.msince \in None .. LongDwell /\ ev.ran \in 0 .. Interval
      /\ LongDwell \in Nat /\ Interval \in Nat
  BY EvaluatorFields, Constants DEF Clocks, None
<1>2. /\ ev' = [ev EXCEPT !.since = Later(ev.since, Dwell), !.msince = Later(ev.msince, LongDwell),
                          !.ran = Later(ev.ran, Interval)]
      /\ calm' = Later(calm, Dwell + 1) /\ snap' = snap /\ due = {} /\ "panel" \in due'
  BY DEF Tick
<1>3. /\ Later(ev.since, Dwell) \in None .. Dwell /\ Later(ev.msince, LongDwell) \in None .. LongDwell
      /\ Later(ev.ran, Interval) \in 0 .. Interval
  <2>1. Later(ev.ran, Interval) \in 0 .. Interval
    BY <1>1 DEF Later, None
  <2>2. QED
    BY <1>1, <2>1, LaterFacts
<1>4. ev' \in Evaluators /\ ev'.since = Later(ev.since, Dwell)
  BY <1>2, <1>3 DEF Clocks, Evaluators
<1>5. calm' \in None .. Dwell + 1
  BY <1>1, <1>2, LaterFacts
<1>6. ev'.since # None => snap'.ok /\ Recovered(Sight)' /\ calm' # None /\ ev'.since <= calm'
  <2>1. ASSUME ev'.since # None
        PROVE  ev.since # None /\ calm # None /\ ev.since <= calm /\ snap.ok /\ Recovered(Sight)
    BY <1>4, <2>1 DEF Later, Counting
  <2>2. ASSUME ev'.since # None
        PROVE  calm' # None /\ ev'.since <= calm'
    BY <1>1, <1>2, <1>4, <2>1, <2>2 DEF Later, None
  <2>3. QED
    BY <1>2, <2>1, <2>2, RecoveredSight
<1>7. calm' > 1 => ev'.since >= calm' - 1
  BY <1>1, <1>2, <1>4 DEF Later, None, Counting
<1>8. QED
  BY <1>2, <1>4, <1>5, <1>6, <1>7 DEF Counting

-----------------------------------------------------------------------------
\* The measurement's clock at one question, whatever the evaluator was before.
LEMMA BackedAsked ==
    ASSUME NEW g \in Evaluators, NEW x \in Sights, Goal \in Goals,
           steady \in None .. LongDwell, aim \in Goals,
           g.msince # None => aim = g.mset /\ steady >= g.msince,
           ev' = Remeasured(g, x),
           \/ Unknown /\ Unseen
           \/ Witnessed(x) /\ (Unknown /\ g.msince # None => Proper(x))
    PROVE  Backed'
<1>1. g.msince \in None .. LongDwell /\ g.msince \in Int /\ steady \in Int /\ LongDwell \in Nat
  BY EvaluatorFields, Constants DEF None
<1>2. CASE Unknown /\ Unseen
  BY <1>2, RemeasuredFacts DEF Unseen, Backed
<1>3. CASE ~Unknown /\ Witnessed(x)
  <2>1. /\ aim' = Goal
        /\ steady' = Noted(IF Goal = aim THEN steady ELSE None, Proper(x) /\ Requirement(x, Goal))
    BY <1>3 DEF Witnessed
  <2>2. /\ ev'.mset = (IF Agreed(x, Goal) THEN Goal ELSE g.mset)
        /\ ev'.msince = (IF Agreed(x, Goal) /\ Requirement(x, Goal)
                         THEN Since(IF g.mset = Goal THEN g.msince ELSE None) ELSE None)
    BY <1>3, RemeasuredFacts
  <2>3. CASE ~(Agreed(x, Goal) /\ Requirement(x, Goal))
    BY <2>2, <2>3 DEF Backed
  <2>4. CASE Agreed(x, Goal) /\ Requirement(x, Goal)
    <3>1. Proper(x) /\ Requirement(x, Goal)
      BY <2>4 DEF Agreed
    <3> DEFINE was == IF Goal = aim THEN steady ELSE None
    <3>2. steady' = IF was = None THEN 0 ELSE was
      BY <2>1, <3>1 DEF Noted
    <3>3. ev'.mset = Goal /\ ev'.msince = Since(IF g.mset = Goal THEN g.msince ELSE None)
      BY <2>2, <2>4
    <3>4. CASE g.mset = Goal /\ g.msince # None
      <4>1. was = steady /\ steady >= g.msince /\ ev'.msince = g.msince
        BY <3>3, <3>4 DEF Since
      <4>2. QED
        BY <1>1, <2>1, <3>2, <3>3, <4>1 DEF Backed, None
    <3>5. CASE ~(g.mset = Goal /\ g.msince # None)
      <4>1. ev'.msince = 0
        BY <3>3, <3>5 DEF Since
      <4>2. steady' >= 0
        BY <1>1, <3>2 DEF None
      <4>3. QED
        BY <2>1, <3>3, <4>1, <4>2 DEF Backed
    <3>6. QED
      BY <3>4, <3>5
  <2>5. QED
    BY <2>3, <2>4
<1>4. CASE Unknown /\ Witnessed(x) /\ (g.msince # None => Proper(x))
  <2>1. aim' = aim /\ steady' = Noted(steady, steady # None /\ Proper(x)) /\ ev' = g
    BY <1>4, RemeasuredFacts DEF Witnessed
  <2>2. ASSUME g.msince # None PROVE aim' = g.mset /\ steady' >= g.msince
    <3>1. steady >= g.msince /\ steady # None /\ aim = g.mset
      BY <1>1, <2>2 DEF None
    <3>2. steady' = steady
      BY <1>4, <2>1, <2>2, <3>1 DEF Noted
    <3>3. QED
      BY <2>1, <3>1, <3>2
  <2>3. QED
    BY <2>1, <2>2 DEF Backed
<1>5. QED
  BY <1>2, <1>3, <1>4

LEMMA WitnessedTyped ==
    ASSUME Goal \in Goals, steady \in None .. LongDwell, aim \in Goals, NEW x \in Sights,
           Witnessed(x)
    PROVE  steady' \in None .. LongDwell /\ aim' \in Goals
<1>1. LongDwell \in Nat
  BY Constants
<1>2. aim' \in Goals
  BY DEF Witnessed
<1>3. steady' = None \/ steady' = 0 \/ steady' = steady
  BY DEF Witnessed, Noted
<1>4. QED
  BY <1>1, <1>2, <1>3 DEF None

\* What only lets an operation go on, or ends it, keeps the backing.
LEMMA BackedKept ==
    ASSUME Clocks, Backed, ev' \in Evaluators, aim' = aim, ev'.mset = ev.mset,
           NEW x \in Sights,
           ev'.msince = IF Proper(x) THEN ev.msince ELSE None,
           steady' = Noted(steady, steady # None /\ Proper(x))
    PROVE  Backed' /\ steady' \in None .. LongDwell
<1>1. /\ ev.msince \in None .. LongDwell /\ ev.msince \in Int /\ steady \in Int /\ LongDwell \in Nat
      /\ steady \in None .. LongDwell
  BY EvaluatorFields, Constants DEF None, Clocks
<1>2. steady' = None \/ (Proper(x) /\ steady' = steady /\ steady # None)
  BY DEF Noted
<1>3. steady' \in None .. LongDwell
  BY <1>1, <1>2 DEF None
<1>4. ASSUME ev'.msince # None PROVE aim' = ev'.mset /\ steady' >= ev'.msince
  <2>1. Proper(x) /\ ev'.msince = ev.msince /\ ev.msince # None
    BY <1>4
  <2>2. steady >= ev.msince /\ aim = ev.mset
    BY <2>1 DEF Backed
  <2>3. steady # None
    BY <1>1, <2>1, <2>2 DEF None
  <2>4. steady' = steady
    BY <2>1, <2>3 DEF Noted
  <2>5. QED
    BY <2>1, <2>2, <2>4
<1>5. QED
  BY <1>3, <1>4 DEF Backed

LEMMA BackedTick ==
    ASSUME Clocks, Tick
    PROVE  /\ steady' \in None .. LongDwell /\ (Backed => Backed')
           /\ ev.msince = None => ev'.msince = None
<1>1. /\ ev.msince \in None .. LongDwell /\ ev.msince \in Int /\ steady \in Int /\ LongDwell \in Nat
      /\ steady \in None .. LongDwell
  BY EvaluatorFields, Constants DEF None, Clocks
<1>2. ev'.msince = Later(ev.msince, LongDwell) /\ ev'.mset = ev.mset
  BY DEF Tick, Clocks, Evaluators
<1>3. steady' = Later(steady, LongDwell) /\ aim' = aim
  BY DEF Tick
<1>4. steady' \in None .. LongDwell
  BY <1>1, <1>3, LaterFacts
<1>5. Backed => Backed'
  BY <1>1, <1>2, <1>3 DEF Backed, Later, None
<1>6. ev.msince = None => ev'.msince = None
  BY <1>2 DEF Later
<1>7. QED
  BY <1>4, <1>5, <1>6

-----------------------------------------------------------------------------
(***************************************************************************)
(* The batch and the magnet.                                               *)
(***************************************************************************)
Trip ==
    /\ batch \in Batches /\ field \in Fields /\ driven \in BOOLEAN
    /\ from \in Fields \cup {None} /\ seen \in Fields \cup {None}
    /\ due \subseteq {"panel", "batch"} /\ heated \in BOOLEAN /\ series \in Nat

Measured == batch.phase = "measuring" \/ (batch.phase = "wait" /\ batch.context = "post_move")

\* Where the batch is on its way: a field it has verified is where the magnet
\* stands, until the next move, and that move began persistent at it.
Itinerary ==
    /\ batch.job \in 1 .. Len(scene.jobs)
    /\ batch.phase = "idle" => batch.last = None
    /\ batch.phase # "moving" /\ batch.last # None => field = batch.last /\ ~driven
    /\ batch.phase = "moving" /\ batch.last # None => from # None
    /\ batch.phase = "wait" => batch.context # "none"
    /\ batch.phase = "measuring" => batch.context = "none"
    /\ batch.phase = "wait" /\ batch.context # "post_move" => scene.jobs[batch.job] # batch.last
    /\ Measured => scene.jobs[batch.job] = batch.last
    /\ heated => batch.last # None \/ batch.phase = "idle"

\* No dwell from before the first series, and none of an earlier one once this
\* series has heated, counts towards a measurement.
Steadily ==
    /\ series = 0 => ev.msince = None /\ batch = Idle
    /\ series = 1 /\ batch.phase # "idle" /\ batch.last = None => ev.msince = None
    /\ (series = 1 \/ heated) /\ Measured => Backed

SeriesSound == PanelSound /\ Clocks /\ Trip /\ Counting /\ Itinerary /\ Steadily

LEMMA JobFields ==
    ASSUME scene \in Scenes
    PROVE  /\ Len(scene.jobs) \in Nat /\ 1 \in 1 .. Len(scene.jobs)
           /\ \A j \in 1 .. Len(scene.jobs) : scene.jobs[j] \in Fields
           /\ \A f \in Fields : f \in Nat /\ f # None
<1>1. scene.jobs \in Seq(Fields) /\ scene.jobs # <<>>
  BY ScenesAssumption
<1>2. \A f \in Fields : f \in Nat /\ f # None
  BY Constants DEF None
<1> DEFINE js == scene.jobs
<1>3. js \in Seq(Fields) /\ js # <<>>
  BY <1>1
<1> HIDE DEF js
<1>4. Len(js) \in Nat /\ 1 \in 1 .. Len(js) /\ \A j \in 1 .. Len(js) : js[j] \in Fields
  BY <1>3
<1>5. QED
  BY <1>2, <1>4 DEF js

LEMMA SightTyped ==
    ASSUME PanelSound, Trip
    PROVE  Sight \in Sights /\ Sight.r = snap /\ Goal \in Goals
<1>1. snap \in Readings
  BY SceneReadings DEF PanelSound, PanelTyped
<1>2. age \in Nat
  BY Constants DEF PanelSound, PanelTyped
<1>3. seen \in Fields \cup {None}
  BY DEF Trip
<1>4. Goal \in Goals
  BY DEF Goal, PanelTarget, PanelSound, PanelTyped, Goals
<1>5. QED
  BY <1>1, <1>2, <1>3, <1>4 DEF Sight, Sights

LEMMA IdleFacts ==
    Idle \in Batches /\ Idle.phase = "idle" /\ Idle.context = "none" /\ Idle.last = None /\ Idle.job = 1
  BY DEF Idle, Batches

LEMMA RouteEnds ==
    ASSUME Trip, scene' = scene, scene \in Scenes, batch' = Idle
    PROVE  batch' \in Batches /\ Itinerary' /\ ~Measured'
<1>1. batch' \in Batches /\ batch'.phase = "idle" /\ batch'.last = None /\ batch'.job = 1
  BY IdleFacts
<1>2. 1 \in 1 .. Len(scene'.jobs)
  BY JobFields
<1>3. QED
  BY <1>1, <1>2 DEF Itinerary, Measured

LEMMA RouteSame ==
    ASSUME Itinerary, UNCHANGED <<scene, batch, heated>>,
           \/ UNCHANGED <<field, driven>>
           \/ batch.phase = "moving",
           batch.phase = "moving" => from' = from
    PROVE  Itinerary' /\ (Measured' <=> Measured)
<1>1. Measured' <=> Measured
  BY DEF Measured
<1>2. QED
  BY <1>1 DEF Itinerary

\* On to the next field, or waiting for the permission.
LEMMA RouteOn ==
    ASSUME Trip, Itinerary, scene \in Scenes, scene' = scene, field' = field, driven' = driven,
           batch' \in Batches, batch'.job \in 1 .. Len(scene.jobs),
           batch'.last = batch.last, batch.phase # "moving",
           scene.jobs[batch'.job] # batch'.last,
           heated' \in BOOLEAN, heated' => heated /\ batch.phase # "idle",
           from' = IF batch'.phase = "moving"
                   THEN (IF driven \/ scene.jobs[batch'.job] = field THEN None ELSE field)
                   ELSE None,
           \/ batch'.phase = "moving" /\ batch'.context = "none"
           \/ batch'.phase = "wait" /\ batch'.context \in {"preflight", "pre_move"}
    PROVE  Itinerary' /\ ~Measured' /\ from' \in Fields \cup {None}
<1>1. ~Measured'
  BY DEF Measured
<1>2. batch'.last # None => field = batch'.last /\ ~driven
  BY DEF Itinerary
<1>3. batch'.phase = "moving" /\ batch'.last # None => from' # None
  <2>1. ASSUME batch'.phase = "moving", batch'.last # None PROVE from' = field
    BY <1>2, <2>1
  <2>2. field # None
    BY JobFields DEF Trip
  <2>3. QED
    BY <2>1, <2>2
<1>4. heated' => batch'.last # None
  BY DEF Itinerary
<1>5. from' \in Fields \cup {None}
  BY DEF Trip
<1>6. QED
  BY <1>1, <1>2, <1>3, <1>4, <1>5 DEF Itinerary

\* At the field of the job: measuring, or waiting for that.
LEMMA RouteMeasures ==
    ASSUME scene \in Scenes, scene' = scene,
           batch' \in Batches, batch'.job \in 1 .. Len(scene.jobs),
           batch'.last = scene.jobs[batch'.job], field' = batch'.last, driven' = FALSE,
           \/ batch'.phase = "measuring" /\ batch'.context = "none"
           \/ batch'.phase = "wait" /\ batch'.context = "post_move"
    PROVE  Itinerary' /\ Measured'
<1>1. batch'.last # None
  BY JobFields
<1>2. Measured'
  BY DEF Measured
<1>3. QED
  BY <1>1, <1>2 DEF Itinerary

-----------------------------------------------------------------------------
\* Steps that leave the evaluator and the batch alone.
LEMMA SeriesAside ==
    ASSUME SeriesSound, PanelSound', scene' = scene,
           UNCHANGED <<ev, batch, calm, steady, aim, heated, series>>, snap' = snap,
           due' \subseteq due, "panel" \in due => "panel" \in due', seen' \in Fields \cup {None},
           from' \in Fields \cup {None}, batch.phase = "moving" => from' = from,
           field' \in Fields, driven' \in BOOLEAN,
           UNCHANGED <<field, driven>> \/ batch.phase = "moving"
    PROVE  SeriesSound'
<1>1. Clocks'
  BY DEF SeriesSound, Clocks, Evaluators
<1>2. Trip'
  BY DEF SeriesSound, Trip, Batches
<1>3. Counting'
  BY RecoveredSight DEF SeriesSound, Counting
<1>4. Itinerary' /\ (Measured' <=> Measured)
  BY RouteSame DEF SeriesSound
<1>5. Steadily'
  BY <1>4 DEF SeriesSound, Steadily, Backed
<1>6. QED
  BY <1>1, <1>2, <1>3, <1>4, <1>5 DEF SeriesSound

\* Steps that clear the clocks, and end the batch or leave it where it is.
LEMMA SeriesCleared ==
    ASSUME SeriesSound, PanelSound', scene' = scene,
           ev' = Refuse(ev), calm' = None, steady' = None, aim' = aim,
           UNCHANGED <<due, heated, series, field, driven>>, seen' \in Fields \cup {None},
           \/ batch' = Idle /\ from' = None
           \/ batch' = batch /\ from' = from
    PROVE  SeriesSound'
<1>1. /\ ev' \in Evaluators /\ ev'.since = None /\ ev'.msince = None
  BY RefuseFacts DEF SeriesSound, Clocks
<1>2. Clocks'
  BY <1>1, Constants DEF SeriesSound, Clocks, Evaluators, None
<1>3. Counting'
  BY <1>1 DEF Counting, None
<1>4. batch' \in Batches /\ Itinerary'
  <2>1. CASE batch' = Idle
    BY <2>1, RouteEnds DEF SeriesSound, PanelSound
  <2>2. CASE batch' = batch /\ from' = from
    BY <2>2, RouteSame DEF SeriesSound, Trip
  <2>3. QED
    BY <2>1, <2>2
<1>5. Trip'
  BY <1>4 DEF SeriesSound, Trip, Batches
<1>6. Steadily'
  BY <1>1, IdleFacts DEF SeriesSound, Steadily, Backed
<1>7. QED
  BY <1>2, <1>3, <1>4, <1>5, <1>6 DEF SeriesSound

\* What the batch starts, it starts on the evaluator's word.
Started ==
    /\ Starting("moving") => ev'.since >= Dwell /\ ev.ran = Interval
    /\ Starting("measuring") => ev'.msince >= MeasurementDwell(Goal) /\ series' = series

LEMMA NothingStarted ==
    ASSUME batch' = batch \/ batch' = Idle
    PROVE  Started
  BY IdleFacts DEF Started, Starting

\* A question about a move, at any sight.
LEMMA AsksMove ==
    ASSUME SeriesSound, PanelSound', Trip', Itinerary', ~Measured',
           NEW x \in Sights, snap' = x.r, ev' = Evaluate(ev, x), Witnessed(x),
           series' = 0 => series = 0 /\ batch' = Idle,
           series' = 1 /\ batch'.phase # "idle" /\ batch'.last = None => ev.msince = None
    PROVE  SeriesSound'
<1>1. /\ ev' \in Evaluators
      /\ ev'.since = (IF Quiet(x) THEN Since(ev.since) ELSE None)
      /\ ev'.msince = (IF Proper(x) THEN ev.msince ELSE None)
  BY EvaluateFacts DEF SeriesSound, Clocks
<1>2. calm' = Noted(calm, Quiet(x))
  BY DEF Witnessed
<1>3. calm' \in None .. Dwell + 1 /\ Counting'
  BY <1>1, <1>2, CountSeen DEF SeriesSound
<1>4. steady' \in None .. LongDwell /\ aim' \in Goals
  BY SightTyped, WitnessedTyped DEF SeriesSound, Clocks
<1>5. Clocks'
  BY <1>1, <1>3, <1>4 DEF Clocks, Evaluators, Goals
<1>6. Steadily'
  BY <1>1 DEF SeriesSound, Steadily
<1>7. QED
  BY <1>3, <1>5, <1>6 DEF SeriesSound

\* A question about a measurement, at any sight.
LEMMA AsksMeasurement ==
    ASSUME SeriesSound, PanelSound', Trip', Itinerary', Measured', scene' = scene,
           NEW x \in Sights, snap' = x.r, NEW g \in Evaluators, ev' = Remeasured(g, x),
           "panel" \in due => "panel" \in due',
           \/ /\ g.since = ev.since /\ snap' = snap
              /\ (Unknown /\ Unseen) \/ (~Unknown /\ Witnessed(x))
           \/ g = Evaluate(ev, x) /\ Witnessed(x),
           series' # 0,
           series' = 1 \/ heated' => (g.msince # None => aim = g.mset /\ steady >= g.msince)
    PROVE  SeriesSound'
<1>0. Goal \in Goals /\ Clocks /\ Counting
  BY SightTyped DEF SeriesSound
<1>1. /\ ev' \in Evaluators
      /\ Unknown => ev' = g
      /\ ~Unknown => ev'.since = (IF Proper(x) THEN g.since ELSE None)
  BY <1>0, RemeasuredFacts
<1>2. calm' \in None .. Dwell + 1 /\ Counting'
  <2>1. CASE g.since = ev.since /\ snap' = snap /\ Unknown /\ Unseen
    BY <1>0, <1>1, <2>1, CountKept DEF Unseen
  <2>2. CASE g.since = ev.since /\ snap' = snap /\ ~Unknown /\ Witnessed(x)
    <3>1. calm' = Noted(calm, Quiet(x))
      BY <2>2 DEF Witnessed
    <3>2. QED
      BY <1>0, <1>1, <2>2, <3>1, CountKept
  <2>3. CASE g = Evaluate(ev, x) /\ Witnessed(x)
    <3>1. calm' = Noted(calm, Quiet(x))
      BY <2>3 DEF Witnessed
    <3>2. g.since = IF Quiet(x) THEN Since(ev.since) ELSE None
      BY <1>0, <2>3, EvaluateFacts DEF Clocks
    <3>3. ev'.since = IF Quiet(x) THEN Since(ev.since) ELSE None
      BY <1>1, <3>2, QuietIsRecovered
    <3>4. QED
      BY <1>0, <3>1, <3>3, CountSeen
  <2>4. QED
    BY <2>1, <2>2, <2>3
<1>3. steady' \in None .. LongDwell /\ aim' \in Goals
  <2>1. CASE Unseen
    BY <1>0, <2>1 DEF Unseen, Clocks
  <2>2. CASE Witnessed(x)
    BY <1>0, <2>2, WitnessedTyped DEF Clocks
  <2>3. QED
    BY <2>1, <2>2
<1>4. series' = 1 \/ heated' => Backed'
  <2>1. SUFFICES ASSUME series' = 1 \/ heated' PROVE Backed'
    OBVIOUS
  <2>2. \/ Unknown /\ Unseen
        \/ Witnessed(x) /\ (Unknown /\ g.msince # None => Proper(x))
    <3>1. g = Evaluate(ev, x) => (g.msince # None => Proper(x))
      BY <1>0, EvaluateFacts DEF Clocks
    <3>2. QED
      BY <3>1
  <2>3. QED
    BY <1>0, <2>1, <2>2, BackedAsked DEF Clocks
<1>5. batch'.last # None
  <2>1. batch'.last = scene'.jobs[batch'.job] /\ batch'.job \in 1 .. Len(scene'.jobs)
    BY DEF Itinerary
  <2>2. QED
    BY <2>1, JobFields DEF SeriesSound, PanelSound
<1>6. Clocks'
  BY <1>1, <1>2, <1>3 DEF Clocks, Evaluators, Goals
<1>7. Steadily'
  BY <1>4, <1>5 DEF Steadily
<1>8. QED
  BY <1>2, <1>6, <1>7 DEF SeriesSound

\* A sight between the questions: limits, and the evaluator's own timer.
LEMMA Watches ==
    ASSUME SeriesSound, PanelSound', scene' = scene, snap' = snap, aim' = aim,
           UNCHANGED <<heated, series, field, driven, seen>>,
           due' \subseteq due,
           steady' = Noted(steady, steady # None /\ Proper(Sight)),
           \/ /\ ev' = Evaluate(ev, Sight) /\ calm' = Noted(calm, Quiet(Sight))
           \/ /\ ev' = Continue(ev, Sight) /\ calm' = Noted(calm, calm # None /\ Proper(Sight))
              /\ "panel" \in due => "panel" \in due',
           \/ batch' = batch /\ (batch.phase = "moving" => from' = from)
           \/ batch' = Idle,
           from' \in Fields \cup {None}
    PROVE  SeriesSound'
<1>0. Sight \in Sights /\ Sight.r = snap /\ Clocks /\ Counting
  BY SightTyped DEF SeriesSound
<1>1. /\ ev' \in Evaluators /\ ev'.mset = ev.mset
      /\ ev'.msince = (IF Proper(Sight) THEN ev.msince ELSE None)
  BY <1>0, EvaluateFacts, ContinueFacts, RefuseFacts DEF Clocks
<1>2. calm' \in None .. Dwell + 1 /\ Counting'
  <2>1. CASE ev' = Evaluate(ev, Sight) /\ calm' = Noted(calm, Quiet(Sight))
    <3>1. ev'.since = IF Quiet(Sight) THEN Since(ev.since) ELSE None
      BY <1>0, <2>1, EvaluateFacts DEF Clocks
    <3>2. QED
      BY <1>0, <2>1, <3>1, CountSeen
  <2>2. CASE /\ ev' = Continue(ev, Sight) /\ calm' = Noted(calm, calm # None /\ Proper(Sight))
             /\ "panel" \in due => "panel" \in due'
    <3>1. ev'.since = IF Proper(Sight) THEN ev.since ELSE None
      BY <1>0, <2>2, ContinueFacts, RefuseFacts DEF Clocks
    <3>2. QED
      BY <1>0, <2>2, <3>1, CountKept
  <2>3. QED
    BY <2>1, <2>2
<1>3. Backed => Backed'
  BY <1>0, <1>1, BackedKept
<1>4. steady' \in None .. LongDwell
  BY Constants DEF SeriesSound, Clocks, Noted, None
<1>5. batch' \in Batches /\ Itinerary' /\ (Measured' => Measured)
  <2>1. CASE batch' = Idle
    BY <2>1, RouteEnds DEF SeriesSound, PanelSound
  <2>2. CASE batch' = batch /\ (batch.phase = "moving" => from' = from)
    BY <2>2, RouteSame DEF SeriesSound, Trip
  <2>3. QED
    BY <2>1, <2>2
<1>6. Trip'
  BY <1>5 DEF SeriesSound, Trip, Batches
<1>7. Clocks'
  BY <1>1, <1>2, <1>4 DEF SeriesSound, Clocks, Evaluators, Goals
<1>8. Steadily'
  BY <1>1, <1>3, <1>5, IdleFacts DEF SeriesSound, Steadily
<1>9. QED
  BY <1>2, <1>5, <1>6, <1>7, <1>8 DEF SeriesSound

-----------------------------------------------------------------------------
\* A waiting batch polls: it asks for the measurement, or for the move.
LEMMA PollRoute ==
    ASSUME SeriesSound, UNCHANGED <<scene, field, driven, heated>>,
           NEW e \in Evaluators, NEW x \in Sights, NEW pressed \in BOOLEAN, batch.phase = "wait",
           Becoming(PollCooldown(batch, e, x, pressed))
    PROVE  /\ Itinerary' /\ batch' \in Batches /\ from' \in Fields \cup {None}
           /\ \/ /\ batch.context = "post_move" /\ Measured /\ Measured'
                 /\ ev' = Remeasured(e, x) /\ ToMeasure(batch', ev')
              \/ /\ batch.context # "post_move" /\ ~Measured'
                 /\ ev' = Evaluate(e, x)
                 /\ batch' = Idle \/ (ToMove(batch', ev', x) /\ batch'.last = batch.last)
<1> DEFINE a == PollCooldown(batch, e, x, pressed)
<1>0. /\ scene \in Scenes /\ Goal \in Goals /\ batch \in Batches /\ Trip /\ Itinerary
      /\ batch.job \in 1 .. Len(scene.jobs) /\ scene.jobs[batch.job] \in Fields
      /\ batch.context \in {"preflight", "pre_move", "post_move"}
  <2>1. scene \in Scenes /\ Goal \in Goals /\ batch \in Batches /\ Trip /\ Itinerary
    BY SightTyped DEF SeriesSound, PanelSound, Trip
  <2>2. batch.job \in 1 .. Len(scene.jobs) /\ batch.context # "none"
    BY <2>1 DEF Itinerary
  <2>3. QED
    BY <2>1, <2>2, JobFields DEF Batches
<1>1. /\ batch' = a.b /\ ev' = a.e
      /\ from' = IF a.b.phase = "moving"
                 THEN (IF driven \/ scene.jobs[a.b.job] = field THEN None ELSE field)
                 ELSE None
  BY DEF Becoming
<1>2. CASE batch.context = "post_move"
  <2>1. Measured /\ scene.jobs[batch.job] = batch.last
    BY <1>0, <1>2 DEF Measured, Itinerary
  <2>2. /\ a.e = Remeasured(e, x) /\ ToMeasure(a.b, a.e)
        /\ a.b \in Batches /\ a.b.job = batch.job /\ a.b.last = batch.last
    BY <1>0, <1>2, <2>1, PollFacts
  <2> HIDE DEF a
  <2>3. batch'.last # None /\ field = batch'.last /\ ~driven
    BY <1>0, <1>1, <2>1, <2>2, JobFields DEF Itinerary
  <2>4. /\ \/ batch'.phase = "measuring" /\ batch'.context = "none"
           \/ batch'.phase = "wait" /\ batch'.context = "post_move"
        /\ driven' = FALSE
    BY <1>0, <1>1, <2>2, <2>3 DEF ToMeasure, Trip
  <2>5. Itinerary' /\ Measured'
    BY <1>0, <1>1, <2>1, <2>2, <2>3, <2>4, RouteMeasures
  <2>6. from' \in Fields \cup {None}
    BY <1>1, <2>4
  <2>7. QED
    BY <1>1, <1>2, <2>1, <2>2, <2>5, <2>6
<1>3. CASE batch.context # "post_move"
  <2>1. scene.jobs[batch.job] # batch.last
    BY <1>0, <1>3 DEF Itinerary
  <2>2. /\ a.e = Evaluate(e, x)
        /\ \/ a.b = Idle
           \/ /\ ToMove(a.b, a.e, x)
              /\ a.b \in Batches /\ a.b.job = batch.job /\ a.b.last = batch.last
    BY <1>0, <1>3, <2>1, PollFacts
  <2> HIDE DEF a
  <2>3. CASE a.b = Idle
    <3>1. batch' \in Batches /\ Itinerary' /\ ~Measured'
      BY <1>0, <1>1, <2>3, RouteEnds
    <3>2. from' = None
      BY <1>1, <2>3, IdleFacts
    <3>3. QED
      BY <1>1, <1>3, <2>2, <2>3, <3>1, <3>2
  <2>4. CASE ToMove(a.b, a.e, x) /\ a.b \in Batches /\ a.b.job = batch.job /\ a.b.last = batch.last
    <3>1. \/ batch'.phase = "moving" /\ batch'.context = "none"
          \/ batch'.phase = "wait" /\ batch'.context \in {"preflight", "pre_move"}
      BY <1>1, <2>4 DEF ToMove
    <3>2. heated' \in BOOLEAN /\ (heated' => heated /\ batch.phase # "idle")
      BY <1>0 DEF Trip
    <3>3. Itinerary' /\ ~Measured' /\ from' \in Fields \cup {None}
      BY <1>0, <1>1, <2>1, <2>4, <3>1, <3>2, RouteOn
    <3>4. QED
      BY <1>1, <1>3, <2>2, <2>4, <3>3
  <2>5. QED
    BY <2>2, <2>3, <2>4
<1>4. QED
  BY <1>2, <1>3

\* The same dwell, evaluated at a newer sight.
LEMMA BackedEvaluated ==
    ASSUME Clocks, Backed, NEW x \in Sights
    PROVE  LET g == Evaluate(ev, x) IN
             g.msince # None => aim = g.mset /\ steady >= g.msince
  BY EvaluateFacts DEF Clocks, Backed

LEMMA SeriesReading ==
    ASSUME SeriesSound, PanelSound', Reading
    PROVE  SeriesSound' /\ Started
<1>1. UNCHANGED <<seen, due, field, driven, scene, series>>
  BY DEF Reading, Settle, bounds
<1>2. CASE ~Head(told).ok
  <2>1. UNCHANGED <<snap, ev, batch, from, calm, steady, aim, heated>>
    BY <1>2 DEF Reading, panelVars, ghosts
  <2>2. /\ field' \in Fields /\ driven' \in BOOLEAN /\ from' \in Fields \cup {None}
        /\ seen' \in Fields \cup {None} /\ due' \subseteq due /\ ("panel" \in due => "panel" \in due')
    BY <1>1, <2>1 DEF SeriesSound, Trip
  <2>3. QED
    BY <1>1, <2>1, <2>2, SeriesAside, NothingStarted
<1>3. CASE Head(told).ok
  <2> DEFINE r == Head(told).r
             x == [r |-> r, age |-> 0, field |-> seen]
             f == Evaluate(ev, x)
             a == BatchSees(batch, f, x)
  <2>1. snap' = r /\ Becoming(a) /\ Witnessed(x) /\ heated' = heated
    BY <1>3 DEF Reading
  <2>2. x \in Sights /\ snap' = x.r
    <3>1. r \in Readings
      <4>1. snap' \in scene'.readings \cup {Bad} /\ scene' \in Scenes
        BY DEF PanelSound, PanelTyped
      <4>2. QED
        BY <1>1, <2>1, <4>1, SceneReadings DEF PanelSound
    <3>2. QED
      BY <2>1, <3>1 DEF SeriesSound, Trip, Sights
  <2> HIDE DEF x
  <2>3. /\ scene \in Scenes /\ Goal \in Goals /\ batch \in Batches /\ Trip /\ Itinerary /\ Clocks
        /\ ev \in Evaluators /\ scene.jobs[batch.job] \in Fields
    <3>1. scene \in Scenes /\ Goal \in Goals /\ batch \in Batches /\ Trip /\ Itinerary /\ Clocks
      BY SightTyped DEF SeriesSound, PanelSound, Trip
    <3>2. QED
      BY <3>1, JobFields DEF Itinerary, Clocks
  <2>4. f \in Evaluators /\ f.ran = ev.ran
    BY <2>2, <2>3, EvaluateFacts
  <2>5. \/ a.e = f /\ a.b = Idle
        \/ a.e = f /\ a.b = batch /\ batch.phase \in {"idle", "moving"}
        \/ a.e = Remeasured(f, x) /\ a.b = batch /\ batch.phase = "measuring"
        \/ a = PollCooldown(batch, f, x, FALSE) /\ batch.phase = "wait"
    BY <2>2, <2>3, BatchSeesFacts
  <2>6. /\ batch' = a.b /\ ev' = a.e
        /\ from' = IF a.b.phase = "moving" /\ batch.phase # "moving"
                   THEN (IF driven \/ scene.jobs[a.b.job] = field THEN None ELSE field)
                   ELSE IF a.b.phase = "moving" THEN from ELSE None
    BY <2>1 DEF Becoming
  <2> HIDE DEF a
  <2>7. ASSUME Itinerary', batch' \in Batches, from' \in Fields \cup {None}
        PROVE  Trip'
    BY <1>1, <2>1, <2>3, <2>7 DEF Trip, Batches
  <2>8. CASE a.e = f /\ (a.b = Idle \/ (a.b = batch /\ batch.phase \in {"idle", "moving"}))
    <3>1. batch' \in Batches /\ Itinerary' /\ ~Measured'
      <4>1. CASE a.b = Idle
        BY <1>1, <2>3, <2>6, <4>1, RouteEnds
      <4>2. CASE a.b = batch /\ batch.phase \in {"idle", "moving"}
        <5>1. ~Measured
          BY <4>2 DEF Measured
        <5>2. batch.phase = "moving" => from' = from
          BY <2>6, <4>2
        <5>3. QED
          BY <1>1, <2>1, <2>3, <2>6, <4>2, <5>1, <5>2, RouteSame
      <4>3. QED
        BY <2>8, <4>1, <4>2
    <3>2. from' \in Fields \cup {None}
      BY <2>3, <2>6, <2>8, IdleFacts DEF Trip
    <3>3. /\ series' = 0 => series = 0 /\ batch' = Idle
          /\ series' = 1 /\ batch'.phase # "idle" /\ batch'.last = None => ev.msince = None
      BY <1>1, <2>6, <2>8, IdleFacts DEF SeriesSound, Steadily
    <3>4. SeriesSound'
      BY <2>1, <2>2, <2>6, <2>7, <2>8, <3>1, <3>2, <3>3, AsksMove
    <3>5. QED
      BY <2>6, <2>8, <3>4, NothingStarted
  <2>9. ASSUME Measured PROVE (heated \/ series = 1 => (f.msince # None => aim = f.mset /\ steady >= f.msince)) /\ series # 0
    <3>1. series # 0
      BY <2>9, IdleFacts DEF Measured, SeriesSound, Steadily
    <3>2. heated \/ series = 1 => Backed
      BY <2>9 DEF SeriesSound, Steadily
    <3>3. QED
      BY <2>2, <2>3, <3>1, <3>2, BackedEvaluated
  <2>10. CASE a.e = Remeasured(f, x) /\ a.b = batch /\ batch.phase = "measuring"
    <3>1. Measured /\ Itinerary' /\ Measured'
      <4>1. Measured
        BY <2>10 DEF Measured
      <4>2. QED
        BY <1>1, <2>1, <2>3, <2>6, <2>10, <4>1, RouteSame
    <3>2. batch' \in Batches /\ from' \in Fields \cup {None}
      BY <2>3, <2>6, <2>10
    <3>3. ev' = Remeasured(f, x) /\ batch' = batch
      BY <2>6, <2>10
    <3>4. SeriesSound'
      BY <1>1, <2>1, <2>2, <2>4, <2>7, <2>9, <3>1, <3>2, <3>3, AsksMeasurement
    <3>5. QED
      BY <3>3, <3>4, NothingStarted
  <2>11. CASE a = PollCooldown(batch, f, x, FALSE) /\ batch.phase = "wait"
    <3>0. FALSE \in BOOLEAN /\ Becoming(PollCooldown(batch, f, x, FALSE))
      BY <2>1, <2>11 DEF a
    <3> HIDE DEF f
    <3>1. /\ Itinerary' /\ batch' \in Batches /\ from' \in Fields \cup {None}
          /\ \/ /\ batch.context = "post_move" /\ Measured /\ Measured'
                /\ ev' = Remeasured(f, x) /\ ToMeasure(batch', ev')
             \/ /\ batch.context # "post_move" /\ ~Measured'
                /\ ev' = Evaluate(f, x)
                /\ batch' = Idle \/ (ToMove(batch', ev', x) /\ batch'.last = batch.last)
      BY <1>1, <2>1, <2>2, <2>4, <2>11, <3>0, PollRoute
    <3>2. CASE Measured' /\ Measured /\ ev' = Remeasured(f, x) /\ ToMeasure(batch', ev')
      <4>1. SeriesSound'
        BY <1>1, <2>1, <2>2, <2>4, <2>7, <2>9, <3>1, <3>2, AsksMeasurement DEF f
      <4>2. Started
        BY <1>1, <3>2 DEF Started, Starting, ToMeasure
      <4>3. QED
        BY <4>1, <4>2
    <3>3. CASE /\ ~Measured' /\ ev' = Evaluate(f, x)
               /\ batch' = Idle \/ (ToMove(batch', ev', x) /\ batch'.last = batch.last)
      <4>1. ev' = Evaluate(ev, x) /\ ev'.ran = ev.ran
        BY <2>2, <2>3, <2>4, <3>3, EvaluatedTwice DEF f
      <4>2. /\ series' = 0 => series = 0 /\ batch' = Idle
            /\ series' = 1 /\ batch'.phase # "idle" /\ batch'.last = None => ev.msince = None
        BY <1>1, <2>11, <3>3, IdleFacts DEF SeriesSound, Steadily
      <4>3. SeriesSound'
        BY <2>1, <2>2, <2>7, <3>1, <3>3, <4>1, <4>2, AsksMove
      <4>4. Started
        BY <3>3, <4>1, IdleFacts DEF Started, Starting, ToMove
      <4>5. QED
        BY <4>3, <4>4
    <3>4. QED
      BY <3>1, <3>2, <3>3
  <2>12. QED
    BY <2>5, <2>8, <2>10, <2>11
<1>4. QED
  BY <1>2, <1>3

LEMMA SeriesEnds ==
    ASSUME SeriesSound, PanelSound', scene' = scene, Ending,
           UNCHANGED <<due, seen, heated, series, field, driven>>
    PROVE  SeriesSound' /\ Started
<1>1. /\ batch' = Idle /\ ev' = ev /\ UNCHANGED <<calm, steady, aim>> /\ snap' = snap
      /\ from' = None
  BY IdleFacts DEF Ending, Batch, Becoming, Answer, Unseen, panelVars
<1>2. Clocks'
  BY <1>1 DEF SeriesSound, Clocks, Evaluators
<1>3. Counting'
  BY <1>1, RecoveredSight DEF SeriesSound, Counting
<1>4. batch' \in Batches /\ Itinerary' /\ ~Measured'
  BY <1>1, RouteEnds DEF SeriesSound, PanelSound
<1>5. Trip'
  BY <1>1, <1>4 DEF SeriesSound, Trip, Batches
<1>6. Steadily'
  BY <1>1, <1>4, IdleFacts DEF SeriesSound, Steadily
<1>7. QED
  BY <1>1, <1>2, <1>3, <1>4, <1>5, <1>6, NothingStarted DEF SeriesSound

\* What a question of the batch leaves alone.
LEMMA AskingFacts ==
    ASSUME NEW a, Asking(a)
    PROVE  /\ Becoming(a) /\ snap' = snap /\ scene' = scene
           /\ Unknown /\ AboutMeasurement => Unseen
           /\ ~(Unknown /\ AboutMeasurement) => Witnessed(Sight)
  BY DEF Asking, Batch, panelVars

LEMMA SeriesFacts ==
    ASSUME SeriesSound
    PROVE  /\ scene \in Scenes /\ Goal \in Goals /\ Sight \in Sights /\ Sight.r = snap
           /\ ev \in Evaluators /\ batch \in Batches /\ Trip /\ Itinerary /\ Clocks
           /\ scene.jobs[batch.job] \in Fields /\ batch.job \in 1 .. Len(scene.jobs)
<1>1. scene \in Scenes /\ Goal \in Goals /\ Sight \in Sights /\ Sight.r = snap
  BY SightTyped DEF SeriesSound, PanelSound
<1>2. ev \in Evaluators /\ batch \in Batches /\ Trip /\ Itinerary /\ Clocks
  BY DEF SeriesSound, Clocks, Trip
<1>3. QED
  BY <1>1, <1>2, JobFields DEF Itinerary

\* A series with a measurement going or awaited.
LEMMA WhileMeasured ==
    ASSUME SeriesSound, Measured
    PROVE  series # 0 /\ (series = 1 \/ heated => Backed)
  BY IdleFacts DEF Measured, SeriesSound, Steadily

LEMMA SeriesPolls ==
    ASSUME SeriesSound, PanelSound', NEW pressed \in BOOLEAN, batch.phase = "wait",
           Asking(PollCooldown(batch, ev, Sight, pressed)),
           due' \subseteq due, "panel" \in due => "panel" \in due',
           UNCHANGED <<field, driven, seen, series, heated>>
    PROVE  SeriesSound' /\ Started
<1>0. /\ Becoming(PollCooldown(batch, ev, Sight, pressed)) /\ snap' = snap /\ scene' = scene
      /\ Unknown /\ AboutMeasurement => Unseen
      /\ ~(Unknown /\ AboutMeasurement) => Witnessed(Sight)
  BY AskingFacts
<1>1. /\ Itinerary' /\ batch' \in Batches /\ from' \in Fields \cup {None}
      /\ \/ /\ batch.context = "post_move" /\ Measured /\ Measured'
            /\ ev' = Remeasured(ev, Sight) /\ ToMeasure(batch', ev')
         \/ /\ batch.context # "post_move" /\ ~Measured'
            /\ ev' = Evaluate(ev, Sight)
            /\ batch' = Idle \/ (ToMove(batch', ev', Sight) /\ batch'.last = batch.last)
  BY <1>0, SeriesFacts, PollRoute
<1>2. Trip'
  BY <1>1, SeriesFacts DEF Trip, Batches
<1>3. AboutMeasurement <=> batch.context = "post_move"
  BY DEF AboutMeasurement
<1>4. CASE Measured' /\ Measured /\ batch.context = "post_move" /\ ev' = Remeasured(ev, Sight) /\ ToMeasure(batch', ev')
  <2>1. (Unknown /\ Unseen) \/ (~Unknown /\ Witnessed(Sight))
    BY <1>0, <1>3, <1>4
  <2>2. series' # 0 /\ (series' = 1 \/ heated' => (ev.msince # None => aim = ev.mset /\ steady >= ev.msince))
    BY <1>4, WhileMeasured DEF Backed
  <2>3. SeriesSound'
    BY <1>0, <1>1, <1>2, <1>4, <2>1, <2>2, SeriesFacts, AsksMeasurement
  <2>4. Started
    BY <1>4 DEF Started, Starting, ToMeasure
  <2>5. QED
    BY <2>3, <2>4
<1>5. CASE /\ ~Measured' /\ batch.context # "post_move" /\ ev' = Evaluate(ev, Sight)
           /\ batch' = Idle \/ (ToMove(batch', ev', Sight) /\ batch'.last = batch.last)
  <2>1. Witnessed(Sight) /\ snap' = Sight.r
    BY <1>0, <1>3, <1>5, SeriesFacts
  <2>2. /\ series' = 0 => series = 0 /\ batch' = Idle
        /\ series' = 1 /\ batch'.phase # "idle" /\ batch'.last = None => ev.msince = None
    BY <1>5, IdleFacts DEF SeriesSound, Steadily
  <2>3. SeriesSound'
    BY <1>1, <1>2, <1>5, <2>1, <2>2, SeriesFacts, AsksMove
  <2>4. ev'.ran = ev.ran
    BY <1>5, SeriesFacts, EvaluateFacts
  <2>5. Started
    BY <1>5, <2>4, IdleFacts DEF Started, Starting, ToMove
  <2>6. QED
    BY <2>3, <2>5
<1>6. QED
  BY <1>1, <1>4, <1>5

LEMMA SeriesTimer ==
    ASSUME SeriesSound, PanelSound', BatchTimer
    PROVE  SeriesSound' /\ Started
<1>1. /\ due' \subseteq due /\ ("panel" \in due => "panel" \in due')
      /\ UNCHANGED <<field, driven, seen, series, heated>>
  BY DEF BatchTimer
<1>2. FALSE \in BOOLEAN
  OBVIOUS
<1>3. CASE batch.phase = "wait" /\ Asking(PollCooldown(batch, ev, Sight, FALSE))
  BY <1>1, <1>2, <1>3, SeriesPolls
<1>4. CASE /\ batch.phase = "measuring"
           /\ Batch(Answer(IF Stopped(batch, Sight) THEN Idle ELSE batch, Live(batch, ev, Sight)))
           /\ calm' = Noted(calm, calm # None /\ Proper(Sight))
           /\ steady' = Noted(steady, steady # None /\ Proper(Sight)) /\ UNCHANGED aim
  <2>1. /\ batch' = (IF Stopped(batch, Sight) THEN Idle ELSE batch)
        /\ ev' = Continue(ev, Sight) /\ snap' = snap /\ scene' = scene /\ from' = None
    BY <1>4, IdleFacts DEF Batch, Becoming, Answer, Live, panelVars
  <2>2. SeriesSound'
    BY <1>1, <1>4, <2>1, Watches
  <2>3. QED
    BY <2>1, <2>2, NothingStarted
<1>5. CASE /\ batch.phase \in {"idle", "moving"}
           /\ Batch(Answer(batch, ev)) /\ Unseen
  <2>1. /\ batch' = batch /\ ev' = ev /\ snap' = snap /\ scene' = scene
        /\ UNCHANGED <<calm, steady, aim>>
        /\ from' = IF batch.phase = "moving" THEN from ELSE None
    BY <1>5 DEF Batch, Becoming, Answer, Unseen, panelVars
  <2>2. /\ field' \in Fields /\ driven' \in BOOLEAN /\ seen' \in Fields \cup {None}
        /\ from' \in Fields \cup {None} /\ (batch.phase = "moving" => from' = from)
    BY <1>1, <2>1 DEF SeriesSound, Trip
  <2>3. SeriesSound'
    BY <1>1, <2>1, <2>2, SeriesAside
  <2>4. QED
    BY <2>1, <2>3, NothingStarted
<1>6. QED
  BY <1>3, <1>4, <1>5 DEF BatchTimer

\* The next field after a measurement.
LEMMA SeriesGoesOn ==
    ASSUME SeriesSound, PanelSound', MeasurementEnds
    PROVE  SeriesSound' /\ Started
<1>1. /\ UNCHANGED <<field, driven, seen, due, series, heated>> /\ batch.phase = "measuring"
  BY DEF MeasurementEnds
<1>2. CASE batch.job = Len(scene.jobs) /\ Ending
  BY <1>1, <1>2, SeriesEnds DEF Ending, Batch
<1>3. CASE /\ batch.job < Len(scene.jobs)
           /\ Asking(RequestNextMove([batch EXCEPT !.job = @ + 1, !.phase = "idle"], ev, Sight))
  <2> DEFINE b == [batch EXCEPT !.job = @ + 1, !.phase = "idle"]
             a == RequestNextMove(b, ev, Sight)
  <2>1. /\ b \in Batches /\ b.job = batch.job + 1 /\ b.last = batch.last
    <3>1. batch \in Batches /\ batch.job + 1 \in Nat
      BY SeriesFacts DEF Batches
    <3>2. QED
      BY <3>1 DEF Batches
  <2>2. b.job \in 1 .. Len(scene.jobs) /\ scene.jobs[b.job] \in Fields /\ b.job # batch.job
    <3>1. batch.job + 1 \in 1 .. Len(scene.jobs)
      BY <1>3, SeriesFacts, JobFields
    <3>2. batch.job + 1 # batch.job
      BY SeriesFacts, JobFields
    <3>3. QED
      BY <2>1, <3>1, <3>2, SeriesFacts, JobFields
  <2>3. Asking(a)
    BY <1>3
  <2> HIDE DEF b
  <2>4. /\ a.b \in Batches /\ a.b.job = b.job /\ a.b.last = b.last
        /\ scene.jobs[b.job] = b.last => a.e = Remeasured(ev, Sight) /\ ToMeasure(a.b, a.e)
        /\ scene.jobs[b.job] # b.last =>
             a.e = Evaluate(ev, Sight) /\ ToMove(a.b, a.e, Sight) /\ a.b.context # "preflight"
    BY <2>1, <2>2, SeriesFacts, NextMoveFacts
  <2> HIDE DEF a
  <2>5. /\ Becoming(a) /\ snap' = snap /\ scene' = scene
        /\ Unknown /\ AboutMeasurement => Unseen
        /\ ~(Unknown /\ AboutMeasurement) => Witnessed(Sight)
    BY <2>3, AskingFacts
  <2>6. /\ batch' = a.b /\ ev' = a.e
        /\ from' = IF a.b.phase = "moving"
                   THEN (IF driven \/ scene.jobs[a.b.job] = field THEN None ELSE field)
                   ELSE None
    BY <1>1, <2>5 DEF Becoming
  <2>7. /\ Measured /\ batch.context = "none" /\ field = batch.last /\ ~driven
    <3>1. Measured /\ batch.context = "none" /\ batch.last = scene.jobs[batch.job]
      BY <1>1, SeriesFacts DEF Measured, Itinerary
    <3>2. batch.last # None
      BY <3>1, SeriesFacts, JobFields
    <3>3. QED
      BY <1>1, <3>1, <3>2, SeriesFacts DEF Itinerary
  <2>8. AboutMeasurement <=> scene.jobs[b.job] = b.last
    BY <1>1, <2>1, <2>7 DEF AboutMeasurement
  <2>9. CASE scene.jobs[b.job] = b.last
    <3>1. ToMeasure(batch', ev') /\ ev' = Remeasured(ev, Sight)
      BY <2>4, <2>6, <2>9
    <3>2. \/ batch'.phase = "measuring" /\ batch'.context = "none"
          \/ batch'.phase = "wait" /\ batch'.context = "post_move"
      BY <3>1 DEF ToMeasure
    <3>3. driven' = FALSE /\ field' = batch'.last /\ from' = None
      BY <1>1, <2>1, <2>4, <2>6, <2>7, <3>2, SeriesFacts DEF Trip
    <3>4. Itinerary' /\ Measured'
      BY <2>1, <2>2, <2>4, <2>5, <2>6, <2>9, <3>2, <3>3, SeriesFacts, RouteMeasures
    <3>5. Trip'
      BY <1>1, <2>4, <2>6, <3>3, SeriesFacts DEF Trip, Batches
    <3>6. (Unknown /\ Unseen) \/ (~Unknown /\ Witnessed(Sight))
      BY <2>5, <2>8, <2>9
    <3>7. series' # 0 /\ (series' = 1 \/ heated' => (ev.msince # None => aim = ev.mset /\ steady >= ev.msince))
      BY <1>1, <2>7, WhileMeasured DEF Backed
    <3>8. SeriesSound'
      BY <1>1, <2>5, <3>1, <3>4, <3>5, <3>6, <3>7, SeriesFacts, AsksMeasurement
    <3>9. Started
      BY <1>1, <3>1, <3>2 DEF Started, Starting, ToMeasure
    <3>10. QED
      BY <3>8, <3>9
  <2>10. CASE scene.jobs[b.job] # b.last
    <3>1. ToMove(batch', ev', Sight) /\ ev' = Evaluate(ev, Sight) /\ batch'.last = batch.last
      BY <2>1, <2>4, <2>6, <2>10
    <3>2. \/ batch'.phase = "moving" /\ batch'.context = "none"
          \/ batch'.phase = "wait" /\ batch'.context \in {"preflight", "pre_move"}
      BY <3>1 DEF ToMove
    <3>3. heated' \in BOOLEAN /\ (heated' => heated /\ batch.phase # "idle")
      BY <1>1, SeriesFacts DEF Trip
    <3>4. Itinerary' /\ ~Measured' /\ from' \in Fields \cup {None}
      BY <1>1, <2>1, <2>2, <2>4, <2>5, <2>6, <2>10, <3>1, <3>2, <3>3, SeriesFacts, RouteOn
    <3>5. Trip'
      BY <1>1, <2>4, <2>6, <3>4, SeriesFacts DEF Trip, Batches
    <3>6. Witnessed(Sight) /\ snap' = Sight.r
      BY <2>5, <2>8, <2>10, SeriesFacts
    <3>7. series # 0 /\ batch.last # None
      BY <2>7, SeriesFacts, JobFields, WhileMeasured DEF Trip
    <3>8. SeriesSound'
      BY <1>1, <3>1, <3>4, <3>5, <3>6, <3>7, SeriesFacts, AsksMove
    <3>9. ev'.ran = ev.ran
      BY <3>1, SeriesFacts, EvaluateFacts
    <3>10. Started
      BY <3>1, <3>9 DEF Started, Starting, ToMove
    <3>11. QED
      BY <3>8, <3>10
  <2>11. QED
    BY <2>9, <2>10
<1>4. QED
  BY <1>2, <1>3 DEF MeasurementEnds

\* A series starts with the permission, or waits for it.
LEMMA SeriesStarts ==
    ASSUME SeriesSound, PanelSound', StartSeries
    PROVE  SeriesSound' /\ Started
<1>1. /\ UNCHANGED <<field, driven, seen, due>> /\ heated' = FALSE /\ batch = Idle
      /\ series' = series + 1
  BY DEF StartSeries
<1> DEFINE q == AskMove(ev, Sight)
           a == CASE q.verdict = "safe" -> RequestNextMove(Idle, q.e, Sight)
                  [] q.verdict \in {"dwell", "interval"} -> Answer(Enter(Idle, "wait", "preflight"), q.e)
                  [] OTHER -> Answer(Idle, q.e)
<1>2. Asking(a)
  BY DEF StartSeries
<1>3. q.e = Evaluate(ev, Sight) /\ q.e \in Evaluators /\ q.e.ran = ev.ran
  BY SeriesFacts, EvaluateFacts DEF AskMove, Says
<1> HIDE DEF q
<1>4. Idle.job \in 1 .. Len(scene.jobs) /\ scene.jobs[Idle.job] \in Fields /\ scene.jobs[Idle.job] # Idle.last
  BY SeriesFacts, JobFields, IdleFacts
<1>5. \/ a = RequestNextMove(Idle, q.e, Sight)
      \/ a = Answer(Enter(Idle, "wait", "preflight"), q.e)
      \/ a = Answer(Idle, q.e)
  <2>1. q.verdict = "safe" => a = RequestNextMove(Idle, q.e, Sight)
    OBVIOUS
  <2>2. q.verdict \in {"dwell", "interval"} => a = Answer(Enter(Idle, "wait", "preflight"), q.e)
    OBVIOUS
  <2>3. ~(q.verdict = "safe") /\ ~(q.verdict \in {"dwell", "interval"}) => a = Answer(Idle, q.e)
    OBVIOUS
  <2>4. QED
    BY <2>1, <2>2, <2>3
<1> HIDE DEF a
<1>6. /\ a.e = Evaluate(ev, Sight)
      /\ \/ a.b = Idle
         \/ ToMove(a.b, a.e, Sight) /\ a.b \in Batches /\ a.b.job = Idle.job /\ a.b.last = Idle.last
  <2>1. CASE a = RequestNextMove(Idle, q.e, Sight)
    <3>1. /\ a.b \in Batches /\ a.b.job = Idle.job /\ a.b.last = Idle.last
          /\ a.e = Evaluate(q.e, Sight) /\ ToMove(a.b, a.e, Sight)
      BY <1>3, <1>4, <2>1, IdleFacts, SeriesFacts, NextMoveFacts
    <3>2. QED
      BY <1>3, <3>1, SeriesFacts, EvaluatedTwice
  <2>2. CASE a = Answer(Enter(Idle, "wait", "preflight"), q.e)
    <3>1. a.b = Enter(Idle, "wait", "preflight") /\ a.e = q.e
      BY <2>2 DEF Answer
    <3>2. /\ a.b \in Batches /\ a.b.phase = "wait" /\ a.b.context = "preflight"
          /\ a.b.job = Idle.job /\ a.b.last = Idle.last
      BY <3>1, IdleFacts, EnterFacts
    <3>3. QED
      BY <1>3, <3>1, <3>2 DEF ToMove
  <2>3. CASE a = Answer(Idle, q.e)
    BY <1>3, <2>3 DEF Answer
  <2>4. QED
    BY <1>5, <2>1, <2>2, <2>3
<1>7. /\ Becoming(a) /\ snap' = snap /\ scene' = scene
      /\ ~(Unknown /\ AboutMeasurement) => Witnessed(Sight)
  BY <1>2, AskingFacts
<1>8. ~AboutMeasurement
  BY <1>1, IdleFacts DEF AboutMeasurement
<1>9. /\ batch' = a.b /\ ev' = a.e
      /\ from' = IF a.b.phase = "moving"
                 THEN (IF driven \/ scene.jobs[a.b.job] = field THEN None ELSE field)
                 ELSE None
  BY <1>1, <1>7, IdleFacts DEF Becoming
<1>10. batch' \in Batches /\ Itinerary' /\ ~Measured' /\ from' \in Fields \cup {None}
  <2>1. CASE a.b = Idle
    <3>1. batch' \in Batches /\ Itinerary' /\ ~Measured'
      BY <1>7, <1>9, <2>1, SeriesFacts, RouteEnds
    <3>2. QED
      BY <1>9, <2>1, <3>1, IdleFacts
  <2>2. CASE ToMove(a.b, a.e, Sight) /\ a.b \in Batches /\ a.b.job = Idle.job /\ a.b.last = Idle.last
    <3>1. \/ batch'.phase = "moving" /\ batch'.context = "none"
          \/ batch'.phase = "wait" /\ batch'.context \in {"preflight", "pre_move"}
      BY <1>9, <2>2 DEF ToMove
    <3>2. heated' \in BOOLEAN /\ (heated' => heated /\ batch.phase # "idle")
      BY <1>1
    <3>3. batch'.last = batch.last /\ batch.phase # "moving" /\ batch'.job \in 1 .. Len(scene.jobs)
          /\ scene.jobs[batch'.job] # batch'.last
      BY <1>1, <1>4, <1>9, <2>2, IdleFacts
    <3>4. QED
      BY <1>1, <1>7, <1>9, <2>2, <3>1, <3>2, <3>3, SeriesFacts, RouteOn
  <2>3. QED
    BY <1>6, <2>1, <2>2
<1>11. Trip'
  <2>1. series' \in Nat /\ heated' \in BOOLEAN
    <3>1. series \in Nat
      BY SeriesFacts DEF Trip
    <3>2. series' \in Nat
      BY <1>1, <3>1
    <3>3. heated' \in BOOLEAN
      BY <1>1
    <3>4. QED
      BY <3>2, <3>3
  <2>2. QED
    BY <1>1, <1>10, <2>1, SeriesFacts DEF Trip, Batches
<1>12. /\ series' = 0 => series = 0 /\ batch' = Idle
       /\ series' = 1 /\ batch'.phase # "idle" /\ batch'.last = None => ev.msince = None
  <2>1. series \in Nat
    BY SeriesFacts DEF Trip
  <2>2. series' # 0 /\ (series' = 1 => series = 0)
    BY <1>1, <2>1
  <2>3. QED
    BY <2>2 DEF SeriesSound, Steadily
<1>13. snap' = Sight.r /\ Witnessed(Sight)
  BY <1>7, <1>8, SeriesFacts
<1>14. SeriesSound'
  BY <1>6, <1>9, <1>10, <1>11, <1>12, <1>13, SeriesFacts, AsksMove
<1>15. Started
  BY <1>3, <1>6, <1>9, IdleFacts, SeriesFacts, EvaluateFacts DEF Started, Starting, ToMove
<1>16. QED
  BY <1>14, <1>15

\* The field is verified: a cycle of the switch heater begins the dwell anew,
\* and a move that began at another verified field has had one.
LEMMA SeriesArrives ==
    ASSUME SeriesSound, PanelSound', Arrive
    PROVE  SeriesSound' /\ Started
<1>1. PICK ran \in BOOLEAN :
        /\ from # None => ran
        /\ Asking(Verify(batch, ev, Sight, ran)) /\ heated' = (heated \/ ran)
  BY DEF Arrive
<1>2. /\ batch.phase = "moving" /\ scene.jobs[batch.job] = field
      /\ driven' = FALSE /\ seen' = field /\ UNCHANGED <<field, due, series>>
  BY DEF Arrive, Goes
<1> DEFINE g == IF ran THEN NoteHeater(ev) ELSE ev
           a == Verify(batch, ev, Sight, ran)
<1>3. /\ g \in Evaluators /\ g.since = ev.since /\ (ran => g.msince = None)
  BY SeriesFacts, NoteHeaterFacts
<1>4. ~ran => g = ev
  OBVIOUS
<1>5. /\ a.e = Remeasured(g, Sight) /\ a.b \in Batches /\ a.b.job = batch.job
      /\ a.b.last = scene.jobs[batch.job] /\ ToMeasure(a.b, a.e)
  BY SeriesFacts, VerifyFacts
<1> HIDE DEF g, a
<1>6. /\ Becoming(a) /\ snap' = snap /\ scene' = scene
      /\ Unknown /\ AboutMeasurement => Unseen
      /\ ~(Unknown /\ AboutMeasurement) => Witnessed(Sight)
  BY <1>1, AskingFacts DEF a
<1>7. (Unknown /\ Unseen) \/ (~Unknown /\ Witnessed(Sight))
  BY <1>2, <1>6 DEF AboutMeasurement
<1>8. /\ ToMeasure(batch', ev') /\ ev' = Remeasured(g, Sight) /\ batch' \in Batches
      /\ batch'.job = batch.job /\ batch'.last = field
  BY <1>2, <1>5, <1>6 DEF Becoming
<1>9. \/ batch'.phase = "measuring" /\ batch'.context = "none"
      \/ batch'.phase = "wait" /\ batch'.context = "post_move"
  BY <1>8 DEF ToMeasure
<1>10. from' = None
  BY <1>2, <1>6, <1>8, <1>9 DEF Becoming
<1>11. Itinerary' /\ Measured'
  BY <1>2, <1>6, <1>8, <1>9, SeriesFacts, RouteMeasures
<1>12. Trip'
  <2>1. heated' \in BOOLEAN
    BY <1>1
  <2>2. QED
    BY <1>2, <1>8, <1>10, <2>1, SeriesFacts DEF Trip, Batches
<1>13. series' # 0
  BY <1>2, IdleFacts DEF SeriesSound, Steadily
<1>14. series' = 1 \/ heated' => (g.msince # None => aim = g.mset /\ steady >= g.msince)
  <2>1. CASE ran
    BY <1>3, <2>1
  <2>2. CASE ~ran
    <3>1. from = None /\ heated' = heated
      BY <1>1, <2>2, SeriesFacts DEF Trip
    <3>2. batch.last = None
      BY <1>2, <3>1, SeriesFacts DEF Itinerary
    <3>3. ~heated
      BY <1>2, <3>2, SeriesFacts DEF Itinerary
    <3>4. series = 1 => ev.msince = None
      BY <1>2, <3>2 DEF SeriesSound, Steadily
    <3>5. QED
      BY <1>2, <1>4, <2>2, <3>1, <3>3, <3>4
  <2>3. QED
    BY <2>1, <2>2
<1>15. SeriesSound'
  BY <1>2, <1>3, <1>6, <1>7, <1>8, <1>11, <1>12, <1>13, <1>14, SeriesFacts, AsksMeasurement
<1>16. Started
  BY <1>2, <1>8, <1>9 DEF Started, Starting, ToMeasure
<1>17. QED
  BY <1>15, <1>16

\* The magnet on its way, and its reports.
LEMMA SeriesField ==
    ASSUME SeriesSound, PanelSound', FieldStep \/ FieldRefused \/ MagnetReport \/ MagnetLost
    PROVE  SeriesSound' /\ Started
<1>1. CASE FieldStep
  <2>1. /\ batch.phase = "moving" /\ field' = Next1 /\ driven' = TRUE
        /\ UNCHANGED <<ev, batch, from, seen, due, calm, steady, aim, heated, scene, series, snap>>
    BY <1>1 DEF FieldStep, bounds, ghosts, panelVars
  <2>2. field' \in Fields
    <3>1. field \in Fields /\ Goes \in Fields /\ field \in Nat /\ Goes \in Nat
      BY SeriesFacts, JobFields DEF Goes, Trip
    <3>2. field .. Goes \subseteq Fields /\ Goes .. field \subseteq Fields
      BY <3>1, ScenesAssumption
    <3>3. Next1 \in field .. Goes \/ Next1 \in Goes .. field \/ Next1 = field
      BY <3>1 DEF Next1
    <3>4. QED
      BY <2>1, <3>1, <3>2, <3>3
  <2>3. /\ driven' \in BOOLEAN /\ from' \in Fields \cup {None} /\ seen' \in Fields \cup {None}
        /\ due' \subseteq due /\ ("panel" \in due => "panel" \in due')
    BY <2>1, SeriesFacts DEF Trip
  <2>4. SeriesSound'
    BY <2>1, <2>2, <2>3, SeriesAside
  <2>5. QED
    BY <2>1, <2>4, NothingStarted
<1>2. CASE FieldRefused
  BY <1>2, SeriesEnds DEF FieldRefused, Ending, Batch
<1>3. CASE MagnetReport
  <2>1. /\ seen' = field
        /\ UNCHANGED <<ev, batch, field, driven, from, due, calm, steady, aim, heated, scene, series, snap>>
    BY <1>3 DEF MagnetReport, Magnet, magnetVars, panelVars
  <2>2. /\ field' \in Fields /\ driven' \in BOOLEAN /\ from' \in Fields \cup {None}
        /\ seen' \in Fields \cup {None}
        /\ due' \subseteq due /\ ("panel" \in due => "panel" \in due')
    BY <2>1, SeriesFacts DEF Trip
  <2>3. SeriesSound'
    BY <2>1, <2>2, SeriesAside
  <2>4. QED
    BY <2>1, <2>3, NothingStarted
<1>4. CASE MagnetLost
  <2>1. /\ seen' = None /\ ev' = Refuse(ev) /\ calm' = None /\ steady' = None
        /\ UNCHANGED <<batch, field, driven, from, due, aim, heated, scene, series, snap>>
    BY <1>4 DEF MagnetLost, Magnet, magnetVars, panelVars
  <2>2. SeriesSound'
    BY <2>1, SeriesCleared
  <2>3. QED
    BY <2>1, <2>2, NothingStarted
<1>5. QED
  BY <1>1, <1>2, <1>3, <1>4

\* The panel and the Lake Shore thread, as the batch sees them.
LEMMA SeriesGui ==
    ASSUME SeriesSound, PanelSound', Gui
    PROVE  SeriesSound' /\ Started
<1>1. CASE Reading
  BY <1>1, SeriesReading
<1>2. CASE Connected \/ ControlResult
  <2>1. UNCHANGED <<ev, batch, field, driven, from, seen, due, calm, steady, aim, heated, scene, series, snap>>
    BY <1>2 DEF Connected, ControlResult, Settle, bounds, ghosts
  <2>2. /\ field' \in Fields /\ driven' \in BOOLEAN /\ from' \in Fields \cup {None}
        /\ seen' \in Fields \cup {None}
        /\ due' \subseteq due /\ ("panel" \in due => "panel" \in due')
    BY <2>1, SeriesFacts DEF Trip
  <2>3. SeriesSound'
    BY <2>1, <2>2, SeriesAside
  <2>4. QED
    BY <2>1, <2>3, NothingStarted
<1>3. CASE Disconnected \/ Alarm
  <2>1. /\ ev' = Refuse(ev) /\ calm' = None /\ steady' = None /\ batch' = Idle /\ from' = None
        /\ UNCHANGED <<field, driven, seen, due, aim, heated, scene, series>>
    BY <1>3 DEF Disconnected, Alarm, Blinded, Settle, bounds
  <2>2. seen' \in Fields \cup {None}
    BY <2>1, SeriesFacts DEF Trip
  <2>3. SeriesSound'
    BY <2>1, <2>2, SeriesCleared
  <2>4. QED
    BY <2>1, <2>3, NothingStarted
<1>4. CASE PressApply \/ PressConnect \/ PressDisconnect
  <2>1. UNCHANGED <<ev, batch, field, driven, from, seen, due, calm, steady, aim, heated, scene, series, snap>>
    BY <1>4 DEF PressApply, PressConnect, PressDisconnect, Aside, Presses, magnetVars
  <2>2. /\ field' \in Fields /\ driven' \in BOOLEAN /\ from' \in Fields \cup {None}
        /\ seen' \in Fields \cup {None}
        /\ due' \subseteq due /\ ("panel" \in due => "panel" \in due')
    BY <2>1, SeriesFacts DEF Trip
  <2>3. SeriesSound'
    BY <2>1, <2>2, SeriesAside
  <2>4. QED
    BY <2>1, <2>3, NothingStarted
<1>5. CASE PressOff
  <2>1. /\ Ticked
        /\ UNCHANGED <<batch, field, driven, from, seen, due, aim, heated, scene, series, snap>>
    BY <1>5 DEF PressOff, Presses, magnetVars
  <2>2. from' \in Fields \cup {None}
    BY <2>1, SeriesFacts DEF Trip
  <2>3. SeriesSound'
    BY <2>1, <2>2, Watches DEF Ticked
  <2>4. QED
    BY <2>1, <2>3, NothingStarted
<1>6. CASE PanelTimer
  <2>1. /\ Ticked /\ due' = due \ {"panel"} /\ "panel" \in due
        /\ UNCHANGED <<batch, field, driven, from, seen, aim, heated, scene, series, snap>>
    BY <1>6 DEF PanelTimer, magnetVars, bounds
  <2>2. from' \in Fields \cup {None} /\ due' \subseteq due
    BY <2>1, SeriesFacts DEF Trip
  <2>3. SeriesSound'
    BY <2>1, <2>2, Watches DEF Ticked
  <2>4. QED
    BY <2>1, <2>3, NothingStarted
<1>7. QED
  BY <1>1, <1>2, <1>3, <1>4, <1>5, <1>6 DEF Gui

LEMMA SeriesTick == SeriesSound /\ PanelSound' /\ Tick => SeriesSound' /\ Started
<1>1. SUFFICES ASSUME SeriesSound, PanelSound', Tick PROVE SeriesSound' /\ Started
  OBVIOUS
<1>2. /\ UNCHANGED <<batch, field, driven, from, seen, aim, heated, scene, series>>
      /\ due' = {"panel", "batch"}
  BY <1>1 DEF Tick, magnetVars, bounds
<1>3. calm' \in None .. Dwell + 1 /\ Counting' /\ ev' \in Evaluators
  BY <1>1, CountTick DEF SeriesSound
<1>4. /\ steady' \in None .. LongDwell /\ (Backed => Backed')
      /\ ev.msince = None => ev'.msince = None
  BY <1>1, BackedTick DEF SeriesSound
<1>5. Clocks'
  BY <1>1, <1>2, <1>3, <1>4 DEF SeriesSound, Clocks, Evaluators, Goals
<1>6. Trip'
  BY <1>1, <1>2 DEF SeriesSound, Trip, Batches
<1>7. Itinerary' /\ (Measured' <=> Measured)
  BY <1>1, <1>2, RouteSame DEF SeriesSound
<1>8. Steadily'
  BY <1>1, <1>2, <1>4, <1>7 DEF SeriesSound, Steadily
<1>9. QED
  BY <1>1, <1>2, <1>3, <1>5, <1>6, <1>7, <1>8, NothingStarted DEF SeriesSound

\* Every step keeps the invariant, and starts only what was earned.
LEMMA SeriesStep == SeriesSound /\ [Next]_vars => SeriesSound' /\ Started
<1>1. SUFFICES ASSUME SeriesSound, [Next]_vars PROVE SeriesSound' /\ Started
  OBVIOUS
<1>2. PanelSound'
  BY <1>1, PanelStep DEF SeriesSound
<1>3. CASE Lake \/ UNCHANGED vars
  <2>1. UNCHANGED <<ev, batch, field, driven, from, seen, due, calm, steady, aim, heated, scene, series, snap>>
    <3>1. CASE Lake
      <4>1. GuiAside
        BY <1>1, <3>1, LakeStep DEF SeriesSound, PanelSound
      <4>2. QED
        BY <4>1 DEF GuiAside, panelVars, magnetVars, ghosts
    <3>2. CASE UNCHANGED vars
      BY <3>2 DEF vars, panelVars, magnetVars, bounds, ghosts
    <3>3. QED
      BY <1>3, <3>1, <3>2
  <2>2. /\ field' \in Fields /\ driven' \in BOOLEAN /\ from' \in Fields \cup {None}
        /\ seen' \in Fields \cup {None}
        /\ due' \subseteq due /\ ("panel" \in due => "panel" \in due')
    BY <1>1, <2>1, SeriesFacts DEF Trip
  <2>3. SeriesSound'
    BY <1>1, <1>2, <2>1, <2>2, SeriesAside
  <2>4. QED
    BY <2>1, <2>3, NothingStarted
<1>4. CASE Gui
  BY <1>1, <1>2, <1>4, SeriesGui
<1>5. CASE StartSeries
  BY <1>1, <1>2, <1>5, SeriesStarts
<1>6. CASE StopSeries
  BY <1>1, <1>2, <1>6, SeriesEnds DEF StopSeries, Ending, Batch
<1>7. CASE ContinueButton
  <2>1. TRUE \in BOOLEAN
    OBVIOUS
  <2>2. QED
    BY <1>1, <1>2, <1>7, <2>1, SeriesPolls DEF ContinueButton
<1>8. CASE BatchTimer
  BY <1>1, <1>2, <1>8, SeriesTimer
<1>9. CASE MeasurementEnds
  BY <1>1, <1>2, <1>9, SeriesGoesOn
<1>10. CASE FieldStep \/ FieldRefused \/ MagnetReport \/ MagnetLost
  BY <1>1, <1>2, <1>10, SeriesField
<1>11. CASE Arrive
  BY <1>1, <1>2, <1>11, SeriesArrives
<1>12. CASE Tick
  BY <1>1, <1>2, <1>12, SeriesTick
<1>13. QED
  BY <1>1, <1>3, <1>4, <1>5, <1>6, <1>7, <1>8, <1>9, <1>10, <1>11, <1>12 DEF Next, Series, Field

LEMMA SeriesInit == Init => SeriesSound
<1>1. SUFFICES ASSUME Init PROVE SeriesSound
  OBVIOUS
<1>2. scene \in Scenes /\ 0 \in Fields
  BY <1>1, ScenesAssumption DEF Init
<1>3. LakeTyped
  <2>1. inst \in Instruments
    BY <1>1, Constants DEF Init, Instruments
  <2>2. open \in BOOLEAN /\ touched \in BOOLEAN
    BY <1>1 DEF Init
  <2>3. told \in Seq(Signals) /\ todo \in Seq(Orders)
    BY <1>1 DEF Init
  <2>4. faults \in Nat /\ commands \in Nat
    BY <1>1 DEF Init
  <2>5. QED
    BY <2>1, <2>2, <2>3, <2>4 DEF LakeTyped
<1>4. Pipe(told, ctl, inst, touched)
  <2>1. told = <<>> /\ ctl = None /\ Len(told) = 0
    BY <1>1 DEF Init
  <2>2. QED
    BY <2>1 DEF Pipe
<1>5. PanelTyped
  <2>1. up \in BOOLEAN /\ failed \in BOOLEAN
    BY <1>1 DEF Init
  <2>2. QED
    BY <1>1, <2>1, Constants DEF Init, PanelTyped, Goals, None
<1>6. AtTheTarget /\ TargetIsControl
  BY <1>1 DEF Init, AtTheTarget, TargetIsControl
<1>7. PanelSound
  BY <1>2, <1>3, <1>4, <1>5, <1>6 DEF PanelSound, LakeSound
<1>8. ev.since = None /\ ev.msince = None /\ calm = None /\ batch = Idle /\ heated = FALSE
  BY <1>1 DEF Init
<1>9. Clocks
  <2>1. ev \in Evaluators
    BY <1>1, Constants DEF Init, Evaluators, None
  <2>2. QED
    BY <1>1, <2>1, Constants DEF Init, Clocks, Goals, None
<1>10. Trip
  <2>1. driven \in BOOLEAN /\ heated \in BOOLEAN
    BY <1>1 DEF Init
  <2>2. QED
    BY <1>1, <1>2, <2>1, IdleFacts DEF Init, Trip
<1>11. Counting
  BY <1>8 DEF Counting, None
<1>12. Itinerary
  BY <1>2, <1>8, IdleFacts, JobFields DEF Itinerary, Measured
<1>13. Steadily
  BY <1>8, IdleFacts DEF Steadily, Measured
<1>14. QED
  BY <1>7, <1>9, <1>10, <1>11, <1>12, <1>13 DEF SeriesSound

THEOREM SeriesInvariant == Spec => []SeriesSound
<1>1. SeriesSound /\ [Next]_vars => SeriesSound'
  BY SeriesStep
<1>2. QED
  BY <1>1, SeriesInit, PTL DEF Spec

-----------------------------------------------------------------------------
LEMMA SoundTyped == SeriesSound => TypeOK
<1>1. SUFFICES ASSUME SeriesSound PROVE TypeOK
  OBVIOUS
<1>2. /\ open \in BOOLEAN /\ inst \in [set : Nat, heat : BOOLEAN] /\ touched \in BOOLEAN
  BY <1>1 DEF SeriesSound, PanelSound, LakeSound, LakeTyped, Instruments
<1>3. /\ up \in BOOLEAN /\ pending \subseteq Commands \cup {"connect"}
      /\ snap \in scene.readings \cup {Bad} /\ age \in 0 .. MaxAge + 1
      /\ ctl \in Nat \cup {None} /\ target \in Nat \cup {None} /\ failed \in BOOLEAN
      /\ stable \in None .. SampleDwell /\ near \in None .. SampleDwell
  BY <1>1 DEF SeriesSound, PanelSound, PanelTyped, Goals
<1>4. /\ ev \in Evaluators /\ calm \in None .. Dwell + 1 /\ steady \in None .. LongDwell
      /\ aim \in Nat \cup {None}
  BY <1>1 DEF SeriesSound, Clocks, Goals
<1>5. /\ batch \in Batches /\ field \in Fields /\ driven \in BOOLEAN
      /\ from \in Fields \cup {None} /\ seen \in Fields \cup {None}
      /\ due \subseteq {"panel", "batch"} /\ heated \in BOOLEAN
  BY <1>1 DEF SeriesSound, Trip
<1>6. /\ {ctl, target} \subseteq Nat \cup {None} /\ {stable, near} \subseteq None .. SampleDwell
      /\ {from, seen} \subseteq Fields \cup {None} /\ {touched, heated} \subseteq BOOLEAN
  <2>1. {touched, heated} \subseteq BOOLEAN
    BY <1>2, <1>5
  <2>2. QED
    BY <1>3, <1>5, <2>1
<1>7. QED
  BY <1>2, <1>3, <1>4, <1>5, <1>6 DEF TypeOK, Evaluators, Batches

LEMMA SoundPermission == SeriesSound => PermissionEarned
<1>1. SUFFICES ASSUME SeriesSound PROVE PermissionEarned
  OBVIOUS
<1>2. /\ ev \in Evaluators /\ Sight \in Sights /\ Counting
      /\ ev.since \in Int /\ calm \in None .. Dwell + 1 /\ calm \in Int /\ Dwell \in Nat
      /\ ev.since \in None .. Dwell
  BY <1>1, SeriesFacts, EvaluatorFields, Constants DEF SeriesSound, Clocks, None
<1>3. Verdict(ev, Sight) = "safe" <=> Quiet(Sight) /\ Since(ev.since) >= Dwell /\ ev.ran = Interval
  BY <1>2, VerdictFacts
<1>4. Since(ev.since) >= Dwell => Since(calm) >= Dwell
  BY <1>2 DEF Since, Counting, None
<1>5. calm > Dwell => Since(ev.since) >= Dwell
  BY <1>2 DEF Since, Counting, None
<1>6. QED
  BY <1>3, <1>4, <1>5 DEF PermissionEarned

LEMMA SoundSettings == SeriesSound => FailedApplySafe
<1>1. SUFFICES ASSUME SeriesSound, NEW n \in DOMAIN todo, todo[n].kind = "sample_control",
                      NEW a \in ApplyOutcomes(inst, todo[n].set, todo[n].range),
                      ~a.ok /\ a.inst.heat
               PROVE  a.inst = inst \/ a.off = "unconfirmed"
  BY DEF FailedApplySafe
<1>2. inst \in Instruments /\ todo \in Seq(Orders)
  BY <1>1 DEF SeriesSound, PanelSound, LakeSound, LakeTyped
<1>3. todo[n] \in Orders
  BY <1>1, <1>2
<1>4. todo[n].set \in Nat /\ todo[n].range \in Ranges
  BY <1>1, <1>3 DEF Orders
<1>5. Safe(a, inst)
  BY <1>1, <1>2, <1>4, ApplySafe
<1>6. QED
  BY <1>1, <1>5 DEF Safe

\* On well-formed states, the shared evaluator permits a move only after a
\* dwell in which every sight put to it was recovered, and no setting that
\* fails part of the way leaves the heater on unnoticed
\* (thermal_safety.evaluate, LakeShore335Adapter.set_sample_control).
THEOREM PermissionIsEarned == Spec => []Sound
<1>1. SeriesSound => Sound
  BY SoundTyped, SoundPermission, SoundSettings DEF Sound
<1>2. QED
  BY <1>1, SeriesInvariant, PTL

\* The panel says "ready" only of a sample that was at the instrument's own
\* target for the whole dwell (magnet.is_ready, _control_result).
THEOREM ReadyIsHonest == Spec => []ReadyHonest
<1>1. SeriesSound => ReadyHonest
  <2>1. SUFFICES ASSUME SeriesSound, IsReady, scene.waiting, told = <<>>
                 PROVE  near = SampleDwell /\ Valid /\ (touched \/ target = inst.set)
    BY DEF ReadyHonest
  <2>2. PanelTarget # None /\ Valid /\ stable # None /\ stable >= SampleDwell
    BY <2>1 DEF IsReady
  <2>3. /\ stable \in None .. SampleDwell /\ near \in None .. SampleDwell /\ SampleDwell \in Nat
        /\ (stable # None => near >= stable)
    BY <2>1, Constants DEF SeriesSound, PanelSound, PanelTyped, AtTheTarget
  <2>4. near = SampleDwell
    BY <2>2, <2>3 DEF None
  <2>5. ~failed /\ pending \cap Commands = {} /\ ctl # None
    BY <2>2 DEF PanelTarget
  <2>6. target = ctl
    BY <2>1, <2>5 DEF SeriesSound, PanelSound, TargetIsControl
  <2>7. LastWord(told, 0)
    BY <2>1 DEF LastWord
  <2>8. touched \/ ctl = inst.set
    BY <2>1, <2>5, <2>7 DEF SeriesSound, PanelSound, LakeSound, Pipe
  <2>9. QED
    BY <2>2, <2>4, <2>6, <2>8
<1>2. QED
  BY <1>1, SeriesInvariant, PTL

\* The batch starts a move only on a full recovery dwell after the last
\* heater cycle's interval, and a measurement only when every sight since its
\* requirement was set has met it for the dwell (evaluate_measurement).
THEOREM StartsAreEarned == Spec => StartsEarned
<1> DEFINE Good == /\ Starting("moving") => (calm' >= Dwell /\ ev.ran = Interval)
                   /\ Starting("measuring") =>
                        (steady' # None /\ steady' >= MeasurementDwell(Goal)) \/ (series > 1 /\ ~heated')
<1>1. SeriesSound /\ [Next]_vars => [Good]_vars
  <2>1. SUFFICES ASSUME SeriesSound, [Next]_vars PROVE Good
    OBVIOUS
  <2>2. SeriesSound' /\ Started
    BY <2>1, SeriesStep
  <2>3. /\ ev'.since \in Int /\ ev'.msince \in Int /\ Dwell \in Nat /\ SampleDwell \in Nat
        /\ steady' \in None .. LongDwell
    <3>1. ev' \in Evaluators /\ steady' \in None .. LongDwell
      BY <2>2 DEF SeriesSound, Clocks, Evaluators
    <3>2. QED
      BY <3>1, EvaluatorFields, Constants
  <2>4. ASSUME Starting("moving") PROVE calm' >= Dwell /\ ev.ran = Interval
    <3>1. ev'.since >= Dwell /\ ev.ran = Interval
      BY <2>2, <2>4 DEF Started
    <3>2. ev'.since # None
      BY <2>3, <3>1 DEF None
    <3>3. ev'.since <= calm' /\ calm' \in Int
      BY <2>2, <3>2, Constants DEF SeriesSound, Counting, Clocks, None
    <3>4. QED
      BY <2>3, <3>1, <3>3
  <2>5. ASSUME Starting("measuring"), ~(series > 1 /\ ~heated')
        PROVE  steady' # None /\ steady' >= MeasurementDwell(Goal)
    <3>1. ev'.msince >= MeasurementDwell(Goal) /\ series' = series
      BY <2>2, <2>5 DEF Started
    <3>2. MeasurementDwell(Goal) \in Nat
      BY <2>3 DEF MeasurementDwell
    <3>3. batch'.phase = "measuring" /\ Measured'
      BY <2>5 DEF Starting, Measured
    <3>4. series' # 0
      BY <2>2, <3>3, IdleFacts DEF SeriesSound, Steadily
    <3>5. series' = 1 \/ heated'
      BY <2>1, <2>5, <3>1, <3>4 DEF SeriesSound, Trip
    <3>6. Backed'
      BY <2>2, <3>3, <3>5 DEF SeriesSound, Steadily
    <3>7. ev'.msince # None
      BY <2>3, <3>1, <3>2 DEF None
    <3>8. steady' >= ev'.msince
      BY <3>6, <3>7 DEF Backed
    <3>9. QED
      BY <2>3, <3>1, <3>2, <3>8, Constants DEF None
  <2>6. QED
    BY <2>4, <2>5
<1>3. QED
  BY <1>1, SeriesInvariant, PTL DEF Spec, StartsEarned
=============================================================================
