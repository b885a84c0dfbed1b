------------------------- MODULE BFieldTransport_proofs -------------------------
(***************************************************************************)
(* Proofs about BFieldTransport.                                           *)
(*                                                                         *)
(* Every handler is first an operator from controllers to controllers:     *)
(* the lemmas of the first three sections say, operator by operator, what  *)
(* it makes of a controller that runs a series, of one that cleans up and  *)
(* of one that does neither.  The invariants then follow action by action. *)
(* Sound1, of the lane and of the pauses, gives the types, the ownership   *)
(* of the lane, the wholeness of the rows and that only the operator       *)
(* resumes a paused run.  Sound2, of the requests for persistence and of   *)
(* the configuration, gives the clearance to disconnect.  Sound3, of the   *)
(* pause that every cleanup asks for first, gives the stillness of a       *)
(* magnet that is given back.                                              *)
(***************************************************************************)
EXTENDS BFieldTransport, TLAPS, SequenceTheorems, FiniteSetTheorems, FunctionTheorems

-----------------------------------------------------------------------------
(* What a handler makes of a running series.                               *)

(* The fields of the controller's record. *)
Slots == {"active", "cleaning", "phase", "round", "row", "cond", "leg", "target", "hold", "generation",
  "thermalHold", "thermalPause", "manual", "button", "resume", "transition", "endpointPause", "ackWaiting",
  "biasInflight", "pending", "rowTransition", "rowInflight", "rowEntered", "rowCooling", "stored", "lanes",
  "claimed", "exclusive", "status", "final", "waiting", "zeroed", "failures", "saving", "shutdownWaiting",
  "shutdownExclusive", "shutdownDone", "ask", "do"}

(* A controller whose fields have their types: what a handler may rely on and must
   restore. *)
Typed(k) ==
    /\ DOMAIN k = Slots
    /\ k.hold \in Holds /\ k.phase \in Phases /\ k.target \in Targets /\ k.resume \in Resumes
    /\ k.leg \in 0..1 /\ k.cond \in 1..Conditions + 1 /\ k.waiting \in Waits

(* What the handlers of a running series leave alone. *)
Frame(k, n) ==
    /\ n.active = k.active /\ n.claimed = k.claimed /\ n.exclusive = k.exclusive
    /\ n.lanes = k.lanes /\ n.saving = k.saving
    /\ n.shutdownWaiting = k.shutdownWaiting /\ n.shutdownExclusive = k.shutdownExclusive
    /\ n.shutdownDone = k.shutdownDone /\ n.stored = k.stored

(* Nothing asked of the magnet, nothing of the lane: so every handler begins. *)
Silent(n) == n.ask = <<>> /\ n.do = <<>>

(* The controller of a series that runs and is not cleaning up. *)
Runs(k) == Typed(k) /\ k.active /\ ~k.cleaning /\ k.cond <= Conditions

(* Its only request is a pause, for this reason. *)
PauseTo(n, to) == n.ask = <<Request("pause", to)>>

(* From k the cleanup began: the pause is asked for and the zeroing is queued. *)
Cleaned(k, n) ==
    /\ Typed(n) /\ Frame(k, n) /\ n.cleaning /\ n.waiting = "pause" /\ ~n.zeroed /\ n.hold = NoHold
    /\ n.generation = k.generation /\ n.pending = k.pending
    /\ ~n.transition /\ PauseTo(n, "user") /\ n.do = <<[task |-> "zero"]>>

(* The transition between two conditions is where it was. *)
SameRow(k, n) ==
    /\ n.rowTransition = k.rowTransition /\ n.rowInflight = k.rowInflight /\ n.rowEntered = k.rowEntered

(* It asks for the magnet to move. *)
Goes(n) == n.ask = <<Request("move", "start")>> \/ n.ask = <<Request("sweep", "start")>>
    \/ n.ask = <<Request("sweep", "stop")>>

(* It asks for a pause for the monitoring or the temperature. *)
Interposes(n) == PauseTo(n, "monitor") \/ PauseTo(n, "thermal")

(* The one request a running series may make; a row transition asks for persistence
   once. *)
Asks(k, n) ==
    \/ n.ask = <<>> \/ PauseTo(n, "user") \/ Interposes(n)
    \/ n.ask = <<Request("persistent", "no")>> /\ k.rowTransition /\ ~k.rowInflight
    \/ Goes(n)

(* Every such pause, and nothing else, begins a new generation of samples. *)
Counts(k, n) ==
    IF Interposes(n) THEN n.generation = k.generation + 1 ELSE n.generation = k.generation

(* The transition between two conditions begins with its request, goes on or is over. *)
Rows(k, n) ==
    \/ /\ n.ask = <<Request("persistent", "no")>>
       /\ n.rowTransition /\ n.rowInflight /\ ~n.rowEntered
    \/ /\ n.ask # <<Request("persistent", "no")>>
       /\ n.rowInflight = k.rowInflight /\ n.rowEntered = k.rowEntered /\ (k.rowTransition => n.rowTransition)
    \/ /\ n.ask # <<Request("persistent", "no")>>
       /\ k.rowTransition /\ k.rowEntered /\ ~n.rowTransition /\ ~n.rowInflight /\ ~n.rowEntered

(* What it may give the lane: nothing, one bias, or a sample of this generation. *)
Does(k, n) ==
    \/ n.do = <<>> /\ n.pending = k.pending
    \/ n.pending = k.pending /\ \E q \in 1..Conditions : n.do = <<[task |-> "bias", cond |-> q]>>
    \/ n.pending = k.pending + 1 /\ k.pending < 2
       /\ n.do = <<[task |-> "sample", generation |-> k.generation, holds |-> holds]>>

(* The series goes on from k to n. *)
Ran(k, n) == Runs(n) /\ Frame(k, n) /\ Asks(k, n) /\ Counts(k, n) /\ Rows(k, n) /\ Does(k, n)

(* The series is held for the operator. *)
Held(k) == k.manual /\ (k.hold.on \/ k.thermalHold)

(* A held series stays held and does not move; a pause holds it. *)
Stays(k, n) == (Held(k) => Held(n) /\ ~Goes(n)) /\ (Interposes(n) => Held(n))

(* The move to the next condition waits until the magnet is persistent. *)
Paced(k, n) == n.ask = <<Request("move", "start")>> => ~k.rowTransition \/ k.rowEntered

(* What a handler makes of a running series. *)
Out(k, n) == (Ran(k, n) /\ Stays(k, n) /\ Paced(k, n)) \/ Cleaned(k, n)

(* Appending to the empty sequence. *)
LEMMA One ==
  ASSUME NEW x
  PROVE  Append(<<>>, x) = <<x>>
OBVIOUS

(* A sequence of one element is not empty. *)
LEMMA NotOne ==
  ASSUME NEW x
  PROVE  <<>> # <<x>>
OBVIOUS

(* The two ends of a sweep are targets. *)
LEMMA Ends ==
  "start" \in Targets /\ "stop" \in Targets
BY DEF Targets

(* No hold is a hold. *)
LEMMA C3 ==
  NoHold \in Holds
BY ConstantsAssumption DEF NoHold, Holds, Phases, Targets

(* _cleanup of an active series begins its cleanup. *)
LEMMA CleanupCleans ==
  ASSUME NEW k, Typed(k), k.active, ~k.cleaning, Silent(k), NEW s, NEW f
  PROVE  Cleaned(k, Cleanup(k, s, f))
BY One, C3, ZenonT(40) DEF Silent, Typed, Slots, Cleanup, Ask, Do, Cleaned, Frame, PauseTo, Phases, Waits

(* _fail of a running series begins its cleanup. *)
LEMMA FailCleans ==
  ASSUME NEW k, Runs(k), Silent(k), NEW f
  PROVE  Cleaned(k, Fail(k, f))
BY CleanupCleans DEF Runs, Fail

(* A handler may change the controller before it calls another. *)
LEMMA Through ==
  ASSUME NEW k, NEW w, NEW n, Out(w, n), Frame(k, w), SameRow(k, w), w.generation = k.generation,
         w.pending = k.pending, Held(k) => Held(w)
  PROVE  Out(k, n)
<1>1. CASE Cleaned(w, n)
  BY <1>1 DEF Cleaned, Frame, Out
<1>2. CASE Ran(w, n) /\ Stays(w, n) /\ Paced(w, n)
  <2>1. Frame(k, n)
    BY <1>2 DEF Ran, Frame
  <2>2. Asks(k, n)
    BY <1>2 DEF Ran, Asks, SameRow
  <2>3. Counts(k, n) /\ Does(k, n) /\ Rows(k, n)
    BY <1>2 DEF Ran, Counts, Does, Rows, SameRow
  <2>4. Paced(k, n)
    BY <1>2 DEF Paced, SameRow
  <2> QED BY <1>2, <2>1, <2>2, <2>3, <2>4 DEF Ran, Stays, Out
<1> QED BY <1>1, <1>2 DEF Out

(* To do nothing is a step of a running series. *)
LEMMA LStay ==
  ASSUME NEW k, Runs(k), Silent(k)
  PROVE  Out(k, k)
<1> DEFINE n == k
<1>1. Runs(n)
  BY C3, ConstantsAssumption DEF Runs, Typed, Slots, Ask, Do, Silent, Frame, Phases, Targets,
     Resumes, Waits
<1>2. Frame(k, n)
  BY One DEF Runs, Typed, Slots, Ask, Do, Silent, Frame, Frame
<1>3. n.ask = <<>> /\ n.do = <<>>
  BY One DEF Runs, Typed, Slots, Ask, Do, Silent, Frame
<1>4. n.generation = k.generation /\ n.pending = k.pending /\ SameRow(k, n)
  BY One DEF Runs, Typed, Slots, Ask, Do, Silent, Frame, SameRow
<1>b. n.manual = k.manual /\ n.hold.on = k.hold.on /\ n.thermalHold = k.thermalHold
  BY One DEF Runs, Typed, Slots, Ask, Do, Silent, Frame
<1> HIDE DEF n
<1>5. Asks(k, n)
  BY <1>3, <1>4 DEF Asks, Goes, Interposes, PauseTo, SameRow
<1>6. Counts(k, n)
  BY <1>3, <1>4 DEF Counts, Interposes, PauseTo, Request
<1>r. n.ask # <<Request("persistent", "no")>>
  BY <1>3, NotOne DEF Request
<1>7. Rows(k, n)
  BY <1>4, <1>r DEF Rows, SameRow
<1>8. Does(k, n)
  BY <1>3, <1>4 DEF Does, Runs, Typed
<1>a. ~Goes(n) /\ ~Interposes(n)
  BY <1>3, NotOne DEF Goes, Interposes, PauseTo, Request
<1>c. Held(k) => Held(n)
  BY <1>b DEF Held
<1>9. Stays(k, n)
  BY <1>a, <1>c DEF Stays
<1>10. Paced(k, n)
  BY <1>3, NotOne DEF Paced, Request
<1> QED BY <1>1, <1>2, <1>5, <1>6, <1>7, <1>8, <1>9, <1>10 DEF Ran, Out, n

(* Positioning asks for one move. *)
LEMMA LPositionRan ==
  ASSUME NEW k, Runs(k), Silent(k), ~Held(k)
  PROVE  Ran(k, Position(k)) /\ Stays(k, Position(k))
<1> DEFINE n == Position(k)
<1>1. Runs(n)
  BY C3, ConstantsAssumption DEF Runs, Typed, Slots, Ask, Do, Silent, Position, Phases, Targets,
     Resumes, Waits
<1>2. Frame(k, n)
  BY One DEF Runs, Typed, Slots, Ask, Do, Silent, Position, Frame
<1>3. n.ask = <<Request("move", "start")>> /\ n.do = <<>>
  BY One DEF Runs, Typed, Slots, Ask, Do, Silent, Position
<1>4. n.generation = k.generation /\ n.pending = k.pending /\ SameRow(k, n)
  BY One DEF Runs, Typed, Slots, Ask, Do, Silent, Position, SameRow
<1> HIDE DEF n
<1>5. Asks(k, n)
  BY <1>3, <1>4 DEF Asks, Goes, Interposes, PauseTo, SameRow
<1>6. Counts(k, n)
  BY <1>3, <1>4 DEF Counts, Interposes, PauseTo, Request
<1>r. n.ask # <<Request("persistent", "no")>>
  BY <1>3, NotOne DEF Request
<1>7. Rows(k, n)
  BY <1>4, <1>r DEF Rows, SameRow
<1>8. Does(k, n)
  BY <1>3, <1>4 DEF Does, Runs, Typed
<1>a. ~Interposes(n)
  BY <1>3 DEF Interposes, PauseTo, Request
<1>9. Stays(k, n)
  BY <1>a DEF Stays
<1> QED BY <1>1, <1>2, <1>5, <1>6, <1>7, <1>8, <1>9 DEF Ran, n

(* Positioning, when the magnet is persistent already or need not be. *)
LEMMA LPosition ==
  ASSUME NEW k, Runs(k), Silent(k), ~k.rowTransition \/ k.rowEntered, ~Held(k)
  PROVE  Out(k, Position(k))
BY LPositionRan DEF Out, Paced

(* _begin_leg asks for one sweep, or for nothing. *)
LEMMA LBeginLeg ==
  ASSUME NEW k, Runs(k), Silent(k), NEW l \in 0..1, NEW t \in Targets, ~Held(k)
  PROVE  Out(k, BeginLeg(k, l, t))
<1> DEFINE n == BeginLeg(k, l, t)
<1>1. CASE k.hold.on
  <2>1. Runs(n)
    BY <1>1, C3, ConstantsAssumption DEF Runs, Typed, Slots, Ask, Do, Silent, BeginLeg, Phases,
       Targets, Resumes, Waits
  <2>2. Frame(k, n)
    BY <1>1 DEF Runs, Typed, Slots, Ask, Do, Silent, BeginLeg, Frame
  <2>3. n.ask = <<>> /\ n.do = <<>>
    BY <1>1, One DEF Runs, Typed, Slots, Ask, Do, Silent, BeginLeg
  <2>4. n.generation = k.generation /\ n.pending = k.pending /\ SameRow(k, n)
    BY <1>1 DEF Runs, Typed, Slots, Ask, Do, Silent, BeginLeg, SameRow
  <2> HIDE DEF n
  <2>5. Asks(k, n)
    BY <1>1, <2>3, <2>4 DEF Asks, Goes, Interposes, PauseTo, SameRow
  <2>6. Counts(k, n)
    BY <2>3, <2>4 DEF Counts, Interposes, PauseTo, Request
  <2>r. n.ask # <<Request("persistent", "no")>>
    BY <2>3, NotOne DEF Request
  <2>7. Rows(k, n)
    BY <2>4, <2>r DEF Rows, SameRow
  <2>8. Does(k, n)
    BY <1>1, <2>3, <2>4 DEF Does, Runs, Typed
  <2>a. ~Goes(n) /\ ~Interposes(n)
    BY <2>3, NotOne DEF Goes, Interposes, PauseTo, Request
  <2>9. Stays(k, n)
    BY <1>1, <2>a DEF Stays
  <2>10. Paced(k, n)
    BY <1>1, <2>3, NotOne DEF Paced, Request
  <2> QED BY <2>1, <2>2, <2>5, <2>6, <2>7, <2>8, <2>9, <2>10 DEF Ran, Out, n
<1>2. CASE ~k.hold.on /\ t = "none"
  <2>1. Runs(n)
    BY <1>2, C3, ConstantsAssumption DEF Runs, Typed, Slots, Ask, Do, Silent, BeginLeg, Phases,
       Targets, Resumes, Waits
  <2>2. Frame(k, n)
    BY <1>2 DEF Runs, Typed, Slots, Ask, Do, Silent, BeginLeg, Frame
  <2>3. n.ask = <<>> /\ n.do = <<>>
    BY <1>2, One DEF Runs, Typed, Slots, Ask, Do, Silent, BeginLeg
  <2>4. n.generation = k.generation /\ n.pending = k.pending /\ SameRow(k, n)
    BY <1>2 DEF Runs, Typed, Slots, Ask, Do, Silent, BeginLeg, SameRow
  <2> HIDE DEF n
  <2>5. Asks(k, n)
    BY <1>2, <2>3, <2>4 DEF Asks, Goes, Interposes, PauseTo, SameRow
  <2>6. Counts(k, n)
    BY <2>3, <2>4 DEF Counts, Interposes, PauseTo, Request
  <2>r. n.ask # <<Request("persistent", "no")>>
    BY <2>3, NotOne DEF Request
  <2>7. Rows(k, n)
    BY <2>4, <2>r DEF Rows, SameRow
  <2>8. Does(k, n)
    BY <1>2, <2>3, <2>4 DEF Does, Runs, Typed
  <2>a. ~Goes(n) /\ ~Interposes(n)
    BY <2>3, NotOne DEF Goes, Interposes, PauseTo, Request
  <2>9. Stays(k, n)
    BY <1>2, <2>a DEF Stays
  <2>10. Paced(k, n)
    BY <1>2, <2>3, NotOne DEF Paced, Request
  <2> QED BY <2>1, <2>2, <2>5, <2>6, <2>7, <2>8, <2>9, <2>10 DEF Ran, Out, n
<1>3. CASE ~k.hold.on /\ t = "start"
  <2>1. Runs(n)
    BY <1>3, C3, ConstantsAssumption DEF Runs, Typed, Slots, Ask, Do, Silent, BeginLeg, Phases,
       Targets, Resumes, Waits
  <2>2. Frame(k, n)
    BY <1>3 DEF Runs, Typed, Slots, Ask, Do, Silent, BeginLeg, Frame
  <2>3. n.ask = <<Request("sweep", "start")>> /\ n.do = <<>>
    BY <1>3, One DEF Runs, Typed, Slots, Ask, Do, Silent, BeginLeg
  <2>4. n.generation = k.generation /\ n.pending = k.pending /\ SameRow(k, n)
    BY <1>3 DEF Runs, Typed, Slots, Ask, Do, Silent, BeginLeg, SameRow
  <2> HIDE DEF n
  <2>5. Asks(k, n)
    BY <1>3, <2>3, <2>4 DEF Asks, Goes, Interposes, PauseTo, SameRow
  <2>6. Counts(k, n)
    BY <2>3, <2>4 DEF Counts, Interposes, PauseTo, Request
  <2>r. n.ask # <<Request("persistent", "no")>>
    BY <2>3, NotOne DEF Request
  <2>7. Rows(k, n)
    BY <2>4, <2>r DEF Rows, SameRow
  <2>8. Does(k, n)
    BY <1>3, <2>3, <2>4 DEF Does, Runs, Typed
  <2>a. ~Interposes(n)
    BY <2>3 DEF Interposes, PauseTo, Request
  <2>9. Stays(k, n)
    BY <1>3, <2>a DEF Stays
  <2>10. Paced(k, n)
    BY <1>3, <2>3, NotOne DEF Paced, Request
  <2> QED BY <2>1, <2>2, <2>5, <2>6, <2>7, <2>8, <2>9, <2>10 DEF Ran, Out, n
<1>4. CASE ~k.hold.on /\ t = "stop"
  <2>1. Runs(n)
    BY <1>4, C3, ConstantsAssumption DEF Runs, Typed, Slots, Ask, Do, Silent, BeginLeg, Phases,
       Targets, Resumes, Waits
  <2>2. Frame(k, n)
    BY <1>4 DEF Runs, Typed, Slots, Ask, Do, Silent, BeginLeg, Frame
  <2>3. n.ask = <<Request("sweep", "stop")>> /\ n.do = <<>>
    BY <1>4, One DEF Runs, Typed, Slots, Ask, Do, Silent, BeginLeg
  <2>4. n.generation = k.generation /\ n.pending = k.pending /\ SameRow(k, n)
    BY <1>4 DEF Runs, Typed, Slots, Ask, Do, Silent, BeginLeg, SameRow
  <2> HIDE DEF n
  <2>5. Asks(k, n)
    BY <1>4, <2>3, <2>4 DEF Asks, Goes, Interposes, PauseTo, SameRow
  <2>6. Counts(k, n)
    BY <2>3, <2>4 DEF Counts, Interposes, PauseTo, Request
  <2>r. n.ask # <<Request("persistent", "no")>>
    BY <2>3, NotOne DEF Request
  <2>7. Rows(k, n)
    BY <2>4, <2>r DEF Rows, SameRow
  <2>8. Does(k, n)
    BY <1>4, <2>3, <2>4 DEF Does, Runs, Typed
  <2>a. ~Interposes(n)
    BY <2>3 DEF Interposes, PauseTo, Request
  <2>9. Stays(k, n)
    BY <1>4, <2>a DEF Stays
  <2>10. Paced(k, n)
    BY <1>4, <2>3, NotOne DEF Paced, Request
  <2> QED BY <2>1, <2>2, <2>5, <2>6, <2>7, <2>8, <2>9, <2>10 DEF Ran, Out, n
<1> QED BY <1>1, <1>2, <1>3, <1>4 DEF Targets

(* A condition begins with its bias. *)
LEMMA LStart ==
  ASSUME NEW k, Runs(k), Silent(k), ~Held(k)
  PROVE  Out(k, StartCondition(k))
<1> DEFINE n == StartCondition(k)
<1>1. Runs(n)
  BY C3, ConstantsAssumption DEF Runs, Typed, Slots, Ask, Do, Silent, StartCondition, Phases,
     Targets, Resumes, Waits
<1>2. Frame(k, n)
  BY One DEF Runs, Typed, Slots, Ask, Do, Silent, StartCondition, Frame
<1>3. n.ask = <<>> /\ n.do = <<[task |-> "bias", cond |-> k.cond]>>
  BY One DEF Runs, Typed, Slots, Ask, Do, Silent, StartCondition
<1>4. n.generation = k.generation /\ n.pending = k.pending /\ SameRow(k, n)
  BY One DEF Runs, Typed, Slots, Ask, Do, Silent, StartCondition, SameRow
<1> HIDE DEF n
<1>5. Asks(k, n)
  BY <1>3, <1>4 DEF Asks, Goes, Interposes, PauseTo, SameRow
<1>6. Counts(k, n)
  BY <1>3, <1>4 DEF Counts, Interposes, PauseTo, Request
<1>r. n.ask # <<Request("persistent", "no")>>
  BY <1>3, NotOne DEF Request
<1>7. Rows(k, n)
  BY <1>4, <1>r DEF Rows, SameRow
<1>8. Does(k, n)
  BY <1>3, <1>4 DEF Does, Runs, Typed
<1>a. ~Goes(n) /\ ~Interposes(n)
  BY <1>3, NotOne DEF Goes, Interposes, PauseTo, Request
<1>9. Stays(k, n)
  BY <1>a DEF Stays
<1>10. Paced(k, n)
  BY <1>3, NotOne DEF Paced, Request
<1> QED BY <1>1, <1>2, <1>5, <1>6, <1>7, <1>8, <1>9, <1>10 DEF Ran, Out, n

(* _begin_monitor_hold holds the run and begins a new generation. *)
LEMMA LBeginHold ==
  ASSUME NEW k, Runs(k), Silent(k)
  PROVE  Out(k, BeginHold(k))
<1> DEFINE n == BeginHold(k)
<1>1. CASE k.hold.on
  <2>1. Runs(n)
    BY <1>1, C3, ConstantsAssumption DEF Runs, Typed, Slots, Ask, Do, Silent, BeginHold, Phases,
       Targets, Resumes, Waits
  <2>2. Frame(k, n)
    BY <1>1 DEF Runs, Typed, Slots, Ask, Do, Silent, BeginHold, Frame
  <2>3. n.ask = <<>> /\ n.do = <<>>
    BY <1>1, One DEF Runs, Typed, Slots, Ask, Do, Silent, BeginHold
  <2>4. n.generation = k.generation /\ n.pending = k.pending /\ SameRow(k, n)
    BY <1>1 DEF Runs, Typed, Slots, Ask, Do, Silent, BeginHold, SameRow
  <2>b. n.manual /\ (n.hold.on = k.hold.on /\ n.thermalHold = k.thermalHold)
    BY <1>1 DEF Runs, Typed, Slots, Ask, Do, Silent, BeginHold
  <2> HIDE DEF n
  <2>5. Asks(k, n)
    BY <1>1, <2>3, <2>4 DEF Asks, Goes, Interposes, PauseTo, SameRow
  <2>6. Counts(k, n)
    BY <2>3, <2>4 DEF Counts, Interposes, PauseTo, Request
  <2>r. n.ask # <<Request("persistent", "no")>>
    BY <2>3, NotOne DEF Request
  <2>7. Rows(k, n)
    BY <2>4, <2>r DEF Rows, SameRow
  <2>8. Does(k, n)
    BY <1>1, <2>3, <2>4 DEF Does, Runs, Typed
  <2>a. ~Goes(n) /\ ~Interposes(n)
    BY <2>3, NotOne DEF Goes, Interposes, PauseTo, Request
  <2>c. Held(k) => Held(n)
    BY <1>1, <2>b DEF Held
  <2>9. Stays(k, n)
    BY <1>1, <2>a, <2>c DEF Stays
  <2>10. Paced(k, n)
    BY <1>1, <2>3, NotOne DEF Paced, Request
  <2> QED BY <2>1, <2>2, <2>5, <2>6, <2>7, <2>8, <2>9, <2>10 DEF Ran, Out, n
<1>2. CASE ~k.hold.on
  <2>h. n.hold \in Holds
    BY <1>2, C3, ConstantsAssumption DEF Runs, Typed, Slots, Ask, Do, Silent, BeginHold, NoHold,
       Holds, Phases, Targets
  <2>1. Runs(n)
    BY <1>2, <2>h, C3, ConstantsAssumption DEF Runs, Typed, Slots, Ask, Do, Silent, BeginHold,
       NoHold, Phases, Targets, Resumes, Waits
  <2>2. Frame(k, n)
    BY <1>2 DEF Runs, Typed, Slots, Ask, Do, Silent, BeginHold, NoHold, Frame
  <2>3. n.ask = <<Request("pause", "monitor")>> /\ n.do = <<>>
    BY <1>2, One DEF Runs, Typed, Slots, Ask, Do, Silent, BeginHold, NoHold
  <2>4. n.generation = k.generation + 1 /\ n.pending = k.pending /\ SameRow(k, n)
    BY <1>2 DEF Runs, Typed, Slots, Ask, Do, Silent, BeginHold, NoHold, SameRow
  <2>b. n.manual /\ n.hold.on
    BY <1>2 DEF Runs, Typed, Slots, Ask, Do, Silent, BeginHold, NoHold, Holds, Phases, Targets
  <2> HIDE DEF n
  <2>5. Asks(k, n)
    BY <1>2, <2>3, <2>4 DEF Asks, Goes, Interposes, PauseTo, SameRow
  <2>6. Counts(k, n)
    BY <2>3, <2>4 DEF Counts, Interposes, PauseTo, Request
  <2>r. n.ask # <<Request("persistent", "no")>>
    BY <2>3, NotOne DEF Request
  <2>7. Rows(k, n)
    BY <2>4, <2>r DEF Rows, SameRow
  <2>8. Does(k, n)
    BY <1>2, <2>3, <2>4 DEF Does, Runs, Typed
  <2>a. ~Goes(n)
    BY <2>3, NotOne DEF Goes, Interposes, PauseTo, Request
  <2>c. Held(n)
    BY <1>2, <2>b DEF Held
  <2>9. Stays(k, n)
    BY <1>2, <2>a, <2>c DEF Stays
  <2>10. Paced(k, n)
    BY <1>2, <2>3, NotOne DEF Paced, Request
  <2> QED BY <2>1, <2>2, <2>5, <2>6, <2>7, <2>8, <2>9, <2>10 DEF Ran, Out, n
<1> QED BY <1>1, <1>2

(* _request_thermal_pause does so once. *)
LEMMA LThermalPause ==
  ASSUME NEW k, Runs(k), Silent(k)
  PROVE  Out(k, ThermalPause(k))
<1> DEFINE n == ThermalPause(k)
<1>1. CASE thermal = "lost"
  <2> DEFINE w == [k EXCEPT !.manual = TRUE, !.button = FALSE]
  <2>1. Runs(w) /\ Silent(w) /\ Frame(k, w) /\ SameRow(k, w)
    BY DEF Runs, Typed, Slots, Silent, Frame, SameRow
  <2>2. w.generation = k.generation /\ w.pending = k.pending /\ w.manual /\ w.hold = k.hold
        /\ w.thermalHold = k.thermalHold
    BY DEF Runs, Typed, Slots
  <2>3. n = BeginHold(w)
    BY <1>1 DEF ThermalPause
  <2>4. Out(w, n)
    BY <2>1, <2>3, LBeginHold
  <2>5. Held(k) => Held(w)
    BY <2>2 DEF Held
  <2> QED BY <2>1, <2>2, <2>4, <2>5, Through
<1>2. CASE thermal # "lost" /\ (k.thermalPause \/ k.thermalHold)
  <2>1. Runs(n)
    BY <1>2, C3, ConstantsAssumption DEF Runs, Typed, Slots, Ask, Do, Silent, ThermalPause,
       Phases, Targets, Resumes, Waits
  <2>2. Frame(k, n)
    BY <1>2 DEF Runs, Typed, Slots, Ask, Do, Silent, ThermalPause, Frame
  <2>3. n.ask = <<>> /\ n.do = <<>>
    BY <1>2, One DEF Runs, Typed, Slots, Ask, Do, Silent, ThermalPause
  <2>4. n.generation = k.generation /\ n.pending = k.pending /\ SameRow(k, n)
    BY <1>2 DEF Runs, Typed, Slots, Ask, Do, Silent, ThermalPause, SameRow
  <2>b. n.manual /\ (n.hold.on = k.hold.on /\ n.thermalHold = k.thermalHold)
    BY <1>2 DEF Runs, Typed, Slots, Ask, Do, Silent, ThermalPause
  <2> HIDE DEF n
  <2>5. Asks(k, n)
    BY <1>2, <2>3, <2>4 DEF Asks, Goes, Interposes, PauseTo, SameRow
  <2>6. Counts(k, n)
    BY <2>3, <2>4 DEF Counts, Interposes, PauseTo, Request
  <2>r. n.ask # <<Request("persistent", "no")>>
    BY <2>3, NotOne DEF Request
  <2>7. Rows(k, n)
    BY <2>4, <2>r DEF Rows, SameRow
  <2>8. Does(k, n)
    BY <1>2, <2>3, <2>4 DEF Does, Runs, Typed
  <2>a. ~Goes(n) /\ ~Interposes(n)
    BY <2>3, NotOne DEF Goes, Interposes, PauseTo, Request
  <2>c. Held(k) => Held(n)
    BY <1>2, <2>b DEF Held
  <2>9. Stays(k, n)
    BY <1>2, <2>a, <2>c DEF Stays
  <2>10. Paced(k, n)
    BY <1>2, <2>3, NotOne DEF Paced, Request
  <2> QED BY <2>1, <2>2, <2>5, <2>6, <2>7, <2>8, <2>9, <2>10 DEF Ran, Out, n
<1>3. CASE thermal # "lost" /\ ~k.thermalPause /\ ~k.thermalHold
  <2>1. Runs(n)
    BY <1>3, C3, ConstantsAssumption DEF Runs, Typed, Slots, Ask, Do, Silent, ThermalPause,
       Phases, Targets, Resumes, Waits
  <2>2. Frame(k, n)
    BY <1>3 DEF Runs, Typed, Slots, Ask, Do, Silent, ThermalPause, Frame
  <2>3. n.ask = <<Request("pause", "thermal")>> /\ n.do = <<>>
    BY <1>3, One DEF Runs, Typed, Slots, Ask, Do, Silent, ThermalPause
  <2>4. n.generation = k.generation + 1 /\ n.pending = k.pending /\ SameRow(k, n)
    BY <1>3 DEF Runs, Typed, Slots, Ask, Do, Silent, ThermalPause, SameRow
  <2>b. n.manual /\ n.thermalHold
    BY <1>3 DEF Runs, Typed, Slots, Ask, Do, Silent, ThermalPause
  <2> HIDE DEF n
  <2>5. Asks(k, n)
    BY <1>3, <2>3, <2>4 DEF Asks, Goes, Interposes, PauseTo, SameRow
  <2>6. Counts(k, n)
    BY <2>3, <2>4 DEF Counts, Interposes, PauseTo, Request
  <2>r. n.ask # <<Request("persistent", "no")>>
    BY <2>3, NotOne DEF Request
  <2>7. Rows(k, n)
    BY <2>4, <2>r DEF Rows, SameRow
  <2>8. Does(k, n)
    BY <1>3, <2>3, <2>4 DEF Does, Runs, Typed
  <2>a. ~Goes(n)
    BY <2>3, NotOne DEF Goes, Interposes, PauseTo, Request
  <2>c. Held(n)
    BY <1>3, <2>b DEF Held
  <2>9. Stays(k, n)
    BY <1>3, <2>a, <2>c DEF Stays
  <2>10. Paced(k, n)
    BY <1>3, <2>3, NotOne DEF Paced, Request
  <2> QED BY <2>1, <2>2, <2>5, <2>6, <2>7, <2>8, <2>9, <2>10 DEF Ran, Out, n
<1> QED BY <1>1, <1>2, <1>3

(* When the telemetry is back the run is held for its temperature. *)
LEMMA LRecovered ==
  ASSUME NEW k, Runs(k), Silent(k), k.hold.on, k.hold.leg \in 0..1, k.hold.target \in Targets
  PROVE  Out(k, Recovered(k))
<1> DEFINE n == Recovered(k)
<1>h. n.hold \in Holds
  BY C3, ConstantsAssumption DEF Runs, Typed, Slots, Ask, Do, Silent, Recovered, Holds, Phases,
     Targets
<1>1. Runs(n)
  BY <1>h, C3, ConstantsAssumption DEF Runs, Typed, Slots, Ask, Do, Silent, Recovered, Phases,
     Targets, Resumes, Waits
<1>2. Frame(k, n)
  BY One DEF Runs, Typed, Slots, Ask, Do, Silent, Recovered, Frame
<1>3. n.ask = <<>> /\ n.do = <<>>
  BY One DEF Runs, Typed, Slots, Ask, Do, Silent, Recovered
<1>4. n.generation = k.generation /\ n.pending = k.pending /\ SameRow(k, n)
  BY One DEF Runs, Typed, Slots, Ask, Do, Silent, Recovered, SameRow
<1>b. n.manual = k.manual /\ n.thermalHold
  BY One DEF Runs, Typed, Slots, Ask, Do, Silent, Recovered
<1> HIDE DEF n
<1>5. Asks(k, n)
  BY <1>3, <1>4 DEF Asks, Goes, Interposes, PauseTo, SameRow
<1>6. Counts(k, n)
  BY <1>3, <1>4 DEF Counts, Interposes, PauseTo, Request
<1>r. n.ask # <<Request("persistent", "no")>>
  BY <1>3, NotOne DEF Request
<1>7. Rows(k, n)
  BY <1>4, <1>r DEF Rows, SameRow
<1>8. Does(k, n)
  BY <1>3, <1>4 DEF Does, Runs, Typed
<1>a. ~Goes(n) /\ ~Interposes(n)
  BY <1>3, NotOne DEF Goes, Interposes, PauseTo, Request
<1>c. Held(k) => Held(n)
  BY <1>b DEF Held
<1>9. Stays(k, n)
  BY <1>a, <1>c DEF Stays
<1>10. Paced(k, n)
  BY <1>3, NotOne DEF Paced, Request
<1> QED BY <1>1, <1>2, <1>5, <1>6, <1>7, <1>8, <1>9, <1>10 DEF Ran, Out, n

(* The acknowledgement of a hold. *)
LEMMA LAck ==
  ASSUME NEW k, Runs(k), Silent(k)
  PROVE  Out(k, HoldAcknowledged(k))
<1> DEFINE n == HoldAcknowledged(k)
<1>h. n.hold \in Holds
  BY C3, ConstantsAssumption DEF Runs, Typed, Slots, Ask, Do, Silent, HoldAcknowledged, Holds
<1>1. Runs(n)
  BY <1>h, C3, ConstantsAssumption DEF Runs, Typed, Slots, Ask, Do, Silent, HoldAcknowledged,
     Phases, Targets, Resumes, Waits
<1>2. Frame(k, n)
  BY One DEF Runs, Typed, Slots, Ask, Do, Silent, HoldAcknowledged, Frame
<1>3. n.ask = <<>> /\ n.do = <<>>
  BY One DEF Runs, Typed, Slots, Ask, Do, Silent, HoldAcknowledged
<1>4. n.generation = k.generation /\ n.pending = k.pending /\ SameRow(k, n)
  BY One DEF Runs, Typed, Slots, Ask, Do, Silent, HoldAcknowledged, SameRow
<1>b. n.manual = k.manual /\ n.hold.on = k.hold.on /\ n.thermalHold = k.thermalHold
  BY One DEF Runs, Typed, Slots, Ask, Do, Silent, HoldAcknowledged, Holds
<1> HIDE DEF n
<1>5. Asks(k, n)
  BY <1>3, <1>4 DEF Asks, Goes, Interposes, PauseTo, SameRow
<1>6. Counts(k, n)
  BY <1>3, <1>4 DEF Counts, Interposes, PauseTo, Request
<1>r. n.ask # <<Request("persistent", "no")>>
  BY <1>3, NotOne DEF Request
<1>7. Rows(k, n)
  BY <1>4, <1>r DEF Rows, SameRow
<1>8. Does(k, n)
  BY <1>3, <1>4 DEF Does, Runs, Typed
<1>a. ~Goes(n) /\ ~Interposes(n)
  BY <1>3, NotOne DEF Goes, Interposes, PauseTo, Request
<1>c. Held(k) => Held(n)
  BY <1>b DEF Held
<1>9. Stays(k, n)
  BY <1>a, <1>c DEF Stays
<1>10. Paced(k, n)
  BY <1>3, NotOne DEF Paced, Request
<1> QED BY <1>1, <1>2, <1>5, <1>6, <1>7, <1>8, <1>9, <1>10 DEF Ran, Out, n

(* Counting a pair of readings keeps a hold a hold. *)
LEMMA HoldCounts ==
  ASSUME NEW h \in Holds
  PROVE  [h EXCEPT !.reads = IF @ < Reads THEN @ + 1 ELSE @, !.aps = FALSE, !.lake = FALSE] \in Holds
<1> DEFINE r == IF h.reads < Reads THEN h.reads + 1 ELSE h.reads
<1>1. r \in 0..Reads
  BY ConstantsAssumption DEF Holds
<1>2. [h EXCEPT !.reads = r, !.aps = FALSE, !.lake = FALSE] \in Holds
  <2> HIDE DEF r
  <2> QED BY <1>1 DEF Holds
<1> QED BY <1>2

(* One more pair of fresh readings. *)
LEMMA LCounted ==
  ASSUME NEW k, Runs(k), Silent(k), k.hold.on
  PROVE  LET w == [k EXCEPT !.hold.reads = IF @ < Reads THEN @ + 1 ELSE @, !.hold.aps = FALSE,
         !.hold.lake = FALSE]
         IN  /\ Out(k, w) /\ Runs(w) /\ Silent(w) /\ w.hold.on /\ w.hold.leg \in 0..1
                /\ w.hold.target \in Targets
             /\ Frame(k, w) /\ SameRow(k, w) /\ w.generation = k.generation /\ w.pending = k.pending
                /\ (Held(k) => Held(w))
<1> DEFINE n == [k EXCEPT !.hold.reads = IF @ < Reads THEN @ + 1 ELSE @, !.hold.aps = FALSE,
    !.hold.lake = FALSE]
<1>g. n.hold = [k.hold EXCEPT !.reads = IF @ < Reads THEN @ + 1 ELSE @, !.aps = FALSE, !.lake = FALSE]
  BY One DEF Runs, Typed, Slots, SameRow
<1>h. n.hold \in Holds
  BY <1>g, HoldCounts DEF Runs, Typed
<1>1. Runs(n)
  BY <1>h, C3, ConstantsAssumption DEF Runs, Typed, Slots, Ask, Do, Silent, SameRow, Phases,
     Targets, Resumes, Waits
<1>2. Frame(k, n)
  BY One DEF Runs, Typed, Slots, Ask, Do, Silent, SameRow, Frame
<1>3. n.ask = <<>> /\ n.do = <<>>
  BY One DEF Runs, Typed, Slots, Ask, Do, Silent, SameRow
<1>4. n.generation = k.generation /\ n.pending = k.pending /\ SameRow(k, n)
  BY One DEF Runs, Typed, Slots, Ask, Do, Silent, SameRow, SameRow
<1>b. n.manual = k.manual /\ n.hold.on = k.hold.on /\ n.thermalHold = k.thermalHold
  BY One DEF Runs, Typed, Slots, Ask, Do, Silent, SameRow, Holds
<1> HIDE DEF n
<1>5. Asks(k, n)
  BY <1>3, <1>4 DEF Asks, Goes, Interposes, PauseTo, SameRow
<1>6. Counts(k, n)
  BY <1>3, <1>4 DEF Counts, Interposes, PauseTo, Request
<1>r. n.ask # <<Request("persistent", "no")>>
  BY <1>3, NotOne DEF Request
<1>7. Rows(k, n)
  BY <1>4, <1>r DEF Rows, SameRow
<1>8. Does(k, n)
  BY <1>3, <1>4 DEF Does, Runs, Typed
<1>a. ~Goes(n) /\ ~Interposes(n)
  BY <1>3, NotOne DEF Goes, Interposes, PauseTo, Request
<1>c. Held(k) => Held(n)
  BY <1>b DEF Held
<1>9. Stays(k, n)
  BY <1>a, <1>c DEF Stays
<1>10. Paced(k, n)
  BY <1>3, NotOne DEF Paced, Request
<1>11. n.hold.on /\ n.hold.leg \in 0..1 /\ n.hold.target \in Targets
  BY <1>h DEF n, Runs, Typed, Slots, Holds
<1>12. Silent(n) /\ Frame(k, n) /\ SameRow(k, n) /\ n.generation = k.generation /\ n.pending = k.pending
  BY <1>2, <1>3, <1>4 DEF Silent
<1>13. Held(k) => Held(n)
  BY <1>c
<1>14. Out(k, n)
  BY <1>1, <1>2, <1>5, <1>6, <1>7, <1>8, <1>9, <1>10 DEF Ran, Out
<1> QED BY <1>1, <1>11, <1>12, <1>13, <1>14 DEF n

(* _check_monitor_recovery leaves a run held, or fails it. *)
LEMMA LCheckRecovery ==
  ASSUME NEW k, Runs(k), Silent(k), k.hold.on
  PROVE  Out(k, CheckRecovery(k))
<1> DEFINE n == CheckRecovery(k)
<1> DEFINE w == [k EXCEPT !.hold.reads = IF @ < Reads THEN @ + 1 ELSE @, !.hold.aps = FALSE,
    !.hold.lake = FALSE]
<1>1. CASE thermal = "trip"
  BY <1>1, FailCleans DEF CheckRecovery, Out
<1>2. CASE thermal = "lost"
  <2>h. n.hold \in Holds
    BY <1>2, C3, ConstantsAssumption DEF Runs, Typed, Slots, Ask, Do, Silent, CheckRecovery, Holds
  <2>1. Runs(n)
    BY <1>2, <2>h, C3, ConstantsAssumption DEF Runs, Typed, Slots, Ask, Do, Silent,
       CheckRecovery, Phases, Targets, Resumes, Waits
  <2>2. Frame(k, n)
    BY <1>2 DEF Runs, Typed, Slots, Ask, Do, Silent, CheckRecovery, Frame
  <2>3. n.ask = <<>> /\ n.do = <<>>
    BY <1>2, One DEF Runs, Typed, Slots, Ask, Do, Silent, CheckRecovery
  <2>4. n.generation = k.generation /\ n.pending = k.pending /\ SameRow(k, n)
    BY <1>2 DEF Runs, Typed, Slots, Ask, Do, Silent, CheckRecovery, SameRow
  <2>b. n.manual = k.manual /\ n.hold.on = k.hold.on /\ n.thermalHold = k.thermalHold
    BY <1>2 DEF Runs, Typed, Slots, Ask, Do, Silent, CheckRecovery, Holds
  <2> HIDE DEF n
  <2>5. Asks(k, n)
    BY <1>2, <2>3, <2>4 DEF Asks, Goes, Interposes, PauseTo, SameRow
  <2>6. Counts(k, n)
    BY <2>3, <2>4 DEF Counts, Interposes, PauseTo, Request
  <2>r. n.ask # <<Request("persistent", "no")>>
    BY <2>3, NotOne DEF Request
  <2>7. Rows(k, n)
    BY <2>4, <2>r DEF Rows, SameRow
  <2>8. Does(k, n)
    BY <1>2, <2>3, <2>4 DEF Does, Runs, Typed
  <2>a. ~Goes(n) /\ ~Interposes(n)
    BY <2>3, NotOne DEF Goes, Interposes, PauseTo, Request
  <2>c. Held(k) => Held(n)
    BY <1>2, <2>b DEF Held
  <2>9. Stays(k, n)
    BY <1>2, <2>a, <2>c DEF Stays
  <2>10. Paced(k, n)
    BY <1>2, <2>3, NotOne DEF Paced, Request
  <2> QED BY <2>1, <2>2, <2>5, <2>6, <2>7, <2>8, <2>9, <2>10 DEF Ran, Out, n
<1>3. CASE n = k
  BY <1>3, LStay
<1>4. CASE n = w
  BY <1>4, LCounted
<1>5. CASE n = Recovered(w)
  <2> HIDE DEF w
  <2>1. /\ Runs(w) /\ Silent(w) /\ w.hold.on /\ w.hold.leg \in 0..1 /\ w.hold.target \in Targets
        /\ Frame(k, w) /\ SameRow(k, w) /\ w.generation = k.generation /\ w.pending = k.pending
           /\ (Held(k) => Held(w))
    BY LCounted DEF w
  <2>2. Out(w, Recovered(w))
    BY <2>1, LRecovered
  <2> QED BY <1>5, <2>1, <2>2, Through
<1>6. thermal = "trip" \/ thermal = "lost" \/ n = k \/ n = w \/ n = Recovered(w)
  BY DEF CheckRecovery
<1> QED BY <1>1, <1>2, <1>3, <1>4, <1>5, <1>6

(* A handler may change the controller before the cleanup begins. *)
LEMMA ThroughCleaned ==
  ASSUME NEW k, NEW w, NEW n, Cleaned(w, n), Frame(k, w), w.generation = k.generation, w.pending = k.pending
  PROVE  Out(k, n)
BY DEF Cleaned, Frame, Out

(* _next_condition positions, biases or finishes. *)
LEMMA LNextCondition ==
  ASSUME NEW k, Runs(k), Silent(k), ~Held(k), ~k.rowTransition \/ k.rowEntered
  PROVE  Out(k, NextCondition(k))
<1> DEFINE n == NextCondition(k)
           w == [k EXCEPT !.cond = @ + 1]
<1>1. CASE k.cond = Conditions
  <2>a. Typed(w)
    BY <1>1, ConstantsAssumption DEF Runs, Typed, Slots
  <2>b. Frame(k, w)
    BY DEF Runs, Typed, Slots, Frame
  <2>1. w.active /\ ~w.cleaning /\ Silent(w) /\ w.generation = k.generation /\ w.pending = k.pending
    BY DEF Runs, Typed, Slots, Silent
  <2>2. n = Cleanup(w, "finished", "driven")
    BY <1>1 DEF NextCondition
  <2> QED BY <2>a, <2>b, <2>1, <2>2, CleanupCleans, ThroughCleaned
<1>2. CASE k.cond # Conditions
  <2>1. Runs(w) /\ Silent(w)
    BY <1>2, ConstantsAssumption DEF Runs, Typed, Slots, Silent, Phases, Targets, Resumes, Waits
  <2>2. Frame(k, w) /\ SameRow(k, w) /\ w.generation = k.generation /\ w.pending = k.pending
    BY DEF Runs, Typed, Slots, Frame, SameRow
  <2>3. ~Held(w)
    BY DEF Runs, Typed, Slots, Held
  <2>4. ~w.rowTransition \/ w.rowEntered
    BY <2>2 DEF SameRow
  <2>5. n = Position(w) \/ n = StartCondition(w)
    BY <1>2 DEF NextCondition
  <2>6. Out(w, n)
    <3> HIDE DEF w, n
    <3> QED BY <2>1, <2>3, <2>4, <2>5, LPosition, LStart
  <2> QED BY <2>2, <2>6, Through
<1> QED BY <1>1, <1>2

(* What follows an endpoint. *)
LEMMA LAdvance ==
  ASSUME NEW k, Runs(k), Silent(k), ~Held(k), ~k.rowTransition \/ k.rowEntered
  PROVE  Out(k, Advance(k))
<1> DEFINE n == Advance(k)
<1>1. CASE k.round /\ k.leg = 0
  <2> DEFINE w == [k EXCEPT !.transition = FALSE]
  <2>1. Runs(w) /\ Silent(w)
    BY <1>1 DEF Runs, Typed, Slots, Silent, Phases, Targets, Resumes, Waits
  <2>2. Frame(k, w) /\ SameRow(k, w) /\ w.generation = k.generation /\ w.pending = k.pending
    BY <1>1 DEF Runs, Typed, Slots, Frame, SameRow
  <2>e. ~Held(w) /\ (~w.rowTransition \/ w.rowEntered)
    BY <1>1 DEF Runs, Typed, Slots, Held, SameRow
  <2>3. Held(k) => Held(w)
    BY <1>1 DEF Runs, Typed, Slots, Held
  <2>4. n = BeginLeg(w, 1, "start")
    BY <1>1 DEF Runs, Advance
  <2> HIDE DEF w
  <2>5. Out(w, n)
    BY <1>1, <2>1, <2>e, <2>4, LBeginLeg, Ends
  <2> QED BY <2>1, <2>2, <2>3, <2>5, Through
<1>2. CASE ~(k.round /\ k.leg = 0) /\ ~Permitted([k EXCEPT !.transition = FALSE])
  <2>1. Runs(n)
    BY <1>2, C3, ConstantsAssumption DEF Runs, Typed, Slots, Ask, Do, Silent, Advance, Phases,
       Targets, Resumes, Waits
  <2>2. Frame(k, n)
    BY <1>2 DEF Runs, Typed, Slots, Ask, Do, Silent, Advance, Frame
  <2>3. n.ask = <<>> /\ n.do = <<>>
    BY <1>2, One DEF Runs, Typed, Slots, Ask, Do, Silent, Advance
  <2>4. n.generation = k.generation /\ n.pending = k.pending /\ SameRow(k, n)
    BY <1>2 DEF Runs, Typed, Slots, Ask, Do, Silent, Advance, SameRow
  <2> HIDE DEF n
  <2>5. Asks(k, n)
    BY <1>2, <2>3, <2>4 DEF Asks, Goes, Interposes, PauseTo, SameRow
  <2>6. Counts(k, n)
    BY <2>3, <2>4 DEF Counts, Interposes, PauseTo, Request
  <2>r. n.ask # <<Request("persistent", "no")>>
    BY <2>3, NotOne DEF Request
  <2>7. Rows(k, n)
    BY <2>4, <2>r DEF Rows, SameRow
  <2>8. Does(k, n)
    BY <1>2, <2>3, <2>4 DEF Does, Runs, Typed
  <2>a. ~Goes(n) /\ ~Interposes(n)
    BY <2>3, NotOne DEF Goes, Interposes, PauseTo, Request
  <2>9. Stays(k, n)
    BY <1>2, <2>a DEF Stays
  <2>10. Paced(k, n)
    BY <1>2, <2>3, NotOne DEF Paced, Request
  <2> QED BY <2>1, <2>2, <2>5, <2>6, <2>7, <2>8, <2>9, <2>10 DEF Ran, Out, n
<1>3. CASE ~(k.round /\ k.leg = 0) /\ Permitted([k EXCEPT !.transition = FALSE])
  <2> DEFINE w == [k EXCEPT !.transition = FALSE]
  <2>1. Runs(w) /\ Silent(w)
    BY <1>3 DEF Runs, Typed, Slots, Silent, Phases, Targets, Resumes, Waits
  <2>2. Frame(k, w) /\ SameRow(k, w) /\ w.generation = k.generation /\ w.pending = k.pending
    BY <1>3 DEF Runs, Typed, Slots, Frame, SameRow
  <2>e. ~Held(w) /\ (~w.rowTransition \/ w.rowEntered)
    BY <1>3 DEF Runs, Typed, Slots, Held, SameRow
  <2>3. Held(k) => Held(w)
    BY <1>3 DEF Runs, Typed, Slots, Held
  <2>4. n = NextCondition(w)
    BY <1>3 DEF Runs, Advance
  <2> HIDE DEF w
  <2>5. Out(w, n)
    BY <1>3, <2>1, <2>e, <2>4, LNextCondition
  <2> QED BY <2>1, <2>2, <2>3, <2>5, Through
<1> QED BY <1>1, <1>2, <1>3

(* What follows an acknowledged endpoint. *)
LEMMA LEndpointGo ==
  ASSUME NEW k, Runs(k), Silent(k), ~Held(k), ~k.rowTransition \/ k.rowEntered
  PROVE  Out(k, EndpointGo(k))
<1> DEFINE n == EndpointGo(k)
<1>1. CASE k.hold.on
  BY <1>1, LAck DEF EndpointGo
<1>2. CASE ~k.hold.on /\ ~k.transition
  BY <1>2, LStay DEF EndpointGo
<1>3. CASE ~k.hold.on /\ k.transition /\ k.pending > 0
  <2>1. Runs(n)
    BY <1>3, C3, ConstantsAssumption DEF Runs, Typed, Slots, Ask, Do, Silent, EndpointGo,
       Phases, Targets, Resumes, Waits
  <2>2. Frame(k, n)
    BY <1>3 DEF Runs, Typed, Slots, Ask, Do, Silent, EndpointGo, Frame
  <2>3. n.ask = <<>> /\ n.do = <<>>
    BY <1>3, One DEF Runs, Typed, Slots, Ask, Do, Silent, EndpointGo
  <2>4. n.generation = k.generation /\ n.pending = k.pending /\ SameRow(k, n)
    BY <1>3 DEF Runs, Typed, Slots, Ask, Do, Silent, EndpointGo, SameRow
  <2> HIDE DEF n
  <2>5. Asks(k, n)
    BY <1>3, <2>3, <2>4 DEF Asks, Goes, Interposes, PauseTo, SameRow
  <2>6. Counts(k, n)
    BY <2>3, <2>4 DEF Counts, Interposes, PauseTo, Request
  <2>r. n.ask # <<Request("persistent", "no")>>
    BY <2>3, NotOne DEF Request
  <2>7. Rows(k, n)
    BY <2>4, <2>r DEF Rows, SameRow
  <2>8. Does(k, n)
    BY <1>3, <2>3, <2>4 DEF Does, Runs, Typed
  <2>a. ~Goes(n) /\ ~Interposes(n)
    BY <2>3, NotOne DEF Goes, Interposes, PauseTo, Request
  <2>9. Stays(k, n)
    BY <1>3, <2>a DEF Stays
  <2>10. Paced(k, n)
    BY <1>3, <2>3, NotOne DEF Paced, Request
  <2> QED BY <2>1, <2>2, <2>5, <2>6, <2>7, <2>8, <2>9, <2>10 DEF Ran, Out, n
<1>4. CASE ~k.hold.on /\ k.transition /\ ~(k.pending > 0)
  <2> DEFINE w == [k EXCEPT !.ackWaiting = FALSE]
  <2>1. Runs(w) /\ Silent(w)
    BY <1>4 DEF Runs, Typed, Slots, Silent, Phases, Targets, Resumes, Waits
  <2>2. Frame(k, w) /\ SameRow(k, w) /\ w.generation = k.generation /\ w.pending = k.pending
    BY <1>4 DEF Runs, Typed, Slots, Frame, SameRow
  <2>e. ~Held(w) /\ (~w.rowTransition \/ w.rowEntered)
    BY <1>4 DEF Runs, Typed, Slots, Held, SameRow
  <2>3. Held(k) => Held(w)
    BY <1>4 DEF Runs, Typed, Slots, Held
  <2>4. n = Advance(w)
    BY <1>4 DEF Runs, EndpointGo
  <2> HIDE DEF w
  <2>5. Out(w, n)
    BY <1>4, <2>1, <2>e, <2>4, LAdvance
  <2> QED BY <2>1, <2>2, <2>3, <2>5, Through
<1> QED BY <1>1, <1>2, <1>3, <1>4

(* The dispatch of a resumption. *)
LEMMA LResumed ==
  ASSUME NEW k, Runs(k), Silent(k), ~Held(k), k.rowTransition => k.rowEntered
  PROVE  Out(k, Resumed(k))
<1> DEFINE n == Resumed(k)
<1>1. CASE k.rowTransition /\ k.cond = Conditions
  <2> DEFINE w == [k EXCEPT !.rowTransition = FALSE, !.rowInflight = FALSE, !.rowEntered = FALSE,
      !.cond = @ + 1]
  <2>a. Typed(w)
    BY <1>1, ConstantsAssumption DEF Runs, Typed, Slots
  <2>b. Frame(k, w)
    BY DEF Runs, Typed, Slots, Frame
  <2>1. w.active /\ ~w.cleaning /\ Silent(w) /\ w.generation = k.generation /\ w.pending = k.pending
    BY DEF Runs, Typed, Slots, Silent
  <2>2. n = Cleanup(w, "finished", "driven")
    BY <1>1 DEF Resumed
  <2> QED BY <2>a, <2>b, <2>1, <2>2, CleanupCleans, ThroughCleaned
<1>2. CASE k.rowTransition /\ k.cond # Conditions
  <2>1. Runs(n)
    BY <1>2, C3, ConstantsAssumption DEF Runs, Typed, Slots, Ask, Do, Silent, Resumed, Position,
       Phases, Targets, Resumes, Waits
  <2>2. Frame(k, n)
    BY <1>2 DEF Runs, Typed, Slots, Ask, Do, Silent, Resumed, Position, Frame
  <2>3. n.ask = <<Request("move", "start")>> /\ n.do = <<>>
    BY <1>2, One DEF Runs, Typed, Slots, Ask, Do, Silent, Resumed, Position
  <2>4. n.generation = k.generation /\ n.pending = k.pending /\ k.rowTransition /\ k.rowEntered
        /\ ~n.rowTransition /\ ~n.rowInflight /\ ~n.rowEntered
    BY <1>2 DEF Runs, Typed, Slots, Ask, Do, Silent, Resumed, Position
  <2> HIDE DEF n
  <2>5. Asks(k, n)
    BY <1>2, <2>3, <2>4 DEF Asks, Goes, Interposes, PauseTo, SameRow
  <2>6. Counts(k, n)
    BY <2>3, <2>4 DEF Counts, Interposes, PauseTo, Request
  <2>r. n.ask # <<Request("persistent", "no")>>
    BY <2>3, NotOne DEF Request
  <2>7. Rows(k, n)
    BY <2>4, <2>r DEF Rows, SameRow
  <2>8. Does(k, n)
    BY <1>2, <2>3, <2>4 DEF Does, Runs, Typed
  <2>a. ~Interposes(n)
    BY <2>3 DEF Interposes, PauseTo, Request
  <2>9. Stays(k, n)
    BY <1>2, <2>a DEF Stays
  <2>10. Paced(k, n)
    BY <1>2, <2>3, NotOne DEF Paced, Request
  <2> QED BY <2>1, <2>2, <2>5, <2>6, <2>7, <2>8, <2>9, <2>10 DEF Ran, Out, n
<1>3. CASE ~k.rowTransition /\ k.resume = "positioning"
  <2> DEFINE w == [k EXCEPT !.resume = "sweep"]
  <2>1. Runs(w) /\ Silent(w)
    BY <1>3 DEF Runs, Typed, Slots, Silent, Phases, Targets, Resumes, Waits
  <2>2. Frame(k, w) /\ SameRow(k, w) /\ w.generation = k.generation /\ w.pending = k.pending
    BY <1>3 DEF Runs, Typed, Slots, Frame, SameRow
  <2>e. ~Held(w) /\ (~w.rowTransition \/ w.rowEntered)
    BY <1>3 DEF Runs, Typed, Slots, Held, SameRow
  <2>3. Held(k) => Held(w)
    BY <1>3 DEF Runs, Typed, Slots, Held
  <2>4. n = Position(w)
    BY <1>3 DEF Runs, Resumed
  <2> HIDE DEF w
  <2>5. Out(w, n)
    BY <1>3, <2>1, <2>e, <2>4, LPosition
  <2> QED BY <2>1, <2>2, <2>3, <2>5, Through
<1>4. CASE ~k.rowTransition /\ k.resume = "endpoint"
  <2> DEFINE w == [k EXCEPT !.resume = "sweep"]
  <2>1. Runs(w) /\ Silent(w)
    BY <1>4 DEF Runs, Typed, Slots, Silent, Phases, Targets, Resumes, Waits
  <2>2. Frame(k, w) /\ SameRow(k, w) /\ w.generation = k.generation /\ w.pending = k.pending
    BY <1>4 DEF Runs, Typed, Slots, Frame, SameRow
  <2>e. ~Held(w) /\ (~w.rowTransition \/ w.rowEntered)
    BY <1>4 DEF Runs, Typed, Slots, Held, SameRow
  <2>3. Held(k) => Held(w)
    BY <1>4 DEF Runs, Typed, Slots, Held
  <2>4. n = EndpointGo(w)
    BY <1>4 DEF Runs, Resumed
  <2> HIDE DEF w
  <2>5. Out(w, n)
    BY <1>4, <2>1, <2>e, <2>4, LEndpointGo
  <2> QED BY <2>1, <2>2, <2>3, <2>5, Through
<1>5. CASE ~k.rowTransition /\ k.resume = "bias"
  <2> DEFINE w == [k EXCEPT !.resume = "sweep"]
  <2>1. Runs(w) /\ Silent(w)
    BY <1>5 DEF Runs, Typed, Slots, Silent, Phases, Targets, Resumes, Waits
  <2>2. Frame(k, w) /\ SameRow(k, w) /\ w.generation = k.generation /\ w.pending = k.pending
    BY <1>5 DEF Runs, Typed, Slots, Frame, SameRow
  <2>e. ~Held(w) /\ (~w.rowTransition \/ w.rowEntered)
    BY <1>5 DEF Runs, Typed, Slots, Held, SameRow
  <2>3. Held(k) => Held(w)
    BY <1>5 DEF Runs, Typed, Slots, Held
  <2>4. n = BeginLeg(w, 0, "stop")
    BY <1>5 DEF Runs, Resumed
  <2> HIDE DEF w
  <2>5. Out(w, n)
    BY <1>5, <2>1, <2>e, <2>4, LBeginLeg, Ends
  <2> QED BY <2>1, <2>2, <2>3, <2>5, Through
<1>6. CASE ~k.rowTransition /\ k.resume = "next"
  <2> DEFINE w == [k EXCEPT !.resume = "sweep"]
  <2>1. Runs(w) /\ Silent(w)
    BY <1>6 DEF Runs, Typed, Slots, Silent, Phases, Targets, Resumes, Waits
  <2>2. Frame(k, w) /\ SameRow(k, w) /\ w.generation = k.generation /\ w.pending = k.pending
    BY <1>6 DEF Runs, Typed, Slots, Frame, SameRow
  <2>e. ~Held(w) /\ (~w.rowTransition \/ w.rowEntered)
    BY <1>6 DEF Runs, Typed, Slots, Held, SameRow
  <2>3. Held(k) => Held(w)
    BY <1>6 DEF Runs, Typed, Slots, Held
  <2>4. n = NextCondition(w)
    BY <1>6 DEF Runs, Resumed
  <2> HIDE DEF w
  <2>5. Out(w, n)
    BY <1>6, <2>1, <2>e, <2>4, LNextCondition
  <2> QED BY <2>1, <2>2, <2>3, <2>5, Through
<1>7. CASE ~k.rowTransition /\ k.resume = "sweep"
  BY <1>7, LBeginLeg DEF Resumed, Runs, Typed
<1> QED BY <1>1, <1>2, <1>3, <1>4, <1>5, <1>6, <1>7 DEF Runs, Typed, Resumes

(* _resume_after_thermal_recovery moves a held run for the operator only. *)
LEMMA LResume ==
  ASSUME NEW k, Runs(k), Silent(k), NEW operator \in BOOLEAN
  PROVE  /\ (Ran(k, Resume(k, operator)) /\ Paced(k, Resume(k, operator))) \/ Cleaned(k, Resume(k, operator))
         /\ ~operator => Out(k, Resume(k, operator))
<1> DEFINE n == Resume(k, operator)
           seen == [k EXCEPT !.manual = @ \/ thermal \in {"warn", "trip", "lost"}]
           go == [seen EXCEPT !.thermalHold = FALSE, !.manual = FALSE, !.button = FALSE]
           shown == [seen EXCEPT !.button = ~NormalWait(seen) /\ thermal = "ok" /\ ~Unsettled(seen)]
<1>1. CASE ~k.thermalHold
  <2>1. Runs(n)
    BY <1>1, C3, ConstantsAssumption DEF Runs, Typed, Slots, Ask, Do, Silent, Resume, Phases,
       Targets, Resumes, Waits
  <2>2. Frame(k, n)
    BY <1>1 DEF Runs, Typed, Slots, Ask, Do, Silent, Resume, Frame
  <2>3. n.ask = <<>> /\ n.do = <<>>
    BY <1>1, One DEF Runs, Typed, Slots, Ask, Do, Silent, Resume
  <2>4. n.generation = k.generation /\ n.pending = k.pending /\ SameRow(k, n)
    BY <1>1 DEF Runs, Typed, Slots, Ask, Do, Silent, Resume, SameRow
  <2>b. n.manual = k.manual /\ n.hold.on = k.hold.on /\ n.thermalHold = k.thermalHold
    BY <1>1 DEF Runs, Typed, Slots, Ask, Do, Silent, Resume
  <2> HIDE DEF n
  <2>5. Asks(k, n)
    BY <1>1, <2>3, <2>4 DEF Asks, Goes, Interposes, PauseTo, SameRow
  <2>6. Counts(k, n)
    BY <2>3, <2>4 DEF Counts, Interposes, PauseTo, Request
  <2>r. n.ask # <<Request("persistent", "no")>>
    BY <2>3, NotOne DEF Request
  <2>7. Rows(k, n)
    BY <2>4, <2>r DEF Rows, SameRow
  <2>8. Does(k, n)
    BY <1>1, <2>3, <2>4 DEF Does, Runs, Typed
  <2>a. ~Goes(n) /\ ~Interposes(n)
    BY <2>3, NotOne DEF Goes, Interposes, PauseTo, Request
  <2>c. Held(k) => Held(n)
    BY <1>1, <2>b DEF Held
  <2>9. Stays(k, n)
    BY <1>1, <2>a, <2>c DEF Stays
  <2>10. Paced(k, n)
    BY <1>1, <2>3, NotOne DEF Paced, Request
  <2> QED BY <2>1, <2>2, <2>5, <2>6, <2>7, <2>8, <2>9, <2>10 DEF Ran, Out, n
<1>2. CASE k.thermalHold /\ n = shown
  <2>1. Runs(n)
    BY <1>2, C3, ConstantsAssumption DEF Runs, Typed, Slots, Ask, Do, Silent, Phases, Targets,
       Resumes, Waits
  <2>2. Frame(k, n)
    BY <1>2 DEF Runs, Typed, Slots, Ask, Do, Silent, Frame
  <2>3. n.ask = <<>> /\ n.do = <<>>
    BY <1>2, One DEF Runs, Typed, Slots, Ask, Do, Silent
  <2>4. n.generation = k.generation /\ n.pending = k.pending /\ SameRow(k, n)
    BY <1>2 DEF Runs, Typed, Slots, Ask, Do, Silent, SameRow
  <2>b. (k.manual => n.manual) /\ n.hold.on = k.hold.on /\ n.thermalHold = k.thermalHold
    BY <1>2 DEF Runs, Typed, Slots, Ask, Do, Silent
  <2> HIDE DEF n
  <2>5. Asks(k, n)
    BY <1>2, <2>3, <2>4 DEF Asks, Goes, Interposes, PauseTo, SameRow
  <2>6. Counts(k, n)
    BY <2>3, <2>4 DEF Counts, Interposes, PauseTo, Request
  <2>r. n.ask # <<Request("persistent", "no")>>
    BY <2>3, NotOne DEF Request
  <2>7. Rows(k, n)
    BY <2>4, <2>r DEF Rows, SameRow
  <2>8. Does(k, n)
    BY <1>2, <2>3, <2>4 DEF Does, Runs, Typed
  <2>a. ~Goes(n) /\ ~Interposes(n)
    BY <2>3, NotOne DEF Goes, Interposes, PauseTo, Request
  <2>c. Held(k) => Held(n)
    BY <1>2, <2>b DEF Held
  <2>9. Stays(k, n)
    BY <1>2, <2>a, <2>c DEF Stays
  <2>10. Paced(k, n)
    BY <1>2, <2>3, NotOne DEF Paced, Request
  <2> QED BY <2>1, <2>2, <2>5, <2>6, <2>7, <2>8, <2>9, <2>10 DEF Ran, Out, n
<1>3. CASE k.thermalHold /\ n = Resumed(go) /\ (operator \/ NormalWait(seen)) /\ ~Unsettled(seen)
  <2>1. Runs(go) /\ Silent(go) /\ ~Held(go)
    BY DEF Runs, Typed, Slots, Silent, Held
  <2>2. Frame(k, go) /\ SameRow(k, go) /\ go.generation = k.generation /\ go.pending = k.pending
    BY DEF Runs, Typed, Slots, Frame, SameRow
  <2>3. go.rowTransition => go.rowEntered
    BY <1>3 DEF Runs, Typed, Slots, Unsettled
  <2>4. Out(go, n)
    <3> HIDE DEF go, n
    <3> QED BY <1>3, <2>1, <2>3, LResumed
  <2>5. ~operator => ~Held(k)
    BY <1>3 DEF Runs, Typed, Slots, NormalWait, Held
  <2> HIDE DEF go, n, seen
  <2>6. CASE Cleaned(go, n)
    <3>1. Cleaned(k, n)
      BY <2>6, <2>2 DEF Cleaned, Frame
    <3> QED BY <3>1 DEF Out, n
  <2>7. CASE Ran(go, n) /\ Paced(go, n)
    <3>1. Runs(n) /\ Frame(k, n)
      BY <2>7, <2>2 DEF Ran, Frame
    <3>2. Asks(k, n) /\ Counts(k, n)
      BY <2>7, <2>2 DEF Ran, Asks, Counts, SameRow
    <3>3. Rows(k, n) /\ Does(k, n)
      BY <2>7, <2>2 DEF Ran, Rows, Does, SameRow
    <3>4. Paced(k, n)
      BY <2>7, <2>2 DEF Paced, SameRow
    <3>5. ~operator => Out(k, n)
      BY <2>2, <2>4, <2>5, Through
    <3> QED BY <3>1, <3>2, <3>3, <3>4, <3>5 DEF Ran, n
  <2> QED BY <2>4, <2>6, <2>7 DEF Out, n
<1>4. ~k.thermalHold \/ n = shown \/ (n = Resumed(go) /\ (operator \/ NormalWait(seen)) /\ ~Unsettled(seen))
  BY DEF Resume, Runs
<1>5. ASSUME Out(k, n)
      PROVE  (Ran(k, n) /\ Paced(k, n)) \/ Cleaned(k, n)
  BY <1>5 DEF Out
<1> HIDE DEF n, go, seen, shown
<1> QED BY <1>1, <1>2, <1>3, <1>4, <1>5 DEF n

(* The transition between two conditions asks for persistence once. *)
LEMMA LBeginRow ==
  ASSUME NEW k, Runs(k), Silent(k), k.rowTransition
  PROVE  Out(k, BeginRow(k))
<1> DEFINE n == BeginRow(k)
<1>1. CASE k.rowInflight
  BY <1>1, LStay DEF BeginRow
<1>2. CASE ~k.rowInflight
  <2>1. Runs(n)
    BY <1>2, C3, ConstantsAssumption DEF Runs, Typed, Slots, Ask, Do, Silent, BeginRow, Phases,
       Targets, Resumes, Waits
  <2>2. Frame(k, n)
    BY <1>2 DEF Runs, Typed, Slots, Ask, Do, Silent, BeginRow, Frame
  <2>3. n.ask = <<Request("persistent", "no")>> /\ n.do = <<>>
    BY <1>2, One DEF Runs, Typed, Slots, Ask, Do, Silent, BeginRow
  <2>4. n.generation = k.generation /\ n.pending = k.pending /\ n.rowTransition /\ n.rowInflight
        /\ ~n.rowEntered
    BY <1>2 DEF Runs, Typed, Slots, Ask, Do, Silent, BeginRow
  <2>b. n.manual = k.manual /\ n.thermalHold
    BY <1>2 DEF Runs, Typed, Slots, Ask, Do, Silent, BeginRow
  <2> HIDE DEF n
  <2>5. Asks(k, n)
    BY <1>2, <2>3, <2>4 DEF Asks, Goes, Interposes, PauseTo, SameRow
  <2>6. Counts(k, n)
    BY <2>3, <2>4 DEF Counts, Interposes, PauseTo, Request
  <2>7. Rows(k, n)
    BY <2>3, <2>4 DEF Rows
  <2>8. Does(k, n)
    BY <1>2, <2>3, <2>4 DEF Does, Runs, Typed
  <2>a. ~Goes(n) /\ ~Interposes(n)
    BY <2>3, NotOne DEF Goes, Interposes, PauseTo, Request
  <2>c. Held(k) => Held(n)
    BY <1>2, <2>b DEF Held
  <2>9. Stays(k, n)
    BY <1>2, <2>a, <2>c DEF Stays
  <2>10. Paced(k, n)
    BY <1>2, <2>3, NotOne DEF Paced, Request
  <2> QED BY <2>1, <2>2, <2>5, <2>6, <2>7, <2>8, <2>9, <2>10 DEF Ran, Out, n
<1> QED BY <1>1, <1>2

(* An acknowledged endpoint pause. *)
LEMMA LEndpointAcknowledged ==
  ASSUME NEW k, Runs(k), Silent(k), ~k.hold.on
  PROVE  Out(k, EndpointAcknowledged(k))
<1> DEFINE n == EndpointAcknowledged(k)
<1>1. CASE k.pending > 0
  <2>1. Runs(n)
    BY <1>1, C3, ConstantsAssumption DEF Runs, Typed, Slots, Ask, Do, Silent,
       EndpointAcknowledged, Phases, Targets, Resumes, Waits
  <2>2. Frame(k, n)
    BY <1>1 DEF Runs, Typed, Slots, Ask, Do, Silent, EndpointAcknowledged, Frame
  <2>3. n.ask = <<>> /\ n.do = <<>>
    BY <1>1, One DEF Runs, Typed, Slots, Ask, Do, Silent, EndpointAcknowledged
  <2>4. n.generation = k.generation /\ n.pending = k.pending /\ SameRow(k, n)
    BY <1>1 DEF Runs, Typed, Slots, Ask, Do, Silent, EndpointAcknowledged, SameRow
  <2>b. n.manual = k.manual /\ n.hold.on = k.hold.on /\ n.thermalHold = k.thermalHold
    BY <1>1 DEF Runs, Typed, Slots, Ask, Do, Silent, EndpointAcknowledged
  <2> HIDE DEF n
  <2>5. Asks(k, n)
    BY <1>1, <2>3, <2>4 DEF Asks, Goes, Interposes, PauseTo, SameRow
  <2>6. Counts(k, n)
    BY <2>3, <2>4 DEF Counts, Interposes, PauseTo, Request
  <2>r. n.ask # <<Request("persistent", "no")>>
    BY <2>3, NotOne DEF Request
  <2>7. Rows(k, n)
    BY <2>4, <2>r DEF Rows, SameRow
  <2>8. Does(k, n)
    BY <1>1, <2>3, <2>4 DEF Does, Runs, Typed
  <2>a. ~Goes(n) /\ ~Interposes(n)
    BY <2>3, NotOne DEF Goes, Interposes, PauseTo, Request
  <2>c. Held(k) => Held(n)
    BY <1>1, <2>b DEF Held
  <2>9. Stays(k, n)
    BY <1>1, <2>a, <2>c DEF Stays
  <2>10. Paced(k, n)
    BY <1>1, <2>3, NotOne DEF Paced, Request
  <2> QED BY <2>1, <2>2, <2>5, <2>6, <2>7, <2>8, <2>9, <2>10 DEF Ran, Out, n
<1>2. CASE ~(k.pending > 0) /\ k.rowTransition
  <2> DEFINE w == [k EXCEPT !.ackWaiting = FALSE, !.transition = FALSE, !.resume = "sweep"]
  <2>1. Runs(w) /\ Silent(w)
    BY <1>2 DEF Runs, Typed, Slots, Silent, Phases, Targets, Resumes, Waits
  <2>2. Frame(k, w) /\ SameRow(k, w) /\ w.generation = k.generation /\ w.pending = k.pending
    BY <1>2 DEF Runs, Typed, Slots, Frame, SameRow
  <2>e. w.rowTransition
    BY <1>2 DEF Runs, Typed, Slots, Held, SameRow
  <2>3. Held(k) => Held(w)
    BY <1>2 DEF Runs, Typed, Slots, Held
  <2>4. n = BeginRow(w)
    BY <1>2 DEF Runs, EndpointAcknowledged
  <2> HIDE DEF w
  <2>5. Out(w, n)
    BY <1>2, <2>1, <2>e, <2>4, LBeginRow
  <2> QED BY <2>1, <2>2, <2>3, <2>5, Through
<1>3. CASE ~(k.pending > 0) /\ ~k.rowTransition /\ k.thermalHold
  <2> DEFINE w == [k EXCEPT !.ackWaiting = FALSE, !.resume = "endpoint"]
  <2>1. Runs(w) /\ Silent(w)
    BY <1>3 DEF Runs, Typed, Slots, Silent, Phases, Targets, Resumes, Waits
  <2>2. Frame(k, w) /\ SameRow(k, w) /\ w.generation = k.generation /\ w.pending = k.pending
    BY <1>3 DEF Runs, Typed, Slots, Frame, SameRow
  <2>3. Held(k) => Held(w)
    BY <1>3 DEF Runs, Typed, Slots, Held
  <2>4. n = Resume(w, FALSE)
    BY <1>3 DEF Runs, EndpointAcknowledged
  <2> HIDE DEF w
  <2>5. Out(w, n)
    BY <1>3, <2>1, <2>4, LResume
  <2> QED BY <2>1, <2>2, <2>3, <2>5, Through
<1>4. CASE ~(k.pending > 0) /\ ~k.rowTransition /\ ~k.thermalHold
  <2> DEFINE w == [k EXCEPT !.ackWaiting = FALSE]
  <2>1. Runs(w) /\ Silent(w)
    BY <1>4 DEF Runs, Typed, Slots, Silent, Phases, Targets, Resumes, Waits
  <2>2. Frame(k, w) /\ SameRow(k, w) /\ w.generation = k.generation /\ w.pending = k.pending
    BY <1>4 DEF Runs, Typed, Slots, Frame, SameRow
  <2>e. ~Held(w) /\ (~w.rowTransition \/ w.rowEntered)
    BY <1>4 DEF Runs, Typed, Slots, Held, SameRow
  <2>3. Held(k) => Held(w)
    BY <1>4 DEF Runs, Typed, Slots, Held
  <2>4. n = Advance(w)
    BY <1>4 DEF Runs, EndpointAcknowledged
  <2> HIDE DEF w
  <2>5. Out(w, n)
    BY <1>4, <2>1, <2>e, <2>4, LAdvance
  <2> QED BY <2>1, <2>2, <2>3, <2>5, Through
<1> QED BY <1>1, <1>2, <1>3, <1>4

(* _on_magnet_operation of a running series, but for the answer a row transition waits
   for. *)
LEMMA LMagnetOperation ==
  ASSUME NEW k, Runs(k), Silent(k), ~k.shutdownWaiting, NEW name, name # "persistent" \/ ~k.rowTransition
  PROVE  Out(k, MagnetOperation(k, name))
<1> DEFINE n == MagnetOperation(k, name)
<1>1. CASE k.hold.on /\ name = "pause"
  BY <1>1, LAck DEF MagnetOperation, Runs
<1>2. CASE ~k.hold.on /\ name = "pause" /\ k.thermalPause /\ k.transition
  <2> DEFINE w == [k EXCEPT !.thermalPause = FALSE]
  <2>1. Runs(w) /\ Silent(w)
    BY <1>2 DEF Runs, Typed, Slots, Silent, Phases, Targets, Resumes, Waits
  <2>2. Frame(k, w) /\ SameRow(k, w) /\ w.generation = k.generation /\ w.pending = k.pending
    BY <1>2 DEF Runs, Typed, Slots, Frame, SameRow
  <2>e. ~w.hold.on
    BY <1>2 DEF Runs, Typed, Slots, Held, SameRow
  <2>3. Held(k) => Held(w)
    BY <1>2 DEF Runs, Typed, Slots, Held
  <2>4. n = EndpointAcknowledged(w)
    BY <1>2 DEF Runs, MagnetOperation
  <2> HIDE DEF w
  <2>5. Out(w, n)
    BY <1>2, <2>1, <2>e, <2>4, LEndpointAcknowledged
  <2> QED BY <2>1, <2>2, <2>3, <2>5, Through
<1>3. CASE ~k.hold.on /\ name = "pause" /\ k.thermalPause /\ ~k.transition
  <2>1. Runs(n)
    BY <1>3, C3, ConstantsAssumption DEF Runs, Typed, Slots, Ask, Do, Silent, MagnetOperation,
       Phases, Targets, Resumes, Waits
  <2>2. Frame(k, n)
    BY <1>3 DEF Runs, Typed, Slots, Ask, Do, Silent, MagnetOperation, Frame
  <2>3. n.ask = <<>> /\ n.do = <<>>
    BY <1>3, One DEF Runs, Typed, Slots, Ask, Do, Silent, MagnetOperation
  <2>4. n.generation = k.generation /\ n.pending = k.pending /\ SameRow(k, n)
    BY <1>3 DEF Runs, Typed, Slots, Ask, Do, Silent, MagnetOperation, SameRow
  <2>b. n.manual = k.manual /\ n.hold.on = k.hold.on /\ n.thermalHold = k.thermalHold
    BY <1>3 DEF Runs, Typed, Slots, Ask, Do, Silent, MagnetOperation
  <2> HIDE DEF n
  <2>5. Asks(k, n)
    BY <1>3, <2>3, <2>4 DEF Asks, Goes, Interposes, PauseTo, SameRow
  <2>6. Counts(k, n)
    BY <2>3, <2>4 DEF Counts, Interposes, PauseTo, Request
  <2>r. n.ask # <<Request("persistent", "no")>>
    BY <2>3, NotOne DEF Request
  <2>7. Rows(k, n)
    BY <2>4, <2>r DEF Rows, SameRow
  <2>8. Does(k, n)
    BY <1>3, <2>3, <2>4 DEF Does, Runs, Typed
  <2>a. ~Goes(n) /\ ~Interposes(n)
    BY <2>3, NotOne DEF Goes, Interposes, PauseTo, Request
  <2>c. Held(k) => Held(n)
    BY <1>3, <2>b DEF Held
  <2>9. Stays(k, n)
    BY <1>3, <2>a, <2>c DEF Stays
  <2>10. Paced(k, n)
    BY <1>3, <2>3, NotOne DEF Paced, Request
  <2> QED BY <2>1, <2>2, <2>5, <2>6, <2>7, <2>8, <2>9, <2>10 DEF Ran, Out, n
<1>4. CASE ~k.hold.on /\ name = "pause" /\ ~k.thermalPause /\ k.transition
  BY <1>4, LEndpointAcknowledged DEF MagnetOperation, Runs
<1>5. CASE ~k.hold.on /\ name = "pause" /\ ~k.thermalPause /\ ~k.transition
  BY <1>5, LStay DEF MagnetOperation, Runs
<1>6. CASE name \in {"failed:pause", "failed:persistent"}
  BY <1>6, FailCleans DEF MagnetOperation, Runs, Out
<1>7. CASE name \notin {"pause", "failed:pause", "failed:persistent"}
  BY <1>7, LStay DEF MagnetOperation, Runs
<1> QED BY <1>1, <1>2, <1>3, <1>4, <1>5, <1>6, <1>7

(* The answer a row transition waits for. *)
LEMMA LRowEntered ==
  ASSUME NEW k, Runs(k), Silent(k), ~k.shutdownWaiting, k.rowTransition
  PROVE  Out([k EXCEPT !.rowEntered = TRUE], MagnetOperation(k, "persistent"))
<1>1. Runs([k EXCEPT !.rowEntered = TRUE]) /\ Silent([k EXCEPT !.rowEntered = TRUE])
  BY DEF Runs, Typed, Slots, Silent
<1>2. MagnetOperation(k, "persistent") = Resume([k EXCEPT !.rowEntered = TRUE], FALSE)
  BY DEF MagnetOperation, Runs
<1> QED BY <1>1, <1>2, LResume

(* A configured magnet is positioned, unless the run is held. *)
LEMMA LConfigured ==
  ASSUME NEW k, Runs(k), Silent(k),
         NEW n, n = (IF k.hold.on THEN [k EXCEPT !.hold.phase = "positioning"]
                     ELSE IF k.thermalHold THEN [k EXCEPT !.resume = "positioning"] ELSE Position(k))
  PROVE  /\ Ran(k, n) /\ Stays(k, n)
         /\ ~k.rowTransition => Paced(k, n)
<1>1. CASE k.hold.on
  <2>h. n.hold \in Holds
    BY <1>1, C3, ConstantsAssumption DEF Runs, Typed, Slots, Ask, Do, Silent, Holds, Phases, Phases
  <2>1. Runs(n)
    BY <1>1, <2>h, C3, ConstantsAssumption DEF Runs, Typed, Slots, Ask, Do, Silent, Holds,
       Phases, Phases, Targets, Resumes, Waits
  <2>2. Frame(k, n)
    BY <1>1 DEF Runs, Typed, Slots, Ask, Do, Silent, Holds, Phases, Frame
  <2>3. n.ask = <<>> /\ n.do = <<>>
    BY <1>1, One DEF Runs, Typed, Slots, Ask, Do, Silent, Holds, Phases
  <2>4. n.generation = k.generation /\ n.pending = k.pending /\ SameRow(k, n)
    BY <1>1 DEF Runs, Typed, Slots, Ask, Do, Silent, Holds, Phases, SameRow
  <2>b. n.manual = k.manual /\ n.hold.on = k.hold.on /\ n.thermalHold = k.thermalHold
    BY <1>1 DEF Runs, Typed, Slots, Ask, Do, Silent, Holds, Phases, Phases
  <2>5. Asks(k, n)
    BY <1>1, <2>3, <2>4 DEF Asks, Goes, Interposes, PauseTo, SameRow
  <2>6. Counts(k, n)
    BY <2>3, <2>4 DEF Counts, Interposes, PauseTo, Request
  <2>r. n.ask # <<Request("persistent", "no")>>
    BY <2>3, NotOne DEF Request
  <2>7. Rows(k, n)
    BY <2>4, <2>r DEF Rows, SameRow
  <2>8. Does(k, n)
    BY <1>1, <2>3, <2>4 DEF Does, Runs, Typed
  <2>a. ~Goes(n) /\ ~Interposes(n)
    BY <2>3, NotOne DEF Goes, Interposes, PauseTo, Request
  <2>c. Held(k) => Held(n)
    BY <1>1, <2>b DEF Held
  <2>9. Stays(k, n)
    BY <1>1, <2>a, <2>c DEF Stays
  <2>x. Paced(k, n)
    BY <2>3, NotOne DEF Paced, Request
  <2> QED BY <2>x, <2>1, <2>2, <2>5, <2>6, <2>7, <2>8, <2>9 DEF Ran
<1>2. CASE ~k.hold.on /\ k.thermalHold
  <2>1. Runs(n)
    BY <1>2, C3, ConstantsAssumption DEF Runs, Typed, Slots, Ask, Do, Silent, Phases, Phases,
       Targets, Resumes, Waits
  <2>2. Frame(k, n)
    BY <1>2 DEF Runs, Typed, Slots, Ask, Do, Silent, Phases, Frame
  <2>3. n.ask = <<>> /\ n.do = <<>>
    BY <1>2, One DEF Runs, Typed, Slots, Ask, Do, Silent, Phases
  <2>4. n.generation = k.generation /\ n.pending = k.pending /\ SameRow(k, n)
    BY <1>2 DEF Runs, Typed, Slots, Ask, Do, Silent, Phases, SameRow
  <2>b. n.manual = k.manual /\ n.hold.on = k.hold.on /\ n.thermalHold = k.thermalHold
    BY <1>2 DEF Runs, Typed, Slots, Ask, Do, Silent, Phases
  <2>5. Asks(k, n)
    BY <1>2, <2>3, <2>4 DEF Asks, Goes, Interposes, PauseTo, SameRow
  <2>6. Counts(k, n)
    BY <2>3, <2>4 DEF Counts, Interposes, PauseTo, Request
  <2>r. n.ask # <<Request("persistent", "no")>>
    BY <2>3, NotOne DEF Request
  <2>7. Rows(k, n)
    BY <2>4, <2>r DEF Rows, SameRow
  <2>8. Does(k, n)
    BY <1>2, <2>3, <2>4 DEF Does, Runs, Typed
  <2>a. ~Goes(n) /\ ~Interposes(n)
    BY <2>3, NotOne DEF Goes, Interposes, PauseTo, Request
  <2>c. Held(k) => Held(n)
    BY <1>2, <2>b DEF Held
  <2>9. Stays(k, n)
    BY <1>2, <2>a, <2>c DEF Stays
  <2>x. Paced(k, n)
    BY <2>3, NotOne DEF Paced, Request
  <2> QED BY <2>x, <2>1, <2>2, <2>5, <2>6, <2>7, <2>8, <2>9 DEF Ran
<1>3. CASE ~k.hold.on /\ ~k.thermalHold
  <2>0. ~Held(k)
    BY <1>3 DEF Held
  <2>n. n = Position(k)
    BY <1>3
  <2>y. Ran(k, n) /\ Stays(k, n)
    BY <2>n, <2>0, LPositionRan
  <2>z. ~k.rowTransition => Paced(k, n)
    BY <2>n, <2>0, LPosition DEF Out, Cleaned, PauseTo, Paced
  <2> QED BY <2>y, <2>z
<1> QED BY <1>1, <1>2, <1>3

(* _on_safe_move of a running series. *)
LEMMA LMoved ==
  ASSUME NEW k, Runs(k), Silent(k), NEW result
  PROVE  Out(k, Moved(k, result))
<1> DEFINE n == Moved(k, result)
<1>1. CASE result = "thermal" /\ k.thermalHold
  <2>1. Runs(n)
    BY <1>1, C3, ConstantsAssumption DEF Runs, Typed, Slots, Ask, Do, Silent, Moved, Phases,
       Targets, Resumes, Waits
  <2>2. Frame(k, n)
    BY <1>1 DEF Runs, Typed, Slots, Ask, Do, Silent, Moved, Frame
  <2>3. n.ask = <<>> /\ n.do = <<>>
    BY <1>1, One DEF Runs, Typed, Slots, Ask, Do, Silent, Moved
  <2>4. n.generation = k.generation /\ n.pending = k.pending /\ SameRow(k, n)
    BY <1>1 DEF Runs, Typed, Slots, Ask, Do, Silent, Moved, SameRow
  <2>b. n.manual = k.manual /\ n.hold.on = k.hold.on /\ n.thermalHold = k.thermalHold
    BY <1>1 DEF Runs, Typed, Slots, Ask, Do, Silent, Moved
  <2> HIDE DEF n
  <2>5. Asks(k, n)
    BY <1>1, <2>3, <2>4 DEF Asks, Goes, Interposes, PauseTo, SameRow
  <2>6. Counts(k, n)
    BY <2>3, <2>4 DEF Counts, Interposes, PauseTo, Request
  <2>r. n.ask # <<Request("persistent", "no")>>
    BY <2>3, NotOne DEF Request
  <2>7. Rows(k, n)
    BY <2>4, <2>r DEF Rows, SameRow
  <2>8. Does(k, n)
    BY <1>1, <2>3, <2>4 DEF Does, Runs, Typed
  <2>a. ~Goes(n) /\ ~Interposes(n)
    BY <2>3, NotOne DEF Goes, Interposes, PauseTo, Request
  <2>c. Held(k) => Held(n)
    BY <1>1, <2>b DEF Held
  <2>9. Stays(k, n)
    BY <1>1, <2>a, <2>c DEF Stays
  <2>10. Paced(k, n)
    BY <1>1, <2>3, NotOne DEF Paced, Request
  <2> QED BY <2>1, <2>2, <2>5, <2>6, <2>7, <2>8, <2>9, <2>10 DEF Ran, Out, n
<1>2. CASE ~(result = "thermal" /\ k.thermalHold) /\ k.hold.on
  BY <1>2, LStay DEF Moved, Runs
<1>3. CASE ~(result = "thermal" /\ k.thermalHold) /\ ~k.hold.on /\ result # "ok"
  BY <1>3, FailCleans DEF Moved, Runs, Out
<1>4. CASE ~k.hold.on /\ result = "ok" /\ k.thermalHold
  <2>1. Runs(n)
    BY <1>4, C3, ConstantsAssumption DEF Runs, Typed, Slots, Ask, Do, Silent, Moved, Phases,
       Targets, Resumes, Waits
  <2>2. Frame(k, n)
    BY <1>4 DEF Runs, Typed, Slots, Ask, Do, Silent, Moved, Frame
  <2>3. n.ask = <<>> /\ n.do = <<>>
    BY <1>4, One DEF Runs, Typed, Slots, Ask, Do, Silent, Moved
  <2>4. n.generation = k.generation /\ n.pending = k.pending /\ SameRow(k, n)
    BY <1>4 DEF Runs, Typed, Slots, Ask, Do, Silent, Moved, SameRow
  <2>b. n.manual = k.manual /\ n.hold.on = k.hold.on /\ n.thermalHold = k.thermalHold
    BY <1>4 DEF Runs, Typed, Slots, Ask, Do, Silent, Moved
  <2> HIDE DEF n
  <2>5. Asks(k, n)
    BY <1>4, <2>3, <2>4 DEF Asks, Goes, Interposes, PauseTo, SameRow
  <2>6. Counts(k, n)
    BY <2>3, <2>4 DEF Counts, Interposes, PauseTo, Request
  <2>r. n.ask # <<Request("persistent", "no")>>
    BY <2>3, NotOne DEF Request
  <2>7. Rows(k, n)
    BY <2>4, <2>r DEF Rows, SameRow
  <2>8. Does(k, n)
    BY <1>4, <2>3, <2>4 DEF Does, Runs, Typed
  <2>a. ~Goes(n) /\ ~Interposes(n)
    BY <2>3, NotOne DEF Goes, Interposes, PauseTo, Request
  <2>c. Held(k) => Held(n)
    BY <1>4, <2>b DEF Held
  <2>9. Stays(k, n)
    BY <1>4, <2>a, <2>c DEF Stays
  <2>10. Paced(k, n)
    BY <1>4, <2>3, NotOne DEF Paced, Request
  <2> QED BY <2>1, <2>2, <2>5, <2>6, <2>7, <2>8, <2>9, <2>10 DEF Ran, Out, n
<1>5. CASE ~k.hold.on /\ result = "ok" /\ ~k.thermalHold
  BY <1>5, LStart DEF Moved, Runs, Held
<1> QED BY <1>1, <1>2, <1>3, <1>4, <1>5

(* _on_sweep_started of a running series. *)
LEMMA LSweepStarted ==
  ASSUME NEW k, Runs(k), Silent(k), NEW ok \in BOOLEAN
  PROVE  Out(k, SweepStarted(k, ok))
<1> DEFINE n == SweepStarted(k, ok)
<1>1. CASE k.hold.on
  BY <1>1, LStay DEF SweepStarted, Runs
<1>2. CASE ~k.hold.on /\ ok
  <2>1. Runs(n)
    BY <1>2, C3, ConstantsAssumption DEF Runs, Typed, Slots, Ask, Do, Silent, SweepStarted,
       Phases, Targets, Resumes, Waits
  <2>2. Frame(k, n)
    BY <1>2 DEF Runs, Typed, Slots, Ask, Do, Silent, SweepStarted, Frame
  <2>3. n.ask = <<>> /\ n.do = <<>>
    BY <1>2, One DEF Runs, Typed, Slots, Ask, Do, Silent, SweepStarted
  <2>4. n.generation = k.generation /\ n.pending = k.pending /\ SameRow(k, n)
    BY <1>2 DEF Runs, Typed, Slots, Ask, Do, Silent, SweepStarted, SameRow
  <2>b. n.manual = k.manual /\ n.hold.on = k.hold.on /\ n.thermalHold = k.thermalHold
    BY <1>2 DEF Runs, Typed, Slots, Ask, Do, Silent, SweepStarted
  <2> HIDE DEF n
  <2>5. Asks(k, n)
    BY <1>2, <2>3, <2>4 DEF Asks, Goes, Interposes, PauseTo, SameRow
  <2>6. Counts(k, n)
    BY <2>3, <2>4 DEF Counts, Interposes, PauseTo, Request
  <2>r. n.ask # <<Request("persistent", "no")>>
    BY <2>3, NotOne DEF Request
  <2>7. Rows(k, n)
    BY <2>4, <2>r DEF Rows, SameRow
  <2>8. Does(k, n)
    BY <1>2, <2>3, <2>4 DEF Does, Runs, Typed
  <2>a. ~Goes(n) /\ ~Interposes(n)
    BY <2>3, NotOne DEF Goes, Interposes, PauseTo, Request
  <2>c. Held(k) => Held(n)
    BY <1>2, <2>b DEF Held
  <2>9. Stays(k, n)
    BY <1>2, <2>a, <2>c DEF Stays
  <2>10. Paced(k, n)
    BY <1>2, <2>3, NotOne DEF Paced, Request
  <2> QED BY <2>1, <2>2, <2>5, <2>6, <2>7, <2>8, <2>9, <2>10 DEF Ran, Out, n
<1>3. CASE ~k.hold.on /\ ~ok
  BY <1>3, FailCleans DEF SweepStarted, Runs, Out
<1> QED BY <1>1, <1>2, <1>3

(* An error of the worker. *)
LEMMA LMagnetError ==
  ASSUME NEW k, Runs(k), Silent(k), ~k.shutdownWaiting, NEW what
  PROVE  Out(k, MagnetError(k, what))
BY LBeginHold, FailCleans DEF MagnetError, Runs, Out

(* A lost session fails the run. *)
LEMMA LMagnetDisconnected ==
  ASSUME NEW k, Runs(k), Silent(k)
  PROVE  Out(k, MagnetDisconnected(k))
BY LBeginHold DEF MagnetDisconnected, Runs

(* The biases of a condition are there, or have failed. *)
LEMMA LBiasesReady ==
  ASSUME NEW k, Runs(k), Silent(k), NEW ok \in BOOLEAN
  PROVE  Out(k, BiasesReady(k, ok))
<1> DEFINE n == BiasesReady(k, ok)
<1>1. CASE ~ok
  <2> DEFINE w == [k EXCEPT !.biasInflight = FALSE]
  <2>1. Runs(w) /\ Silent(w)
    BY <1>1 DEF Runs, Typed, Slots, Silent, Phases, Targets, Resumes, Waits
  <2>2. Frame(k, w) /\ SameRow(k, w) /\ w.generation = k.generation /\ w.pending = k.pending
    BY <1>1 DEF Runs, Typed, Slots, Frame, SameRow
  <2>3. Held(k) => Held(w)
    BY <1>1 DEF Runs, Typed, Slots, Held
  <2>4. n = Fail(w, "persistent")
    BY <1>1 DEF Runs, BiasesReady
  <2> HIDE DEF w
  <2>5. Out(w, n)
    BY <1>1, <2>1, <2>4, FailCleans DEF Out
  <2> QED BY <2>1, <2>2, <2>3, <2>5, Through
<1>2. CASE ok /\ k.hold.on
  <2>h. n.hold \in Holds
    BY <1>2, C3, ConstantsAssumption DEF Runs, Typed, Slots, Ask, Do, Silent, BiasesReady, Holds
  <2>1. Runs(n)
    BY <1>2, <2>h, C3, ConstantsAssumption DEF Runs, Typed, Slots, Ask, Do, Silent, BiasesReady,
       Phases, Targets, Resumes, Waits
  <2>2. Frame(k, n)
    BY <1>2 DEF Runs, Typed, Slots, Ask, Do, Silent, BiasesReady, Frame
  <2>3. n.ask = <<>> /\ n.do = <<>>
    BY <1>2, One DEF Runs, Typed, Slots, Ask, Do, Silent, BiasesReady
  <2>4. n.generation = k.generation /\ n.pending = k.pending /\ SameRow(k, n)
    BY <1>2 DEF Runs, Typed, Slots, Ask, Do, Silent, BiasesReady, SameRow
  <2>b. n.manual = k.manual /\ n.hold.on = k.hold.on /\ n.thermalHold = k.thermalHold
    BY <1>2 DEF Runs, Typed, Slots, Ask, Do, Silent, BiasesReady, Holds
  <2> HIDE DEF n
  <2>5. Asks(k, n)
    BY <1>2, <2>3, <2>4 DEF Asks, Goes, Interposes, PauseTo, SameRow
  <2>6. Counts(k, n)
    BY <2>3, <2>4 DEF Counts, Interposes, PauseTo, Request
  <2>r. n.ask # <<Request("persistent", "no")>>
    BY <2>3, NotOne DEF Request
  <2>7. Rows(k, n)
    BY <2>4, <2>r DEF Rows, SameRow
  <2>8. Does(k, n)
    BY <1>2, <2>3, <2>4 DEF Does, Runs, Typed
  <2>a. ~Goes(n) /\ ~Interposes(n)
    BY <2>3, NotOne DEF Goes, Interposes, PauseTo, Request
  <2>c. Held(k) => Held(n)
    BY <1>2, <2>b DEF Held
  <2>9. Stays(k, n)
    BY <1>2, <2>a, <2>c DEF Stays
  <2>10. Paced(k, n)
    BY <1>2, <2>3, NotOne DEF Paced, Request
  <2> QED BY <2>1, <2>2, <2>5, <2>6, <2>7, <2>8, <2>9, <2>10 DEF Ran, Out, n
<1>3. CASE ok /\ ~k.hold.on /\ k.thermalHold
  <2> DEFINE w == [k EXCEPT !.biasInflight = FALSE, !.resume = "bias"]
  <2>1. Runs(w) /\ Silent(w)
    BY <1>3 DEF Runs, Typed, Slots, Silent, Phases, Targets, Resumes, Waits
  <2>2. Frame(k, w) /\ SameRow(k, w) /\ w.generation = k.generation /\ w.pending = k.pending
    BY <1>3 DEF Runs, Typed, Slots, Frame, SameRow
  <2>3. Held(k) => Held(w)
    BY <1>3 DEF Runs, Typed, Slots, Held
  <2>4. n = Resume(w, FALSE)
    BY <1>3 DEF Runs, BiasesReady
  <2> HIDE DEF w
  <2>5. Out(w, n)
    BY <1>3, <2>1, <2>4, LResume
  <2> QED BY <2>1, <2>2, <2>3, <2>5, Through
<1>4. CASE ok /\ ~k.hold.on /\ ~k.thermalHold
  <2> DEFINE w == [k EXCEPT !.biasInflight = FALSE]
  <2>1. Runs(w) /\ Silent(w)
    BY <1>4 DEF Runs, Typed, Slots, Silent, Phases, Targets, Resumes, Waits
  <2>2. Frame(k, w) /\ SameRow(k, w) /\ w.generation = k.generation /\ w.pending = k.pending
    BY <1>4 DEF Runs, Typed, Slots, Frame, SameRow
  <2>e. ~Held(w)
    BY <1>4 DEF Runs, Typed, Slots, Held, SameRow
  <2>3. Held(k) => Held(w)
    BY <1>4 DEF Runs, Typed, Slots, Held
  <2>4. n = BeginLeg(w, 0, "stop")
    BY <1>4 DEF Runs, BiasesReady
  <2> HIDE DEF w
  <2>f. Out(w, BeginLeg(w, 0, "stop"))
    BY <2>1, <2>e, LBeginLeg, Ends
  <2>5. Out(w, n)
    BY <2>4, <2>f
  <2> QED BY <2>1, <2>2, <2>3, <2>5, Through
<1> QED BY <1>1, <1>2, <1>3, <1>4

(* A sample is back. *)
LEMMA LSampleReady ==
  ASSUME NEW k, Runs(k), Silent(k), ~k.shutdownWaiting, NEW ok \in BOOLEAN
  PROVE  Out([k EXCEPT !.pending = @ - 1], SampleReady(k, ok))
<1> DEFINE w == [k EXCEPT !.pending = @ - 1]
<1>1. Runs(w) /\ Silent(w) /\ ~w.shutdownWaiting
  BY DEF Runs, Typed, Slots, Silent
<1>2. SampleReady(k, ok) \in {Fail(w, "persistent"), MagnetOperation(w, "pause"), w}
  BY DEF SampleReady
<1> HIDE DEF w
<1>3. Out(w, Fail(w, "persistent")) /\ Out(w, MagnetOperation(w, "pause")) /\ Out(w, w)
  BY <1>1, FailCleans, LMagnetOperation, LStay DEF Out
<1> QED BY <1>2, <1>3 DEF w

(* A sample and an endpoint leave a series running. *)
LEMMA LEndpointRuns ==
  ASSUME NEW k, Runs(k), NEW near \in BOOLEAN
  PROVE  Runs(Sample(k, near)) /\ Runs(EndpointHold(k))
BY C3, ConstantsAssumption DEF Runs, Typed, Slots, Ask, Do, Sample, EndpointHold, Phases,
   Targets, Resumes, Waits

(* Between the endpoints a snapshot asks for a sample. *)
LEMMA LSample ==
  ASSUME NEW k, Runs(k), Silent(k), k.pending \in Nat
  PROVE  Out(k, Sample(k, FALSE))
<1> DEFINE n == Sample(k, FALSE)
<1>1. CASE k.pending > 0
  BY <1>1, LStay DEF Sample
<1>2. CASE ~(k.pending > 0)
  <2>1. Runs(n)
    BY <1>2, C3, ConstantsAssumption DEF Runs, Typed, Slots, Ask, Do, Silent, Sample, Phases,
       Targets, Resumes, Waits
  <2>2. Frame(k, n)
    BY <1>2 DEF Runs, Typed, Slots, Ask, Do, Silent, Sample, Frame
  <2>3. n.ask = <<>> /\ n.do = <<[task |-> "sample", generation |-> k.generation, holds |-> holds]>>
    BY <1>2, One DEF Runs, Typed, Slots, Ask, Do, Silent, Sample
  <2>4. n.generation = k.generation /\ n.pending = k.pending + 1 /\ SameRow(k, n)
    BY <1>2 DEF Runs, Typed, Slots, Ask, Do, Silent, Sample, SameRow
  <2>b. n.manual = k.manual /\ n.hold.on = k.hold.on /\ n.thermalHold = k.thermalHold
    BY <1>2 DEF Runs, Typed, Slots, Ask, Do, Silent, Sample
  <2> HIDE DEF n
  <2>5. Asks(k, n)
    BY <1>2, <2>3, <2>4 DEF Asks, Goes, Interposes, PauseTo, SameRow
  <2>6. Counts(k, n)
    BY <2>3, <2>4 DEF Counts, Interposes, PauseTo, Request
  <2>r. n.ask # <<Request("persistent", "no")>>
    BY <2>3, NotOne DEF Request
  <2>7. Rows(k, n)
    BY <2>4, <2>r DEF Rows, SameRow
  <2>8. Does(k, n)
    BY <1>2, <2>3, <2>4 DEF Does, Runs, Typed
  <2>a. ~Goes(n) /\ ~Interposes(n)
    BY <2>3, NotOne DEF Goes, Interposes, PauseTo, Request
  <2>c. Held(k) => Held(n)
    BY <1>2, <2>b DEF Held
  <2>9. Stays(k, n)
    BY <1>2, <2>a, <2>c DEF Stays
  <2>10. Paced(k, n)
    BY <1>2, <2>3, NotOne DEF Paced, Request
  <2> QED BY <2>1, <2>2, <2>5, <2>6, <2>7, <2>8, <2>9, <2>10 DEF Ran, Out, n
<1> QED BY <1>1, <1>2

(* At an endpoint it asks for the pause too. *)
LEMMA LEndpointHold ==
  ASSUME NEW k, Runs(k), Silent(k), k.pending \in Nat
  PROVE  Out(k, EndpointHold(Sample(k, TRUE)))
<1> DEFINE n == EndpointHold(Sample(k, TRUE))
<1>1. CASE k.pending > 1 /\ (k.transition \/ k.endpointPause)
  BY <1>1, LStay DEF Sample, EndpointHold
<1>2. CASE k.pending > 1 /\ ~(k.transition \/ k.endpointPause)
  <2>s. Sample(k, TRUE) = k
    BY <1>2 DEF Sample
  <2>1. Runs(n)
    BY <1>2, <2>s, C3, ConstantsAssumption DEF Runs, Typed, Slots, Ask, Do, Silent,
       EndpointHold, Phases, Targets, Resumes, Waits
  <2>2. Frame(k, n)
    BY <1>2, <2>s DEF Runs, Typed, Slots, Ask, Do, Silent, EndpointHold, Frame
  <2>3. n.ask = <<Request("pause", "user")>> /\ n.do = <<>>
    BY <1>2, <2>s, One DEF Runs, Typed, Slots, Ask, Do, Silent, EndpointHold
  <2>4. n.generation = k.generation /\ n.pending = k.pending /\ n.rowInflight = k.rowInflight
        /\ n.rowEntered = k.rowEntered /\ (k.rowTransition => n.rowTransition)
    BY <1>2, <2>s DEF Runs, Typed, Slots, Ask, Do, Silent, EndpointHold
  <2>b. n.manual = k.manual /\ n.hold.on = k.hold.on /\ n.thermalHold = k.thermalHold
    BY <1>2, <2>s DEF Runs, Typed, Slots, Ask, Do, Silent, EndpointHold
  <2> HIDE DEF n
  <2>5. Asks(k, n)
    BY <1>2, <2>s, <2>3, <2>4 DEF Asks, Goes, Interposes, PauseTo, SameRow
  <2>6. Counts(k, n)
    BY <2>3, <2>4 DEF Counts, Interposes, PauseTo, Request
  <2>r. n.ask # <<Request("persistent", "no")>>
    BY <2>3, NotOne DEF Request
  <2>7. Rows(k, n)
    BY <2>4, <2>r DEF Rows, SameRow
  <2>8. Does(k, n)
    BY <1>2, <2>s, <2>3, <2>4 DEF Does, Runs, Typed
  <2>a. ~Goes(n) /\ ~Interposes(n)
    BY <2>3, NotOne DEF Goes, Interposes, PauseTo, Request
  <2>c. Held(k) => Held(n)
    BY <1>2, <2>s, <2>b DEF Held
  <2>9. Stays(k, n)
    BY <1>2, <2>s, <2>a, <2>c DEF Stays
  <2>10. Paced(k, n)
    BY <1>2, <2>s, <2>3, NotOne DEF Paced, Request
  <2> QED BY <2>1, <2>2, <2>5, <2>6, <2>7, <2>8, <2>9, <2>10 DEF Ran, Out, n
<1>3. CASE ~(k.pending > 1) /\ (k.transition \/ k.endpointPause)
  <2>s. Sample(k, TRUE) = Do([k EXCEPT !.pending = @ + 1],
        [task |-> "sample", generation |-> k.generation, holds |-> holds])
    BY <1>3 DEF Sample
  <2>1. Runs(n)
    BY LEndpointRuns
  <2>2. Frame(k, n)
    BY <1>3, <2>s, ZenonT(40) DEF Runs, Typed, Slots, Ask, Do, Silent, EndpointHold, Frame
  <2>3. n.ask = <<>> /\ n.do = <<[task |-> "sample", generation |-> k.generation, holds |-> holds]>>
    BY <1>3, <2>s, One, ZenonT(40) DEF Runs, Typed, Slots, Ask, Do, Silent, EndpointHold
  <2>4. n.generation = k.generation /\ n.pending = k.pending + 1 /\ SameRow(k, n)
    BY <1>3, <2>s, ZenonT(40) DEF Runs, Typed, Slots, Ask, Do, Silent, EndpointHold, SameRow
  <2>b. n.manual = k.manual /\ n.hold.on = k.hold.on /\ n.thermalHold = k.thermalHold
    BY <1>3, <2>s, ZenonT(40) DEF Runs, Typed, Slots, Ask, Do, Silent, EndpointHold
  <2> HIDE DEF n
  <2>5. Asks(k, n)
    BY <1>3, <2>s, <2>3, <2>4 DEF Asks, Goes, Interposes, PauseTo, SameRow
  <2>6. Counts(k, n)
    BY <2>3, <2>4 DEF Counts, Interposes, PauseTo, Request
  <2>r. n.ask # <<Request("persistent", "no")>>
    BY <2>3, NotOne DEF Request
  <2>7. Rows(k, n)
    BY <2>4, <2>r DEF Rows, SameRow
  <2>8. Does(k, n)
    BY <1>3, <2>s, <2>3, <2>4 DEF Does, Runs, Typed
  <2>a. ~Goes(n) /\ ~Interposes(n)
    BY <2>3, NotOne DEF Goes, Interposes, PauseTo, Request
  <2>c. Held(k) => Held(n)
    BY <1>3, <2>s, <2>b DEF Held
  <2>9. Stays(k, n)
    BY <1>3, <2>s, <2>a, <2>c DEF Stays
  <2>10. Paced(k, n)
    BY <1>3, <2>s, <2>3, NotOne DEF Paced, Request
  <2> QED BY <2>1, <2>2, <2>5, <2>6, <2>7, <2>8, <2>9, <2>10 DEF Ran, Out, n
<1>4. CASE ~(k.pending > 1) /\ ~(k.transition \/ k.endpointPause)
  <2>s. Sample(k, TRUE) = Do([k EXCEPT !.pending = @ + 1],
        [task |-> "sample", generation |-> k.generation, holds |-> holds])
    BY <1>4 DEF Sample
  <2>1. Runs(n)
    BY LEndpointRuns
  <2>2. Frame(k, n)
    BY <1>4, <2>s, ZenonT(40) DEF Runs, Typed, Slots, Ask, Do, Silent, EndpointHold, Frame
  <2>3. n.ask = <<Request("pause", "user")>>
        /\ n.do = <<[task |-> "sample", generation |-> k.generation, holds |-> holds]>>
    BY <1>4, <2>s, One, ZenonT(40) DEF Runs, Typed, Slots, Ask, Do, Silent, EndpointHold
  <2>4. n.generation = k.generation /\ n.pending = k.pending + 1 /\ n.rowInflight = k.rowInflight
        /\ n.rowEntered = k.rowEntered /\ (k.rowTransition => n.rowTransition)
    BY <1>4, <2>s, ZenonT(40) DEF Runs, Typed, Slots, Ask, Do, Silent, EndpointHold
  <2>b. n.manual = k.manual /\ n.hold.on = k.hold.on /\ n.thermalHold = k.thermalHold
    BY <1>4, <2>s, ZenonT(40) DEF Runs, Typed, Slots, Ask, Do, Silent, EndpointHold
  <2> HIDE DEF n
  <2>5. Asks(k, n)
    BY <1>4, <2>s, <2>3, <2>4 DEF Asks, Goes, Interposes, PauseTo, SameRow
  <2>6. Counts(k, n)
    BY <2>3, <2>4 DEF Counts, Interposes, PauseTo, Request
  <2>r. n.ask # <<Request("persistent", "no")>>
    BY <2>3, NotOne DEF Request
  <2>7. Rows(k, n)
    BY <2>4, <2>r DEF Rows, SameRow
  <2>8. Does(k, n)
    BY <1>4, <2>s, <2>3, <2>4 DEF Does, Runs, Typed
  <2>a. ~Goes(n) /\ ~Interposes(n)
    BY <2>3, NotOne DEF Goes, Interposes, PauseTo, Request
  <2>c. Held(k) => Held(n)
    BY <1>4, <2>s, <2>b DEF Held
  <2>9. Stays(k, n)
    BY <1>4, <2>s, <2>a, <2>c DEF Stays
  <2>10. Paced(k, n)
    BY <1>4, <2>s, <2>3, NotOne DEF Paced, Request
  <2> QED BY <2>1, <2>2, <2>5, <2>6, <2>7, <2>8, <2>9, <2>10 DEF Ran, Out, n
<1> QED BY <1>1, <1>2, <1>3, <1>4

(* _on_snapshot of a running series. *)
LEMMA LSnapshotHandled ==
  ASSUME NEW k, Runs(k), Silent(k), k.pending \in Nat, NEW at
  PROVE  Out(k, SnapshotHandled(k, at))
<1> DEFINE n == SnapshotHandled(k, at)
<1>1. CASE k.hold.on
  <2> DEFINE w == [k EXCEPT !.hold.aps = TRUE]
  <2>1. Runs(w) /\ Silent(w)
    BY <1>1 DEF Runs, Typed, Slots, Silent, Phases, Targets, Resumes, Waits, Holds
  <2>2. Frame(k, w) /\ SameRow(k, w) /\ w.generation = k.generation /\ w.pending = k.pending
    BY <1>1 DEF Runs, Typed, Slots, Frame, SameRow
  <2>e. w.hold.on
    BY <1>1 DEF Runs, Typed, Slots, Holds
  <2>3. Held(k) => Held(w)
    BY <1>1, <2>e DEF Runs, Typed, Slots, Held
  <2>4. n = CheckRecovery(w)
    BY <1>1 DEF Runs, SnapshotHandled
  <2> HIDE DEF w
  <2>5. Out(w, n)
    BY <1>1, <2>1, <2>e, <2>4, LCheckRecovery
  <2> QED BY <2>1, <2>2, <2>3, <2>5, Through
<1>2. CASE ~k.hold.on /\ ~Permitted(k)
  BY <1>2, LStay, LThermalPause DEF SnapshotHandled, Runs
<1>3. CASE ~k.hold.on /\ Permitted(k)
  BY <1>3, LStay, LEndpointHold, LSample DEF SnapshotHandled, Runs
<1> QED BY <1>1, <1>2, <1>3

(* _on_lake_snapshot of a running series. *)
LEMMA LLakeHandled ==
  ASSUME NEW k, Runs(k), Silent(k)
  PROVE  Out(k, LakeHandled(k))
<1> DEFINE n == LakeHandled(k)
<1>1. CASE k.hold.on
  <2> DEFINE w == [k EXCEPT !.hold.lake = TRUE]
  <2>1. Runs(w) /\ Silent(w)
    BY <1>1 DEF Runs, Typed, Slots, Silent, Phases, Targets, Resumes, Waits, Holds
  <2>2. Frame(k, w) /\ SameRow(k, w) /\ w.generation = k.generation /\ w.pending = k.pending
    BY <1>1 DEF Runs, Typed, Slots, Frame, SameRow
  <2>e. w.hold.on
    BY <1>1 DEF Runs, Typed, Slots, Holds
  <2>3. Held(k) => Held(w)
    BY <1>1, <2>e DEF Runs, Typed, Slots, Held
  <2>4. n = CheckRecovery(w)
    BY <1>1 DEF Runs, LakeHandled
  <2> HIDE DEF w
  <2>5. Out(w, n)
    BY <1>1, <2>1, <2>e, <2>4, LCheckRecovery
  <2> QED BY <2>1, <2>2, <2>3, <2>5, Through
<1>2. CASE ~k.hold.on
  BY <1>2, LResume, FailCleans, LThermalPause DEF LakeHandled, Runs, Out
<1> QED BY <1>1, <1>2

(* The watchdog of a running series. *)
LEMMA LWatchdogHandled ==
  ASSUME NEW k, Runs(k), Silent(k)
  PROVE  Out(k, WatchdogHandled(k))
<1> DEFINE n == WatchdogHandled(k)
<1>1. CASE k.hold.on
  BY <1>1, LCheckRecovery DEF WatchdogHandled, Runs
<1>2. CASE ~k.hold.on
  BY <1>2, LStay, FailCleans, LThermalPause DEF WatchdogHandled, Runs, Out
<1> QED BY <1>1, <1>2

-----------------------------------------------------------------------------
(* The same, before the magnet is configured.                              *)

(* Before the magnet is configured a series waits in one of these. *)
Early(k) ==
    /\ ~k.stored /\ ~k.rowTransition /\ k.phase \in {"configuring", "monitor_hold", "thermal_hold"}
    /\ ~k.hold.ack /\ (k.thermalHold => k.thermalPause)

(* What a handler makes of it then. *)
EarlyOut(n) == n.cleaning \/ (Early(n) /\ n.do = <<>> /\ (n.ask = <<>> \/ Interposes(n)))

(* _fail, before the magnet is configured. *)
LEMMA EFail ==
  ASSUME NEW k, Runs(k), Silent(k), Early(k), NEW f
  PROVE  EarlyOut(Fail(k, f))
<1> DEFINE n == Fail(k, f)
<1>1. Cleaned(k, n)
  BY FailCleans
<1> HIDE DEF n
<1>2. n.cleaning
  BY <1>1 DEF Cleaned
<1>3. EarlyOut(n)
  BY <1>2 DEF EarlyOut
<1> QED BY <1>3 DEF n

(* To do nothing, then. *)
LEMMA EStay ==
  ASSUME NEW k, Runs(k), Silent(k), Early(k)
  PROVE  EarlyOut(k)
BY DEF EarlyOut, Silent

(* A hold for the monitoring, then. *)
LEMMA EBeginHold ==
  ASSUME NEW k, Runs(k), Silent(k), Early(k)
  PROVE  EarlyOut(BeginHold(k))
<1> DEFINE n == BeginHold(k)
<1>1. CASE k.hold.on
  <2>1. ~n.stored /\ ~n.rowTransition /\ n.phase \in {"configuring", "monitor_hold", "thermal_hold"}
    BY <1>1 DEF Early, Runs, Typed, Slots, Silent, Ask, BeginHold
  <2>2. ~n.hold.ack
    BY <1>1 DEF Early, Runs, Typed, Slots, Silent, Ask, Holds, NoHold, BeginHold
  <2>3. n.thermalHold => n.thermalPause
    BY <1>1 DEF Early, Runs, Typed, Slots, Silent, Ask, BeginHold
  <2>4. n.do = <<>> /\ n.ask = <<>>
    BY <1>1, One DEF Runs, Typed, Slots, Silent, Ask, BeginHold
  <2> HIDE DEF n
  <2>5. n.ask = <<>> \/ Interposes(n)
    BY <2>4 DEF Interposes, PauseTo
  <2> QED BY <2>1, <2>2, <2>3, <2>4, <2>5 DEF EarlyOut, Early, n
<1>2. CASE ~k.hold.on
  <2>1. ~n.stored /\ ~n.rowTransition /\ n.phase \in {"configuring", "monitor_hold", "thermal_hold"}
    BY <1>2 DEF Early, Runs, Typed, Slots, Silent, Ask, BeginHold
  <2>2. ~n.hold.ack
    BY <1>2 DEF Early, Runs, Typed, Slots, Silent, Ask, Holds, NoHold, BeginHold
  <2>3. n.thermalHold => n.thermalPause
    BY <1>2 DEF Early, Runs, Typed, Slots, Silent, Ask, BeginHold
  <2>4. n.do = <<>> /\ n.ask = <<Request("pause", "monitor")>>
    BY <1>2, One DEF Runs, Typed, Slots, Silent, Ask, BeginHold
  <2> HIDE DEF n
  <2>5. n.ask = <<>> \/ Interposes(n)
    BY <2>4 DEF Interposes, PauseTo
  <2> QED BY <2>1, <2>2, <2>3, <2>4, <2>5 DEF EarlyOut, Early, n
<1> QED BY <1>1, <1>2

(* A pause for the temperature, then. *)
LEMMA EThermalPause ==
  ASSUME NEW k, Runs(k), Silent(k), Early(k)
  PROVE  EarlyOut(ThermalPause(k))
<1> DEFINE n == ThermalPause(k)
<1>1. CASE thermal = "lost"
  <2> DEFINE w == [k EXCEPT !.manual = TRUE, !.button = FALSE]
  <2>1. Runs(w) /\ Silent(w) /\ Early(w)
    BY DEF Runs, Typed, Slots, Silent, Early
  <2>2. n = BeginHold(w)
    BY <1>1 DEF ThermalPause
  <2> QED BY <2>1, <2>2, EBeginHold
<1>2. CASE thermal # "lost" /\ (k.thermalPause \/ k.thermalHold)
  <2>1. ~n.stored /\ ~n.rowTransition /\ n.phase \in {"configuring", "monitor_hold", "thermal_hold"}
    BY <1>2 DEF Early, Runs, Typed, Slots, Silent, Ask, ThermalPause
  <2>2. ~n.hold.ack
    BY <1>2 DEF Early, Runs, Typed, Slots, Silent, Ask, Holds, NoHold, ThermalPause
  <2>3. n.thermalHold => n.thermalPause
    BY <1>2 DEF Early, Runs, Typed, Slots, Silent, Ask, ThermalPause
  <2>4. n.do = <<>> /\ n.ask = <<>>
    BY <1>2, One DEF Runs, Typed, Slots, Silent, Ask, ThermalPause
  <2> HIDE DEF n
  <2>5. n.ask = <<>> \/ Interposes(n)
    BY <2>4 DEF Interposes, PauseTo
  <2> QED BY <2>1, <2>2, <2>3, <2>4, <2>5 DEF EarlyOut, Early, n
<1>3. CASE thermal # "lost" /\ ~k.thermalPause /\ ~k.thermalHold
  <2>1. ~n.stored /\ ~n.rowTransition /\ n.phase \in {"configuring", "monitor_hold", "thermal_hold"}
    BY <1>3 DEF Early, Runs, Typed, Slots, Silent, Ask, ThermalPause
  <2>2. ~n.hold.ack
    BY <1>3 DEF Early, Runs, Typed, Slots, Silent, Ask, Holds, NoHold, ThermalPause
  <2>3. n.thermalHold => n.thermalPause
    BY <1>3 DEF Early, Runs, Typed, Slots, Silent, Ask, ThermalPause
  <2>4. n.do = <<>> /\ n.ask = <<Request("pause", "thermal")>>
    BY <1>3, One DEF Runs, Typed, Slots, Silent, Ask, ThermalPause
  <2> HIDE DEF n
  <2>5. n.ask = <<>> \/ Interposes(n)
    BY <2>4 DEF Interposes, PauseTo
  <2> QED BY <2>1, <2>2, <2>3, <2>4, <2>5 DEF EarlyOut, Early, n
<1> QED BY <1>1, <1>2, <1>3

(* The recovery of the telemetry, then. *)
LEMMA ECheckRecovery ==
  ASSUME NEW k, Runs(k), Silent(k), k.hold.on, Early(k)
  PROVE  EarlyOut(CheckRecovery(k))
<1> DEFINE n == CheckRecovery(k)
<1>1. CASE thermal = "trip"
  BY <1>1, EFail DEF CheckRecovery
<1>2. CASE thermal = "lost"
  <2>1. ~n.stored /\ ~n.rowTransition /\ n.phase \in {"configuring", "monitor_hold", "thermal_hold"}
    BY <1>2 DEF Early, Runs, Typed, Slots, Silent, Ask, CheckRecovery
  <2>2. ~n.hold.ack
    BY <1>2 DEF Early, Runs, Typed, Slots, Silent, Ask, Holds, NoHold, CheckRecovery
  <2>3. n.thermalHold => n.thermalPause
    BY <1>2 DEF Early, Runs, Typed, Slots, Silent, Ask, CheckRecovery
  <2>4. n.do = <<>> /\ n.ask = <<>>
    BY <1>2, One DEF Runs, Typed, Slots, Silent, Ask, CheckRecovery
  <2> HIDE DEF n
  <2>5. n.ask = <<>> \/ Interposes(n)
    BY <2>4 DEF Interposes, PauseTo
  <2> QED BY <2>1, <2>2, <2>3, <2>4, <2>5 DEF EarlyOut, Early, n
<1>3. CASE thermal \notin {"trip", "lost"}
  BY <1>3, EStay DEF CheckRecovery, Early
<1> QED BY <1>1, <1>2, <1>3

(* A resumption, then: nothing is resumed before the magnet is configured. *)
LEMMA EResume ==
  ASSUME NEW k, Runs(k), Silent(k), Early(k), NEW operator \in BOOLEAN
  PROVE  EarlyOut(Resume(k, operator))
<1> DEFINE n == Resume(k, operator)
           seen == [k EXCEPT !.manual = @ \/ thermal \in {"warn", "trip", "lost"}]
           shown == [seen EXCEPT !.button = ~NormalWait(seen) /\ thermal = "ok" /\ ~Unsettled(seen)]
<1>1. CASE ~k.thermalHold
  <2>1. ~n.stored /\ ~n.rowTransition /\ n.phase \in {"configuring", "monitor_hold", "thermal_hold"}
    BY <1>1 DEF Early, Runs, Typed, Slots, Silent, Ask, Resume
  <2>2. ~n.hold.ack
    BY <1>1 DEF Early, Runs, Typed, Slots, Silent, Ask, Holds, NoHold, Resume
  <2>3. n.thermalHold => n.thermalPause
    BY <1>1 DEF Early, Runs, Typed, Slots, Silent, Ask, Resume
  <2>4. n.do = <<>> /\ n.ask = <<>>
    BY <1>1, One DEF Runs, Typed, Slots, Silent, Ask, Resume
  <2> HIDE DEF n
  <2>5. n.ask = <<>> \/ Interposes(n)
    BY <2>4 DEF Interposes, PauseTo
  <2> QED BY <2>1, <2>2, <2>3, <2>4, <2>5 DEF EarlyOut, Early, n
<1>2. CASE k.thermalHold
  <2>a. Unsettled(seen)
    BY <1>2 DEF Early, Unsettled, Runs, Typed, Slots
  <2>b. n = shown
    BY <1>2, <2>a DEF Resume, Runs
  <2>1. ~n.stored /\ ~n.rowTransition /\ n.phase \in {"configuring", "monitor_hold", "thermal_hold"}
    BY <1>2, <2>b DEF Early, Runs, Typed, Slots, Silent, Ask, Holds
  <2>2. ~n.hold.ack
    BY <1>2, <2>b DEF Early, Runs, Typed, Slots, Silent, Ask, Holds, NoHold, Holds
  <2>3. n.thermalHold => n.thermalPause
    BY <1>2, <2>b DEF Early, Runs, Typed, Slots, Silent, Ask, Holds
  <2>4. n.do = <<>> /\ n.ask = <<>>
    BY <1>2, <2>b, One DEF Runs, Typed, Slots, Silent, Ask, Holds
  <2> HIDE DEF n
  <2>5. n.ask = <<>> \/ Interposes(n)
    BY <2>4 DEF Interposes, PauseTo
  <2> QED BY <2>1, <2>2, <2>3, <2>4, <2>5 DEF EarlyOut, Early, n
<1> QED BY <1>1, <1>2

(* A snapshot, then. *)
LEMMA ESnapshotHandled ==
  ASSUME NEW k, Runs(k), Silent(k), Early(k), NEW at
  PROVE  EarlyOut(SnapshotHandled(k, at))
<1> DEFINE n == SnapshotHandled(k, at)
<1>1. CASE k.hold.on
  <2> DEFINE w == [k EXCEPT !.hold.aps = TRUE]
  <2>1. Runs(w) /\ Silent(w)
    BY <1>1 DEF Runs, Typed, Slots, Silent, Holds
  <2>2. Early(w) /\ w.hold.on
    BY <1>1 DEF Runs, Typed, Slots, Early, Holds
  <2>3. n = CheckRecovery(w)
    BY <1>1 DEF Runs, SnapshotHandled
  <2> HIDE DEF w
  <2> QED BY <2>1, <2>2, <2>3, ECheckRecovery
<1>2. CASE ~k.hold.on
  BY <1>2, EStay, EThermalPause DEF SnapshotHandled, Runs, Early
<1> QED BY <1>1, <1>2

(* A temperature, then. *)
LEMMA ELakeHandled ==
  ASSUME NEW k, Runs(k), Silent(k), Early(k)
  PROVE  EarlyOut(LakeHandled(k))
<1> DEFINE n == LakeHandled(k)
<1>1. CASE k.hold.on
  <2> DEFINE w == [k EXCEPT !.hold.lake = TRUE]
  <2>1. Runs(w) /\ Silent(w)
    BY <1>1 DEF Runs, Typed, Slots, Silent, Holds
  <2>2. Early(w) /\ w.hold.on
    BY <1>1 DEF Runs, Typed, Slots, Early, Holds
  <2>3. n = CheckRecovery(w)
    BY <1>1 DEF Runs, LakeHandled
  <2> HIDE DEF w
  <2> QED BY <2>1, <2>2, <2>3, ECheckRecovery
<1>2. CASE ~k.hold.on
  BY <1>2, EResume, EThermalPause, EFail DEF LakeHandled, Runs
<1> QED BY <1>1, <1>2

(* The watchdog, then. *)
LEMMA EWatchdogHandled ==
  ASSUME NEW k, Runs(k), Silent(k), Early(k)
  PROVE  EarlyOut(WatchdogHandled(k))
BY ECheckRecovery, EStay DEF WatchdogHandled, Runs, Early

(* An error of the worker, then. *)
LEMMA EMagnetError ==
  ASSUME NEW k, Runs(k), Silent(k), Early(k), ~k.shutdownWaiting, NEW what
  PROVE  EarlyOut(MagnetError(k, what))
BY EBeginHold, EFail DEF MagnetError, Runs

(* A lost session, then. *)
LEMMA EMagnetDisconnected ==
  ASSUME NEW k, Runs(k), Silent(k), Early(k)
  PROVE  EarlyOut(MagnetDisconnected(k))
BY EBeginHold DEF MagnetDisconnected, Runs

-----------------------------------------------------------------------------
(* What a handler makes of a cleanup.                                      *)

(* The controller of a cleanup. *)
Cleans(k) == Typed(k) /\ k.cleaning /\ ~k.hold.on /\ Silent(k)

(* What the handlers of a cleanup leave alone. *)
Tended(k, n) ==
    /\ Typed(n) /\ ~n.hold.on /\ (n.transition => k.transition)
    /\ n.generation = k.generation /\ n.pending = k.pending /\ n.do = <<>>
    /\ n.lanes = k.lanes /\ n.stored = k.stored
    /\ n.shutdownWaiting = k.shutdownWaiting /\ n.shutdownExclusive = k.shutdownExclusive
    /\ n.shutdownDone = k.shutdownDone

(* It still holds the instruments. *)
Owns(k, n) == n.cleaning /\ n.active = k.active /\ n.claimed = k.claimed /\ n.exclusive = k.exclusive

(* The cleanup is not over. *)
Remains(k, n) == Tended(k, n) /\ Owns(k, n) /\ n.zeroed = k.zeroed /\ n.saving = k.saving

(* It waits for what it was waiting for. *)
Sits(k, n) == Remains(k, n) /\ n.waiting = k.waiting /\ n.ask = <<>>

(* It asks for its next step and waits for it. *)
Posts(k, n, op) == Remains(k, n) /\ n.ask = <<Request(op, "no")>> /\ n.waiting = op

(* It waits for the biases only. *)
Awaits(k, n) == Remains(k, n) /\ ~k.zeroed /\ n.waiting = "restore_done" /\ n.ask = <<>>

(* It writes the files. *)
Saves(k, n) ==
    /\ Tended(k, n) /\ Owns(k, n) /\ k.zeroed /\ n.zeroed /\ k.lanes /\ n.saving
    /\ n.ask = <<>> /\ n.waiting \in {k.waiting, "restore"}

(* It gives the instruments back. *)
Leaves(k, n) ==
    /\ Tended(k, n) /\ ~n.cleaning /\ ~n.active /\ ~n.claimed /\ ~n.exclusive
    /\ k.zeroed /\ ~k.lanes /\ n.saving = k.saving /\ n.ask = <<>>

(* One of the three ends of _finish_cleanup. *)
Concludes(k, n) == Awaits(k, n) \/ Saves(k, n) \/ Leaves(k, n)

(* _finish_cleanup waits for the biases, writes the files or gives the instruments
   back. *)
LEMMA CFinish ==
  ASSUME NEW k, Cleans(k)
  PROVE  Concludes(k, Finish(k))
<1> DEFINE n == Finish(k)
<1>1. CASE ~k.zeroed
  <2>1. Tended(k, n)
    BY <1>1, C3 DEF Cleans, Tended, Typed, Slots, Silent, Phases, Waits, Ask, Finish
  <2>2. n.cleaning /\ n.active = k.active /\ n.claimed = k.claimed /\ n.exclusive = k.exclusive
        /\ n.zeroed = k.zeroed /\ n.saving = k.saving /\ n.waiting = "restore_done" /\ n.ask = <<>>
    BY <1>1, One DEF Cleans, Typed, Slots, Silent, Ask, Finish
  <2> HIDE DEF n
  <2>3. Awaits(k, n)
    BY <1>1, <2>1, <2>2 DEF Awaits, Remains, Owns
  <2> QED BY <2>3 DEF Concludes, n
<1>2. CASE k.zeroed /\ k.lanes
  <2>1. Tended(k, n)
    BY <1>2, C3 DEF Cleans, Tended, Typed, Slots, Silent, Phases, Waits, Ask, Finish
  <2>2. n.cleaning /\ n.active = k.active /\ n.claimed = k.claimed /\ n.exclusive = k.exclusive /\ n.zeroed
        /\ n.saving /\ n.waiting = k.waiting /\ n.ask = <<>>
    BY <1>2, One DEF Cleans, Typed, Slots, Silent, Ask, Finish
  <2> HIDE DEF n
  <2>3. Saves(k, n)
    BY <1>2, <2>1, <2>2 DEF Saves, Owns
  <2> QED BY <2>3 DEF Concludes, n
<1>3. CASE k.zeroed /\ ~k.lanes
  <2>1. Tended(k, n)
    BY <1>3, C3 DEF Cleans, Tended, Typed, Slots, Silent, Phases, Waits, Ask, Finish, Release
  <2>2. ~n.cleaning /\ ~n.active /\ ~n.claimed /\ ~n.exclusive /\ n.saving = k.saving /\ n.ask = <<>>
    BY <1>3, One DEF Cleans, Typed, Slots, Silent, Ask, Finish, Release
  <2> HIDE DEF n
  <2>3. Leaves(k, n)
    BY <1>3, <2>1, <2>2 DEF Leaves
  <2> QED BY <2>3 DEF Concludes, n
<1> QED BY <1>1, <1>2, <1>3

(* To do nothing is a step of a cleanup. *)
LEMMA CStay ==
  ASSUME NEW k, Cleans(k)
  PROVE  Sits(k, k)
BY DEF Sits, Remains, Owns, Tended, Cleans, Silent

(* A handler may change the controller before it finishes the cleanup. *)
LEMMA CThrough ==
  ASSUME NEW k, NEW w, NEW n, Remains(k, w), Concludes(w, n), w.waiting \in {k.waiting, "restore"}
  PROVE  Concludes(k, n)
<1>1. Tended(w, n) => Tended(k, n)
  BY DEF Remains, Tended
<1>2. CASE Awaits(w, n)
  BY <1>1, <1>2 DEF Awaits, Remains, Owns, Concludes
<1>3. CASE Saves(w, n)
  BY <1>1, <1>3 DEF Saves, Remains, Owns, Concludes, Tended
<1>4. CASE Leaves(w, n)
  BY <1>1, <1>4 DEF Leaves, Remains, Owns, Concludes, Tended
<1> QED BY <1>2, <1>3, <1>4 DEF Concludes

(* _request_restore restores what was stored, or finishes. *)
LEMMA CRestore ==
  ASSUME NEW k, Cleans(k), k.waiting # "restore"
  PROVE  (k.stored /\ Posts(k, Restore(k), "restore")) \/ (~k.stored /\ Concludes(k, Restore(k)))
<1> DEFINE n == Restore(k)
<1>1. CASE k.stored
  <2>1. Tended(k, n)
    BY <1>1, C3 DEF Cleans, Tended, Typed, Slots, Silent, Phases, Waits, Ask, Restore
  <2>2. n.cleaning /\ n.active = k.active /\ n.claimed = k.claimed /\ n.exclusive = k.exclusive
        /\ n.zeroed = k.zeroed /\ n.saving = k.saving /\ n.waiting = "restore"
        /\ n.ask = <<Request("restore", "no")>>
    BY <1>1, One DEF Cleans, Typed, Slots, Silent, Ask, Restore
  <2> HIDE DEF n
  <2>3. Posts(k, n, "restore")
    BY <2>1, <2>2 DEF Posts, Remains, Owns
  <2> QED BY <1>1, <2>3 DEF n
<1>2. CASE ~k.stored
  <2> DEFINE w == [k EXCEPT !.waiting = "restore"]
  <2>1. Cleans(w)
    BY DEF Cleans, Typed, Slots, Silent, Waits
  <2>2. Remains(k, w)
    BY C3 DEF Remains, Owns, Tended, Cleans, Typed, Slots, Silent, Waits
  <2>3. w.waiting = "restore"
    BY DEF Cleans, Typed, Slots
  <2>4. n = Finish(w)
    BY <1>2 DEF Cleans, Typed, Slots, Restore
  <2> HIDE DEF w
  <2>5. Concludes(w, n)
    BY <2>1, <2>4, CFinish
  <2>6. Concludes(k, n)
    BY <2>2, <2>3, <2>5, CThrough
  <2> QED BY <1>2, <2>6
<1> QED BY <1>1, <1>2

(* What a cleanup does with an answer of the magnet. *)
LEMMA CAnswers ==
  ASSUME NEW k, Cleans(k), NEW name
  PROVE  LET n == AnswersCleanup(k, name)
         IN  \/ Sits(k, n) /\ ~(name = "pause" /\ k.waiting = "pause")
                /\ ~(name = "persistent" /\ k.waiting = "persistent")
             \/ Posts(k, n, "persistent") /\ name \in {"pause", "failed:pause"} /\ k.waiting = "pause"
             \/ /\ (name = "pause" /\ k.waiting = "pause") \/ (name = "persistent" /\ k.waiting = "persistent")
                /\ (k.stored /\ Posts(k, n, "restore")) \/ (~k.stored /\ Concludes(k, n))
<1> DEFINE n == AnswersCleanup(k, name)
<1>1. CASE name = "pause" /\ k.waiting = "pause" /\ k.final = "persistent"
  <2>1. Tended(k, n)
    BY <1>1, C3 DEF Cleans, Tended, Typed, Slots, Silent, Phases, Waits, Ask, AnswersCleanup,
       BeginPersistent
  <2>2. n.cleaning /\ n.active = k.active /\ n.claimed = k.claimed /\ n.exclusive = k.exclusive
        /\ n.zeroed = k.zeroed /\ n.saving = k.saving /\ n.waiting = "persistent"
        /\ n.ask = <<Request("persistent", "no")>>
    BY <1>1, One DEF Cleans, Typed, Slots, Silent, Ask, AnswersCleanup, BeginPersistent
  <2> HIDE DEF n
  <2>3. Posts(k, n, "persistent")
    BY <2>1, <2>2 DEF Posts, Remains, Owns
  <2> QED BY <1>1, <2>3 DEF n
<1>2. CASE (name = "pause" /\ k.waiting = "pause" /\ k.final # "persistent")
           \/ (name = "persistent" /\ k.waiting = "persistent")
  <2>1. n = Restore(k)
    BY <1>2 DEF AnswersCleanup
  <2>2. (k.stored /\ Posts(k, n, "restore")) \/ (~k.stored /\ Concludes(k, n))
    BY <1>2, <2>1, CRestore
  <2> QED BY <1>2, <2>2
<1>3. CASE name = "failed:pause" /\ k.waiting = "pause" /\ k.final = "persistent"
  <2>1. Tended(k, n)
    BY <1>3, C3 DEF Cleans, Tended, Typed, Slots, Silent, Phases, Waits, Ask, AnswersCleanup,
       BeginPersistent
  <2>2. n.cleaning /\ n.active = k.active /\ n.claimed = k.claimed /\ n.exclusive = k.exclusive
        /\ n.zeroed = k.zeroed /\ n.saving = k.saving /\ n.waiting = "persistent"
        /\ n.ask = <<Request("persistent", "no")>>
    BY <1>3, One DEF Cleans, Typed, Slots, Silent, Ask, AnswersCleanup, BeginPersistent
  <2> HIDE DEF n
  <2>3. Posts(k, n, "persistent")
    BY <2>1, <2>2 DEF Posts, Remains, Owns
  <2> QED BY <1>3, <2>3 DEF n
<1>4. CASE (name = "failed:pause" /\ k.waiting = "pause" /\ k.final # "persistent")
           \/ (name = "failed:persistent" /\ k.waiting = "persistent")
  <2>1. Tended(k, n)
    BY <1>4, C3 DEF Cleans, Tended, Typed, Slots, Silent, Phases, Waits, Ask, AnswersCleanup
  <2>2. n.cleaning /\ n.active = k.active /\ n.claimed = k.claimed /\ n.exclusive = k.exclusive
        /\ n.zeroed = k.zeroed /\ n.saving = k.saving /\ n.waiting = k.waiting /\ n.ask = <<>>
    BY <1>4, One DEF Cleans, Typed, Slots, Silent, Ask, AnswersCleanup
  <2> HIDE DEF n
  <2>3. Sits(k, n)
    BY <2>1, <2>2 DEF Sits, Remains, Owns
  <2> QED BY <1>4, <2>3 DEF n
<1>5. CASE /\ ~(name \in {"pause", "failed:pause"} /\ k.waiting = "pause")
           /\ ~(name \in {"persistent", "failed:persistent"} /\ k.waiting = "persistent")
  <2>1. n = k
    BY <1>5 DEF AnswersCleanup
  <2> QED BY <1>5, <2>1, CStay
<1> QED BY <1>1, <1>2, <1>3, <1>4, <1>5

(* STOP and close during a cleanup make it conservative. *)
LEMMA CForce ==
  ASSUME NEW k, Cleans(k)
  PROVE  (k.waiting = "restore" /\ Posts(k, ForcePersistent(k), "persistent"))
         \/ (k.waiting # "restore" /\ Sits(k, ForcePersistent(k)))
<1> DEFINE n == ForcePersistent(k)
<1>1. CASE k.waiting = "restore"
  <2>1. Tended(k, n)
    BY <1>1, C3 DEF Cleans, Tended, Typed, Slots, Silent, Phases, Waits, Ask, ForcePersistent,
       BeginPersistent
  <2>2. n.cleaning /\ n.active = k.active /\ n.claimed = k.claimed /\ n.exclusive = k.exclusive
        /\ n.zeroed = k.zeroed /\ n.saving = k.saving /\ n.waiting = "persistent"
        /\ n.ask = <<Request("persistent", "no")>>
    BY <1>1, One DEF Cleans, Typed, Slots, Silent, Ask, ForcePersistent, BeginPersistent
  <2> HIDE DEF n
  <2>3. Posts(k, n, "persistent")
    BY <2>1, <2>2 DEF Posts, Remains, Owns
  <2> QED BY <1>1, <2>3 DEF n
<1>2. CASE k.waiting # "restore"
  <2>1. Tended(k, n)
    BY <1>2, C3 DEF Cleans, Tended, Typed, Slots, Silent, Phases, Waits, Ask, ForcePersistent
  <2>2. n.cleaning /\ n.active = k.active /\ n.claimed = k.claimed /\ n.exclusive = k.exclusive
        /\ n.zeroed = k.zeroed /\ n.saving = k.saving /\ n.waiting = k.waiting /\ n.ask = <<>>
    BY <1>2, One DEF Cleans, Typed, Slots, Silent, Ask, ForcePersistent
  <2> HIDE DEF n
  <2>3. Sits(k, n)
    BY <2>1, <2>2 DEF Sits, Remains, Owns
  <2> QED BY <1>2, <2>3 DEF n
<1> QED BY <1>1, <1>2

(* The magnet's own limits are back. *)
LEMMA CRestored ==
  ASSUME NEW k, Cleans(k), NEW ok \in BOOLEAN
  PROVE  (k.waiting = "restore" /\ Concludes(k, Restored(k, ok)))
         \/ (k.waiting # "restore" /\ Sits(k, Restored(k, ok)))
<1> DEFINE n == Restored(k, ok)
<1>1. CASE k.waiting = "restore"
  <2> DEFINE w == [k EXCEPT !.failures = @ \/ ~ok]
  <2>1. Cleans(w)
    BY DEF Cleans, Typed, Slots, Silent, Waits
  <2>2. Remains(k, w)
    BY C3 DEF Remains, Owns, Tended, Cleans, Typed, Slots, Silent, Waits
  <2>3. w.waiting = k.waiting
    BY DEF Cleans, Typed, Slots
  <2>4. n = Finish(w)
    BY <1>1 DEF Cleans, Typed, Slots, Restored
  <2> HIDE DEF w
  <2>5. Concludes(w, n)
    BY <2>1, <2>4, CFinish
  <2>6. Concludes(k, n)
    BY <2>2, <2>3, <2>5, CThrough
  <2> QED BY <1>1, <2>6
<1>2. CASE k.waiting # "restore"
  BY <1>2, CStay DEF Restored
<1> QED BY <1>1, <1>2

(* A lost session ends the wait for the magnet. *)
LEMMA CDisconnected ==
  ASSUME NEW k, Cleans(k)
  PROVE  Concludes(k, MagnetDisconnected(k))
<1> DEFINE n == MagnetDisconnected(k)
<1>1. CASE TRUE
  <2> DEFINE w == [k EXCEPT !.failures = TRUE]
  <2>1. Cleans(w)
    BY DEF Cleans, Typed, Slots, Silent, Waits
  <2>2. Remains(k, w)
    BY C3 DEF Remains, Owns, Tended, Cleans, Typed, Slots, Silent, Waits
  <2>3. w.waiting = k.waiting
    BY DEF Cleans, Typed, Slots
  <2>4. n = Finish(w)
    BY <1>1 DEF Cleans, Typed, Slots, MagnetDisconnected
  <2> HIDE DEF w
  <2>5. Concludes(w, n)
    BY <2>1, <2>4, CFinish
  <2>6. Concludes(k, n)
    BY <2>2, <2>3, <2>5, CThrough
  <2> QED BY <2>6
<1> QED BY <1>1

(* An error of the worker leaves a cleanup alone. *)
LEMMA CMagnetError ==
  ASSUME NEW k, Cleans(k), NEW what
  PROVE  Sits(k, MagnetError(k, what))
<1> DEFINE n == MagnetError(k, what)
<1>1. CASE TRUE
  <2>1. Tended(k, n)
    BY <1>1, C3 DEF Cleans, Tended, Typed, Slots, Silent, Phases, Waits, Ask, MagnetError
  <2>2. n.cleaning /\ n.active = k.active /\ n.claimed = k.claimed /\ n.exclusive = k.exclusive
        /\ n.zeroed = k.zeroed /\ n.saving = k.saving /\ n.waiting = k.waiting /\ n.ask = <<>>
    BY <1>1, One DEF Cleans, Typed, Slots, Silent, Ask, MagnetError
  <2> HIDE DEF n
  <2>3. Sits(k, n)
    BY <2>1, <2>2 DEF Sits, Remains, Owns
  <2> QED BY <2>3 DEF n
<1> QED BY <1>1

(* Biases that come late leave a cleanup alone. *)
LEMMA CBiasesReady ==
  ASSUME NEW k, Cleans(k), NEW ok
  PROVE  Sits(k, BiasesReady(k, ok))
<1> DEFINE n == BiasesReady(k, ok)
<1>1. CASE TRUE
  <2>1. Tended(k, n)
    BY <1>1, C3 DEF Cleans, Tended, Typed, Slots, Silent, Phases, Waits, Ask, BiasesReady
  <2>2. n.cleaning /\ n.active = k.active /\ n.claimed = k.claimed /\ n.exclusive = k.exclusive
        /\ n.zeroed = k.zeroed /\ n.saving = k.saving /\ n.waiting = k.waiting /\ n.ask = <<>>
    BY <1>1, One DEF Cleans, Typed, Slots, Silent, Ask, BiasesReady
  <2> HIDE DEF n
  <2>3. Sits(k, n)
    BY <2>1, <2>2 DEF Sits, Remains, Owns
  <2> QED BY <2>3 DEF n
<1> QED BY <1>1

(* The biases are zero. *)
LEMMA CBiasesZeroed ==
  ASSUME NEW k, Cleans(k), NEW ok \in BOOLEAN
  PROVE  LET z == [k EXCEPT !.zeroed = TRUE]
         IN  (k.waiting = "restore_done" /\ Concludes(z, BiasesZeroed(k, ok)))
             \/ (k.waiting # "restore_done" /\ Sits(z, BiasesZeroed(k, ok)))
<1> DEFINE z == [k EXCEPT !.zeroed = TRUE]
           w == [k EXCEPT !.zeroed = TRUE, !.failures = @ \/ ~ok]
           n == BiasesZeroed(k, ok)
<1>1. Cleans(w)
  BY DEF Cleans, Typed, Slots, Silent
<1>2. Remains(z, w) /\ w.waiting = z.waiting
  BY DEF Remains, Owns, Tended, Cleans, Typed, Slots, Silent
<1>3. CASE k.waiting = "restore_done"
  <2>1. n = Finish(w)
    BY <1>3 DEF BiasesZeroed
  <2> HIDE DEF w, z
  <2>2. Concludes(w, n)
    BY <1>1, <2>1, CFinish
  <2>3. Concludes(z, n)
    BY <1>2, <2>2, CThrough
  <2> QED BY <1>3, <2>3 DEF z
<1>4. CASE k.waiting # "restore_done"
  <2>1. n = w
    BY <1>4 DEF BiasesZeroed
  <2>2. w.ask = <<>>
    BY DEF Cleans, Typed, Slots, Silent
  <2> HIDE DEF w, z
  <2>3. Sits(z, n)
    BY <1>2, <2>1, <2>2 DEF Sits
  <2> QED BY <1>4, <2>3 DEF z
<1> QED BY <1>3, <1>4

(* A sample that comes late is only counted. *)
LEMMA CSampleReady ==
  ASSUME NEW k, Cleans(k), NEW ok
  PROVE  SampleReady(k, ok) = [k EXCEPT !.pending = @ - 1]
BY DEF SampleReady, Cleans, Typed, Slots, Fail

(* A configuration that comes late is stored, and may still move the magnet. *)
LEMMA CConfigured ==
  ASSUME NEW k, Cleans(k), NEW ok \in BOOLEAN
  PROVE  LET n == Configured(k, ok)
             w == [k EXCEPT !.stored = TRUE]
         IN  \/ n = k
             \/ ok /\ k.active /\ Sits(w, n)
             \/ ok /\ k.active /\ Remains(w, n) /\ n.waiting = w.waiting /\ n.ask = <<Request("move", "start")>>
<1> DEFINE n == Configured(k, ok)
           w == [k EXCEPT !.stored = TRUE]
<1>1. CASE ~ok \/ ~k.active
  BY <1>1 DEF Configured, Cleans, Fail
<1>2. Cleans(w)
  BY DEF Cleans, Typed, Slots, Silent
<1>w. w.hold.on = k.hold.on /\ w.thermalHold = k.thermalHold /\ w.waiting = k.waiting /\ w.active = k.active
  BY DEF Cleans, Typed, Slots
<1>3. CASE ok /\ k.active /\ k.thermalHold
  <2>1. n = [w EXCEPT !.resume = "positioning"]
    BY <1>3, <1>w DEF Configured, Cleans
  <2> HIDE DEF w
  <2>2. Sits(w, n)
    BY <1>2, <2>1 DEF Sits, Remains, Owns, Tended, Cleans, Typed, Slots, Silent, Resumes
  <2> QED BY <1>3, <2>2 DEF w
<1>4. CASE ok /\ k.active /\ ~k.thermalHold
  <2>1. n = Position(w)
    BY <1>4, <1>w DEF Configured, Cleans
  <2> HIDE DEF w
  <2>2. Remains(w, n)
    BY <1>2, <2>1 DEF Remains, Owns, Tended, Cleans, Typed, Slots, Silent, Position, Ask,
       Phases, Targets
  <2>3. n.waiting = w.waiting
    BY <1>2, <2>1 DEF Cleans, Typed, Slots, Position, Ask
  <2>5. n.ask = Append(w.ask, Request("move", "start"))
    BY <1>2, <2>1 DEF Cleans, Typed, Slots, Position, Ask
  <2>6. n.ask = <<Request("move", "start")>>
    BY <1>2, <2>5, One DEF Cleans, Silent
  <2> QED BY <1>4, <2>2, <2>3, <2>6 DEF w
<1> QED BY <1>1, <1>3, <1>4

-----------------------------------------------------------------------------
(* Sequences and what is counted in them.                                  *)

(* The places of q that hold one of M. *)
Marked(q, M) == {i \in 1..Len(q) : q[i] \in M}

(* How many there are. *)
Count(q, M) == Cardinality(Marked(q, M))

(* A sequence with one element more. *)
LEMMA Grows ==
  ASSUME NEW S, NEW p \in Seq(S), NEW x \in S
  PROVE  /\ p \o <<x>> \in Seq(S) /\ Len(p \o <<x>>) = Len(p) + 1
         /\ (p \o <<x>>)[Len(p) + 1] = x
         /\ \A i \in 1..Len(p) : (p \o <<x>>)[i] = p[i]
         /\ Len(p) \in Nat
<1> DEFINE o == <<x>>
<1>1. o \in Seq(S) /\ Len(o) = 1 /\ o[1] = x
  OBVIOUS
<1> HIDE DEF o
<1>2. /\ p \o o \in Seq(S) /\ Len(p \o o) = Len(p) + Len(o)
      /\ \A i \in 1 .. Len(p) + Len(o) : (p \o o)[i] = IF i <= Len(p) THEN p[i] ELSE o[i - Len(p)]
  BY <1>1, ConcatProperties
<1>3. Len(p) \in Nat
  BY LenProperties
<1>4. (p \o o)[Len(p) + 1] = x
  <2>1. Len(p) + 1 \in 1 .. Len(p) + Len(o) /\ ~(Len(p) + 1 <= Len(p)) /\ Len(p) + 1 - Len(p) = 1
    BY <1>1, <1>3
  <2>2. (p \o o)[Len(p) + 1] = o[Len(p) + 1 - Len(p)]
    BY <1>2, <2>1
  <2> QED BY <1>1, <2>1, <2>2
<1>5. \A i \in 1..Len(p) : (p \o o)[i] = p[i]
  BY <1>1, <1>2, <1>3
<1> QED BY <1>1, <1>2, <1>3, <1>4, <1>5 DEF o

(* A sequence without its head. *)
LEMMA Shrinks ==
  ASSUME NEW S, NEW q \in Seq(S), q # <<>>
  PROVE  /\ Tail(q) \in Seq(S) /\ Len(Tail(q)) = Len(q) - 1 /\ Len(q) \in Nat \ {0}
         /\ Head(q) = q[1] /\ q[1] \in S
         /\ \A i \in 1..Len(q) - 1 : Tail(q)[i] = q[i + 1]
<1>1. Len(q) \in Nat \ {0}
  BY EmptySeq
<1>2. q[1] \in S
  BY <1>1, ElementOfSeq
<1> QED BY <1>1, <1>2, HeadTailProperties

(* Nothing posted leaves a queue as it is. *)
LEMMA SameKept ==
  ASSUME NEW S, NEW q \in Seq(S)
  PROVE  q \o <<>> = q
BY ConcatEmptySeq

(* The marked places of a sequence can be counted. *)
LEMMA MarkedFinite ==
  ASSUME NEW S, NEW q \in Seq(S), NEW M
  PROVE  IsFiniteSet(Marked(q, M)) /\ Count(q, M) \in Nat
<1>1. IsFiniteSet(1..Len(q))
  BY LenProperties, FS_Interval
<1>2. IsFiniteSet(Marked(q, M))
  BY <1>1, FS_Subset DEF Marked
<1> QED BY <1>2, FS_CardinalityType DEF Count

(* None are marked when none is there. *)
LEMMA CountNone ==
  ASSUME NEW S, NEW q \in Seq(S), NEW M
  PROVE  Count(q, M) = 0 <=> \A i \in 1..Len(q) : q[i] \notin M
<1>1. Count(q, M) = 0 <=> Marked(q, M) = {}
  BY MarkedFinite, FS_EmptySet DEF Count
<1> QED BY <1>1 DEF Marked

(* The empty sequence has none. *)
LEMMA CountEmpty ==
  ASSUME NEW M
  PROVE  Count(<<>>, M) = 0
<1>1. Marked(<<>>, M) = {}
  BY EmptySeq DEF Marked
<1> QED BY <1>1, FS_EmptySet DEF Count

(* One more when one is appended. *)
LEMMA CountGrows ==
  ASSUME NEW S, NEW p \in Seq(S), NEW x \in S, NEW M
  PROVE  Count(p \o <<x>>, M) = Count(p, M) + (IF x \in M THEN 1 ELSE 0)
<1> DEFINE r == p \o <<x>>
<1>1. Len(r) = Len(p) + 1 /\ r[Len(p) + 1] = x /\ (\A i \in 1..Len(p) : r[i] = p[i]) /\ Len(p) \in Nat
  BY Grows
<1> HIDE DEF r
<1>2. CASE x \in M
  <2>1. Marked(r, M) = Marked(p, M) \cup {Len(p) + 1}
    BY <1>1, <1>2 DEF Marked
  <2>2. Len(p) + 1 \notin Marked(p, M)
    BY <1>1 DEF Marked
  <2> QED BY <1>2, <2>1, <2>2, MarkedFinite, FS_AddElement DEF Count, r
<1>3. CASE x \notin M
  <2>1. Marked(r, M) = Marked(p, M)
    BY <1>1, <1>3 DEF Marked
  <2> QED BY <1>3, <2>1, MarkedFinite DEF Count, r
<1> QED BY <1>2, <1>3

(* One less when one is taken. *)
LEMMA CountShrinks ==
  ASSUME NEW S, NEW q \in Seq(S), q # <<>>, NEW M
  PROVE  Count(q, M) = Count(Tail(q), M) + (IF Head(q) \in M THEN 1 ELSE 0)
<1> DEFINE t == Tail(q)
           T == {i \in 2..Len(q) : q[i] \in M}
           f == [i \in Marked(t, M) |-> i + 1]
<1>1. /\ t \in Seq(S) /\ Len(t) = Len(q) - 1 /\ Len(q) \in Nat \ {0} /\ Head(q) = q[1]
      /\ \A i \in 1..Len(q) - 1 : t[i] = q[i + 1]
  BY Shrinks
<1> HIDE DEF t
<1>2. f \in Bijection(Marked(t, M), T)
  <2>1. \A i \in Marked(t, M) : i \in Nat /\ i + 1 \in T
    BY <1>1 DEF Marked
  <2>2. f \in [Marked(t, M) -> T]
    BY <2>1
  <2>3. \A i, j \in Marked(t, M) : f[i] = f[j] => i = j
    BY <2>1
  <2>4. \A y \in T : \E i \in Marked(t, M) : f[i] = y
    <3> TAKE y \in T
    <3>1. y - 1 \in Marked(t, M) /\ (y - 1) + 1 = y
      <4>1. y \in 2..Len(q) /\ q[y] \in M
        OBVIOUS
      <4>2. y - 1 \in 1..Len(q) - 1 /\ (y - 1) + 1 = y
        BY <1>1, <4>1
      <4>3. t[y - 1] = q[(y - 1) + 1]
        BY <1>1, <4>2
      <4> QED BY <1>1, <4>1, <4>2, <4>3 DEF Marked
    <3> QED BY <3>1
  <2> QED BY <2>2, <2>3, <2>4, Fun_IsBij
<1>3. IsFiniteSet(T) /\ Cardinality(T) = Count(t, M) /\ Count(t, M) \in Nat
  <2>1. IsFiniteSet(Marked(t, M))
    BY <1>1, MarkedFinite
  <2> QED BY <1>1, <1>2, <2>1, MarkedFinite, FS_Bijection DEF ExistsBijection, Count
<1>4. CASE Head(q) \in M
  <2>1. Marked(q, M) = T \cup {1}
    BY <1>1, <1>4 DEF Marked
  <2>2. 1 \notin T
    OBVIOUS
  <2> HIDE DEF T
  <2> QED BY <1>3, <1>4, <2>1, <2>2, FS_AddElement DEF Count, t
<1>5. CASE Head(q) \notin M
  <2>1. Marked(q, M) = T
    BY <1>1, <1>5 DEF Marked
  <2> HIDE DEF T
  <2> QED BY <1>3, <1>5, <2>1 DEF Count, t
<1> QED BY <1>4, <1>5

-----------------------------------------------------------------------------
(* What a handler does without a series.                                   *)

(* The controller of no series. *)
Idles(k) == Typed(k) /\ ~k.active /\ ~k.cleaning /\ Silent(k) /\ ~k.hold.on /\ ~k.transition

(* It stays so; only the wait for an application close may end. *)
Rests(k, n) ==
    /\ Typed(n) /\ ~n.active /\ ~n.cleaning /\ ~n.hold.on /\ ~n.transition
    /\ n.claimed = k.claimed /\ n.exclusive = k.exclusive /\ n.saving = k.saving
    /\ n.generation = k.generation /\ n.pending = k.pending /\ n.do = <<>> /\ n.ask = <<>>
    /\ (n.shutdownWaiting => k.shutdownWaiting) /\ (n.shutdownExclusive => k.shutdownExclusive)
    /\ (n.shutdownWaiting => n.shutdownExclusive)

(* To do nothing is a step of an idle controller. *)
LEMMA IStay ==
  ASSUME NEW k, Idles(k), k.shutdownWaiting => k.shutdownExclusive
  PROVE  Rests(k, k) /\ k.shutdownDone = k.shutdownDone
BY DEF Idles, Rests, Silent

(* A resumption without a series does nothing. *)
LEMMA IResume ==
  ASSUME NEW k, Idles(k), k.shutdownWaiting => k.shutdownExclusive, NEW operator \in BOOLEAN
  PROVE  Rests(k, Resume(k, operator)) /\ Resume(k, operator).shutdownDone = k.shutdownDone
<1> DEFINE n == Resume(k, operator)
<1>1. n = [k EXCEPT !.button = FALSE]
  BY DEF Resume, Idles
<1> HIDE DEF n
<1> QED BY <1>1 DEF Rests, Idles, Typed, Slots, Silent, n

(* Without a series only the close waits for an answer of the magnet. *)
LEMMA IMagnetOperation ==
  ASSUME NEW k, Idles(k), k.shutdownWaiting => k.shutdownExclusive, NEW name
  PROVE  /\ Rests(k, MagnetOperation(k, name))
         /\ \/ MagnetOperation(k, name).shutdownDone = k.shutdownDone
            \/ name = "persistent" /\ k.shutdownWaiting
<1> DEFINE n == MagnetOperation(k, name)
           e == [k EXCEPT !.rowEntered = TRUE]
<1>1. CASE k.shutdownWaiting /\ name = "persistent"
  <2>1. n = [k EXCEPT !.shutdownWaiting = FALSE, !.shutdownDone = TRUE, !.shutdownExclusive = FALSE]
    BY <1>1 DEF MagnetOperation, Idles
  <2> HIDE DEF n
  <2>2. Rests(k, n)
    BY <1>1, <2>1 DEF Rests, Idles, Typed, Slots, Silent
  <2> QED BY <1>1, <2>2 DEF n
<1>2. CASE k.shutdownWaiting /\ name # "persistent"
  <2>1. n = k \/ n = [k EXCEPT !.shutdownWaiting = FALSE]
    BY <1>2 DEF MagnetOperation, Idles
  <2> HIDE DEF n
  <2> QED BY <1>2, <2>1 DEF Rests, Idles, Typed, Slots, Silent, n
<1>3. CASE ~k.shutdownWaiting /\ name = "persistent" /\ k.rowTransition
  <2>1. n = Resume(e, FALSE)
    BY <1>3 DEF MagnetOperation, Idles
  <2>2. Idles(e) /\ e.shutdownWaiting = k.shutdownWaiting
    BY DEF Idles, Typed, Slots, Silent
  <2>3. e.shutdownDone = k.shutdownDone /\ \A m : Rests(e, m) => Rests(k, m)
    BY DEF Idles, Typed, Slots, Rests
  <2> HIDE DEF e, n
  <2>4. Rests(e, n) /\ n.shutdownDone = e.shutdownDone
    BY <1>3, <2>1, <2>2, IResume
  <2> QED BY <2>3, <2>4 DEF n
<1>4. CASE ~k.shutdownWaiting /\ ~(name = "persistent" /\ k.rowTransition)
  <2>1. n = k \/ n = [k EXCEPT !.thermalPause = FALSE]
    BY <1>4 DEF MagnetOperation, Idles, Fail, Typed, Slots
  <2> HIDE DEF n
  <2> QED BY <1>4, <2>1 DEF Rests, Idles, Typed, Slots, Silent, n
<1> QED BY <1>1, <1>2, <1>3, <1>4

(* An error of the worker, without a series. *)
LEMMA IMagnetError ==
  ASSUME NEW k, Idles(k), k.shutdownWaiting => k.shutdownExclusive, NEW what
  PROVE  Rests(k, MagnetError(k, what)) /\ MagnetError(k, what).shutdownDone = k.shutdownDone
<1> DEFINE n == MagnetError(k, what)
<1>1. n = k \/ n = [k EXCEPT !.failures = TRUE]
  BY DEF MagnetError, Idles
<1> HIDE DEF n
<1>2. CASE n = k
  BY <1>2, IStay DEF n
<1>3. CASE n = [k EXCEPT !.failures = TRUE]
  <2>1. Rests(k, n)
    BY <1>3 DEF Rests, Idles, Typed, Slots, Silent
  <2>2. n.shutdownDone = k.shutdownDone
    BY <1>3 DEF Idles, Typed, Slots
  <2> QED BY <2>1, <2>2 DEF n
<1> QED BY <1>1, <1>2, <1>3

(* The other answers, without a series. *)
LEMMA IOthers ==
  ASSUME NEW k, Idles(k), NEW ok, NEW name
  PROVE  /\ Configured(k, ok) = k /\ Moved(k, name) = k /\ SweepStarted(k, ok) = k
         /\ Restored(k, ok) = k /\ MagnetDisconnected(k) = k
BY DEF Idles, Configured, Moved, SweepStarted, Restored, MagnetDisconnected

-----------------------------------------------------------------------------
(* The lane, the answers, and the law that the handlers keep.              *)

(* What an answer may say. *)
Names == {"", "ok", "user", "monitor", "thermal", "failed", "pause", "failed:pause", "persistent",
          "failed:persistent", "other", "read"}

(* The answers of the lane. *)
LaneKinds == {"biases", "sample", "zeroed"}

(* Answers without a row. *)
Plain == [kind : Kinds, name : Names, ok : BOOLEAN]

(* The answers of the magnet's worker. *)
Answers == {s \in Plain : s.kind \notin LaneKinds}

(* Those of the lane, but for measured rows. *)
LaneAnswers == {s \in Plain : s.kind \in LaneKinds /\ ~(s.kind = "sample" /\ s.ok)}

(* Measured rows: no pause came between the request of a row and its end. *)
SampleRows == {s \in [kind : {"sample"}, name : {""}, ok : {TRUE}, generation : Nat,
    holds : Nat] : s.generation = s.holds}

(* Everything queued to the GUI. *)
Signals == Answers \cup LaneAnswers \cup SampleRows

(* Set the biases of a condition. *)
BiasTasks == [task : {"bias"}, cond : 1..Conditions]

(* Measure a row. *)
SampleTasks == {t \in [task : {"sample"}, generation : Nat, holds : Nat] : t.generation = t.holds}

(* Zero the biases. *)
ZeroTasks == [task : {"zero"}]

(* Everything queued to the lane. *)
Tasks == BiasTasks \cup SampleTasks \cup ZeroTasks

(* The samples that come back. *)
SampleSignals == {s \in Signals : s.kind = "sample"}

(* No answer of the lane is queued. *)
NoLane(g) == \A i \in 1..Len(g) : g[i].kind \notin LaneKinds

(* Nobody has said that the biases are zero. *)
NoZeroed(g) == \A i \in 1..Len(g) : g[i].kind # "zeroed"

(* The biases are not to be zeroed. *)
NoZero(l) == \A i \in 1..Len(l) : l[i].task # "zero"

(* Zeroing them is the last thing the lane will do. *)
ZeroLast(l) == l # <<>> /\ l[Len(l)].task = "zero" /\ \A i \in 1..Len(l) - 1 : l[i].task # "zero"

(* That they are zero is the lane's last word. *)
ZeroTold(g) ==
    \E i \in 1..Len(g) :
        /\ g[i].kind = "zeroed"
        /\ \A j \in 1..Len(g) : (g[j].kind \in LaneKinds => j <= i) /\ (g[j].kind = "zeroed" => j = i)

(* Who holds the instruments, and what they are held for. *)
Owning(k, r) ==
    /\ k.claimed <=> k.active \/ k.cleaning
    /\ k.exclusive <=> k.claimed
    /\ k.saving => k.cleaning /\ k.zeroed /\ k.lanes
    /\ k.shutdownWaiting => k.shutdownExclusive /\ r > 0
    /\ k.shutdownExclusive => ~k.claimed
    /\ r = 0 => ~k.claimed
    /\ k.hold.on => k.active /\ ~k.cleaning
    /\ k.transition => k.active /\ ~k.cleaning

(* The lane works for a run or a cleanup, which ends it by zeroing the biases, once. *)
Orderly(k, g, l) ==
    /\ ~k.claimed \/ (k.cleaning /\ k.zeroed) => l = <<>> /\ NoLane(g)
    /\ k.active /\ ~k.cleaning => NoZero(l) /\ NoZeroed(g)
    /\ k.cleaning /\ ~k.zeroed => (ZeroLast(l) /\ NoZeroed(g)) \/ (l = <<>> /\ ZeroTold(g))

(* Every sample asked for is queued to the lane or to the GUI. *)
Pending(k, g, l) ==
    k.pending = Count(l, SampleTasks) + Count(g, SampleSignals) /\ k.pending \in 0..2

(* The controller, its queues and its counters have their types. *)
Typing(k, g, l, h, r) ==
    Typed(k) /\ k.generation = h /\ h \in Nat /\ r \in Nat /\ g \in Seq(Signals) /\ l \in Seq(Tasks)

(* A run paused for its temperature or its monitoring is held for the operator. *)
Resting(k, i) ==
    /\ i => k.active /\ ~k.cleaning /\ Held(k)
    /\ k.active /\ ~k.cleaning => k.cond <= Conditions

(* All of that: what every handler needs and keeps. *)
Lawful(k, g, l, h, r, i) ==
    Typing(k, g, l, h, r) /\ Owning(k, r) /\ Orderly(k, g, l) /\ Pending(k, g, l) /\ Resting(k, i)

(* What is known of a signal. *)
LEMMA SignalsAre ==
  ASSUME NEW s \in Signals
  PROVE  /\ s.kind \in Kinds /\ s.ok \in BOOLEAN
         /\ s.kind = "sample" => s \in SampleSignals
         /\ s.kind # "sample" => s \notin SampleSignals
         /\ s.kind = "sample" /\ s.ok => s.generation = s.holds
<1>1. CASE s \in Answers
  BY <1>1 DEF Answers, Plain, LaneKinds, SampleSignals, Signals, Kinds
<1>2. CASE s \in LaneAnswers
  BY <1>2 DEF LaneAnswers, Plain, LaneKinds, SampleSignals, Signals
<1>3. CASE s \in SampleRows
  BY <1>3 DEF SampleRows, SampleSignals, Signals, Kinds
<1> QED BY <1>1, <1>2, <1>3 DEF Signals

(* What is known of a task. *)
LEMMA TasksAre ==
  ASSUME NEW t \in Tasks
  PROVE  /\ t.task \in {"bias", "sample", "zero"}
         /\ t.task = "sample" <=> t \in SampleTasks
         /\ t.task = "sample" => t.generation = t.holds /\ t.generation \in Nat
         /\ t.task = "bias" => t.cond \in 1..Conditions
BY DEF Tasks, BiasTasks, SampleTasks, ZeroTasks

(* Append as a concatenation. *)
LEMMA AppendIs ==
  ASSUME NEW S, NEW p \in Seq(S), NEW x \in S
  PROVE  Append(p, x) = p \o <<x>>
OBVIOUS

(* An answer of the magnet does not disturb the lane's. *)
LEMMA SayOrderly ==
  ASSUME NEW k, NEW g \in Seq(Signals), NEW l, NEW x \in Answers, Orderly(k, g, l)
  PROVE  Orderly(k, g \o <<x>>, l)
<1> DEFINE q == g \o <<x>>
<1>x. x \in Signals /\ x.kind \notin LaneKinds
  BY DEF Signals, Answers
<1>1. Len(q) = Len(g) + 1 /\ q[Len(g) + 1] = x /\ (\A i \in 1..Len(g) : q[i] = g[i]) /\ Len(g) \in Nat
  BY <1>x, Grows
<1> HIDE DEF q
<1>2. NoLane(g) => NoLane(q)
  BY <1>x, <1>1 DEF NoLane
<1>3. NoZeroed(g) => NoZeroed(q)
  BY <1>x, <1>1 DEF NoZeroed, LaneKinds
<1>4. ZeroTold(g) => ZeroTold(q)
  <2> SUFFICES ASSUME ZeroTold(g) PROVE ZeroTold(q)
    OBVIOUS
  <2>1. PICK i \in 1..Len(g) : /\ g[i].kind = "zeroed"
                               /\ \A j \in 1..Len(g) : (g[j].kind \in LaneKinds => j <= i)
                                  /\ (g[j].kind = "zeroed" => j = i)
    BY DEF ZeroTold
  <2>2. i \in 1..Len(q) /\ q[i].kind = "zeroed"
    BY <1>1, <2>1
  <2>3. \A j \in 1..Len(q) : (q[j].kind \in LaneKinds => j <= i) /\ (q[j].kind = "zeroed" => j = i)
    BY <1>x, <1>1, <2>1 DEF LaneKinds
  <2> QED BY <2>2, <2>3 DEF ZeroTold
<1> QED BY <1>2, <1>3, <1>4 DEF Orderly, q

(* An answer of the magnet keeps the law. *)
LEMMA Say ==
  ASSUME NEW k, NEW g, NEW l, NEW h, NEW r, NEW i, NEW x \in Answers, Lawful(k, g, l, h, r, i)
  PROVE  Lawful(k, g \o <<x>>, l, h, r, i)
<1>1. g \in Seq(Signals) /\ x \in Signals /\ x \notin SampleSignals
  BY SignalsAre DEF Lawful, Typing, Signals, Answers, LaneKinds
<1>2. Orderly(k, g \o <<x>>, l)
  BY <1>1, SayOrderly DEF Lawful
<1>3. Count(g \o <<x>>, SampleSignals) = Count(g, SampleSignals) /\ Count(g, SampleSignals) \in Nat
  BY <1>1, CountGrows, MarkedFinite
<1>4. Typing(k, g \o <<x>>, l, h, r)
  BY <1>1, Grows DEF Lawful, Typing
<1> QED BY <1>2, <1>3, <1>4 DEF Lawful, Pending

(* The GUI takes an answer that is not the last of the lane. *)
LEMMA Drops ==
  ASSUME NEW k, NEW g \in Seq(Signals), NEW l, g # <<>>, Orderly(k, g, l), Head(g).kind # "zeroed"
  PROVE  Orderly(k, Tail(g), l)
<1> DEFINE q == Tail(g)
<1>1. Len(q) = Len(g) - 1 /\ Len(g) \in Nat \ {0} /\ Head(g) = g[1] /\ \A i \in 1..Len(g) - 1 : q[i] = g[i + 1]
  BY Shrinks
<1> HIDE DEF q
<1>2. NoLane(g) => NoLane(q)
  BY <1>1 DEF NoLane
<1>3. NoZeroed(g) => NoZeroed(q)
  BY <1>1 DEF NoZeroed
<1>4. ZeroTold(g) => ZeroTold(q)
  <2> SUFFICES ASSUME ZeroTold(g) PROVE ZeroTold(q)
    OBVIOUS
  <2>1. PICK i \in 1..Len(g) : /\ g[i].kind = "zeroed"
                               /\ \A j \in 1..Len(g) : (g[j].kind \in LaneKinds => j <= i)
                                  /\ (g[j].kind = "zeroed" => j = i)
    BY DEF ZeroTold
  <2>2. i # 1
    BY <1>1, <2>1
  <2>3. i - 1 \in 1..Len(q) /\ q[i - 1] = g[i]
    <3>1. i - 1 \in 1..Len(g) - 1 /\ (i - 1) + 1 = i
      BY <1>1, <2>1, <2>2
    <3> QED BY <1>1, <3>1
  <2>4. \A j \in 1..Len(q) : j + 1 \in 1..Len(g) /\ q[j] = g[j + 1]
    BY <1>1
  <2>5. \A j \in 1..Len(q) : (q[j].kind \in LaneKinds => j <= i - 1) /\ (q[j].kind = "zeroed" => j = i - 1)
    <3> TAKE j \in 1..Len(q)
    <3>1. (g[j + 1].kind \in LaneKinds => j + 1 <= i) /\ (g[j + 1].kind = "zeroed" => j + 1 = i)
      BY <2>1, <2>4
    <3> QED BY <2>1, <2>4, <3>1, <1>1
  <2> QED BY <2>1, <2>3, <2>5 DEF ZeroTold
<1> QED BY <1>2, <1>3, <1>4 DEF Orderly, q

(* The word that the biases are zero is the lane's last. *)
LEMMA DropsZeroed ==
  ASSUME NEW k, NEW g \in Seq(Signals), NEW l, g # <<>>, Orderly(k, g, l), Head(g).kind = "zeroed", NEW r,
         Owning(k, r)
  PROVE  k.cleaning /\ ~k.zeroed /\ l = <<>> /\ NoLane(Tail(g))
<1> DEFINE q == Tail(g)
<1>1. Len(q) = Len(g) - 1 /\ Len(g) \in Nat \ {0} /\ Head(g) = g[1] /\ \A i \in 1..Len(g) - 1 : q[i] = g[i + 1]
  BY Shrinks
<1> HIDE DEF q
<1>2. ~NoLane(g) /\ ~NoZeroed(g)
  BY <1>1 DEF NoLane, NoZeroed, LaneKinds
<1>3. k.cleaning /\ ~k.zeroed /\ l = <<>> /\ ZeroTold(g)
  BY <1>2 DEF Orderly, Owning
<1>4. PICK i \in 1..Len(g) : /\ g[i].kind = "zeroed"
                             /\ \A j \in 1..Len(g) : (g[j].kind \in LaneKinds => j <= i)
                                /\ (g[j].kind = "zeroed" => j = i)
  BY <1>3 DEF ZeroTold
<1>5. i = 1
  BY <1>1, <1>4
<1>6. \A j \in 1..Len(q) : j + 1 \in 1..Len(g) /\ q[j] = g[j + 1] /\ ~(j + 1 <= 1)
  BY <1>1
<1>7. NoLane(q)
  BY <1>4, <1>5, <1>6 DEF NoLane
<1> QED BY <1>3, <1>7 DEF q

(* What taking an answer does by itself, before its handler goes on. *)
Base(k, s) ==
    IF s.kind = "zeroed" THEN [k EXCEPT !.zeroed = TRUE]
    ELSE IF s.kind = "sample" THEN [k EXCEPT !.pending = @ - 1]
    ELSE IF s.kind = "configured" /\ s.ok /\ k.active THEN [k EXCEPT !.stored = TRUE]
    ELSE IF s.kind = "operation" /\ s.name = "persistent" /\ k.active /\ ~k.cleaning /\ k.rowTransition
         THEN [k EXCEPT !.rowEntered = TRUE]
    ELSE k

(* Taking an answer keeps the law. *)
LEMMA BaseLawful ==
  ASSUME NEW k, NEW g, NEW l, NEW h, NEW r, NEW i, Lawful(k, g, l, h, r, i), g # <<>>
  PROVE  Lawful(Base(k, Head(g)), Tail(g), l, h, r, i)
<1> DEFINE s == Head(g)
           t == Tail(g)
           b == Base(k, s)
<1>1. g \in Seq(Signals) /\ s \in Signals /\ t \in Seq(Signals) /\ l \in Seq(Tasks)
  BY Shrinks DEF Lawful, Typing
<1>2. Count(g, SampleSignals) = Count(t, SampleSignals) + (IF s \in SampleSignals THEN 1 ELSE 0)
  BY <1>1, CountShrinks
<1>3. Count(t, SampleSignals) \in Nat /\ Count(l, SampleTasks) \in Nat
  BY <1>1, MarkedFinite
<1>4. (s.kind = "sample" => s \in SampleSignals) /\ (s.kind # "sample" => s \notin SampleSignals)
  BY <1>1, SignalsAre
<1>5. /\ Typed(b) /\ b.generation = k.generation
      /\ b.active = k.active /\ b.cleaning = k.cleaning /\ b.claimed = k.claimed /\ b.exclusive = k.exclusive
  BY DEF Lawful, Typing, Typed, Slots, Base
<1>6. /\ b.saving = k.saving /\ b.lanes = k.lanes /\ b.shutdownWaiting = k.shutdownWaiting
      /\ b.shutdownExclusive = k.shutdownExclusive /\ b.hold = k.hold /\ b.transition = k.transition
  BY DEF Lawful, Typing, Typed, Slots, Base
<1>7. /\ b.manual = k.manual /\ b.thermalHold = k.thermalHold /\ b.cond = k.cond
      /\ b.zeroed = (IF s.kind = "zeroed" THEN TRUE ELSE k.zeroed)
  BY DEF Lawful, Typing, Typed, Slots, Base
<1>8. b.pending = (IF s.kind = "sample" THEN k.pending - 1 ELSE k.pending)
  BY DEF Lawful, Typing, Typed, Slots, Base
<1> HIDE DEF s, t, b
<1>9. Pending(b, t, l)
  BY <1>2, <1>3, <1>4, <1>8 DEF Lawful, Pending
<1>10. Orderly(b, t, l)
  <2>1. CASE s.kind = "zeroed"
    <3>2. Orderly(k, g, l) /\ Owning(k, r)
      BY DEF Lawful
    <3>3. Head(g).kind = "zeroed"
      BY <2>1 DEF s
    <3>4. k.cleaning /\ ~k.zeroed /\ l = <<>> /\ NoLane(Tail(g))
      BY <1>1, <3>2, <3>3, DropsZeroed
    <3>1. k.cleaning /\ l = <<>> /\ NoLane(t)
      BY <3>4 DEF t
    <3> QED BY <1>5, <1>7, <2>1, <3>1 DEF Orderly
  <2>2. CASE s.kind # "zeroed"
    <3>1. Orderly(k, t, l)
      BY <1>1, <2>2, Drops DEF Lawful, s, t
    <3> QED BY <1>5, <1>7, <2>2, <3>1 DEF Orderly
  <2> QED BY <2>1, <2>2
<1>11. Owning(b, r)
  BY <1>5, <1>6, <1>7 DEF Lawful, Owning
<1>12. Resting(b, i)
  BY <1>5, <1>6, <1>7 DEF Lawful, Resting, Held
<1>13. Typing(b, t, l, h, r)
  BY <1>1, <1>5 DEF Lawful, Typing
<1> QED BY <1>9, <1>10, <1>11, <1>12, <1>13 DEF Lawful, s, t, b

(* One more task for the lane. *)
LEMMA AddsTask ==
  ASSUME NEW l \in Seq(Tasks), NoZero(l), NEW x \in Tasks
  PROVE  /\ x.task # "zero" => NoZero(l \o <<x>>)
         /\ x.task = "zero" => ZeroLast(l \o <<x>>)
<1> DEFINE q == l \o <<x>>
<1>1. Len(q) = Len(l) + 1 /\ q[Len(l) + 1] = x /\ (\A i \in 1..Len(l) : q[i] = l[i]) /\ Len(l) \in Nat
      /\ q \in Seq(Tasks)
  BY Grows
<1> HIDE DEF q
<1>2. x.task # "zero" => NoZero(q)
  BY <1>1 DEF NoZero
<1>3. q # <<>>
  BY <1>1, EmptySeq
<1>4. Len(q) - 1 = Len(l)
  BY <1>1
<1>5. x.task = "zero" => ZeroLast(q)
  BY <1>1, <1>3, <1>4 DEF ZeroLast, NoZero
<1> QED BY <1>2, <1>5 DEF q

(* A step of a running series keeps the law. *)
LEMMA TurnRan ==
  ASSUME NEW b, NEW g, NEW l, NEW r, NEW i, NEW n, NEW j, Runs(b), Ran(b, n), Lawful(b, g, l, holds, r, i),
         j => Held(n)
  PROVE  Lawful(n, g, l \o n.do, n.generation, r, j)
<1>1. Typed(n) /\ n.active /\ ~n.cleaning /\ n.cond <= Conditions /\ l \in Seq(Tasks) /\ holds \in Nat
      /\ b.generation = holds
  BY DEF Ran, Runs, Lawful, Typing
<1>2. n.generation \in Nat
  BY <1>1 DEF Ran, Counts
<1>3. Owning(n, r)
  BY DEF Ran, Runs, Frame, Lawful, Owning
<1>4. Resting(n, j)
  BY <1>1 DEF Resting
<1>5. NoZero(l) /\ NoZeroed(g) /\ n.claimed
  BY DEF Lawful, Orderly, Ran, Frame, Runs, Owning
<1>p. n.pending \in 0..2 /\ b.pending = Count(l, SampleTasks) + Count(g, SampleSignals)
      /\ Count(l, SampleTasks) \in Nat /\ Count(g, SampleSignals) \in Nat
  BY MarkedFinite DEF Ran, Does, Lawful, Pending, Typing
<1>6. CASE n.do = <<>> /\ n.pending = b.pending
  <2>1. l \o n.do = l
    BY <1>1, <1>6, SameKept
  <2>2. Orderly(n, g, l)
    BY <1>1, <1>5 DEF Orderly
  <2>3. Pending(n, g, l)
    BY <1>6, <1>p DEF Pending
  <2> QED BY <1>1, <1>2, <1>3, <1>4, <2>1, <2>2, <2>3 DEF Lawful, Typing
<1>7. CASE n.pending = b.pending /\ \E q \in 1..Conditions : n.do = <<[task |-> "bias", cond |-> q]>>
  <2>1. PICK q \in 1..Conditions : n.do = <<[task |-> "bias", cond |-> q]>>
    BY <1>7
  <2> DEFINE x == [task |-> "bias", cond |-> q]
  <2>2. x \in Tasks /\ x.task = "bias" /\ x \notin SampleTasks
    BY DEF Tasks, BiasTasks, SampleTasks
  <2>3. n.do = <<x>>
    BY <2>1
  <2> HIDE DEF x
  <2>4. NoZero(l \o n.do)
    BY <1>1, <1>5, <2>2, <2>3, AddsTask
  <2>5. Orderly(n, g, l \o n.do)
    BY <1>1, <1>5, <2>4 DEF Orderly
  <2>6. Pending(n, g, l \o n.do)
    BY <1>1, <1>7, <1>p, <2>2, <2>3, CountGrows DEF Pending
  <2>7. l \o n.do \in Seq(Tasks)
    BY <1>1, <2>2, <2>3, Grows
  <2> QED BY <1>1, <1>2, <1>3, <1>4, <2>5, <2>6, <2>7 DEF Lawful, Typing
<1>8. CASE n.pending = b.pending + 1
           /\ n.do = <<[task |-> "sample", generation |-> b.generation, holds |-> holds]>>
  <2> DEFINE x == [task |-> "sample", generation |-> b.generation, holds |-> holds]
  <2>2. x \in Tasks /\ x.task = "sample" /\ x \in SampleTasks
    BY <1>1 DEF Tasks, BiasTasks, SampleTasks
  <2>3. n.do = <<x>>
    BY <1>8
  <2> HIDE DEF x
  <2>4. NoZero(l \o n.do)
    BY <1>1, <1>5, <2>2, <2>3, AddsTask
  <2>5. Orderly(n, g, l \o n.do)
    BY <1>1, <1>5, <2>4 DEF Orderly
  <2>6. Count(l \o n.do, SampleTasks) = Count(l, SampleTasks) + 1
    BY <1>1, <2>2, <2>3, CountGrows
  <2>8. Pending(n, g, l \o n.do)
    BY <1>8, <1>p, <2>6 DEF Pending
  <2>7. l \o n.do \in Seq(Tasks)
    BY <1>1, <2>2, <2>3, Grows
  <2> QED BY <1>1, <1>2, <1>3, <1>4, <2>5, <2>7, <2>8 DEF Lawful, Typing
<1> QED BY <1>6, <1>7, <1>8 DEF Ran, Does

(* The beginning of the cleanup keeps the law. *)
LEMMA TurnCleaned ==
  ASSUME NEW b, NEW g, NEW l, NEW r, NEW i, NEW n, NEW h, NEW j, ~j, Runs(b), Cleaned(b, n),
         Lawful(b, g, l, h, r, i)
  PROVE  Lawful(n, g, l \o n.do, h, r, j)
<1>1. Typed(n) /\ n.cleaning /\ ~n.zeroed /\ l \in Seq(Tasks) /\ n.generation = h /\ n.pending = b.pending
  BY DEF Cleaned, Lawful, Typing
<1>2. ~n.hold.on
  BY DEF Cleaned, NoHold
<1>3. Owning(n, r)
  BY <1>1, <1>2 DEF Cleaned, Runs, Frame, Lawful, Owning
<1>4. Resting(n, j)
  BY <1>1 DEF Resting
<1>5. NoZero(l) /\ NoZeroed(g) /\ n.claimed
  BY DEF Lawful, Orderly, Cleaned, Frame, Runs, Owning
<1> DEFINE x == [task |-> "zero"]
<1>6. x \in Tasks /\ x.task = "zero" /\ x \notin SampleTasks
  BY DEF Tasks, ZeroTasks, SampleTasks
<1>7. n.do = <<x>>
  BY DEF Cleaned
<1> HIDE DEF x
<1>8. ZeroLast(l \o n.do)
  BY <1>1, <1>5, <1>6, <1>7, AddsTask
<1>9. Orderly(n, g, l \o n.do)
  BY <1>1, <1>5, <1>8 DEF Orderly
<1>p. b.pending = Count(l, SampleTasks) + Count(g, SampleSignals) /\ Count(l, SampleTasks) \in Nat
      /\ b.pending \in 0..2
  BY MarkedFinite DEF Lawful, Pending, Typing
<1>c. Count(l \o n.do, SampleTasks) = Count(l, SampleTasks)
  BY <1>1, <1>6, <1>7, <1>p, CountGrows
<1>10. Pending(n, g, l \o n.do)
  BY <1>1, <1>p, <1>c DEF Pending
<1>11. l \o n.do \in Seq(Tasks)
  BY <1>1, <1>6, <1>7, Grows
<1> QED BY <1>1, <1>3, <1>4, <1>9, <1>10, <1>11 DEF Lawful, Typing

(* A step that leaves the lane alone keeps the law. *)
LEMMA TurnSame ==
  ASSUME NEW b, NEW g, NEW l, NEW r, NEW i, NEW n, NEW h, NEW j, ~j, Lawful(b, g, l, h, r, i), n.do = <<>>,
         Typed(n), n.generation = b.generation, n.pending = b.pending, ~(n.active /\ ~n.cleaning),
         Owning(n, r), Orderly(n, g, l)
  PROVE  Lawful(n, g, l \o n.do, h, r, j)
<1>1. l \o n.do = l
  BY SameKept DEF Lawful, Typing
<1> QED BY <1>1 DEF Lawful, Typing, Pending, Resting

(* A step of a cleanup keeps the law. *)
LEMMA TurnTended ==
  ASSUME NEW b, NEW g, NEW l, NEW r, NEW i, NEW n, NEW h, NEW j, ~j, b.cleaning, Lawful(b, g, l, h, r, i),
         Remains(b, n) \/ Concludes(b, n)
  PROVE  Lawful(n, g, l \o n.do, h, r, j)
<1>1. CASE Remains(b, n)
  <2>1. Owning(n, r) /\ Orderly(n, g, l)
    BY <1>1 DEF Remains, Tended, Owns, Lawful, Owning, Orderly
  <2> QED BY <1>1, <2>1, TurnSame DEF Remains, Tended, Owns
<1>2. CASE Saves(b, n)
  <2>1. Owning(n, r) /\ Orderly(n, g, l)
    BY <1>2 DEF Saves, Tended, Owns, Lawful, Owning, Orderly
  <2> QED BY <1>2, <2>1, TurnSame DEF Saves, Tended, Owns
<1>3. CASE Leaves(b, n)
  <2>1. Owning(n, r) /\ Orderly(n, g, l)
    BY <1>3 DEF Leaves, Tended, Lawful, Owning, Orderly
  <2> QED BY <1>3, <2>1, TurnSame DEF Leaves, Tended
<1> QED BY <1>1, <1>2, <1>3 DEF Concludes, Awaits

(* A step without a series keeps the law. *)
LEMMA TurnRests ==
  ASSUME NEW b, NEW g, NEW l, NEW r, NEW i, NEW n, NEW h, NEW j, ~j, ~b.active, ~b.cleaning,
         Lawful(b, g, l, h, r, i), Rests(b, n)
  PROVE  Lawful(n, g, l \o n.do, h, r, j)
<1>1. Owning(n, r) /\ Orderly(n, g, l)
  BY DEF Rests, Lawful, Owning, Orderly
<1> QED BY <1>1, TurnSame DEF Rests

(* The law of the present state; between two handlers nothing is left to post. *)
Law == Lawful(c, gui, lane, holds, runs, interrupted) /\ Silent(c)

(* What the handler of an answer makes of the controller. *)
Delivers(s, n) ==
    LET b == Base(c, s)
    IN  \/ Runs(b) /\ Ran(b, n) /\ Stays(b, n) /\ (s.kind # "configured" \/ ~c.rowTransition => Paced(b, n))
        \/ Runs(b) /\ Cleaned(b, n)
        \/ /\ Cleans(b)
           /\ \/ Sits(b, n)
              \/ Posts(b, n, "persistent") /\ s.kind = "operation"
              \/ Posts(b, n, "restore") /\ s.kind = "operation"
              \/ Remains(b, n) /\ n.ask = <<Request("move", "start")>> /\ s.kind = "configured"
              \/ Concludes(b, n)
        \/ /\ Idles(b) /\ Rests(b, n)
           /\ n.shutdownDone = c.shutdownDone
              \/ (s.kind = "operation" /\ s.name = "persistent" /\ c.shutdownWaiting)

(* The answer the GUI takes next. *)
LEMMA Heads ==
  ASSUME Law, gui # <<>>
  PROVE  /\ Head(gui) \in Signals /\ Head(gui).kind \in Kinds /\ Head(gui).ok \in BOOLEAN
         /\ Runs(c) => Head(gui).kind # "zeroed"
         /\ Idles(c) => Head(gui).kind \notin LaneKinds
<1>1. gui \in Seq(Signals)
  BY DEF Law, Lawful, Typing
<1>2. Head(gui) \in Signals /\ Head(gui) = gui[1] /\ 1 \in 1..Len(gui)
  BY <1>1, Shrinks
<1>3. NoLane(gui) => Head(gui).kind \notin LaneKinds
  BY <1>2 DEF NoLane
<1>4. NoZeroed(gui) => Head(gui).kind # "zeroed"
  BY <1>2 DEF NoZeroed
<1>5. Runs(c) => NoZeroed(gui)
  BY DEF Law, Lawful, Orderly, Runs
<1>6. Idles(c) => NoLane(gui)
  BY DEF Law, Lawful, Orderly, Owning, Idles
<1> QED BY <1>2, <1>3, <1>4, <1>5, <1>6, SignalsAre

(* A series runs, is cleaned up, or there is none. *)
LEMMA Three ==
  ASSUME Law
  PROVE  Runs(c) \/ Cleans(c) \/ (Idles(c) /\ (c.shutdownWaiting => c.shutdownExclusive))
BY DEF Law, Lawful, Typing, Owning, Resting, Runs, Cleans, Idles

(* Taking an answer by itself changes none of that. *)
LEMMA BaseKeeps ==
  ASSUME NEW s, Law
  PROVE  /\ Silent(Base(c, s))
         /\ Runs(c) => Runs(Base(c, s))
         /\ Cleans(c) => Cleans(Base(c, s))
         /\ Idles(c) => Idles(Base(c, s))
         /\ Base(c, s).hold = c.hold /\ Base(c, s).shutdownWaiting = c.shutdownWaiting
<1>1. Typed(c) /\ Silent(c)
  BY DEF Law, Lawful, Typing
<1>2. /\ Typed(Base(c, s)) /\ Base(c, s).active = c.active /\ Base(c, s).cleaning = c.cleaning
      /\ Base(c, s).hold = c.hold /\ Base(c, s).transition = c.transition /\ Base(c, s).cond = c.cond
  BY <1>1 DEF Base, Typed, Slots
<1>3. Silent(Base(c, s)) /\ Base(c, s).shutdownWaiting = c.shutdownWaiting
  BY <1>1 DEF Base, Typed, Slots, Silent
<1> QED BY <1>2, <1>3 DEF Runs, Cleans, Idles

(* The handler of an answer, while a series runs. *)
LEMMA RunsHandled ==
  ASSUME Law, gui # <<>>, Runs(c)
  PROVE  Delivers(Head(gui), Handled(Head(gui)))
<1> DEFINE s == Head(gui)
           b == Base(c, s)
           n == Handled(s)
<1>1. Silent(c) /\ Silent(b) /\ Runs(b) /\ s.kind \in Kinds /\ s.ok \in BOOLEAN /\ s.kind # "zeroed"
  BY BaseKeeps, Heads DEF Law
<1>2. ~c.shutdownWaiting
  BY DEF Law, Lawful, Owning, Runs
<1> SUFFICES (Ran(b, n) /\ Stays(b, n) /\ (s.kind # "configured" \/ ~c.rowTransition => Paced(b, n)))
             \/ Cleaned(b, n)
  BY <1>1 DEF Delivers
<1> HIDE DEF s
<1>3. CASE s.kind = "configured" /\ s.ok
  <2>1. b = [c EXCEPT !.stored = TRUE] /\ n = Configured(c, s.ok)
    BY <1>3 DEF Base, Handled, Runs
  <2>2. b.hold = c.hold /\ b.thermalHold = c.thermalHold /\ b.rowTransition = c.rowTransition
    BY <2>1 DEF Runs, Typed, Slots
  <2>3. n = (IF b.hold.on THEN [b EXCEPT !.hold.phase = "positioning"]
             ELSE IF b.thermalHold THEN [b EXCEPT !.resume = "positioning"] ELSE Position(b))
    BY <1>3, <2>1, <2>2 DEF Configured, Runs
  <2> HIDE DEF b, n
  <2> QED BY <1>1, <1>3, <2>2, <2>3, LConfigured
<1>4. CASE s.kind = "configured" /\ ~s.ok
  <2>1. b = c /\ n = Fail(c, "persistent")
    BY <1>4 DEF Base, Handled, Configured, Runs
  <2> QED BY <1>1, <2>1, FailCleans
<1>5. CASE s.kind = "sample"
  <2>1. b = [c EXCEPT !.pending = @ - 1] /\ n = SampleReady(c, s.ok)
    BY <1>5 DEF Base, Handled
  <2> HIDE DEF b, n
  <2>2. Out(b, n)
    BY <1>1, <1>2, <2>1, LSampleReady
  <2> QED BY <2>2 DEF Out
<1>6. CASE s.kind = "operation" /\ s.name = "persistent" /\ c.rowTransition
  <2>1. b = [c EXCEPT !.rowEntered = TRUE] /\ n = MagnetOperation(c, "persistent")
    BY <1>6 DEF Base, Handled, Runs
  <2> HIDE DEF b, n
  <2>2. Out(b, n)
    BY <1>1, <1>2, <1>6, <2>1, LRowEntered
  <2> QED BY <2>2 DEF Out
<1>7. CASE s.kind \notin {"configured", "sample"}
           /\ ~(s.kind = "operation" /\ s.name = "persistent" /\ c.rowTransition)
  <2>1. b = c
    BY <1>1, <1>7 DEF Base
  <2>2. Out(c, n)
    <3>1. CASE s.kind = "moved"
      BY <1>1, <3>1, LMoved DEF Handled
    <3>2. CASE s.kind = "swept"
      BY <1>1, <3>2, LSweepStarted DEF Handled
    <3>3. CASE s.kind = "operation"
      BY <1>1, <1>2, <1>7, <3>3, LMagnetOperation DEF Handled
    <3>4. CASE s.kind = "restored"
      <4>1. n = c
        BY <3>4 DEF Handled, Restored, Runs
      <4> QED BY <1>1, <4>1, LStay
    <3>5. CASE s.kind = "error"
      BY <1>1, <1>2, <3>5, LMagnetError DEF Handled
    <3>6. CASE s.kind = "disconnected"
      BY <1>1, <3>6, LMagnetDisconnected DEF Handled
    <3>7. CASE s.kind = "biases"
      BY <1>1, <3>7, LBiasesReady DEF Handled
    <3> QED BY <1>1, <1>7, <3>1, <3>2, <3>3, <3>4, <3>5, <3>6, <3>7 DEF Kinds
  <2> QED BY <2>1, <2>2 DEF Out
<1> QED BY <1>1, <1>3, <1>4, <1>5, <1>6, <1>7

(* The handler of an answer, without a series. *)
LEMMA IdleHandled ==
  ASSUME Law, gui # <<>>, Idles(c), c.shutdownWaiting => c.shutdownExclusive
  PROVE  Delivers(Head(gui), Handled(Head(gui)))
<1> DEFINE s == Head(gui)
           n == Handled(s)
<1>1. s.kind \in Kinds /\ s.kind \notin LaneKinds /\ ~c.active
  BY Heads DEF Idles
<1>2. Base(c, s) = c
  BY <1>1 DEF Base, LaneKinds
<1> SUFFICES Rests(c, n)
             /\ (n.shutdownDone = c.shutdownDone
             \/ (s.kind = "operation" /\ s.name = "persistent" /\ c.shutdownWaiting))
  BY <1>2 DEF Delivers
<1> HIDE DEF s
<1>3. CASE s.kind = "operation"
  BY <1>3, IMagnetOperation DEF Handled
<1>4. CASE s.kind = "error"
  BY <1>4, IMagnetError DEF Handled
<1>5. CASE s.kind \in {"configured", "moved", "swept", "restored", "disconnected"}
  <2>1. n = c
    BY <1>5, IOthers DEF Handled
  <2> QED BY <2>1, IStay
<1> QED BY <1>1, <1>3, <1>4, <1>5 DEF Kinds, LaneKinds

(* The handler of an answer, during a cleanup. *)
LEMMA CleansHandled ==
  ASSUME Law, gui # <<>>, Cleans(c)
  PROVE  Delivers(Head(gui), Handled(Head(gui)))
<1> DEFINE s == Head(gui)
           b == Base(c, s)
           n == Handled(s)
<1>1. Silent(c) /\ Silent(b) /\ Cleans(b) /\ s.kind \in Kinds /\ s.ok \in BOOLEAN
  BY BaseKeeps, Heads DEF Law
<1>2. ~c.shutdownWaiting
  BY DEF Law, Lawful, Owning, Cleans
<1> SUFFICES \/ Sits(b, n)
             \/ Posts(b, n, "persistent") /\ s.kind = "operation"
             \/ Posts(b, n, "restore") /\ s.kind = "operation"
             \/ Remains(b, n) /\ n.ask = <<Request("move", "start")>> /\ s.kind = "configured"
             \/ Concludes(b, n)
  BY <1>1 DEF Delivers
<1> HIDE DEF s
<1>3. CASE s.kind = "configured"
  <2>0. n = Configured(c, s.ok)
    BY <1>3 DEF Handled
  <2>1. CASE n = c /\ b = c
    BY <1>1, <2>1, CStay
  <2>2. CASE n = c /\ b # c
    <3>1. s.ok /\ c.active
      BY <1>3, <2>2 DEF Base
    <3>2. Configured(c, TRUE).stored
      BY <3>1 DEF Configured, Position, Ask, Cleans, Typed, Slots
    <3>3. b = [c EXCEPT !.stored = TRUE] /\ c.stored
      BY <1>3, <3>1, <3>2, <1>1, <2>0, <2>2 DEF Base
    <3>4. Sits(b, c)
      BY <3>3 DEF Sits, Remains, Owns, Tended, Cleans, Typed, Slots, Silent
    <3> QED BY <2>2, <3>4
  <2>3. CASE s.ok /\ c.active
    <3>1. b = [c EXCEPT !.stored = TRUE]
      BY <1>3, <2>3 DEF Base
    <3> HIDE DEF b, n
    <3> QED BY <1>1, <1>3, <2>0, <2>1, <2>2, <2>3, <3>1, CConfigured
  <2>4. CASE ~(s.ok /\ c.active)
    <3>1. b = c /\ n = c
      BY <1>1, <1>3, <2>0, <2>4 DEF Base, Configured, Fail, Cleans
    <3> QED BY <2>1, <3>1
  <2> QED BY <2>3, <2>4
<1>4. CASE s.kind = "sample"
  <2>1. b = [c EXCEPT !.pending = @ - 1] /\ n = SampleReady(c, s.ok)
    BY <1>4 DEF Base, Handled
  <2> HIDE DEF b, n
  <2>2. n = b
    BY <2>1, CSampleReady
  <2> QED BY <1>1, <2>2, CStay
<1>5. CASE s.kind = "zeroed"
  <2>1. b = [c EXCEPT !.zeroed = TRUE] /\ n = BiasesZeroed(c, s.ok)
    BY <1>5 DEF Base, Handled
  <2> HIDE DEF b, n
  <2> QED BY <1>1, <2>1, CBiasesZeroed
<1>6. CASE s.kind \notin {"configured", "sample", "zeroed"}
  <2>1. b = c
    BY <1>6 DEF Base, Cleans
  <2> HIDE DEF b
  <2>2. CASE s.kind \in {"moved", "swept"}
    <3>1. n = c
      BY <2>2 DEF Handled, Moved, SweepStarted, Cleans
    <3> QED BY <2>1, <3>1, CStay
  <2>3. CASE s.kind = "operation"
    <3>1. n = AnswersCleanup(c, s.name)
      BY <1>2, <2>3 DEF Handled, MagnetOperation, Cleans
    <3> HIDE DEF n
    <3> QED BY <2>1, <2>3, <3>1, CAnswers
  <2>4. CASE s.kind = "restored"
    BY <1>1, <2>1, <2>4, CRestored DEF Handled
  <2>5. CASE s.kind = "error"
    BY <1>1, <2>1, <2>5, CMagnetError DEF Handled
  <2>6. CASE s.kind = "disconnected"
    BY <1>1, <2>1, <2>6, CDisconnected DEF Handled
  <2>7. CASE s.kind = "biases"
    BY <1>1, <2>1, <2>7, CBiasesReady DEF Handled
  <2> QED BY <1>1, <1>6, <2>2, <2>3, <2>4, <2>5, <2>6, <2>7 DEF Kinds
<1> QED BY <1>3, <1>4, <1>5, <1>6

(* The handler of an answer. *)
LEMMA HandledDelivers ==
  ASSUME Law, gui # <<>>
  PROVE  Delivers(Head(gui), Handled(Head(gui)))
BY Three, RunsHandled, CleansHandled, IdleHandled

-----------------------------------------------------------------------------
(* What is asked of the magnet.                                            *)

(* What is asked of the magnet's worker. *)
Postable ==
    {q \in Requests : /\ q.op = "pause" => q.to \in {"user", "monitor", "thermal"}
                      /\ q.op = "sweep" => q.to \in {"start", "stop"}}

(* The worker, the supply, the magnet and the temperature. *)
World ==
    /\ aps \in Seq(Postable) /\ bias \in 0..Conditions /\ linked \in BOOLEAN
    /\ busy \in {"no", "move", "persistent"} /\ stopping \in {"no", "user", "monitor", "thermal"}
    /\ sweep \in {"no", "start", "stop"} /\ field \in {"start", "stop", "between"} /\ heater \in {"on", "off"}
    /\ reading \in {"start", "stop", "between", "none"} /\ thermal \in {"ok", "cool", "warn", "trip", "lost"}

(* The first invariant: the law, the world's types, and no row measured across a pause. *)
Sound1 == Law /\ World /\ ~spanned

(* At most one request for the magnet. *)
Wants(n) == n.ask = <<>> \/ \E q \in Postable : n.ask = <<q>>

(* No request. *)
LEMMA Nothing ==
  ASSUME NEW n, n.ask = <<>>
  PROVE  ~Holding(n) /\ ~Moves(n.ask) /\ PauseReasons(n.ask) = {} /\ Wants(n)
BY DEF Holding, Moves, PauseReasons, Wants

(* One request. *)
LEMMA Single ==
  ASSUME NEW n, NEW q \in Postable, n.ask = <<q>>
  PROVE  /\ Holding(n) <=> q.op = "pause" /\ q.to # "user"
         /\ Moves(n.ask) <=> q.op \in {"move", "sweep"}
         /\ PauseReasons(n.ask) = (IF q.op = "pause" THEN {q.to} ELSE {})
         /\ Wants(n)
<1> DEFINE a == <<q>>
<1>1. DOMAIN a = {1} /\ a[1] = q /\ n.ask = a
  OBVIOUS
<1> HIDE DEF a
<1>2. Wants(n)
  BY DEF Wants
<1>3. Holding(n) <=> q.op = "pause" /\ q.to # "user"
  BY <1>1 DEF Holding
<1>4. Moves(n.ask) <=> q.op \in {"move", "sweep"}
  BY <1>1 DEF Moves
<1>5. PauseReasons(n.ask) = (IF q.op = "pause" THEN {q.to} ELSE {})
  <2>1. {j \in DOMAIN n.ask : n.ask[j].op = "pause"} = IF q.op = "pause" THEN {1} ELSE {}
    BY <1>1
  <2>2. CASE q.op = "pause"
    BY <1>1, <2>1, <2>2 DEF PauseReasons
  <2>3. CASE q.op # "pause"
    BY <1>1, <2>1, <2>3 DEF PauseReasons
  <2> QED BY <2>2, <2>3
<1> QED BY <1>2, <1>3, <1>4, <1>5

(* The requests there are. *)
LEMMA RequestsAre ==
  /\ \A to \in {"user", "monitor", "thermal"} : Request("pause", to) \in Postable
     /\ Request("pause", to).op = "pause" /\ Request("pause", to).to = to
  /\ \A op \in {"configure", "persistent", "restore"} : Request(op, "no") \in Postable
     /\ Request(op, "no").op = op
  /\ Request("move", "start") \in Postable /\ Request("move", "start").op = "move"
  /\ \A to \in {"start", "stop"} : Request("sweep", to) \in Postable /\ Request("sweep", to).op = "sweep"
BY DEF Request, Requests, Targets, Postable

(* The request of a pause. *)
LEMMA Pauses ==
  ASSUME NEW n, NEW to \in {"user", "monitor", "thermal"}, n.ask = <<Request("pause", to)>>
  PROVE  (Holding(n) <=> to # "user") /\ ~Moves(n.ask) /\ Wants(n) /\ PauseReasons(n.ask) = {to}
<1>1. Request("pause", to) \in Postable /\ Request("pause", to).op = "pause" /\ Request("pause", to).to = to
  BY RequestsAre
<1> DEFINE q == Request("pause", to)
<1> HIDE DEF q
<1>2. q \in Postable /\ q.op = "pause" /\ q.to = to /\ n.ask = <<q>>
  BY <1>1 DEF q
<1> QED BY <1>2, Single

(* The other requests that do not move the magnet. *)
LEMMA Orders ==
  ASSUME NEW n, NEW op \in {"configure", "persistent", "restore"}, n.ask = <<Request(op, "no")>>
  PROVE  ~Holding(n) /\ ~Moves(n.ask) /\ Wants(n) /\ PauseReasons(n.ask) = {}
<1>1. Request(op, "no") \in Postable /\ Request(op, "no").op = op
  BY RequestsAre
<1> DEFINE q == Request(op, "no")
<1> HIDE DEF q
<1>2. q \in Postable /\ q.op # "pause" /\ q.op \notin {"move", "sweep"} /\ n.ask = <<q>>
  BY <1>1 DEF q
<1> QED BY <1>2, Single

(* The requests that do. *)
LEMMA Going ==
  ASSUME NEW n, Goes(n)
  PROVE  ~Holding(n) /\ Moves(n.ask) /\ Wants(n) /\ PauseReasons(n.ask) = {}
<1>1. PICK q \in Postable : n.ask = <<q>> /\ q.op \in {"move", "sweep"}
  BY RequestsAre DEF Goes
<1> QED BY <1>1, Single

(* What the request of a running series says. *)
LEMMA RanWants ==
  ASSUME NEW b, NEW n, Ran(b, n)
  PROVE  /\ Wants(n)
         /\ Holding(n) => n.generation = b.generation + 1
         /\ ~Holding(n) => n.generation = b.generation
         /\ Holding(n) <=> Interposes(n)
         /\ Moves(n.ask) => Goes(n)
<1>1. CASE n.ask = <<>>
  <2>1. ~Interposes(n)
    BY <1>1, NotOne DEF Interposes, PauseTo
  <2> QED BY <1>1, <2>1, Nothing DEF Ran, Counts
<1>2. CASE PauseTo(n, "user")
  <2>1. ~Interposes(n)
    BY <1>2 DEF Interposes, PauseTo, Request
  <2> QED BY <1>2, <2>1, Pauses DEF Ran, Counts, PauseTo
<1>3. CASE Interposes(n)
  <2>1. PICK to \in {"monitor", "thermal"} : n.ask = <<Request("pause", to)>>
    BY <1>3 DEF Interposes, PauseTo
  <2> QED BY <1>3, <2>1, Pauses DEF Ran, Counts
<1>4. CASE n.ask = <<Request("persistent", "no")>>
  <2>1. ~Interposes(n)
    BY <1>4 DEF Interposes, PauseTo, Request
  <2> QED BY <1>4, <2>1, Orders DEF Ran, Counts
<1>5. CASE Goes(n)
  <2>1. ~Interposes(n)
    BY <1>5 DEF Interposes, PauseTo, Request, Goes
  <2> QED BY <1>5, <2>1, Going DEF Ran, Counts
<1> QED BY <1>1, <1>2, <1>3, <1>4, <1>5 DEF Ran, Asks

(* What a handler asked for is posted when it returns. *)
LEMMA Stripped ==
  ASSUME NEW n, NEW g, NEW l, NEW h, NEW r, NEW i, Lawful(n, g, l, h, r, i), NEW m,
         m = [n EXCEPT !.ask = <<>>, !.do = <<>>]
  PROVE  Lawful(m, g, l, h, r, i) /\ Silent(m)
<1>1. Typed(n)
  BY DEF Lawful, Typing
<1>2. Typed(m) /\ Silent(m) /\ m.generation = n.generation /\ m.pending = n.pending /\ m.zeroed = n.zeroed
      /\ m.lanes = n.lanes
  BY <1>1 DEF Typed, Slots, Silent
<1>3. m.active = n.active /\ m.cleaning = n.cleaning /\ m.claimed = n.claimed /\ m.exclusive = n.exclusive
      /\ m.saving = n.saving
  BY <1>1 DEF Typed, Slots
<1>4. m.shutdownWaiting = n.shutdownWaiting /\ m.shutdownExclusive = n.shutdownExclusive /\ m.hold = n.hold
      /\ m.transition = n.transition
  BY <1>1 DEF Typed, Slots
<1>5. m.manual = n.manual /\ m.thermalHold = n.thermalHold /\ m.cond = n.cond
  BY <1>1 DEF Typed, Slots
<1>6. Owning(m, r)
  BY <1>2, <1>3, <1>4 DEF Lawful, Owning
<1>7. Orderly(m, g, l) /\ Pending(m, g, l)
  BY <1>2, <1>3 DEF Lawful, Orderly, Pending
<1>8. Resting(m, i)
  BY <1>3, <1>4, <1>5 DEF Lawful, Resting, Held
<1> QED BY <1>2, <1>6, <1>7, <1>8 DEF Lawful, Typing

(* So is what this one asked for. *)
LEMMA Posted ==
  ASSUME World, NEW n, Wants(n), Becomes(n),
         Lawful(n, gui', lane \o n.do, holds', runs', interrupted')
  PROVE  Law' /\ aps' \in Seq(Postable) /\ stopping' \in {"no", "user", "monitor", "thermal"}
<1>1. c' = [n EXCEPT !.ask = <<>>, !.do = <<>>] /\ aps' = aps \o n.ask /\ lane' = lane \o n.do
  BY DEF Becomes
<1>2. Law'
  BY <1>1, Stripped DEF Law
<1>3. aps \in Seq(Postable)
  BY DEF World
<1>4. CASE n.ask = <<>>
  <2>1. PauseReasons(n.ask) = {}
    BY <1>4, Nothing
  <2> QED BY <1>1, <1>2, <1>3, <1>4, <2>1, SameKept DEF Becomes, World
<1>5. CASE n.ask # <<>>
  <2>1. PICK q \in Postable : n.ask = <<q>>
    BY <1>5 DEF Wants
  <2>2. PauseReasons(n.ask) = (IF q.op = "pause" THEN {q.to} ELSE {})
    BY <2>1, Single
  <2>3. aps' \in Seq(Postable)
    BY <1>1, <1>3, <2>1, Grows
  <2>4. CASE q.op = "pause"
    <3>1. stopping' \in {q.to}
      BY <2>2, <2>4 DEF Becomes
    <3> QED BY <1>2, <2>1, <2>3, <2>4, <3>1 DEF Postable
  <2>5. CASE q.op # "pause"
    <3>1. stopping' = stopping
      BY <2>2, <2>5 DEF Becomes
    <3> QED BY <1>2, <2>3, <3>1 DEF World
  <2> QED BY <2>4, <2>5
<1> QED BY <1>4, <1>5

(* What any handler makes of the controller. *)
Turned(b, n) ==
    \/ Runs(b) /\ Ran(b, n) /\ Stays(b, n)
    \/ Runs(b) /\ Cleaned(b, n)
    \/ /\ Cleans(b)
       /\ \/ Remains(b, n)
             /\ (n.ask = <<>> \/ n.ask = <<Request("persistent", "no")>> \/ n.ask = <<Request("restore", "no")>>
                               \/ n.ask = <<Request("move", "start")>>)
          \/ Concludes(b, n)
    \/ Idles(b) /\ Rests(b, n)

(* What is posted in this step moves no magnet of a run that stays paused. *)
Commanded ==
    interrupted /\ interrupted' => ~Moves(SubSeq(aps', Len(aps) + 1, Len(aps')))

(* Every handler keeps the law and moves no magnet of a run that stays paused. *)
LEMMA Turns ==
  ASSUME NEW b, NEW g, NEW n, Lawful(b, g, lane, holds, runs, interrupted), Turned(b, n),
         Interrupts(n), gui' = g, runs' = runs
  PROVE  /\ Lawful(n, gui', lane \o n.do, holds', runs', interrupted') /\ Wants(n)
         /\ interrupted /\ interrupted' => ~Moves(n.ask)
<1>0. /\ interrupted' = (~n.cleaning /\ n.active /\ (interrupted \/ Holding(n)))
      /\ holds' = IF Holding(n) THEN holds + 1 ELSE holds
  BY DEF Interrupts
<1>1. CASE Runs(b) /\ Ran(b, n) /\ Stays(b, n)
  <2>1. b.generation = holds /\ (interrupted => Held(b))
    BY DEF Lawful, Typing, Resting
  <2>2. n.generation = holds' /\ Wants(n)
    BY <1>0, <1>1, <2>1, RanWants
  <2>3. interrupted' => Held(n)
    BY <1>0, <1>1, <2>1, RanWants DEF Stays
  <2>4. Lawful(n, g, lane \o n.do, n.generation, runs, interrupted')
    BY <1>1, <2>3, TurnRan
  <2>5. interrupted => ~Moves(n.ask)
    BY <1>1, <2>1, RanWants DEF Stays
  <2> QED BY <2>2, <2>4, <2>5
<1>2. CASE Runs(b) /\ Cleaned(b, n)
  <2>1. ~Holding(n) /\ Wants(n) /\ ~Moves(n.ask)
    BY <1>2, Pauses DEF Cleaned, PauseTo
  <2>2. ~interrupted' /\ holds' = holds
    BY <1>0, <1>2, <2>1 DEF Cleaned
  <2>3. Lawful(n, g, lane \o n.do, holds, runs, interrupted')
    BY <1>2, <2>2, TurnCleaned
  <2> QED BY <2>1, <2>2, <2>3
<1>3. CASE Cleans(b) /\ Remains(b, n)
           /\ (n.ask = <<>> \/ n.ask = <<Request("persistent", "no")>> \/ n.ask = <<Request("restore", "no")>>
                               \/ n.ask = <<Request("move", "start")>>)
  <2>1. ~Holding(n) /\ Wants(n)
    BY <1>3, Nothing, Orders, Going DEF Goes
  <2>2. ~interrupted' /\ holds' = holds
    BY <1>0, <1>3, <2>1 DEF Remains, Owns
  <2>3. Lawful(n, g, lane \o n.do, holds, runs, interrupted')
    BY <1>3, <2>2, TurnTended DEF Cleans
  <2> QED BY <2>1, <2>2, <2>3
<1>4. CASE Cleans(b) /\ Concludes(b, n)
  <2>1. ~Holding(n) /\ Wants(n)
    BY <1>4, Nothing DEF Concludes, Awaits, Saves, Leaves
  <2>2. ~interrupted' /\ holds' = holds
    BY <1>0, <1>4, <2>1 DEF Concludes, Awaits, Saves, Leaves, Remains, Owns
  <2>3. Lawful(n, g, lane \o n.do, holds, runs, interrupted')
    BY <1>4, <2>2, TurnTended DEF Cleans
  <2> QED BY <2>1, <2>2, <2>3
<1>5. CASE Idles(b) /\ Rests(b, n)
  <2>1. ~Holding(n) /\ Wants(n)
    BY <1>5, Nothing DEF Rests
  <2>2. ~interrupted' /\ holds' = holds
    BY <1>0, <1>5, <2>1 DEF Rests
  <2>3. Lawful(n, g, lane \o n.do, holds, runs, interrupted')
    BY <1>5, <2>2, TurnRests DEF Idles
  <2> QED BY <2>1, <2>2, <2>3
<1> QED BY <1>1, <1>2, <1>3, <1>4, <1>5 DEF Turned

(* What is posted is what was added to the queue. *)
LEMMA Added ==
  ASSUME NEW S, NEW p \in Seq(S), NEW a \in Seq(S)
  PROVE  SubSeq(p \o a, Len(p) + 1, Len(p \o a)) = a
<1>1. Len(p \o a) = Len(p) + Len(a)
  BY ConcatProperties
<1> QED BY <1>1, SubSeqOfConcat2

(* It is a sequence of requests. *)
LEMMA WantsSeq ==
  ASSUME NEW n, Wants(n)
  PROVE  n.ask \in Seq(Postable)
<1>1. \A q \in Postable : <<q>> \in Seq(Postable)
  OBVIOUS
<1>2. <<>> \in Seq(Postable)
  OBVIOUS
<1> QED BY <1>1, <1>2 DEF Wants

(* So it can be read off what the handler asks for. *)
LEMMA CommandedIs ==
  ASSUME World, NEW n, Wants(n), aps' = aps \o n.ask, interrupted /\ interrupted' => ~Moves(n.ask)
  PROVE  Commanded
<1>1. SubSeq(aps', Len(aps) + 1, Len(aps')) = n.ask
  BY WantsSeq, Added DEF World
<1> QED BY <1>1 DEF Commanded

(* A handler, and what it posts. *)
LEMMA Acts ==
  ASSUME World, NEW b, NEW g, NEW n, Lawful(b, g, lane, holds, runs, interrupted), Turned(b, n),
         Becomes(n), Interrupts(n), gui' = g, runs' = runs
  PROVE  Law' /\ aps' \in Seq(Postable) /\ stopping' \in {"no", "user", "monitor", "thermal"} /\ Commanded
<1>1. /\ Lawful(n, gui', lane \o n.do, holds', runs', interrupted') /\ Wants(n)
      /\ interrupted /\ interrupted' => ~Moves(n.ask)
  BY Turns
<1>2. Law' /\ aps' \in Seq(Postable) /\ stopping' \in {"no", "user", "monitor", "thermal"}
  BY <1>1, Posted
<1>3. aps' = aps \o n.ask
  BY DEF Becomes
<1> QED BY <1>1, <1>2, <1>3, CommandedIs

(* A run that is not paused may move. *)
LEMMA Unmoved ==
  ASSUME ~interrupted'
  PROVE  Commanded
BY DEF Commanded

(* The magnet's worker and the lane do nothing. *)
WorldKept ==
    /\ busy' = busy /\ sweep' = sweep /\ field' = field /\ heater' = heater /\ bias' = bias

(* What every step has to do for the first invariant and the action property. *)
Step1 == Sound1' /\ Commanded

(* A step of the GUI keeps the world's types. *)
LEMMA WorldAfter ==
  ASSUME World, Outside, aps' \in Seq(Postable), stopping' \in {"no", "user", "monitor", "thermal"},
         reading' \in {"start", "stop", "between", "none"}, thermal' \in {"ok", "cool", "warn", "trip", "lost"}
  PROVE  World'
BY DEF World, Outside

(* The GUI takes an answer. *)
LEMMA DeliverSound ==
  ASSUME Sound1, Deliver
  PROVE  Step1
<1> DEFINE s == Head(gui)
           b == Base(c, s)
           n == Handled(s)
           t == Tail(gui)
<1>1. gui # <<>> /\ gui' = t /\ Becomes(n) /\ Interrupts(n) /\ runs' = runs /\ Outside /\ reading' = reading
      /\ thermal' = thermal
  BY DEF Deliver
<1>2. Delivers(s, n) /\ Law /\ World
  BY <1>1, HandledDelivers DEF Sound1
<1>3. Lawful(b, t, lane, holds, runs, interrupted)
  BY <1>1, <1>2, BaseLawful DEF Law
<1>4. Turned(b, n)
  BY <1>2 DEF Delivers, Turned, Sits, Posts
<1>5. ~spanned'
  <2>1. spanned' = (spanned \/ (s.kind = "sample" /\ s.ok /\ Kept(c, s) /\ s.holds # holds))
    BY DEF Deliver
  <2>2. s.kind = "sample" /\ s.ok => s.generation = s.holds
    BY <1>1, <1>2, Heads, SignalsAre
  <2>3. c.generation = holds
    BY <1>2 DEF Law, Lawful, Typing
  <2> QED BY <2>1, <2>2, <2>3 DEF Kept, Sound1
<1> HIDE DEF b, n, s, t
<1>6. Law' /\ aps' \in Seq(Postable) /\ stopping' \in {"no", "user", "monitor", "thermal"} /\ Commanded
  BY <1>1, <1>2, <1>3, <1>4, Acts
<1>7. World'
  BY <1>1, <1>2, <1>6, WorldAfter DEF World
<1> QED BY <1>5, <1>6, <1>7 DEF Step1, Sound1

-----------------------------------------------------------------------------
(* The steps of the GUI.                                                   *)

(* Without a running series most handlers do nothing. *)
LEMMA Standing ==
  ASSUME Law, ~Runs(c)
  PROVE  Turned(c, c)
BY Three, CStay, IStay DEF Turned, Sits

(* A step of a running series is one of a handler. *)
LEMMA OutTurns ==
  ASSUME NEW n, Runs(c), Out(c, n)
  PROVE  Turned(c, n)
BY DEF Out, Turned

(* A handler that takes no answer. *)
LEMMA TurnsAlone ==
  ASSUME Sound1, NEW n, Turned(c, n), Becomes(n), Interrupts(n), gui' = gui, runs' = runs, Outside,
         reading' \in {"start", "stop", "between", "none"},
         thermal' \in {"ok", "cool", "warn", "trip", "lost"}, spanned' = spanned
  PROVE  Step1
<1>1. Law' /\ aps' \in Seq(Postable) /\ stopping' \in {"no", "user", "monitor", "thermal"} /\ Commanded
  BY Acts DEF Sound1, Law
<1>2. World'
  BY <1>1, WorldAfter DEF Sound1
<1> QED BY <1>1, <1>2 DEF Step1, Sound1

(* A field is published. *)
LEMMA SnapshotSound ==
  ASSUME Sound1, Snapshot
  PROVE  Step1
<1> DEFINE n == SnapshotHandled(c, reading)
<1>1. Becomes(n) /\ Interrupts(n) /\ gui' = gui /\ runs' = runs /\ Outside /\ reading' = "none"
      /\ thermal' = thermal /\ spanned' = spanned
  BY DEF Snapshot
<1>2. Law /\ World /\ Silent(c) /\ c.pending \in Nat
  BY DEF Sound1, Law, Lawful, Pending
<1>3. Turned(c, n)
  <2>1. CASE Runs(c)
    BY <1>2, <2>1, LSnapshotHandled, OutTurns
  <2>2. CASE ~Runs(c)
    <3>1. ~c.active \/ c.cleaning
      BY <1>2, <2>2 DEF Runs, Law, Lawful, Typing, Resting
    <3>2. n = c
      BY <3>1 DEF SnapshotHandled
    <3> QED BY <1>2, <2>2, <3>2, Standing
  <2> QED BY <2>1, <2>2
<1> HIDE DEF n
<1> QED BY <1>1, <1>2, <1>3, TurnsAlone DEF World

(* A temperature is published. *)
LEMMA LakeSnapshotSound ==
  ASSUME Sound1, LakeSnapshot
  PROVE  Step1
<1> DEFINE n == LakeHandled(c)
<1>1. Becomes(n) /\ Interrupts(n) /\ gui' = gui /\ runs' = runs /\ Outside /\ reading' = reading
      /\ thermal' = thermal /\ spanned' = spanned
  BY DEF LakeSnapshot
<1>2. Law /\ World /\ Silent(c)
  BY DEF Sound1, Law
<1>3. Turned(c, n)
  <2>1. CASE Runs(c)
    BY <1>2, <2>1, LLakeHandled, OutTurns
  <2>2. CASE ~Runs(c)
    <3>1. ~c.active \/ c.cleaning
      BY <1>2, <2>2 DEF Runs, Law, Lawful, Typing, Resting
    <3>2. n = c
      BY <3>1 DEF LakeHandled
    <3> QED BY <1>2, <2>2, <3>2, Standing
  <2> QED BY <2>1, <2>2
<1> HIDE DEF n
<1> QED BY <1>1, <1>2, <1>3, TurnsAlone DEF World

(* The watchdog's timer. *)
LEMMA WatchdogSound ==
  ASSUME Sound1, Watchdog
  PROVE  Step1
<1> DEFINE n == WatchdogHandled(c)
<1>1. Becomes(n) /\ Interrupts(n) /\ gui' = gui /\ runs' = runs /\ Outside /\ reading' = reading
      /\ thermal' = thermal /\ spanned' = spanned
  BY DEF Watchdog
<1>2. Law /\ World /\ Silent(c)
  BY DEF Sound1, Law
<1>3. Turned(c, n)
  <2>1. CASE Runs(c)
    BY <1>2, <2>1, LWatchdogHandled, OutTurns
  <2>2. CASE ~Runs(c)
    <3>1. ~c.active \/ c.cleaning
      BY <1>2, <2>2 DEF Runs, Law, Lawful, Typing, Resting
    <3>2. n = c
      BY <3>1 DEF WatchdogHandled
    <3> QED BY <1>2, <2>2, <3>2, Standing
  <2> QED BY <2>1, <2>2
<1> HIDE DEF n
<1> QED BY <1>1, <1>2, <1>3, TurnsAlone DEF World

(* An active series that is not cleaned up runs. *)
LEMMA RunsAre ==
  ASSUME Law, c.active, ~c.cleaning
  PROVE  Runs(c) /\ Silent(c)
BY DEF Law, Lawful, Typing, Resting, Runs

(* A series fails. *)
LEMMA RunFailsSound ==
  ASSUME Sound1, RunFails
  PROVE  Step1
<1>1. PICK f : f \in {"unchanged", "persistent"} /\ Adverse(Fail(c, f))
  BY DEF RunFails
<1> DEFINE n == Fail(c, f)
<1>2. Becomes(n) /\ Interrupts(n) /\ gui' = gui /\ runs' = runs /\ Outside /\ reading' = reading
      /\ thermal' = thermal /\ spanned' = spanned
  BY <1>1 DEF RunFails, Adverse
<1>3. Law /\ World /\ Runs(c) /\ Silent(c)
  BY RunsAre DEF Sound1, RunFails
<1>4. Turned(c, n)
  BY <1>3, FailCleans DEF Turned
<1> HIDE DEF n
<1> QED BY <1>2, <1>3, <1>4, TurnsAlone DEF World

(* The monitoring is lost. *)
LEMMA MonitoringLostSound ==
  ASSUME Sound1, MonitoringLost
  PROVE  Step1
<1> DEFINE n == BeginHold(c)
<1>1. Law /\ World /\ Runs(c) /\ Silent(c)
  BY RunsAre DEF Sound1, MonitoringLost
<1>2. Becomes(n) /\ Interrupts(n) /\ gui' = gui /\ runs' = runs /\ Outside /\ spanned' = spanned
  BY DEF MonitoringLost, Adverse
<1>3. reading' \in {"start", "stop", "between", "none"} /\ thermal' \in {"ok", "cool", "warn", "trip", "lost"}
  BY <1>1 DEF MonitoringLost, World
<1>4. Turned(c, n)
  BY <1>1, LBeginHold, OutTurns
<1> HIDE DEF n
<1> QED BY <1>2, <1>3, <1>4, TurnsAlone

(* Positioning begins no generation of samples. *)
LEMMA PositionCounts ==
  ASSUME NEW k, Typed(k)
  PROVE  Position(k).generation = k.generation
BY DEF Position, Ask, Typed, Slots

(* Neither does the cleanup. *)
LEMMA CleanupCounts ==
  ASSUME NEW k, Typed(k), NEW s, NEW f
  PROVE  Cleanup(k, s, f).generation = k.generation
BY DEF Cleanup, Ask, Do, Typed, Slots

(* Nor a leg. *)
LEMMA BeginLegCounts ==
  ASSUME NEW k, Typed(k), NEW l, NEW t
  PROVE  BeginLeg(k, l, t).generation = k.generation
BY DEF BeginLeg, Ask, Typed, Slots

(* Nor a condition. *)
LEMMA NextCounts ==
  ASSUME NEW k, Runs(k)
  PROVE  NextCondition(k).generation = k.generation
<1> DEFINE w == [k EXCEPT !.cond = @ + 1]
<1>1. Typed(w) /\ w.generation = k.generation
  BY ConstantsAssumption DEF Runs, Typed, Slots
<1>3. NextCondition(k) \in {Cleanup(w, "finished", "driven"), Position(w), StartCondition(w)}
  BY DEF NextCondition
<1> HIDE DEF w
<1>2. StartCondition(w).generation = w.generation
  BY <1>1 DEF StartCondition, Do, Typed, Slots
<1> QED BY <1>1, <1>2, <1>3, PositionCounts, CleanupCounts

(* Nor what follows an endpoint. *)
LEMMA AdvanceCounts ==
  ASSUME NEW k, Runs(k)
  PROVE  Advance(k).generation = k.generation
<1> DEFINE w == [k EXCEPT !.transition = FALSE]
<1>1. Runs(w) /\ w.generation = k.generation
  BY DEF Runs, Typed, Slots
<1> DEFINE h == [w EXCEPT !.thermalHold = TRUE, !.resume = "next"]
<1>2. h.generation = k.generation
  BY DEF Runs, Typed, Slots
<1>3. Advance(k) \in {BeginLeg(w, 1, "start"), h, NextCondition(w)}
  BY DEF Advance
<1>4. Typed(w)
  BY <1>1 DEF Runs
<1> HIDE DEF w, h
<1> QED BY <1>1, <1>2, <1>3, <1>4, BeginLegCounts, NextCounts

(* Nor an acknowledged endpoint. *)
LEMMA EndpointGoCounts ==
  ASSUME NEW k, Runs(k)
  PROVE  EndpointGo(k).generation = k.generation
<1> DEFINE w == [k EXCEPT !.ackWaiting = FALSE]
<1>1. Runs(w) /\ w.generation = k.generation
  BY DEF Runs, Typed, Slots
<1>2. HoldAcknowledged(k).generation = k.generation /\ [k EXCEPT !.ackWaiting = TRUE].generation = k.generation
  BY DEF Runs, Typed, Slots, HoldAcknowledged
<1> HIDE DEF w
<1> QED BY <1>1, <1>2, AdvanceCounts DEF EndpointGo, w

(* Nor what a resumption dispatches. *)
LEMMA ResumedCounts ==
  ASSUME NEW k, Runs(k)
  PROVE  Resumed(k).generation = k.generation
<1> DEFINE w == [k EXCEPT !.rowTransition = FALSE, !.rowInflight = FALSE, !.rowEntered = FALSE, !.cond = @ + 1]
           p == [k EXCEPT !.resume = "sweep"]
<1>1. Typed(w) /\ w.generation = k.generation
  BY ConstantsAssumption DEF Runs, Typed, Slots
<1>2. Runs(p) /\ p.generation = k.generation
  BY DEF Runs, Typed, Slots, Resumes
<1>3. Typed(k)
  BY DEF Runs
<1> HIDE DEF w, p
<1>4. CASE k.rowTransition
  BY <1>1, <1>4, PositionCounts, CleanupCounts DEF Resumed, w
<1>5. CASE ~k.rowTransition
  <2>1. Typed(p)
    BY <1>2 DEF Runs
  <2>2. Resumed(k) \in {Position(p), EndpointGo(p), BeginLeg(p, 0, "stop"), NextCondition(p),
        BeginLeg(k, k.leg, k.target)}
    BY <1>5 DEF Resumed, p
  <2> QED BY <1>2, <1>3, <2>1, <2>2, PositionCounts, EndpointGoCounts, BeginLegCounts, NextCounts
<1> QED BY <1>4, <1>5

(* Nor the resumption. *)
LEMMA ResumeCounts ==
  ASSUME NEW k, Runs(k), NEW operator \in BOOLEAN
  PROVE  Resume(k, operator).generation = k.generation
<1> DEFINE seen == [k EXCEPT !.manual = @ \/ thermal \in {"warn", "trip", "lost"}]
           go == [seen EXCEPT !.thermalHold = FALSE, !.manual = FALSE, !.button = FALSE]
           shown == [seen EXCEPT !.button = ~NormalWait(seen) /\ thermal = "ok" /\ ~Unsettled(seen)]
<1>1. Runs(go) /\ go.generation = k.generation
  BY DEF Runs, Typed, Slots
<1>2. shown.generation = k.generation /\ [k EXCEPT !.button = FALSE].generation = k.generation
  BY DEF Runs, Typed, Slots
<1>3. Resume(k, operator) \in {Resumed(go), shown, [k EXCEPT !.button = FALSE]}
  BY DEF Resume
<1> HIDE DEF go, shown
<1> QED BY <1>1, <1>2, <1>3, ResumedCounts

(* A handler of the operator's. *)
LEMMA Operated ==
  ASSUME Sound1, NEW n, Lawful(n, gui, lane \o n.do, holds', runs', FALSE), Wants(n), Becomes(n), ~interrupted',
         gui' = gui, Outside, reading' = reading, thermal' = thermal, ~spanned'
  PROVE  Step1
<1>1. Lawful(n, gui', lane \o n.do, holds', runs', interrupted')
  BY DEF Lawful, Resting
<1>2. Law' /\ aps' \in Seq(Postable) /\ stopping' \in {"no", "user", "monitor", "thermal"}
  BY <1>1, Posted DEF Sound1
<1>3. World'
  BY <1>2, WorldAfter DEF Sound1, World
<1> QED BY <1>2, <1>3, Unmoved DEF Step1, Sound1

(* A run that is not paused asks less of the law. *)
LEMMA Uninterrupted ==
  ASSUME NEW k, NEW g, NEW l, NEW h, NEW r, NEW i, Lawful(k, g, l, h, r, i)
  PROVE  Lawful(k, g, l, h, r, FALSE)
BY DEF Lawful, Resting

(* STOP, of a run or of its cleanup. *)
LEMMA StopTurns ==
  ASSUME Law, NEW n, (c.cleaning /\ n = ForcePersistent(c))
         \/ (c.active /\ ~c.cleaning /\ n = Cleanup(c, "stopped", "persistent"))
  PROVE  Lawful(n, gui, lane \o n.do, holds, runs, FALSE) /\ Wants(n)
<1>1. CASE c.cleaning /\ n = ForcePersistent(c)
  <2>1. Cleans(c)
    BY <1>1, Three DEF Runs, Idles
  <2>2. Posts(c, n, "persistent") \/ Sits(c, n)
    BY <1>1, <2>1, CForce
  <2>3. Remains(c, n)
    BY <2>2 DEF Posts, Sits
  <2>4. Lawful(n, gui, lane \o n.do, holds, runs, FALSE)
    BY <1>1, <2>3, TurnTended DEF Law
  <2>5. Wants(n)
    BY <2>2, Nothing, Orders DEF Posts, Sits
  <2> QED BY <2>4, <2>5
<1>2. CASE c.active /\ ~c.cleaning /\ n = Cleanup(c, "stopped", "persistent")
  <2>1. Runs(c) /\ Silent(c)
    BY <1>2, RunsAre
  <2>2. Cleaned(c, n)
    BY <1>2, <2>1, CleanupCleans DEF Runs
  <2>3. Lawful(n, gui, lane \o n.do, holds, runs, FALSE)
    BY <2>1, <2>2, TurnCleaned DEF Law
  <2>4. Wants(n)
    BY <2>2, Pauses DEF Cleaned, PauseTo
  <2> QED BY <2>3, <2>4
<1> QED BY <1>1, <1>2

(* The operator stops. *)
LEMMA StopSound ==
  ASSUME Sound1, Stop
  PROVE  Step1
<1> DEFINE n == StopRun(c)
<1>1. Becomes(n) /\ ~interrupted' /\ gui' = gui /\ runs' = runs /\ Outside /\ reading' = reading
      /\ thermal' = thermal /\ spanned' = spanned /\ holds' = holds
  BY DEF Stop
<1>2. (c.cleaning /\ n = ForcePersistent(c))
      \/ (c.active /\ ~c.cleaning /\ n = Cleanup(c, "stopped", "persistent"))
  BY DEF Stop, StopRun
<1> HIDE DEF n
<1>3. Lawful(n, gui, lane \o n.do, holds, runs, FALSE) /\ Wants(n)
  BY <1>2, StopTurns DEF Sound1
<1> QED BY <1>1, <1>3, Operated DEF Sound1

(* The law does not look at what a close waits for. *)
LEMMA SameLawful ==
  ASSUME NEW k, NEW g, NEW l, NEW h, NEW r, NEW i, Lawful(k, g, l, h, r, i), NEW n, Typed(n), n.do = <<>>,
         n.active = k.active, n.cleaning = k.cleaning, n.claimed = k.claimed, n.exclusive = k.exclusive,
         n.zeroed = k.zeroed, n.lanes = k.lanes, n.saving = k.saving, n.hold = k.hold,
         n.transition = k.transition,
         n.generation = k.generation, n.pending = k.pending, n.manual = k.manual,
         n.thermalHold = k.thermalHold, n.cond = k.cond,
         n.shutdownWaiting => n.shutdownExclusive /\ r > 0, n.shutdownExclusive => ~n.claimed
  PROVE  Lawful(n, g, l \o n.do, h, r, i)
<1>1. Owning(n, r)
  BY DEF Lawful, Owning
<1>2. Orderly(n, g, l) /\ Pending(n, g, l)
  BY DEF Lawful, Orderly, Pending
<1>3. Resting(n, i)
  BY DEF Lawful, Resting, Held
<1>4. l \o n.do = l
  BY SameKept DEF Lawful, Typing
<1> QED BY <1>1, <1>2, <1>3, <1>4 DEF Lawful, Typing

(* The application is to close. *)
LEMMA CloseSound ==
  ASSUME Sound1, Close
  PROVE  Step1
<1> DEFINE n == PrepareShutdown(c)
<1>1. Becomes(n) /\ ~interrupted' /\ gui' = gui /\ runs' = runs /\ Outside /\ reading' = reading
      /\ thermal' = thermal /\ spanned' = spanned /\ holds' = holds
  BY DEF Close
<1>2. Law /\ World /\ Silent(c) /\ runs > 0 /\ Lawful(c, gui, lane, holds, runs, FALSE) /\ Typed(c)
  BY Uninterrupted DEF Sound1, Close, Law, Lawful, Typing
<1>3. CASE c.cleaning \/ c.active
  <2>1. (c.cleaning /\ n = ForcePersistent(c))
        \/ (c.active /\ ~c.cleaning /\ n = Cleanup(c, "stopped", "persistent"))
    BY <1>3 DEF PrepareShutdown
  <2> HIDE DEF n
  <2>2. Lawful(n, gui, lane \o n.do, holds, runs, FALSE) /\ Wants(n)
    BY <2>1, StopTurns DEF Sound1
  <2> QED BY <1>1, <2>2, Operated DEF Sound1
<1>4. CASE ~c.cleaning /\ ~c.active /\ c.shutdownWaiting
  <2>1. n = c
    BY <1>4 DEF PrepareShutdown
  <2> HIDE DEF n
  <2>2. n.do = <<>> /\ n.ask = <<>>
    BY <1>2, <2>1 DEF Silent
  <2>3. Lawful(n, gui, lane \o n.do, holds, runs, FALSE) /\ Wants(n)
    BY <1>2, <2>1, <2>2, SameKept, Nothing DEF Lawful, Typing
  <2> QED BY <1>1, <2>3, Operated DEF Sound1
<1>5. CASE ~c.cleaning /\ ~c.active /\ ~c.shutdownWaiting
  <2>1. n = Ask([c EXCEPT !.shutdownExclusive = TRUE, !.shutdownWaiting = TRUE], Request("persistent", "no"))
    BY <1>5 DEF PrepareShutdown
  <2> HIDE DEF n
  <2>2. Typed(n) /\ n.do = <<>> /\ n.shutdownWaiting /\ n.shutdownExclusive
    BY <1>2, <2>1 DEF Ask, Typed, Slots, Silent
  <2>3. n.ask = <<Request("persistent", "no")>>
    BY <1>2, <2>1, One DEF Ask, Typed, Slots, Silent
  <2>4. /\ n.active = c.active /\ n.cleaning = c.cleaning /\ n.claimed = c.claimed /\ n.exclusive = c.exclusive
        /\ n.zeroed = c.zeroed /\ n.lanes = c.lanes /\ n.saving = c.saving /\ n.hold = c.hold
           /\ n.transition = c.transition
    BY <1>2, <2>1 DEF Ask, Typed, Slots
  <2>5. n.generation = c.generation /\ n.pending = c.pending /\ n.manual = c.manual
        /\ n.thermalHold = c.thermalHold /\ n.cond = c.cond
    BY <1>2, <2>1 DEF Ask, Typed, Slots
  <2>6. ~n.claimed
    BY <1>2, <1>5, <2>4 DEF Lawful, Owning
  <2>7. Lawful(n, gui, lane \o n.do, holds, runs, FALSE)
    BY <1>2, <2>2, <2>4, <2>5, <2>6, SameLawful
  <2>8. Wants(n)
    BY <2>3, Orders
  <2> QED BY <1>1, <2>7, <2>8, Operated DEF Sound1
<1> QED BY <1>3, <1>4, <1>5

(* The operator continues. *)
LEMMA ContinueSound ==
  ASSUME Sound1, Continue
  PROVE  Step1
<1> DEFINE n == Resume(c, TRUE)
<1>1. Becomes(n) /\ ~interrupted' /\ gui' = gui /\ runs' = runs /\ Outside /\ reading' = reading
      /\ thermal' = thermal /\ spanned' = spanned /\ holds' = holds
  BY DEF Continue
<1>2. Law /\ World /\ Silent(c) /\ Lawful(c, gui, lane, holds, runs, FALSE) /\ Typed(c)
  BY Uninterrupted DEF Sound1, Law, Lawful, Typing
<1>3. CASE Runs(c)
  <2>1. Ran(c, n) \/ Cleaned(c, n)
    BY <1>2, <1>3, LResume
  <2>2. n.generation = c.generation
    BY <1>2, <1>3, ResumeCounts
  <2> HIDE DEF n
  <2>3. CASE Ran(c, n)
    <3>1. Lawful(n, gui, lane \o n.do, n.generation, runs, FALSE)
      BY <1>2, <1>3, <2>3, TurnRan
    <3>2. n.generation = holds
      BY <1>2, <2>2 DEF Lawful, Typing
    <3>3. Wants(n)
      BY <2>3, RanWants
    <3> QED BY <1>1, <3>1, <3>2, <3>3, Operated DEF Sound1
  <2>4. CASE Cleaned(c, n)
    <3>1. Lawful(n, gui, lane \o n.do, holds, runs, FALSE)
      BY <1>2, <1>3, <2>4, TurnCleaned
    <3>3. Wants(n)
      BY <2>4, Pauses DEF Cleaned, PauseTo
    <3> QED BY <1>1, <3>1, <3>3, Operated DEF Sound1
  <2> QED BY <2>1, <2>3, <2>4
<1>4. CASE ~Runs(c)
  <2>1. ~c.active \/ c.cleaning
    BY <1>2, <1>4, RunsAre
  <2>2. n = [c EXCEPT !.button = FALSE]
    BY <2>1 DEF Resume
  <2> HIDE DEF n
  <2>3. Typed(n) /\ n.do = <<>> /\ n.ask = <<>> /\ n.shutdownWaiting = c.shutdownWaiting
        /\ n.shutdownExclusive = c.shutdownExclusive
    BY <1>2, <2>2 DEF Typed, Slots, Silent
  <2>4. /\ n.active = c.active /\ n.cleaning = c.cleaning /\ n.claimed = c.claimed /\ n.exclusive = c.exclusive
        /\ n.zeroed = c.zeroed /\ n.lanes = c.lanes /\ n.saving = c.saving /\ n.hold = c.hold
           /\ n.transition = c.transition
    BY <1>2, <2>2 DEF Typed, Slots
  <2>5. n.generation = c.generation /\ n.pending = c.pending /\ n.manual = c.manual
        /\ n.thermalHold = c.thermalHold /\ n.cond = c.cond
    BY <1>2, <2>2 DEF Typed, Slots
  <2>6. (n.shutdownWaiting => n.shutdownExclusive /\ runs > 0) /\ (n.shutdownExclusive => ~n.claimed)
    BY <1>2, <2>3, <2>4 DEF Lawful, Owning
  <2>7. Lawful(n, gui, lane \o n.do, holds, runs, FALSE)
    BY <1>2, <2>3, <2>4, <2>5, <2>6, SameLawful
  <2> QED BY <1>1, <2>3, <2>7, Nothing, Operated DEF Sound1
<1> QED BY <1>3, <1>4

(* The close is called off. *)
LEMMA CloseRejectedSound ==
  ASSUME Sound1, CloseRejected
  PROVE  Step1
<1> DEFINE n == [c EXCEPT !.shutdownDone = FALSE]
<1>1. /\ Becomes(n) /\ gui' = gui /\ runs' = runs /\ Outside /\ reading' = reading /\ thermal' = thermal
      /\ spanned' = spanned
      /\ holds' = holds /\ interrupted' = interrupted
  BY DEF CloseRejected, history
<1>2. Law /\ World /\ Silent(c) /\ Lawful(c, gui, lane, holds, runs, interrupted) /\ Typed(c)
  BY DEF Sound1, Law, Lawful, Typing
<1> DEFINE m == n
<1> HIDE DEF n
<1>3. Typed(n) /\ n.do = <<>> /\ n.ask = <<>> /\ n.shutdownWaiting = c.shutdownWaiting
      /\ n.shutdownExclusive = c.shutdownExclusive
  BY <1>2 DEF Typed, Slots, Silent, n
<1>4. /\ n.active = c.active /\ n.cleaning = c.cleaning /\ n.claimed = c.claimed /\ n.exclusive = c.exclusive
      /\ n.zeroed = c.zeroed /\ n.lanes = c.lanes /\ n.saving = c.saving /\ n.hold = c.hold
         /\ n.transition = c.transition
  BY <1>2 DEF Typed, Slots, n
<1>5. n.generation = c.generation /\ n.pending = c.pending /\ n.manual = c.manual
      /\ n.thermalHold = c.thermalHold /\ n.cond = c.cond
  BY <1>2 DEF Typed, Slots, n
<1>6. (n.shutdownWaiting => n.shutdownExclusive /\ runs > 0) /\ (n.shutdownExclusive => ~n.claimed)
  BY <1>2, <1>3, <1>4 DEF Lawful, Owning
<1>7. Lawful(n, gui, lane \o n.do, holds, runs, interrupted)
  BY <1>2, <1>3, <1>4, <1>5, <1>6, SameLawful
<1>8. Wants(n) /\ ~Moves(n.ask)
  BY <1>3, Nothing
<1>9. Lawful(n, gui', lane \o n.do, holds', runs', interrupted')
  BY <1>1, <1>7
<1>10. Law' /\ aps' \in Seq(Postable) /\ stopping' \in {"no", "user", "monitor", "thermal"}
  BY <1>1, <1>2, <1>8, <1>9, Posted
<1>11. World'
  BY <1>1, <1>2, <1>10, WorldAfter DEF World
<1>12. Commanded
  <2>1. aps' = aps \o n.ask
    BY <1>1 DEF Becomes
  <2> QED BY <1>2, <1>8, <2>1, CommandedIs
<1> QED BY <1>1, <1>10, <1>11, <1>12 DEF Step1, Sound1

(* The files are written. *)
LEMMA SavedSound ==
  ASSUME Sound1, Saved
  PROVE  Step1
<1> DEFINE n == Release([c EXCEPT !.saving = FALSE, !.lanes = FALSE])
<1>1. /\ Becomes(n) /\ gui' = gui /\ runs' = runs /\ Outside /\ reading' = reading /\ thermal' = thermal
      /\ spanned' = spanned
      /\ holds' = holds /\ interrupted' = interrupted /\ c.saving
  BY DEF Saved, history
<1>2. Law /\ World /\ Silent(c) /\ Lawful(c, gui, lane, holds, runs, FALSE) /\ Typed(c)
  BY Uninterrupted DEF Sound1, Law, Lawful, Typing
<1>3. c.cleaning /\ c.zeroed /\ ~interrupted /\ ~c.hold.on /\ ~c.transition
  BY <1>1, <1>2 DEF Law, Lawful, Owning, Resting
<1> HIDE DEF n
<1>4. Typed(n) /\ n.do = <<>> /\ n.ask = <<>> /\ n.shutdownWaiting = c.shutdownWaiting
      /\ n.shutdownExclusive = c.shutdownExclusive
  BY <1>2 DEF Typed, Slots, Silent, n, Release, Phases
<1>5. ~n.active /\ ~n.cleaning /\ ~n.claimed /\ ~n.exclusive /\ ~n.saving /\ n.hold = c.hold
      /\ n.transition = c.transition
  BY <1>2 DEF Typed, Slots, n, Release
<1>6. n.generation = c.generation /\ n.pending = c.pending
  BY <1>2 DEF Typed, Slots, n, Release
<1>7. Owning(n, runs)
  BY <1>2, <1>3, <1>4, <1>5 DEF Lawful, Owning
<1>8. Orderly(n, gui, lane)
  BY <1>2, <1>3, <1>5 DEF Lawful, Orderly
<1>9. Lawful(n, gui, lane \o n.do, holds, runs, FALSE)
  BY <1>2, <1>4, <1>5, <1>6, <1>7, <1>8, TurnSame
<1>10. Wants(n)
  BY <1>4, Nothing
<1> QED BY <1>1, <1>3, <1>9, <1>10, Operated DEF Sound1

(* The wait between two conditions is over. *)
LEMMA RowCooledSound ==
  ASSUME Sound1, RowCooled
  PROVE  Step1
<1> DEFINE n == [c EXCEPT !.rowCooling = FALSE]
<1>1. /\ c' = n /\ aps' = aps /\ lane' = lane /\ gui' = gui /\ runs' = runs /\ Outside /\ reading' = reading
      /\ thermal' = thermal
      /\ spanned' = spanned /\ holds' = holds /\ interrupted' = interrupted /\ stopping' = stopping
  BY DEF RowCooled, history, magnetVars, Outside
<1>2. Law /\ World /\ Silent(c) /\ Lawful(c, gui, lane, holds, runs, interrupted) /\ Typed(c)
  BY DEF Sound1, Law, Lawful, Typing
<1> HIDE DEF n
<1>3. Typed(n) /\ Silent(n) /\ n.do = <<>> /\ n.shutdownWaiting = c.shutdownWaiting
      /\ n.shutdownExclusive = c.shutdownExclusive
  BY <1>2 DEF Typed, Slots, Silent, n
<1>4. /\ n.active = c.active /\ n.cleaning = c.cleaning /\ n.claimed = c.claimed /\ n.exclusive = c.exclusive
      /\ n.zeroed = c.zeroed /\ n.lanes = c.lanes /\ n.saving = c.saving /\ n.hold = c.hold
         /\ n.transition = c.transition
  BY <1>2 DEF Typed, Slots, n
<1>5. n.generation = c.generation /\ n.pending = c.pending /\ n.manual = c.manual
      /\ n.thermalHold = c.thermalHold /\ n.cond = c.cond
  BY <1>2 DEF Typed, Slots, n
<1>6. (n.shutdownWaiting => n.shutdownExclusive /\ runs > 0) /\ (n.shutdownExclusive => ~n.claimed)
  BY <1>2, <1>3, <1>4 DEF Lawful, Owning
<1>7. Lawful(n, gui, lane \o n.do, holds, runs, interrupted)
  BY <1>2, <1>3, <1>4, <1>5, <1>6, SameLawful
<1>8. lane \o n.do = lane
  BY <1>2, <1>3, SameKept DEF Lawful, Typing
<1>9. Law'
  BY <1>1, <1>3, <1>7, <1>8 DEF Law
<1>10. World'
  BY <1>1, <1>2 DEF World, Outside
<1>11. Commanded
  <2>1. SubSeq(aps, Len(aps) + 1, Len(aps)) = <<>>
    <3>1. Len(aps) \in Nat
      BY <1>2, LenProperties DEF World
    <3> QED BY <3>1, SubSeqEmpty
  <2> QED BY <1>1, <2>1 DEF Commanded, Moves
<1> QED BY <1>1, <1>9, <1>10, <1>11 DEF Step1, Sound1

(* A new controller. *)
LEMMA Fresh ==
  /\ Typed(Controller) /\ Controller.ask = <<>> /\ Controller.do = <<>> /\ Controller.generation = 0
     /\ Controller.pending = 0
  /\ ~Controller.active /\ ~Controller.cleaning /\ ~Controller.saving /\ ~Controller.shutdownWaiting
     /\ ~Controller.shutdownExclusive
  /\ ~Controller.hold.on /\ ~Controller.transition /\ Controller.cond = 1 /\ ~Controller.claimed
     /\ ~Controller.exclusive
<1>1. NoHold \in Holds /\ 1 \in 1..Conditions + 1
  BY C3, ConstantsAssumption
<1> DEFINE h == NoHold
<1>2. ~h.on
  BY DEF NoHold
<1> HIDE DEF h
<1>3. h \in Holds
  BY <1>1 DEF h
<1>4. Typed(Controller)
  BY <1>1 DEF Controller, Typed, Slots, Phases, Targets, Resumes, Waits
<1> QED BY <1>1, <1>2, <1>4 DEF Controller, h

(* A series begins. *)
LEMMA StartSound ==
  ASSUME Sound1, NEW round \in BOOLEAN, NEW row \in BOOLEAN, Start(round, row)
  PROVE  Step1
<1> DEFINE k == [Controller EXCEPT !.active = TRUE, !.round = round, !.row = row,
                        !.phase = "configuring", !.claimed = TRUE, !.exclusive = TRUE, !.lanes = TRUE]
           n == Ask(k, Request("configure", "no"))
<1>1. /\ Becomes(n) /\ ~interrupted' /\ gui' = gui /\ runs' = runs + 1 /\ Outside /\ reading' = reading
      /\ thermal' = thermal
      /\ ~spanned' /\ holds' = 0 /\ ~c.claimed
  BY DEF Start, MayStart
<1>2. Law /\ World /\ Lawful(c, gui, lane, holds, runs, FALSE) /\ gui \in Seq(Signals) /\ runs \in Nat
  BY Uninterrupted DEF Sound1, Law, Lawful, Typing
<1>3. lane = <<>> /\ NoLane(gui)
  BY <1>1, <1>2 DEF Lawful, Orderly
<1>4. Typed(k) /\ k.ask = <<>> /\ k.do = <<>> /\ k.generation = 0 /\ k.pending = 0
  BY Fresh DEF Typed, Slots, Phases
<1>5. /\ k.active /\ ~k.cleaning /\ k.claimed /\ k.exclusive /\ ~k.saving /\ ~k.shutdownWaiting
      /\ ~k.shutdownExclusive
      /\ ~k.hold.on /\ ~k.transition /\ k.cond = 1
  BY Fresh DEF Typed, Slots
<1> HIDE DEF k
<1>6. Typed(n) /\ n.do = <<>> /\ n.generation = 0 /\ n.pending = 0
  BY <1>4 DEF Ask, Typed, Slots
<1>7. n.ask = <<Request("configure", "no")>>
  BY <1>4, One DEF Ask, Typed, Slots
<1>8. /\ n.active /\ ~n.cleaning /\ n.claimed /\ n.exclusive /\ ~n.saving /\ ~n.shutdownWaiting
      /\ ~n.shutdownExclusive
      /\ ~n.hold.on /\ ~n.transition /\ n.cond = 1
  BY <1>4, <1>5 DEF Ask, Typed, Slots
<1> HIDE DEF n
<1>9. Owning(n, runs')
  BY <1>1, <1>2, <1>8 DEF Owning
<1>10. Orderly(n, gui, <<>>)
  BY <1>3, <1>8, EmptySeq DEF Orderly, NoLane, NoZeroed, NoZero, LaneKinds
<1>11. Count(gui, SampleSignals) = 0
  <2>1. \A i \in 1..Len(gui) : gui[i] \notin SampleSignals
    BY <1>3 DEF NoLane, SampleSignals, LaneKinds
  <2> QED BY <1>2, <2>1, CountNone
<1>12. Pending(n, gui, <<>>)
  BY <1>6, <1>11, CountEmpty DEF Pending
<1>13. lane \o n.do = <<>> /\ <<>> \in Seq(Tasks)
  BY <1>3, <1>6, SameKept, EmptySeq
<1>14. Resting(n, FALSE)
  BY <1>8, ConstantsAssumption DEF Resting
<1>o. runs' \in Nat /\ 0 \in Nat
  BY <1>1, <1>2
<1>l. Lawful(n, gui, <<>>, 0, runs', FALSE)
  BY <1>o, <1>2, <1>6, <1>9, <1>10, <1>12, <1>13, <1>14 DEF Lawful, Typing
<1>15. Lawful(n, gui, lane \o n.do, holds', runs', FALSE)
  BY <1>1, <1>13, <1>l
<1>16. Wants(n)
  BY <1>7, Orders
<1> QED BY <1>1, <1>15, <1>16, Operated

(* A series fails to begin. *)
LEMMA StartFailsSound ==
  ASSUME Sound1, StartFails
  PROVE  Step1
<1> DEFINE k == [Controller EXCEPT !.exclusive = TRUE, !.claimed = TRUE]
           d == Cleanup(k, "failed", "persistent")
           n == [d EXCEPT !.zeroed = TRUE, !.do = <<>>]
<1>1. /\ Becomes(n) /\ ~interrupted' /\ gui' = gui /\ runs' = runs + 1 /\ Outside /\ reading' = reading
      /\ thermal' = thermal
      /\ ~spanned' /\ holds' = 0 /\ ~c.claimed
  BY DEF StartFails, MayStart
<1>2. Law /\ World /\ Lawful(c, gui, lane, holds, runs, FALSE) /\ gui \in Seq(Signals) /\ runs \in Nat
  BY Uninterrupted DEF Sound1, Law, Lawful, Typing
<1>3. lane = <<>> /\ NoLane(gui)
  BY <1>1, <1>2 DEF Lawful, Orderly
<1>4. Typed(k) /\ k.ask = <<>> /\ k.do = <<>> /\ k.generation = 0 /\ k.pending = 0
  BY Fresh DEF Typed, Slots, Phases
<1>5. /\ ~k.active /\ ~k.cleaning /\ k.claimed /\ k.exclusive /\ ~k.saving /\ ~k.shutdownWaiting
      /\ ~k.shutdownExclusive
  BY Fresh DEF Typed, Slots
<1> HIDE DEF k
<1>6. Typed(d) /\ d.generation = 0 /\ d.pending = 0 /\ d.hold = NoHold /\ ~d.transition /\ d.cleaning
  BY <1>4, <1>5, C3 DEF Cleanup, Ask, Do, Typed, Slots, Phases, Waits
<1>7. d.ask = <<Request("pause", "user")>>
  BY <1>4, <1>5, One DEF Cleanup, Ask, Do, Typed, Slots
<1>8. /\ ~d.active /\ d.claimed /\ d.exclusive /\ ~d.saving /\ ~d.shutdownWaiting /\ ~d.shutdownExclusive
  BY <1>4, <1>5 DEF Cleanup, Ask, Do, Typed, Slots
<1> HIDE DEF d
<1>9. Typed(n) /\ n.do = <<>> /\ n.generation = 0 /\ n.pending = 0 /\ n.ask = d.ask /\ n.zeroed
  BY <1>6 DEF Typed, Slots
<1>10. /\ ~n.active /\ n.cleaning /\ n.claimed /\ n.exclusive /\ ~n.saving /\ ~n.shutdownWaiting
       /\ ~n.shutdownExclusive
       /\ n.hold = NoHold /\ ~n.transition
  BY <1>6, <1>8 DEF Typed, Slots
<1> HIDE DEF n
<1>11. Owning(n, runs')
  BY <1>1, <1>2, <1>10 DEF Owning, NoHold
<1>12. Orderly(n, gui, <<>>)
  BY <1>3, <1>9, <1>10 DEF Orderly
<1>13. Count(gui, SampleSignals) = 0
  <2>1. \A i \in 1..Len(gui) : gui[i] \notin SampleSignals
    BY <1>3 DEF NoLane, SampleSignals, LaneKinds
  <2> QED BY <1>2, <2>1, CountNone
<1>14. Pending(n, gui, <<>>)
  BY <1>9, <1>13, CountEmpty DEF Pending
<1>15. lane \o n.do = <<>> /\ <<>> \in Seq(Tasks)
  BY <1>3, <1>9, SameKept, EmptySeq
<1>16. Resting(n, FALSE)
  BY <1>10 DEF Resting
<1>o. runs' \in Nat /\ 0 \in Nat
  BY <1>1, <1>2
<1>l. Lawful(n, gui, <<>>, 0, runs', FALSE)
  BY <1>o, <1>2, <1>9, <1>11, <1>12, <1>14, <1>15, <1>16 DEF Lawful, Typing
<1>17. Lawful(n, gui, lane \o n.do, holds', runs', FALSE)
  BY <1>1, <1>15, <1>l
<1>18. Wants(n)
  BY <1>7, <1>9, Pauses
<1> QED BY <1>1, <1>17, <1>18, Operated

-----------------------------------------------------------------------------
(* The steps of the magnet's worker.                                       *)

(* An answer of the worker is one. *)
LEMMA AnswersAre ==
  ASSUME NEW kind \in Kinds \ LaneKinds, NEW name \in Names, NEW ok \in BOOLEAN
  PROVE  /\ Signal(kind, name, ok) \in Answers /\ Signal(kind, name, ok).kind = kind
         /\ Signal(kind, name, ok).name = name /\ Signal(kind, name, ok).ok = ok
BY DEF Signal, Answers, Plain

(* Everything the worker says. *)
LEMMA Said ==
  /\ \A ok \in BOOLEAN : Signal("configured", "", ok) \in Answers /\ Signal("swept", "", ok) \in Answers
     /\ Signal("restored", "", ok) \in Answers
  /\ \A name \in {"ok", "user", "monitor", "thermal", "failed"},
     ok \in BOOLEAN : Signal("moved", name, ok) \in Answers
  /\ \A name \in {"pause", "failed:pause", "persistent", "failed:persistent"} : Signal("operation", name,
     TRUE) \in Answers
  /\ \A name \in {"other", "read"} : Signal("error", name, FALSE) \in Answers
  /\ Signal("disconnected", "", FALSE) \in Answers
<1> DEFINE K == Kinds \ LaneKinds
<1>1. {"configured", "swept", "restored", "moved", "operation", "error", "disconnected"} \subseteq K
  BY DEF Kinds, LaneKinds
<1>2. {"", "ok", "user", "monitor", "thermal", "failed", "pause", "failed:pause", "persistent",
      "failed:persistent", "other", "read"} = Names
  BY DEF Names
<1>3. \A kind \in K, name \in Names, ok \in BOOLEAN : Signal(kind, name, ok) \in Answers
  BY AnswersAre
<1> HIDE DEF K
<1>4. \A ok \in BOOLEAN : Signal("configured", "", ok) \in Answers /\ Signal("swept", "", ok) \in Answers
      /\ Signal("restored", "", ok) \in Answers
  BY <1>1, <1>2, <1>3
<1>5. \A name \in {"ok", "user", "monitor", "thermal", "failed"},
      ok \in BOOLEAN : Signal("moved", name, ok) \in Answers
  BY <1>1, <1>2, <1>3
<1>6. \A name \in {"pause", "failed:pause", "persistent", "failed:persistent"} : Signal("operation", name,
      TRUE) \in Answers
  BY <1>1, <1>2, <1>3
<1>7. \A name \in {"other", "read"} : Signal("error", name, FALSE) \in Answers
  BY <1>1, <1>2, <1>3
<1>8. Signal("disconnected", "", FALSE) \in Answers
  BY <1>1, <1>2, <1>3
<1> QED BY <1>4, <1>5, <1>6, <1>7, <1>8

(* The worker says one thing. *)
Said1 == \E x \in Answers : gui' = gui \o <<x>>

(* The worker says two. *)
Said2 == \E x, y \in Answers : gui' = gui \o <<x, y>>

(* The worker leaves the controller and the lane alone. *)
Aside == c' = c /\ lane' = lane /\ bias' = bias /\ thermal' = thermal /\ runs' = runs
    /\ interrupted' = interrupted /\ holds' = holds /\ spanned' = spanned

(* A step of the worker, seen from the GUI. *)
Works == Aside /\ (gui' = gui \/ Said1 \/ Said2)

(* Two things said are one after the other. *)
LEMMA Twice ==
  ASSUME NEW S, NEW g \in Seq(S), NEW x \in S, NEW y \in S
  PROVE  g \o <<x, y>> = (g \o <<x>>) \o <<y>>
<1> DEFINE a == <<x>>
           b == <<y>>
<1>1. a \in Seq(S) /\ b \in Seq(S)
  OBVIOUS
<1>2. a \o b = <<x, y>>
  <2>1. Len(a) = 1 /\ a[1] = x /\ Len(b) = 1 /\ b[1] = y
    OBVIOUS
  <2>2. <<x, y>> \in Seq(S) /\ Len(<<x, y>>) = 2 /\ <<x, y>>[1] = x /\ <<x, y>>[2] = y
    OBVIOUS
  <2> DEFINE d == <<x, y>>
  <2> HIDE DEF a, b
  <2>3. /\ a \o b \in Seq(S) /\ Len(a \o b) = Len(a) + Len(b)
        /\ \A i \in 1 .. Len(a) + Len(b) : (a \o b)[i] = IF i <= Len(a) THEN a[i] ELSE b[i - Len(a)]
    BY <1>1, ConcatProperties
  <2>4. Len(a \o b) = 2 /\ (a \o b)[1] = x /\ (a \o b)[2] = y
    BY <2>1, <2>3
  <2>5. d \in Seq(S) /\ Len(d) = 2 /\ d[1] = x /\ d[2] = y
    BY <2>2
  <2> HIDE DEF d
  <2>6. Len(a \o b) = Len(d) /\ \A i \in 1..Len(a \o b) : (a \o b)[i] = d[i]
    BY <2>4, <2>5
  <2>7. a \o b = d
    BY <2>3, <2>5, <2>6, SeqEqual
  <2> QED BY <2>7 DEF d
<1>3. g \o (a \o b) = (g \o a) \o b
  BY <1>1, ConcatAssociative
<1> QED BY <1>2, <1>3

(* Two answers, likewise. *)
LEMMA TwiceSaid ==
  ASSUME NEW g \in Seq(Signals), NEW x \in Answers, NEW y \in Answers
  PROVE  g \o <<x, y>> = (g \o <<x>>) \o <<y>>
<1>1. x \in Signals /\ y \in Signals
  BY DEF Signals
<1> QED BY <1>1, Twice

(* A step of the worker keeps the law. *)
LEMMA WorksLaw ==
  ASSUME Law, Works
  PROVE  Law'
<1>1. Lawful(c, gui, lane, holds, runs, interrupted) /\ gui \in Seq(Signals) /\ Silent(c)
  BY DEF Law, Lawful, Typing
<1>2. Lawful(c, gui', lane, holds, runs, interrupted)
  <2>1. CASE gui' = gui
    BY <1>1, <2>1
  <2>2. CASE Said1
    BY <1>1, <2>2, Say DEF Said1
  <2>3. CASE Said2
    <3>1. PICK x \in Answers, y \in Answers : gui' = gui \o <<x, y>>
      BY <2>3 DEF Said2
    <3>2. gui' = (gui \o <<x>>) \o <<y>>
      BY <1>1, <3>1, TwiceSaid
    <3> QED BY <1>1, <3>2, Say
  <2> QED BY <2>1, <2>2, <2>3 DEF Works
<1> QED BY <1>1, <1>2 DEF Law, Works, Aside

(* The request the worker takes next. *)
LEMMA Heading ==
  ASSUME World, aps # <<>>
  PROVE  Head(aps) \in Postable /\ Tail(aps) \in Seq(Postable)
BY Shrinks DEF World

(* The worker configures the magnet. *)
LEMMA ConfigureWorks == ASSUME World, Configure PROVE Works /\ World' /\ aps' = Tail(aps) /\ aps # <<>>
<1>1. aps # <<>> /\ aps' = Tail(aps) /\ Aside
  BY DEF Configure, GuiAside, Aside, Taken, Next0, history
<1>2. Said1
  BY Said DEF Configure, Tell, Said1
<1>3. World'
  <2>1. aps' \in Seq(Postable)
    BY <1>1, Heading
  <2>2. sweep' \in {"no", sweep}
    BY DEF Configure
  <2>3. busy' = busy /\ stopping' = stopping /\ linked' = linked /\ field' = field /\ heater' = heater
        /\ reading' = reading
    BY DEF Configure
  <2> QED BY <1>1, <2>1, <2>2, <2>3 DEF World, Aside
<1> QED BY <1>1, <1>2, <1>3 DEF Works

(* It takes a long request. *)
LEMMA TakeLongWorks == ASSUME World, TakeLong PROVE Works /\ World' /\ aps' = Tail(aps) /\ aps # <<>>
<1>1. aps # <<>> /\ aps' = Tail(aps) /\ Aside
  BY DEF TakeLong, GuiAside, Aside, Taken, Next0, history
<1>2. gui' = gui \/ Said1
  BY Said DEF TakeLong, Tell, Said1, NotConnected
<1>3. World'
  BY <1>1, Heading DEF TakeLong, World, Aside
<1> QED BY <1>1, <1>2, <1>3 DEF Works

(* A move ends. *)
LEMMA MoveEndsWorks == ASSUME World, MoveEnds PROVE Works /\ World' /\ aps' = aps
<1>1. aps' = aps /\ Aside
  BY DEF MoveEnds, GuiAside, Aside, history
<1>2. Said1
  BY Said DEF MoveEnds, Tell, Said1, World
<1>3. World'
  BY <1>1 DEF MoveEnds, World, Aside
<1> QED BY <1>1, <1>2, <1>3 DEF Works

(* The magnet is persistent, or could not be made so. *)
LEMMA PersistentEndsWorks == ASSUME World, PersistentEnds PROVE Works /\ World' /\ aps' = aps
<1>1. aps' = aps /\ Aside
  BY DEF PersistentEnds, GuiAside, Aside, history
<1>2. Said1
  BY Said DEF PersistentEnds, Tell, Said1, Operation
<1>3. World'
  BY <1>1 DEF PersistentEnds, World, Aside
<1> QED BY <1>1, <1>2, <1>3 DEF Works

(* The worker starts a sweep. *)
LEMMA TakeSweepWorks == ASSUME World, TakeSweep PROVE Works /\ World' /\ aps' = Tail(aps) /\ aps # <<>>
<1>1. aps # <<>> /\ aps' = Tail(aps) /\ Aside /\ Head(aps).op = "sweep"
  BY DEF TakeSweep, GuiAside, Aside, Taken, Next0, history
<1>2. Said1
  BY Said DEF TakeSweep, Tell, Said1
<1>3. World'
  <2>1. Head(aps).to \in {"start", "stop"}
    BY <1>1, Heading DEF Postable
  <2> QED BY <1>1, <2>1, Heading, ZenonT(40) DEF TakeSweep, World, Aside
<1> QED BY <1>1, <1>2, <1>3 DEF Works

(* It pauses. *)
LEMMA TakePauseWorks == ASSUME World, TakePause PROVE Works /\ World' /\ aps' = Tail(aps) /\ aps # <<>>
<1>1. aps # <<>> /\ aps' = Tail(aps) /\ Aside
  BY DEF TakePause, GuiAside, Aside, Taken, Next0, history
<1>2. Said1 \/ Said2
  <2>1. CASE gui' = gui \o Operation("pause")
    BY <2>1, Said DEF Said1, Operation
  <2>2. CASE gui' = gui \o (<<Signal("error", "other", FALSE)>> \o Operation("failed:pause"))
    <3> DEFINE x == Signal("error", "other", FALSE)
               y == Signal("operation", "failed:pause", TRUE)
    <3>1. x \in Answers /\ y \in Answers
      BY Said
    <3>2. gui' = gui \o (<<x>> \o <<y>>)
      BY <2>2 DEF Operation
    <3> HIDE DEF x, y
    <3>3. gui' = gui \o <<x, y>>
      BY <3>2
    <3> QED BY <3>1, <3>3 DEF Said2
  <2>3. CASE gui' = gui \o NotConnected
    BY <2>3, Said DEF Said1, NotConnected
  <2> QED BY <2>1, <2>2, <2>3 DEF TakePause, Tell
<1>3. World'
  BY <1>1, Heading DEF TakePause, World, Aside
<1> QED BY <1>1, <1>2, <1>3 DEF Works

(* It restores the limits. *)
LEMMA TakeRestoreWorks == ASSUME World, TakeRestore PROVE Works /\ World' /\ aps' = Tail(aps) /\ aps # <<>>
<1>1. aps # <<>> /\ aps' = Tail(aps) /\ Aside
  BY DEF TakeRestore, GuiAside, Aside, Taken, Next0, history
<1>2. Said1
  BY Said DEF TakeRestore, Tell, Said1, World
<1>3. World'
  BY <1>1, Heading, ZenonT(40) DEF TakeRestore, World, Aside
<1> QED BY <1>1, <1>2, <1>3 DEF Works

(* It connects. *)
LEMMA TakeConnectWorks == ASSUME World, TakeConnect PROVE Works /\ World' /\ aps' = Tail(aps) /\ aps # <<>>
<1>1. aps # <<>> /\ aps' = Tail(aps) /\ Aside
  BY DEF TakeConnect, GuiAside, Aside, Taken, Next0, history
<1>2. Said1
  BY Said DEF TakeConnect, Tell, Said1
<1>3. World'
  BY <1>1, Heading, ZenonT(40) DEF TakeConnect, World, Aside
<1> QED BY <1>1, <1>2, <1>3 DEF Works

(* It polls. *)
LEMMA PollWorks == ASSUME World, Poll PROVE Works /\ World' /\ aps' = aps
<1>1. aps' = aps /\ Aside
  BY DEF Poll, GuiAside, Aside, history
<1>2. gui' = gui \/ Said1
  BY Said DEF Poll, Tell, Said1
<1>3. World'
  BY <1>1 DEF Poll, World, Aside
<1> QED BY <1>1, <1>2, <1>3 DEF Works

(* The supply sweeps. *)
LEMMA SweepingWorks == ASSUME World, Sweeping PROVE Works /\ World' /\ aps' = aps
<1>1. aps' = aps /\ Aside /\ gui' = gui
  BY DEF Sweeping, GuiAside, Aside, history
<1>2. World'
  BY <1>1 DEF Sweeping, World, Aside
<1> QED BY <1>1, <1>2 DEF Works

(* The session is lost. *)
LEMMA UnlinkWorks == ASSUME World, Unlink PROVE Works /\ World' /\ aps' = aps
<1>1. aps' = aps /\ Aside
  BY DEF Unlink, GuiAside, Aside, history
<1>2. Said2
  BY Said DEF Unlink, Tell, Said2
<1>3. World'
  BY <1>1 DEF Unlink, World, Aside
<1> QED BY <1>1, <1>2, <1>3 DEF Works

(* The manager asks for a new session. *)
LEMMA AskConnectWorks == ASSUME World, AskConnect PROVE Works /\ World'
  /\ aps' = aps \o <<Request("connect", "no")>>
<1>1. Aside /\ gui' = gui
  BY DEF AskConnect, GuiAside, Aside, history
<1>2. Request("connect", "no") \in Postable
  BY DEF Request, Postable, Requests
<1>3. aps' = aps \o <<Request("connect", "no")>>
  BY <1>2, AppendIs DEF AskConnect, World
<1>4. World'
  BY <1>1, <1>2, <1>3, Grows DEF AskConnect, World, Aside
<1> QED BY <1>1, <1>3, <1>4 DEF Works

(* Taking a request commands nothing. *)
LEMMA ShorterCommands ==
  ASSUME World, aps' = aps \/ (aps # <<>> /\ aps' = Tail(aps))
  PROVE  Commanded
<1>1. Len(aps) \in Nat /\ Len(aps') \in Nat /\ Len(aps') < Len(aps) + 1
  BY LenProperties, Shrinks DEF World
<1>2. SubSeq(aps', Len(aps) + 1, Len(aps')) = <<>>
  BY <1>1, SubSeqEmpty
<1> QED BY <1>2 DEF Commanded, Moves

(* Asking for a session moves nothing. *)
LEMMA ConnectCommands ==
  ASSUME World, aps' = aps \o <<Request("connect", "no")>>
  PROVE  Commanded
<1> DEFINE q == Request("connect", "no")
           a == <<q>>
<1>1. q \in Postable /\ q.op = "connect"
  BY DEF Request, Postable, Requests
<1> HIDE DEF q
<1>2. a \in Seq(Postable) /\ DOMAIN a = {1} /\ a[1] = q
  BY <1>1
<1>3. aps' = aps \o a
  BY DEF q
<1> HIDE DEF a
<1>4. SubSeq(aps', Len(aps) + 1, Len(aps')) = a
  BY <1>2, <1>3, Added DEF World
<1> QED BY <1>1, <1>2, <1>4 DEF Commanded, Moves

(* The steps of the magnet's worker and of the supply. *)
WorkerStep == Worker \/ Poll \/ Sweeping \/ Unlink \/ AskConnect

(* A step of the worker. *)
LEMMA WorkerSound ==
  ASSUME Sound1, WorkerStep
  PROVE  Step1
<1>1. World /\ Law /\ ~spanned
  BY DEF Sound1
<1>2. Works /\ World'
      /\ (aps' = aps \/ (aps # <<>> /\ aps' = Tail(aps)) \/ aps' = aps \o <<Request("connect", "no")>>)
  BY <1>1, ConfigureWorks, TakeLongWorks, MoveEndsWorks, PersistentEndsWorks, TakeSweepWorks,
     TakePauseWorks, TakeRestoreWorks,
     TakeConnectWorks, PollWorks, SweepingWorks, UnlinkWorks, AskConnectWorks DEF WorkerStep, Worker
<1>3. Law' /\ ~spanned'
  BY <1>1, <1>2, WorksLaw DEF Works, Aside
<1> QED BY <1>1, <1>2, <1>3, ShorterCommands, ConnectCommands DEF Step1, Sound1

(* The head of the lane is done, and says so. *)
Finishes(x) ==
    /\ lane # <<>> /\ lane' = Tail(lane) /\ gui' = gui \o <<x>> /\ x \in Signals
    /\ x.kind \in LaneKinds
    /\ x.kind = "zeroed" <=> Head(lane).task = "zero"
    /\ x.kind = "sample" <=> Head(lane).task = "sample"

-----------------------------------------------------------------------------
(* The steps of the lane, and the first invariant.                         *)

(* The lane leaves the controller and the magnet alone. *)
LaneAside == c' = c /\ runs' = runs /\ interrupted' = interrupted /\ holds' = holds /\ spanned' = spanned
    /\ aps' = aps

(* The lane answers what it was asked. *)
LEMMA FinishOrderly ==
  ASSUME NEW x, Law, Finishes(x)
  PROVE  Orderly(c, gui', lane')
<1>1. gui \in Seq(Signals) /\ lane \in Seq(Tasks) /\ Orderly(c, gui, lane) /\ Owning(c, runs)
  BY DEF Law, Lawful, Typing
<1> DEFINE t == Tail(lane)
           q == gui \o <<x>>
<1>2. /\ Len(t) = Len(lane) - 1 /\ Len(lane) \in Nat \ {0} /\ Head(lane) = lane[1] /\ lane # <<>>
      /\ t \in Seq(Tasks)
      /\ \A i \in 1..Len(lane) - 1 : t[i] = lane[i + 1]
  BY <1>1, Shrinks DEF Finishes
<1>3. Len(q) = Len(gui) + 1 /\ q[Len(gui) + 1] = x /\ (\A i \in 1..Len(gui) : q[i] = gui[i]) /\ Len(gui) \in Nat
  BY <1>1, Grows DEF Finishes
<1>4. lane' = t /\ gui' = q
  BY DEF Finishes
<1> HIDE DEF t, q
<1>5. c.claimed /\ ~(c.cleaning /\ c.zeroed)
  BY <1>1, <1>2 DEF Orderly
<1>6. CASE c.active /\ ~c.cleaning
  <2>1. NoZero(lane) /\ NoZeroed(gui)
    BY <1>1, <1>6 DEF Orderly
  <2>2. NoZero(t)
    BY <1>2, <2>1 DEF NoZero
  <2>3. x.kind # "zeroed"
    BY <1>2, <2>1 DEF NoZero, Finishes
  <2>4. NoZeroed(q)
    BY <1>3, <2>1, <2>3 DEF NoZeroed
  <2> QED BY <1>4, <1>5, <1>6, <2>2, <2>4 DEF Orderly
<1>7. CASE c.cleaning /\ ~c.zeroed
  <2>1. ZeroLast(lane) /\ NoZeroed(gui)
    BY <1>1, <1>2, <1>7 DEF Orderly
  <2>2. CASE Head(lane).task = "zero"
    <3>1. Len(lane) = 1
      BY <1>2, <2>1, <2>2 DEF ZeroLast
    <3>2. t = <<>>
      BY <1>2, <3>1, EmptySeq
    <3>3. x.kind = "zeroed"
      BY <2>2 DEF Finishes
    <3>4. ZeroTold(q)
      <4>1. Len(gui) + 1 \in 1..Len(q) /\ q[Len(gui) + 1].kind = "zeroed"
        BY <1>3, <3>3
      <4>2. \A j \in 1..Len(q) : (q[j].kind \in LaneKinds => j <= Len(gui) + 1)
            /\ (q[j].kind = "zeroed" => j = Len(gui) + 1)
        BY <1>3, <2>1 DEF NoZeroed
      <4> QED BY <4>1, <4>2 DEF ZeroTold
    <3> QED BY <1>4, <1>5, <1>7, <3>2, <3>4 DEF Orderly
  <2>3. CASE Head(lane).task # "zero"
    <3>1. Len(lane) # 1
      BY <1>2, <2>1, <2>3 DEF ZeroLast
    <3>2. Len(t) \in 1..Len(lane) - 1 /\ Len(t) + 1 = Len(lane)
      BY <1>2, <3>1
    <3>3. t # <<>> /\ t[Len(t)] = lane[Len(lane)]
      BY <1>2, <3>2, EmptySeq
    <3>4. \A i \in 1..Len(t) - 1 : t[i] = lane[i + 1] /\ i + 1 \in 1..Len(lane) - 1
      BY <1>2, <3>2
    <3>5. ZeroLast(t)
      BY <2>1, <3>3, <3>4 DEF ZeroLast
    <3>6. x.kind # "zeroed"
      BY <2>3 DEF Finishes
    <3>7. NoZeroed(q)
      BY <1>3, <2>1, <3>6 DEF NoZeroed
    <3> QED BY <1>4, <1>5, <1>7, <3>5, <3>7 DEF Orderly
  <2> QED BY <2>2, <2>3
<1> QED BY <1>1, <1>5, <1>6, <1>7 DEF Owning

(* A step of the lane keeps the law. *)
LEMMA FinishLaw ==
  ASSUME NEW x, Law, Finishes(x), LaneAside
  PROVE  Law'
<1>1. Lawful(c, gui, lane, holds, runs, interrupted) /\ gui \in Seq(Signals) /\ lane \in Seq(Tasks) /\ Silent(c)
  BY DEF Law, Lawful, Typing
<1>2. Orderly(c, gui', lane')
  BY FinishOrderly
<1>3. Count(lane, SampleTasks) = Count(lane', SampleTasks) + (IF Head(lane) \in SampleTasks THEN 1 ELSE 0)
  BY <1>1, CountShrinks DEF Finishes
<1>4. Count(gui', SampleSignals) = Count(gui, SampleSignals) + (IF x \in SampleSignals THEN 1 ELSE 0)
  BY <1>1, CountGrows DEF Finishes
<1>5. Head(lane) \in SampleTasks <=> x \in SampleSignals
  <2>1. Head(lane) \in Tasks
    BY <1>1, Shrinks DEF Finishes
  <2> QED BY <2>1, SignalsAre, TasksAre DEF Finishes
<1>6. lane' \in Seq(Tasks) /\ gui' \in Seq(Signals)
  BY <1>1, Shrinks, Grows DEF Finishes
<1>7. Count(lane', SampleTasks) \in Nat /\ Count(gui, SampleSignals) \in Nat
  BY <1>1, <1>6, MarkedFinite
<1>8. Pending(c, gui', lane')
  BY <1>1, <1>3, <1>4, <1>5, <1>7 DEF Lawful, Pending
<1>9. Lawful(c, gui', lane', holds, runs, interrupted)
  BY <1>1, <1>2, <1>6, <1>8 DEF Lawful, Typing
<1> QED BY <1>1, <1>9 DEF Law, LaneAside

(* Everything the lane says. *)
LEMMA LaneSays ==
  /\ \A kind \in {"biases", "zeroed"}, ok \in BOOLEAN : Signal(kind, "", ok) \in Signals
     /\ Signal(kind, "", ok).kind = kind
  /\ Signal("sample", "", FALSE) \in Signals /\ Signal("sample", "", FALSE).kind = "sample"
<1>1. \A kind \in {"biases", "zeroed"}, ok \in BOOLEAN : Signal(kind, "", ok) \in LaneAnswers
      /\ Signal(kind, "", ok).kind = kind
  BY DEF LaneAnswers, Plain, Signal, Kinds, Names, LaneKinds
<1>2. Signal("sample", "", FALSE) \in LaneAnswers /\ Signal("sample", "", FALSE).kind = "sample"
  BY DEF LaneAnswers, Plain, Signal, Kinds, Names, LaneKinds
<1> QED BY <1>1, <1>2 DEF Signals

(* A step of the lane. *)
LEMMA LaneSound ==
  ASSUME Sound1, Lane
  PROVE  Step1
<1>1. World /\ Law /\ ~spanned /\ lane \in Seq(Tasks)
  BY DEF Sound1, Law, Lawful, Typing
<1>2. LaneAside
  BY DEF Lane, BiasRamps, BiasEnds, TakeSample, ZeroBiases, LaneAside, MagnetAside, magnetVars,
     history
<1>3. World'
  <2>1. /\ aps' = aps /\ busy' = busy /\ stopping' = stopping /\ linked' = linked /\ sweep' = sweep
        /\ field' = field /\ heater' = heater /\ reading' = reading /\ thermal' = thermal
    BY DEF Lane, BiasRamps, BiasEnds, TakeSample, ZeroBiases, MagnetAside, magnetVars
  <2>2. bias' \in 0..Conditions
    <3>1. CASE BiasEnds
      <4>1. Head(lane) \in Tasks /\ Head(lane).task = "bias"
        BY <1>1, <3>1, Shrinks DEF BiasEnds
      <4>2. Head(lane).cond \in 1..Conditions
        BY <4>1, TasksAre
      <4>3. bias' = bias \/ bias' = Head(lane).cond
        BY <3>1 DEF BiasEnds
      <4> QED BY <1>1, <4>2, <4>3, ConstantsAssumption DEF World
    <3>2. CASE BiasRamps \/ TakeSample \/ ZeroBiases
      <4>1. bias' \in {0, bias}
        BY <3>2 DEF BiasRamps, TakeSample, ZeroBiases
      <4> QED BY <1>1, <4>1, ConstantsAssumption DEF World
    <3> QED BY <3>1, <3>2 DEF Lane
  <2> QED BY <1>1, <2>1, <2>2 DEF World
<1>4. Law'
  <2>1. CASE BiasRamps
    <3>1. gui' = gui /\ lane' = lane
      BY <2>1 DEF BiasRamps
    <3> QED BY <1>1, <1>2, <3>1 DEF Law, LaneAside
  <2>2. CASE BiasEnds
    <3>1. PICK ok \in BOOLEAN : gui' = gui \o <<Signal("biases", "", ok)>>
      BY <2>2 DEF BiasEnds, LaneDone, Tell
    <3>2. Finishes(Signal("biases", "", ok))
      BY <2>2, <3>1, LaneSays DEF Finishes, BiasEnds, LaneDone, LaneKinds
    <3> QED BY <1>1, <1>2, <3>2, FinishLaw
  <2>3. CASE TakeSample
    <3>1. Head(lane).task = "sample" /\ lane # <<>> /\ lane' = Tail(lane)
      BY <2>3 DEF TakeSample
    <3>2. Head(lane).generation = Head(lane).holds /\ Head(lane).generation \in Nat
      BY <1>1, <3>1, Shrinks, TasksAre
    <3> DEFINE y == [kind |-> "sample", name |-> "", ok |-> TRUE, generation |-> Head(lane).generation,
        holds |-> Head(lane).holds]
    <3>3. y \in SampleRows /\ y.kind = "sample"
      BY <3>2 DEF SampleRows
    <3>4. gui' = gui \o <<y>> \/ gui' = gui \o <<Signal("sample", "", FALSE)>>
      BY <2>3 DEF TakeSample, Tell
    <3> HIDE DEF y
    <3>5. \E x : Finishes(x)
      <4>1. CASE gui' = gui \o <<y>>
        <5>1. Finishes(y)
          BY <3>1, <3>3, <4>1 DEF Finishes, Signals, LaneKinds
        <5> QED BY <5>1
      <4>2. CASE gui' = gui \o <<Signal("sample", "", FALSE)>>
        <5>1. Finishes(Signal("sample", "", FALSE))
          BY <3>1, <4>2, LaneSays DEF Finishes, LaneKinds
        <5> QED BY <5>1
      <4> QED BY <3>4, <4>1, <4>2
    <3> QED BY <1>1, <1>2, <3>5, FinishLaw
  <2>4. CASE ZeroBiases
    <3>1. PICK ok \in BOOLEAN : gui' = gui \o <<Signal("zeroed", "", ok)>>
      BY <2>4 DEF ZeroBiases, LaneDone, Tell
    <3>2. Finishes(Signal("zeroed", "", ok))
      BY <2>4, <3>1, LaneSays DEF Finishes, ZeroBiases, LaneDone, LaneKinds
    <3> QED BY <1>1, <1>2, <3>2, FinishLaw
  <2> QED BY <2>1, <2>2, <2>3, <2>4 DEF Lane
<1>5. Commanded
  BY <1>1, <1>2, ShorterCommands DEF LaneAside
<1> QED BY <1>1, <1>2, <1>3, <1>4, <1>5 DEF Step1, Sound1, LaneAside

(* The temperature changes. *)
LEMMA ThermalSound ==
  ASSUME Sound1, Warms \/ Cools
  PROVE  Step1
<1>1. /\ c' = c /\ gui' = gui /\ lane' = lane /\ runs' = runs /\ interrupted' = interrupted
      /\ holds' = holds /\ spanned' = spanned /\ aps' = aps
      /\ busy' = busy /\ stopping' = stopping /\ linked' = linked /\ sweep' = sweep /\ field' = field
         /\ heater' = heater
      /\ reading' = reading /\ bias' = bias
  BY DEF Warms, Cools, magnetVars, history
<1>2. thermal' \in {"ok", "cool", "warn", "trip", "lost"}
  BY DEF Warms, Cools
<1>3. World' /\ Law' /\ ~spanned'
  BY <1>1, <1>2 DEF World, Law, Sound1
<1>4. Commanded
  BY <1>1, ShorterCommands DEF Sound1
<1> QED BY <1>3, <1>4 DEF Step1, Sound1

(* Nothing happens. *)
LEMMA StillSound ==
  ASSUME Sound1, UNCHANGED vars
  PROVE  Step1
<1>1. /\ c' = c /\ gui' = gui /\ lane' = lane /\ runs' = runs /\ interrupted' = interrupted
      /\ holds' = holds /\ spanned' = spanned /\ aps' = aps
      /\ busy' = busy /\ stopping' = stopping /\ linked' = linked /\ sweep' = sweep /\ field' = field
         /\ heater' = heater
      /\ reading' = reading /\ bias' = bias /\ thermal' = thermal
  BY DEF vars, magnetVars, history
<1>3. World' /\ Law' /\ ~spanned'
  BY <1>1 DEF World, Law, Sound1
<1>4. Commanded
  BY <1>1, ShorterCommands DEF Sound1
<1> QED BY <1>3, <1>4 DEF Step1, Sound1

(* Every step. *)
LEMMA FirstStep ==
  ASSUME Sound1, [Next]_vars
  PROVE  Step1
BY StartSound, StartFailsSound, StopSound, CloseSound, CloseRejectedSound, ContinueSound,
   DeliverSound, SavedSound, RunFailsSound,
   MonitoringLostSound, SnapshotSound, LakeSnapshotSound, WatchdogSound, RowCooledSound, WorkerSound,
   LaneSound, ThermalSound, StillSound
   DEF Next, WorkerStep, Rest

(* The first invariant holds at the start. *)
LEMMA FirstInit == Init => Sound1
<1> SUFFICES ASSUME Init PROVE Sound1
  OBVIOUS
<1>1. World /\ ~spanned
  BY ConstantsAssumption DEF Init, World
<1>2. c = Controller /\ gui = <<>> /\ lane = <<>> /\ runs = 0 /\ holds = 0 /\ ~interrupted
  BY DEF Init
<1>3. Silent(c) /\ Typed(c) /\ c.generation = 0 /\ c.pending = 0
  BY <1>2, Fresh DEF Silent
<1>4. Owning(c, runs)
  BY <1>2, Fresh DEF Owning
<1>5. Orderly(c, gui, lane)
  BY <1>2, Fresh, EmptySeq DEF Orderly, NoLane
<1>6. Pending(c, gui, lane)
  BY <1>2, <1>3, CountEmpty DEF Pending
<1>7. Resting(c, interrupted)
  BY <1>2, Fresh DEF Resting
<1>8. Typing(c, gui, lane, holds, runs)
  BY <1>2, <1>3, EmptySeq DEF Typing
<1> QED BY <1>1, <1>3, <1>4, <1>5, <1>6, <1>7, <1>8 DEF Sound1, Law, Lawful

(* The first invariant is an invariant. *)
LEMMA FirstHolds == Spec => []Sound1
BY FirstInit, FirstStep, PTL DEF Spec, Step1

(* It says that the lane is done when the devices are given back. *)
LEMMA LaneQuietFollows == Sound1 => LaneQuiet
BY DEF Sound1, Law, Lawful, Orderly, LaneQuiet

(* It says that the state has its type. *)
LEMMA TypeFollows == Sound1 => TypeOK
<1> SUFFICES ASSUME Sound1 PROVE TypeOK
  OBVIOUS
<1>1. Typed(c) /\ gui \in Seq(Signals) /\ lane \in Seq(Tasks) /\ aps \in Seq(Postable) /\ World /\ Silent(c)
      /\ c.pending \in 0..2
  BY DEF Sound1, Law, Lawful, Typing, World, Pending
<1>2. DOMAIN c = DOMAIN Controller
  BY <1>1 DEF Typed, Slots, Controller
<1>3. \A i \in DOMAIN gui : gui[i].kind \in Kinds /\ gui[i].ok \in BOOLEAN
  BY <1>1, LenProperties, ElementOfSeq, SignalsAre
<1>4. \A i \in DOMAIN aps : aps[i] \in Requests
  BY <1>1, LenProperties, ElementOfSeq DEF Postable
<1>5. \A i \in DOMAIN lane : lane[i].task \in {"bias", "sample", "zero"}
  BY <1>1, LenProperties, ElementOfSeq, TasksAre
<1>6. field \in Fields /\ reading \in Fields \cup {"none"}
  BY <1>1 DEF World, Fields
<1> QED BY <1>1, <1>2, <1>3, <1>4, <1>5, <1>6 DEF TypeOK, World, Typed, Silent

(* Every reachable state has its type: the controller, the queues to and from the
   magnet and the lane. *)
THEOREM TypesOf == Spec => []TypeOK
BY FirstHolds, TypeFollows, PTL

(* When the devices are given back the lane is done with them, so nothing drives a
   source that another run may claim. *)
THEOREM LaneIsQuiet == Spec => []LaneQuiet
BY FirstHolds, LaneQuietFollows, PTL

(* No row is committed whose reading was asked for before a pause for temperature or
   monitoring. *)
THEOREM RowsStayWhole == Spec => []RowsUninterrupted
BY FirstHolds, PTL DEF Sound1, RowsUninterrupted

(* A run paused for its temperature or its monitoring moves the magnet again for the
   operator only. *)
THEOREM OperatorResumes == Spec => NoAutomaticResume
<1>1. Sound1 /\ [Next]_vars => [interrupted /\ interrupted' =>
          ~Moves(SubSeq(aps', Len(aps) + 1, Len(aps')))]_vars
  BY FirstStep DEF Step1, Commanded
<1> QED BY <1>1, FirstHolds, PTL DEF Spec, NoAutomaticResume

-----------------------------------------------------------------------------
(* The order of the requests for persistence, and the configuration.       *)

(* None of M is in q. *)
None(q, M) == \A i \in 1..Len(q) : q[i] \notin M

(* Only members of M are. *)
Only(q, M) == \A i \in 1..Len(q) : q[i] \in M

(* One of E is there, once, and only members of S before it. *)
First(q, E, S) ==
    \E i \in 1..Len(q) :
        q[i] \in E /\ (\A j \in 1..Len(q) : (j < i => q[j] \in S) /\ (q[j] \in E => j = i))

(* After one of P there is none of M. *)
Behind(q, P, M) == \A i, j \in 1..Len(q) : i < j /\ q[i] \in P => q[j] \notin M

(* None, in a longer sequence. *)
LEMMA NoneGrows ==
  ASSUME NEW S, NEW q \in Seq(S), NEW x \in S, NEW M
  PROVE  None(q \o <<x>>, M) <=> None(q, M) /\ x \notin M
<1> DEFINE r == q \o <<x>>
<1>1. Len(r) = Len(q) + 1 /\ r[Len(q) + 1] = x /\ (\A i \in 1..Len(q) : r[i] = q[i]) /\ Len(q) \in Nat
  BY Grows
<1> HIDE DEF r
<1>2. Len(q) + 1 \in 1..Len(r) /\ 1..Len(q) \subseteq 1..Len(r) /\ \A i \in 1..Len(r) : i \in 1..Len(q)
      \/ i = Len(q) + 1
  BY <1>1
<1> QED BY <1>1, <1>2 DEF None, r

(* Only, in a longer sequence. *)
LEMMA OnlyGrows ==
  ASSUME NEW S, NEW q \in Seq(S), NEW x \in S, NEW M
  PROVE  Only(q \o <<x>>, M) <=> Only(q, M) /\ x \in M
<1> DEFINE r == q \o <<x>>
<1>1. Len(r) = Len(q) + 1 /\ r[Len(q) + 1] = x /\ (\A i \in 1..Len(q) : r[i] = q[i]) /\ Len(q) \in Nat
  BY Grows
<1> HIDE DEF r
<1>2. Len(q) + 1 \in 1..Len(r) /\ 1..Len(q) \subseteq 1..Len(r) /\ \A i \in 1..Len(r) : i \in 1..Len(q)
      \/ i = Len(q) + 1
  BY <1>1
<1> QED BY <1>1, <1>2 DEF Only, r

(* First, in a longer sequence. *)
LEMMA FirstGrows ==
  ASSUME NEW S, NEW q \in Seq(S), NEW x \in S, NEW E, NEW T, x \notin E, First(q, E, T)
  PROVE  First(q \o <<x>>, E, T)
<1> DEFINE r == q \o <<x>>
<1>1. Len(r) = Len(q) + 1 /\ r[Len(q) + 1] = x /\ (\A i \in 1..Len(q) : r[i] = q[i]) /\ Len(q) \in Nat
  BY Grows
<1>2. PICK i \in 1..Len(q) : q[i] \in E /\ (\A j \in 1..Len(q) : (j < i => q[j] \in T) /\ (q[j] \in E => j = i))
  BY DEF First
<1> HIDE DEF r
<1>3. i \in 1..Len(r) /\ r[i] \in E
  BY <1>1, <1>2
<1>4. \A j \in 1..Len(r) : (j < i => r[j] \in T) /\ (r[j] \in E => j = i)
  <2> TAKE j \in 1..Len(r)
  <2>1. CASE j \in 1..Len(q)
    BY <1>1, <1>2, <2>1
  <2>2. CASE j = Len(q) + 1
    BY <1>1, <1>2, <2>2
  <2> QED BY <1>1, <2>1, <2>2
<1> QED BY <1>3, <1>4 DEF First, r

(* The first comes. *)
LEMMA FirstComes ==
  ASSUME NEW S, NEW q \in Seq(S), NEW x \in S, NEW E, NEW T, x \in E, Only(q, T), None(q, E)
  PROVE  First(q \o <<x>>, E, T)
<1> DEFINE r == q \o <<x>>
<1>1. Len(r) = Len(q) + 1 /\ r[Len(q) + 1] = x /\ (\A i \in 1..Len(q) : r[i] = q[i]) /\ Len(q) \in Nat
  BY Grows
<1> HIDE DEF r
<1>3. Len(q) + 1 \in 1..Len(r) /\ r[Len(q) + 1] \in E
  BY <1>1
<1>4. \A j \in 1..Len(r) : (j < Len(q) + 1 => r[j] \in T) /\ (r[j] \in E => j = Len(q) + 1)
  <2> TAKE j \in 1..Len(r)
  <2>1. CASE j \in 1..Len(q)
    BY <1>1, <2>1 DEF Only, None
  <2>2. CASE j = Len(q) + 1
    BY <1>1, <2>2
  <2> QED BY <1>1, <2>1, <2>2
<1> QED BY <1>3, <1>4 DEF First, r

(* None, in a shorter sequence. *)
LEMMA NoneShrinks ==
  ASSUME NEW S, NEW q \in Seq(S), q # <<>>, NEW M
  PROVE  None(q, M) <=> Head(q) \notin M /\ None(Tail(q), M)
<1> DEFINE t == Tail(q)
<1>1. Len(t) = Len(q) - 1 /\ Len(q) \in Nat \ {0} /\ Head(q) = q[1] /\ \A i \in 1..Len(q) - 1 : t[i] = q[i + 1]
  BY Shrinks
<1> HIDE DEF t
<1>2. 1 \in 1..Len(q) /\ (\A i \in 1..Len(t) : i + 1 \in 1..Len(q) /\ t[i] = q[i + 1])
      /\ \A i \in 1..Len(q) : i = 1 \/ (i - 1 \in 1..Len(t) /\ t[i - 1] = q[i])
  <2>1. \A i \in 1..Len(t) : i + 1 \in 1..Len(q) /\ t[i] = q[i + 1]
    BY <1>1
  <2>2. \A i \in 1..Len(q) : i = 1 \/ (i - 1 \in 1..Len(t) /\ (i - 1) + 1 = i)
    BY <1>1
  <2> QED BY <1>1, <2>1, <2>2
<1> QED BY <1>1, <1>2 DEF None, t

(* Only, in a shorter sequence. *)
LEMMA OnlyShrinks ==
  ASSUME NEW S, NEW q \in Seq(S), q # <<>>, NEW M, Only(q, M)
  PROVE  Head(q) \in M /\ Only(Tail(q), M)
<1> DEFINE t == Tail(q)
<1>1. Len(t) = Len(q) - 1 /\ Len(q) \in Nat \ {0} /\ Head(q) = q[1] /\ \A i \in 1..Len(q) - 1 : t[i] = q[i + 1]
  BY Shrinks
<1> HIDE DEF t
<1>2. 1 \in 1..Len(q) /\ \A i \in 1..Len(t) : i + 1 \in 1..Len(q) /\ t[i] = q[i + 1]
  BY <1>1
<1> QED BY <1>1, <1>2 DEF Only, t

(* First, in a shorter sequence: it is taken, or one before it. *)
LEMMA FirstShrinks ==
  ASSUME NEW S, NEW q \in Seq(S), q # <<>>, NEW E, NEW T, First(q, E, T)
  PROVE  \/ Head(q) \in E /\ None(Tail(q), E)
         \/ Head(q) \in T /\ First(Tail(q), E, T)
<1> DEFINE t == Tail(q)
<1>1. Len(t) = Len(q) - 1 /\ Len(q) \in Nat \ {0} /\ Head(q) = q[1] /\ \A i \in 1..Len(q) - 1 : t[i] = q[i + 1]
  BY Shrinks
<1> HIDE DEF t
<1>2. \A j \in 1..Len(t) : j + 1 \in 1..Len(q) /\ t[j] = q[j + 1]
  BY <1>1
<1>3. PICK i \in 1..Len(q) : q[i] \in E /\ (\A j \in 1..Len(q) : (j < i => q[j] \in T) /\ (q[j] \in E => j = i))
  BY DEF First
<1>4. CASE i = 1
  <2>1. \A j \in 1..Len(t) : j + 1 # 1
    BY <1>1
  <2>2. None(t, E)
    BY <1>2, <1>3, <1>4, <2>1 DEF None
  <2> QED BY <1>1, <1>3, <1>4, <2>2 DEF t
<1>5. CASE i # 1
  <2>1. 1 \in 1..Len(q) /\ 1 < i /\ i - 1 \in 1..Len(t) /\ (i - 1) + 1 = i
    BY <1>1, <1>5
  <2>2. Head(q) \in T /\ t[i - 1] \in E
    BY <1>1, <1>2, <1>3, <2>1
  <2>3. \A j \in 1..Len(t) : (j < i - 1 => t[j] \in T) /\ (t[j] \in E => j = i - 1)
    <3> TAKE j \in 1..Len(t)
    <3>1. (j + 1 < i => q[j + 1] \in T) /\ (q[j + 1] \in E => j + 1 = i)
      BY <1>2, <1>3
    <3> QED BY <1>1, <1>2, <3>1
  <2> QED BY <2>1, <2>2, <2>3 DEF First, t
<1> QED BY <1>4, <1>5

(* The first is there. *)
LEMMA FirstThere ==
  ASSUME NEW q, NEW E, NEW T, First(q, E, T)
  PROVE  ~None(q, E)
BY DEF First, None

(* Behind, in a longer sequence. *)
LEMMA BehindGrows ==
  ASSUME NEW S, NEW q \in Seq(S), NEW x \in S, NEW P, NEW M, Behind(q, P, M), x \notin M \/ None(q, P)
  PROVE  Behind(q \o <<x>>, P, M)
<1> DEFINE r == q \o <<x>>
<1>1. Len(r) = Len(q) + 1 /\ r[Len(q) + 1] = x /\ (\A i \in 1..Len(q) : r[i] = q[i]) /\ Len(q) \in Nat
  BY Grows
<1> HIDE DEF r
<1>2. \A i, j \in 1..Len(r) : i < j => i \in 1..Len(q) /\ (j \in 1..Len(q) \/ j = Len(q) + 1)
  BY <1>1
<1> QED BY <1>1, <1>2 DEF Behind, None, r

(* Behind, in a shorter sequence. *)
LEMMA BehindShrinks ==
  ASSUME NEW S, NEW q \in Seq(S), q # <<>>, NEW P, NEW M, Behind(q, P, M)
  PROVE  Behind(Tail(q), P, M) /\ (Head(q) \in P => None(Tail(q), M))
<1> DEFINE t == Tail(q)
<1>1. Len(t) = Len(q) - 1 /\ Len(q) \in Nat \ {0} /\ Head(q) = q[1] /\ \A i \in 1..Len(q) - 1 : t[i] = q[i + 1]
  BY Shrinks
<1> HIDE DEF t
<1>2. \A j \in 1..Len(t) : j + 1 \in 1..Len(q) /\ t[j] = q[j + 1] /\ 1 < j + 1 /\ j \in Nat
  BY <1>1
<1>3. 1 \in 1..Len(q)
  BY <1>1
<1>4. Behind(t, P, M)
  <2> SUFFICES ASSUME NEW i \in 1..Len(t), NEW j \in 1..Len(t), i < j, t[i] \in P PROVE t[j] \notin M
    BY DEF Behind
  <2>1. i + 1 < j + 1
    BY <1>2
  <2> QED BY <1>2, <2>1 DEF Behind
<1>5. Head(q) \in P => None(t, M)
  BY <1>1, <1>2, <1>3 DEF Behind, None
<1> QED BY <1>4, <1>5 DEF t

(* Nothing is in the empty sequence. *)
LEMMA NoneEmpty ==
  ASSUME NEW M
  PROVE  None(<<>>, M) /\ Only(<<>>, M)
BY EmptySeq DEF None, Only

(* None are none to count. *)
LEMMA NoneCounts ==
  ASSUME NEW S, NEW q \in Seq(S), NEW M
  PROVE  None(q, M) <=> Count(q, M) = 0
BY CountNone DEF None

(* Requests to make the magnet persistent. *)
Persistents == {q \in Postable : q.op = "persistent"}

(* Requests to move it. *)
Motions == {q \in Postable : q.op = "move"}

(* Requests to configure it. *)
Configures == {q \in Postable : q.op = "configure"}

(* Requests for a session. *)
Connects == {q \in Postable : q.op = "connect"}

(* The word that it is persistent. *)
PersistentTold == {s \in Signals : s.kind = "operation" /\ s.name = "persistent"}

(* The end of such a request, either way. *)
PersistentOver == {s \in Signals : s.kind = "operation" /\ s.name \in {"persistent", "failed:persistent"}}

(* The end of a configuration. *)
ConfiguredTold == {s \in Signals : s.kind = "configured"}

(* Errors and lost sessions. *)
Asides == {s \in Signals : s.kind \in {"error", "disconnected"}}

(* No motion is queued behind a request to make the magnet persistent, and while
   the word that it is persistent is under way the heater stays off. *)
Tidy(a, g, by, h) ==
    /\ Behind(a, Persistents, Motions)
    /\ by = "persistent" => None(a, Motions)
    /\ ~None(g, PersistentTold) => by # "move" /\ None(a, Motions) /\ h = "off"

(* How many requests for persistence are under way, from their posting to the handling
   of their answer. *)
Flying(a, g, by) == Count(a, Persistents) + Count(g, PersistentOver) + (IF by = "persistent" THEN 1 ELSE 0)

(* A running series has at most one such request under way, between two conditions. *)
Flight(k, a, g, by) ==
    k.active /\ ~k.cleaning =>
        \/ Flying(a, g, by) = 0
        \/ Flying(a, g, by) = 1 /\ k.rowTransition /\ k.rowInflight /\ ~k.rowEntered

(* Until the magnet is configured nothing else is under way. *)
Fronted(a, g, by) ==
    \/ First(a, Configures, Connects) /\ by = "no" /\ Only(g, Asides)
    \/ None(a, Configures) /\ First(g, ConfiguredTold, Asides)

(* A series that runs is configured, or does nothing else until it is. *)
Opening(k, a, g, by, l) ==
    k.active /\ ~k.cleaning =>
        \/ k.stored /\ None(a, Configures) /\ None(g, ConfiguredTold)
        \/ ~k.stored /\ Early(k) /\ l = <<>> /\ Fronted(a, g, by)

(* All of that: what is queued around the requests for persistence. *)
Order(k, a, g, by, h, l) == Tidy(a, g, by, h) /\ Flight(k, a, g, by) /\ Opening(k, a, g, by, l)

(* The second invariant: so it is, as long as no cleanup was cut. *)
Sound2 == cut \/ Order(c, aps, gui, busy, heater, lane)

(* The clearance to disconnect is given with the heater off. *)
Cleared == ~c.shutdownDone /\ c.shutdownDone' /\ ~cut => heater = "off"

(* What every step has to do for the second invariant and the clearance. *)
Step2 == Sound2' /\ Cleared

(* It asks for nothing that could come in the way. *)
Modest(n) == n.ask = <<>> \/ \E q \in Postable : n.ask = <<q>> /\ q.op \in {"pause", "persistent", "restore"}

(* A controller that does not run a series. *)
Halts(n) == Typed(n) /\ ~(n.active /\ ~n.cleaning) /\ Modest(n)

(* What a handler makes of the controller, as far as the second invariant cares. *)
Heeds(b, n) == (Runs(b) /\ Ran(b, n) /\ Paced(b, n)) \/ Halts(n)

(* What is known of a request. *)
LEMMA Requested ==
  ASSUME NEW q \in Postable
  PROVE  /\ q \in Persistents <=> q.op = "persistent"
         /\ q \in Motions <=> q.op = "move"
         /\ q \in Configures <=> q.op = "configure"
         /\ q \in Connects <=> q.op = "connect"
BY DEF Persistents, Motions, Configures, Connects

(* One more request, behind the others. *)
LEMMA AskTidy ==
  ASSUME World, NEW g, Tidy(aps, g, busy, heater), NEW n, NEW q \in Postable, n.ask = <<q>>,
         q.op = "move" => None(aps, Persistents) /\ None(g, PersistentTold) /\ busy # "persistent"
  PROVE  Tidy(aps \o n.ask, g, busy, heater)
<1>1. aps \in Seq(Postable)
  BY DEF World
<1>2. CASE q.op = "move"
  <2>1. Behind(aps \o <<q>>, Persistents, Motions)
    BY <1>1, <1>2, BehindGrows DEF Tidy
  <2> QED BY <1>2, <2>1 DEF Tidy
<1>3. CASE q.op # "move"
  <2>0. q \notin Motions
    BY <1>3, Requested
  <2>1. Behind(aps \o <<q>>, Persistents, Motions)
    BY <1>1, <2>0, BehindGrows DEF Tidy
  <2>2. None(aps \o <<q>>, Motions) <=> None(aps, Motions)
    BY <1>1, <2>0, NoneGrows
  <2> QED BY <2>1, <2>2 DEF Tidy
<1> QED BY <1>2, <1>3

(* The request of a running series. *)
LEMMA AsksAre ==
  ASSUME NEW b, NEW n, Ran(b, n)
  PROVE  \/ n.ask = <<>>
         \/ \E q \in Postable : /\ n.ask = <<q>> /\ q.op \in {"pause", "persistent", "move", "sweep"}
                                /\ q.op = "persistent" => n.ask = <<Request("persistent", "no")>>
                                   /\ b.rowTransition /\ ~b.rowInflight
                                /\ q.op = "move" => n.ask = <<Request("move", "start")>>
<1>1. CASE n.ask = <<Request("persistent", "no")>> /\ b.rowTransition /\ ~b.rowInflight
  BY <1>1, RequestsAre
<1>2. CASE PauseTo(n, "user") \/ Interposes(n)
  BY <1>2, RequestsAre DEF PauseTo, Interposes
<1>3. CASE Goes(n)
  BY <1>3, RequestsAre DEF Goes
<1> QED BY <1>1, <1>2, <1>3 DEF Ran, Asks

(* Another request is not that for persistence. *)
LEMMA NotPersistent ==
  ASSUME NEW n, NEW q \in Postable, n.ask = <<q>>, q.op # "persistent"
  PROVE  n.ask # <<Request("persistent", "no")>>
<1>1. Request("persistent", "no").op = "persistent"
  BY RequestsAre
<1> DEFINE r == Request("persistent", "no")
<1> HIDE DEF r
<1>2. r.op = "persistent"
  BY <1>1 DEF r
<1>3. <<q>> # <<r>>
  BY <1>2
<1> QED BY <1>3 DEF r

(* Counting what is under way. *)
LEMMA FlyingIs ==
  ASSUME NEW a \in Seq(Postable), NEW g \in Seq(Signals), NEW by
  PROVE  /\ Flying(a, g, by) \in Nat
         /\ Flying(a, g, by) = 0 <=> None(a, Persistents) /\ None(g, PersistentOver) /\ by # "persistent"
         /\ None(g, PersistentOver) => None(g, PersistentTold)
<1>1. Count(a, Persistents) \in Nat /\ Count(g, PersistentOver) \in Nat
  BY MarkedFinite
<1>2. (None(a, Persistents) <=> Count(a, Persistents) = 0)
      /\ (None(g, PersistentOver) <=> Count(g, PersistentOver) = 0)
  BY NoneCounts
<1>3. None(g, PersistentOver) => None(g, PersistentTold)
  BY DEF None, PersistentOver, PersistentTold
<1> QED BY <1>1, <1>2, <1>3 DEF Flying

(* One more, when it is asked for. *)
LEMMA FlyingAsks ==
  ASSUME NEW a \in Seq(Postable), NEW g \in Seq(Signals), NEW by, NEW q \in Postable
  PROVE  Flying(a \o <<q>>, g, by) = Flying(a, g, by) + (IF q.op = "persistent" THEN 1 ELSE 0)
<1>1. Count(a \o <<q>>, Persistents) = Count(a, Persistents) + (IF q \in Persistents THEN 1 ELSE 0)
  BY CountGrows
<1>2. Count(a, Persistents) \in Nat /\ Count(g, PersistentOver) \in Nat
  BY MarkedFinite
<1> QED BY <1>1, <1>2, Requested DEF Flying

(* A handler keeps the order of what is under way. *)
LEMMA TurnOrder ==
  ASSUME World, NEW b, NEW g \in Seq(Signals), NEW n, Tidy(aps, g, busy, heater), Flight(b, aps, g, busy),
         Heeds(b, n)
  PROVE  Tidy(aps \o n.ask, g, busy, heater) /\ Flight(n, aps \o n.ask, g, busy)
<1>1. aps \in Seq(Postable)
  BY DEF World
<1>2. CASE Halts(n)
  <2>1. Flight(n, aps \o n.ask, g, busy)
    BY <1>2 DEF Halts, Flight
  <2>2. CASE n.ask = <<>>
    <3>1. aps \o n.ask = aps
      BY <1>1, <2>2, SameKept
    <3> QED BY <2>1, <3>1
  <2>3. CASE n.ask # <<>>
    <3>1. PICK q \in Postable : n.ask = <<q>> /\ q.op # "move"
      BY <1>2, <2>3 DEF Halts, Modest
    <3> QED BY <2>1, <3>1, AskTidy
  <2> QED BY <2>2, <2>3
<1>3. CASE Runs(b) /\ Ran(b, n) /\ Paced(b, n)
  <2>1. b.active /\ ~b.cleaning
    BY <1>3 DEF Runs
  <2>2. Flying(aps, g, busy) = 0
        \/ (Flying(aps, g, busy) = 1 /\ b.rowTransition /\ b.rowInflight /\ ~b.rowEntered)
    BY <2>1 DEF Flight
  <2>3. CASE n.ask = <<>>
    <3>1. aps \o n.ask = aps
      BY <1>1, <2>3, SameKept
    <3>2. n.ask # <<Request("persistent", "no")>>
      BY <2>3, NotOne
    <3>3. Flight(n, aps, g, busy)
      BY <1>3, <2>2, <3>2 DEF Flight, Ran, Rows
    <3> QED BY <3>1, <3>3
  <2>4. CASE n.ask # <<>>
    <3>1. PICK q \in Postable : /\ n.ask = <<q>> /\ q.op \in {"pause", "persistent", "move", "sweep"}
                                /\ q.op = "persistent" => n.ask = <<Request("persistent", "no")>>
                                   /\ b.rowTransition /\ ~b.rowInflight
                                /\ q.op = "move" => n.ask = <<Request("move", "start")>>
      BY <1>3, <2>4, AsksAre
    <3>2. q.op = "move" => Flying(aps, g, busy) = 0
      BY <1>3, <2>2, <3>1 DEF Paced
    <3>3. Tidy(aps \o n.ask, g, busy, heater)
      BY <1>1, <3>1, <3>2, FlyingIs, AskTidy
    <3>4. Flying(aps \o n.ask, g, busy) = Flying(aps, g, busy) + (IF q.op = "persistent" THEN 1 ELSE 0)
      BY <1>1, <3>1, FlyingAsks
    <3>5. CASE q.op = "persistent"
      <4>1. Flying(aps \o n.ask, g, busy) = 1
        BY <2>2, <3>1, <3>4, <3>5
      <4>2. n.rowTransition /\ n.rowInflight /\ ~n.rowEntered
        BY <1>3, <3>1, <3>5 DEF Ran, Rows
      <4> QED BY <3>3, <4>1, <4>2 DEF Flight
    <3>6. CASE q.op # "persistent"
      <4>1. Flying(aps \o n.ask, g, busy) = Flying(aps, g, busy)
        BY <2>2, <3>4, <3>6
      <4>2. n.ask # <<Request("persistent", "no")>>
        BY <3>1, <3>6, NotPersistent
      <4>3. Flight(n, aps \o n.ask, g, busy)
        BY <1>3, <2>2, <4>1, <4>2 DEF Flight, Ran, Rows
      <4> QED BY <3>3, <4>3
    <3> QED BY <3>5, <3>6
  <2> QED BY <2>3, <2>4
<1> QED BY <1>2, <1>3 DEF Heeds

(* Another request comes behind the configuration. *)
LEMMA FrontedAsks ==
  ASSUME NEW a \in Seq(Postable), NEW g, NEW by, NEW q \in Postable, q.op # "configure", Fronted(a, g, by)
  PROVE  Fronted(a \o <<q>>, g, by)
<1>1. q \notin Configures
  BY Requested
<1>2. First(a, Configures, Connects) => First(a \o <<q>>, Configures, Connects)
  BY <1>1, FirstGrows
<1>3. None(a, Configures) => None(a \o <<q>>, Configures)
  BY <1>1, NoneGrows
<1> QED BY <1>2, <1>3 DEF Fronted

(* A handler leaves a series configured, or waits until it is. *)
LEMMA TurnOpening ==
  ASSUME World, NEW b, NEW g \in Seq(Signals), NEW n, Heeds(b, n) \/ Cleaned(b, n), lane \in Seq(Tasks),
         n.active /\ ~n.cleaning =>
             \/ n.stored /\ None(aps, Configures) /\ None(g, ConfiguredTold)
             \/ ~n.stored /\ EarlyOut(n) /\ lane = <<>> /\ Fronted(aps, g, busy)
  PROVE  Opening(n, aps \o n.ask, g, busy, lane \o n.do)
<1> SUFFICES ASSUME n.active, ~n.cleaning
             PROVE  Opening(n, aps \o n.ask, g, busy, lane \o n.do)
  BY DEF Opening
<1>1. aps \in Seq(Postable)
  BY DEF World
<1>2. Ran(b, n)
  BY DEF Heeds, Halts, Cleaned
<1>3. None(aps, Configures) => None(aps \o n.ask, Configures)
  <2>1. CASE n.ask = <<>>
    BY <1>1, <2>1, SameKept
  <2>2. CASE n.ask # <<>>
    <3>1. PICK q \in Postable : n.ask = <<q>> /\ q.op # "configure"
      BY <1>2, <2>2, AsksAre
    <3> QED BY <1>1, <3>1, NoneGrows, Requested
  <2> QED BY <2>1, <2>2
<1>4. Fronted(aps, g, busy) => Fronted(aps \o n.ask, g, busy)
  <2>1. CASE n.ask = <<>>
    BY <1>1, <2>1, SameKept
  <2>2. CASE n.ask # <<>>
    <3>1. PICK q \in Postable : n.ask = <<q>> /\ q.op # "configure"
      BY <1>2, <2>2, AsksAre
    <3> QED BY <1>1, <3>1, FrontedAsks
  <2> QED BY <2>1, <2>2
<1>5. CASE n.stored
  BY <1>3, <1>5 DEF Opening
<1>6. CASE ~n.stored
  <2>1. Early(n) /\ n.do = <<>> /\ lane = <<>>
    BY <1>6 DEF EarlyOut
  <2>2. lane \o n.do = <<>>
    BY <2>1, SameKept
  <2> QED BY <1>4, <1>6, <2>1, <2>2 DEF Opening
<1> QED BY <1>5, <1>6

(* What a handler asked for is posted when it returns. *)
LEMMA OrderPosted ==
  ASSUME NEW n, Typed(n), Becomes(n), Outside,
         Tidy(aps \o n.ask, gui', busy, heater) /\ Flight(n, aps \o n.ask, gui', busy),
         Opening(n, aps \o n.ask, gui', busy, lane \o n.do)
  PROVE  Order(c, aps, gui, busy, heater, lane)'
<1>1. c' = [n EXCEPT !.ask = <<>>, !.do = <<>>] /\ aps' = aps \o n.ask /\ lane' = lane \o n.do
      /\ busy' = busy /\ heater' = heater
  BY DEF Becomes, Outside
<1> DEFINE m == [n EXCEPT !.ask = <<>>, !.do = <<>>]
<1>2. m.active = n.active /\ m.cleaning = n.cleaning /\ m.stored = n.stored /\ m.phase = n.phase
      /\ m.hold = n.hold
  BY DEF Typed, Slots
<1>3. m.rowTransition = n.rowTransition /\ m.rowInflight = n.rowInflight /\ m.rowEntered = n.rowEntered
      /\ m.thermalHold = n.thermalHold
      /\ m.thermalPause = n.thermalPause
  BY DEF Typed, Slots
<1>4. c' = m
  BY <1>1
<1> HIDE DEF m
<1>5. Flight(m, aps', gui', busy')
  BY <1>1, <1>3, <1>2 DEF Flight
<1>6. Opening(m, aps', gui', busy', lane')
  BY <1>1, <1>3, <1>2 DEF Opening, Early
<1>7. Tidy(aps', gui', busy', heater')
  BY <1>1
<1> QED BY <1>4, <1>5, <1>6, <1>7 DEF Order

(* The clearance is given by one handler only. *)
LEMMA DoneKept ==
  ASSUME NEW n, Typed(n), Becomes(n), n.shutdownDone => c.shutdownDone
  PROVE  Cleared
<1>1. c' = [n EXCEPT !.ask = <<>>, !.do = <<>>]
  BY DEF Becomes
<1>2. c'.shutdownDone = n.shutdownDone
  BY <1>1 DEF Typed, Slots
<1> QED BY <1>2 DEF Cleared

-----------------------------------------------------------------------------
(* The steps of the GUI, again.                                            *)

(* A step of a running series, without what held it. *)
Went(k, n) == (Ran(k, n) /\ Paced(k, n)) \/ Cleaned(k, n)

(* What a handler makes of a running series is one. *)
LEMMA OutWent ==
  ASSUME NEW k, NEW n, Out(k, n)
  PROVE  Went(k, n)
BY DEF Out, Went

(* And heeds the order. *)
LEMMA OutHeeds ==
  ASSUME NEW k, NEW n, Runs(k), Went(k, n)
  PROVE  Heeds(k, n) /\ Typed(n) /\ n.stored = k.stored /\ n.shutdownDone = k.shutdownDone
<1>1. CASE Ran(k, n) /\ Paced(k, n)
  BY <1>1 DEF Heeds, Ran, Runs, Frame
<1>2. CASE Cleaned(k, n)
  <2>1. Modest(n)
    BY <1>2, RequestsAre DEF Cleaned, PauseTo, Modest
  <2>2. Typed(n) /\ n.cleaning /\ n.stored = k.stored /\ n.shutdownDone = k.shutdownDone
    BY <1>2 DEF Cleaned, Frame
  <2> QED BY <2>1, <2>2 DEF Heeds, Halts
<1> QED BY <1>1, <1>2 DEF Went

(* A handler that takes no answer. *)
LEMMA AloneOrder ==
  ASSUME Sound1, Order(c, aps, gui, busy, heater, lane), NEW n, Becomes(n), Outside, gui' = gui, Typed(n),
         Heeds(c, n), n.shutdownDone => c.shutdownDone,
         n.active /\ ~n.cleaning => Runs(c) /\ n.stored = c.stored /\ (Early(c) => EarlyOut(n))
  PROVE  Step2
<1>1. World /\ gui \in Seq(Signals) /\ lane \in Seq(Tasks)
  BY DEF Sound1, Law, Lawful, Typing
<1>2. Tidy(aps, gui, busy, heater) /\ Flight(c, aps, gui, busy) /\ Opening(c, aps, gui, busy, lane)
  BY DEF Order
<1>3. Tidy(aps \o n.ask, gui, busy, heater) /\ Flight(n, aps \o n.ask, gui, busy)
  BY <1>1, <1>2, TurnOrder
<1>4. Opening(n, aps \o n.ask, gui, busy, lane \o n.do)
  <2>1. n.active /\ ~n.cleaning =>
             \/ n.stored /\ None(aps, Configures) /\ None(gui, ConfiguredTold)
             \/ ~n.stored /\ EarlyOut(n) /\ lane = <<>> /\ Fronted(aps, gui, busy)
    BY <1>2 DEF Opening, Runs
  <2> QED BY <1>1, <2>1, TurnOpening
<1>5. Order(c, aps, gui, busy, heater, lane)'
  BY <1>3, <1>4, OrderPosted
<1> QED BY <1>5, DoneKept DEF Step2, Sound2

(* To do nothing heeds the order. *)
LEMMA StandsOrder ==
  ASSUME Sound1, ~(c.active /\ ~c.cleaning)
  PROVE  Heeds(c, c) /\ Typed(c)
<1>1. Typed(c) /\ Silent(c)
  BY DEF Sound1, Law, Lawful, Typing
<1> QED BY <1>1 DEF Heeds, Halts, Modest, Silent

(* A handler that takes no answer, of a series that runs or of none. *)
LEMMA AloneOut ==
  ASSUME Sound1, Order(c, aps, gui, busy, heater, lane), NEW n, Becomes(n), Outside, gui' = gui,
         c.active /\ ~c.cleaning => Went(c, n) /\ (Early(c) => EarlyOut(n)),
         ~(c.active /\ ~c.cleaning) => n = c
  PROVE  Step2
<1>1. CASE c.active /\ ~c.cleaning
  <2>1. Runs(c)
    BY <1>1, RunsAre DEF Sound1
  <2>2. Heeds(c, n) /\ Typed(n) /\ n.stored = c.stored /\ n.shutdownDone = c.shutdownDone
    BY <1>1, <2>1, OutHeeds
  <2> QED BY <1>1, <2>1, <2>2, AloneOrder
<1>2. CASE ~(c.active /\ ~c.cleaning)
  <2>1. n = c
    BY <1>2
  <2>2. Heeds(c, n) /\ Typed(n)
    BY <1>2, <2>1, StandsOrder
  <2> QED BY <1>2, <2>1, <2>2, AloneOrder
<1> QED BY <1>1, <1>2

(* A field is published. *)
LEMMA SnapshotOrder ==
  ASSUME Sound1, Order(c, aps, gui, busy, heater, lane), Snapshot
  PROVE  Step2
<1> DEFINE n == SnapshotHandled(c, reading)
<1>1. Becomes(n) /\ gui' = gui /\ Outside
  BY DEF Snapshot
<1>2. c.active /\ ~c.cleaning => Out(c, n) /\ (Early(c) => EarlyOut(n))
  BY RunsAre, LSnapshotHandled, ESnapshotHandled DEF Sound1, Law, Lawful, Pending
<1>3. ~(c.active /\ ~c.cleaning) => n = c
  BY DEF SnapshotHandled
<1> HIDE DEF n
<1> QED BY <1>1, <1>2, <1>3, OutWent, AloneOut

(* A temperature is published. *)
LEMMA LakeSnapshotOrder ==
  ASSUME Sound1, Order(c, aps, gui, busy, heater, lane), LakeSnapshot
  PROVE  Step2
<1> DEFINE n == LakeHandled(c)
<1>1. Becomes(n) /\ gui' = gui /\ Outside
  BY DEF LakeSnapshot
<1>2. c.active /\ ~c.cleaning => Out(c, n) /\ (Early(c) => EarlyOut(n))
  BY RunsAre, LLakeHandled, ELakeHandled DEF Sound1
<1>3. ~(c.active /\ ~c.cleaning) => n = c
  BY DEF LakeHandled
<1> HIDE DEF n
<1> QED BY <1>1, <1>2, <1>3, OutWent, AloneOut

(* The watchdog's timer. *)
LEMMA WatchdogOrder ==
  ASSUME Sound1, Order(c, aps, gui, busy, heater, lane), Watchdog
  PROVE  Step2
<1> DEFINE n == WatchdogHandled(c)
<1>1. Becomes(n) /\ gui' = gui /\ Outside
  BY DEF Watchdog
<1>2. c.active /\ ~c.cleaning => Out(c, n) /\ (Early(c) => EarlyOut(n))
  BY RunsAre, LWatchdogHandled, EWatchdogHandled DEF Sound1
<1>3. ~(c.active /\ ~c.cleaning) => n = c
  BY DEF WatchdogHandled
<1> HIDE DEF n
<1> QED BY <1>1, <1>2, <1>3, OutWent, AloneOut

(* A series fails. *)
LEMMA RunFailsOrder ==
  ASSUME Sound1, Order(c, aps, gui, busy, heater, lane), RunFails
  PROVE  Step2
<1>1. PICK f : f \in {"unchanged", "persistent"} /\ Adverse(Fail(c, f))
  BY DEF RunFails
<1> DEFINE n == Fail(c, f)
<1>2. Becomes(n) /\ gui' = gui /\ Outside /\ c.active /\ ~c.cleaning
  BY <1>1 DEF RunFails, Adverse
<1>3. Out(c, n) /\ (Early(c) => EarlyOut(n))
  BY <1>2, RunsAre, FailCleans, EFail DEF Sound1, Out
<1> HIDE DEF n
<1> QED BY <1>2, <1>3, OutWent, AloneOut

(* The monitoring is lost. *)
LEMMA MonitoringLostOrder ==
  ASSUME Sound1, Order(c, aps, gui, busy, heater, lane), MonitoringLost
  PROVE  Step2
<1> DEFINE n == BeginHold(c)
<1>2. Becomes(n) /\ gui' = gui /\ Outside /\ c.active /\ ~c.cleaning
  BY DEF MonitoringLost, Adverse
<1>3. Out(c, n) /\ (Early(c) => EarlyOut(n))
  BY <1>2, RunsAre, LBeginHold, EBeginHold DEF Sound1
<1> HIDE DEF n
<1> QED BY <1>2, <1>3, OutWent, AloneOut

(* The operator continues. *)
LEMMA ContinueOrder ==
  ASSUME Sound1, Order(c, aps, gui, busy, heater, lane), Continue
  PROVE  Step2
<1> DEFINE n == Resume(c, TRUE)
<1>1. Becomes(n) /\ gui' = gui /\ Outside
  BY DEF Continue
<1>2. CASE c.active /\ ~c.cleaning
  <2>1. Went(c, n) /\ (Early(c) => EarlyOut(n))
    BY <1>2, RunsAre, LResume, EResume DEF Sound1, Went
  <2> HIDE DEF n
  <2> QED BY <1>1, <1>2, <2>1, AloneOut
<1>3. CASE ~(c.active /\ ~c.cleaning)
  <2>1. n = [c EXCEPT !.button = FALSE]
    BY <1>3 DEF Resume
  <2>2. Typed(c) /\ Silent(c)
    BY DEF Sound1, Law, Lawful, Typing
  <2> HIDE DEF n
  <2>3. Typed(n) /\ n.active = c.active /\ n.cleaning = c.cleaning /\ n.ask = <<>>
        /\ n.shutdownDone = c.shutdownDone
    BY <2>1, <2>2 DEF Typed, Slots, Silent
  <2>4. Heeds(c, n)
    BY <1>3, <2>3 DEF Heeds, Halts, Modest
  <2> QED BY <1>1, <1>3, <2>3, <2>4, AloneOrder
<1> QED BY <1>2, <1>3

(* The wait between two conditions is over. *)
LEMMA RowCooledOrder ==
  ASSUME Sound1, Order(c, aps, gui, busy, heater, lane), RowCooled
  PROVE  Step2
<1> DEFINE n == [c EXCEPT !.rowCooling = FALSE]
<1>1. c' = n /\ aps' = aps /\ gui' = gui /\ lane' = lane /\ busy' = busy /\ heater' = heater
  BY DEF RowCooled, magnetVars
<1>2. Typed(c)
  BY DEF Sound1, Law, Lawful, Typing
<1>3. n.active = c.active /\ n.cleaning = c.cleaning /\ n.stored = c.stored /\ n.phase = c.phase
      /\ n.hold = c.hold
  BY <1>2 DEF Typed, Slots
<1>4. n.rowTransition = c.rowTransition /\ n.rowInflight = c.rowInflight /\ n.rowEntered = c.rowEntered
      /\ n.thermalHold = c.thermalHold
      /\ n.thermalPause = c.thermalPause /\ n.shutdownDone = c.shutdownDone
  BY <1>2 DEF Typed, Slots
<1> HIDE DEF n
<1>5. Order(n, aps, gui, busy, heater, lane)
  BY <1>3, <1>4 DEF Order, Flight, Opening, Early
<1> QED BY <1>1, <1>4, <1>5 DEF Step2, Sound2, Cleared

(* The close is called off. *)
LEMMA CloseRejectedOrder ==
  ASSUME Sound1, Order(c, aps, gui, busy, heater, lane), CloseRejected
  PROVE  Step2
<1> DEFINE n == [c EXCEPT !.shutdownDone = FALSE]
<1>1. Becomes(n) /\ gui' = gui /\ Outside
  BY DEF CloseRejected
<1>2. Typed(c) /\ Silent(c) /\ aps \in Seq(Postable) /\ lane \in Seq(Tasks)
  BY DEF Sound1, Law, Lawful, Typing, World
<1>3. n.active = c.active /\ n.cleaning = c.cleaning /\ n.stored = c.stored /\ n.phase = c.phase
      /\ n.hold = c.hold
  BY <1>2 DEF Typed, Slots
<1>4. n.rowTransition = c.rowTransition /\ n.rowInflight = c.rowInflight /\ n.rowEntered = c.rowEntered
      /\ n.thermalHold = c.thermalHold
      /\ n.thermalPause = c.thermalPause /\ ~n.shutdownDone
  BY <1>2 DEF Typed, Slots
<1>6. Typed(n) /\ n.ask = <<>> /\ n.do = <<>>
  BY <1>2 DEF Typed, Slots, Silent
<1> HIDE DEF n
<1>5. Order(n, aps, gui, busy, heater, lane)
  BY <1>3, <1>4 DEF Order, Flight, Opening, Early
<1>7. aps \o n.ask = aps /\ lane \o n.do = lane
  BY <1>2, <1>6, SameKept
<1>8. Order(c, aps, gui, busy, heater, lane)'
  BY <1>1, <1>5, <1>6, <1>7, OrderPosted DEF Order
<1> QED BY <1>1, <1>4, <1>6, <1>8, DoneKept DEF Step2, Sound2

(* STOP, of a run or of its cleanup. *)
LEMMA StopRunOrder ==
  ASSUME Sound1, Order(c, aps, gui, busy, heater, lane), NEW n, Becomes(n), Outside, gui' = gui,
         (c.cleaning /\ n = ForcePersistent(c))
         \/ (c.active /\ ~c.cleaning /\ n = Cleanup(c, "stopped", "persistent"))
  PROVE  Step2
<1>1. CASE c.active /\ ~c.cleaning /\ n = Cleanup(c, "stopped", "persistent")
  <2>1. Runs(c) /\ Silent(c)
    BY <1>1, RunsAre DEF Sound1
  <2>2. Cleaned(c, n)
    BY <1>1, <2>1, CleanupCleans DEF Runs
  <2>3. EarlyOut(n)
    BY <2>2 DEF Cleaned, EarlyOut
  <2> QED BY <1>1, <2>2, <2>3, AloneOut DEF Went
<1>2. CASE c.cleaning /\ n = ForcePersistent(c)
  <2>1. Cleans(c)
    BY <1>2, Three DEF Runs, Idles, Sound1
  <2>2. Posts(c, n, "persistent") \/ Sits(c, n)
    BY <1>2, <2>1, CForce
  <2>3. Modest(n)
    BY <2>2, RequestsAre DEF Posts, Sits, Modest
  <2>4. Typed(n) /\ n.cleaning /\ n.shutdownDone = c.shutdownDone
    BY <2>2 DEF Posts, Sits, Remains, Owns, Tended
  <2>5. Heeds(c, n)
    BY <2>3, <2>4 DEF Heeds, Halts
  <2> QED BY <2>4, <2>5, AloneOrder
<1> QED BY <1>1, <1>2

(* The operator stops. *)
LEMMA StopOrder ==
  ASSUME Sound1, Order(c, aps, gui, busy, heater, lane), Stop
  PROVE  Step2
<1> DEFINE n == StopRun(c)
<1>1. Becomes(n) /\ gui' = gui /\ Outside
  BY DEF Stop
<1>2. (c.cleaning /\ n = ForcePersistent(c))
      \/ (c.active /\ ~c.cleaning /\ n = Cleanup(c, "stopped", "persistent"))
  BY DEF Stop, StopRun
<1> HIDE DEF n
<1> QED BY <1>1, <1>2, StopRunOrder

(* The application is to close. *)
LEMMA CloseOrder ==
  ASSUME Sound1, Order(c, aps, gui, busy, heater, lane), Close
  PROVE  Step2
<1> DEFINE n == PrepareShutdown(c)
<1>1. Becomes(n) /\ gui' = gui /\ Outside
  BY DEF Close
<1>2. CASE c.cleaning \/ c.active
  <2>1. (c.cleaning /\ n = ForcePersistent(c))
        \/ (c.active /\ ~c.cleaning /\ n = Cleanup(c, "stopped", "persistent"))
    BY <1>2 DEF PrepareShutdown
  <2> HIDE DEF n
  <2> QED BY <1>1, <2>1, StopRunOrder
<1>3. CASE ~c.cleaning /\ ~c.active
  <2>1. Typed(c) /\ Silent(c)
    BY DEF Sound1, Law, Lawful, Typing
  <2>2. n = c \/ n = Ask([c EXCEPT !.shutdownExclusive = TRUE, !.shutdownWaiting = TRUE],
        Request("persistent", "no"))
    BY <1>3 DEF PrepareShutdown
  <2> HIDE DEF n
  <2>3. Typed(n) /\ ~n.active /\ ~n.cleaning /\ n.shutdownDone = c.shutdownDone
    <3>1. CASE n = c
      BY <1>3, <2>1, <3>1
    <3>2. CASE n = Ask([c EXCEPT !.shutdownExclusive = TRUE, !.shutdownWaiting = TRUE],
               Request("persistent", "no"))
      BY <1>3, <2>1, <3>2 DEF Ask, Typed, Slots
    <3> QED BY <2>2, <3>1, <3>2
  <2>4. n.ask = <<>> \/ n.ask = <<Request("persistent", "no")>>
    BY <2>1, <2>2, One DEF Ask, Typed, Slots, Silent
  <2>5. Modest(n)
    BY <2>4, RequestsAre DEF Modest
  <2> QED BY <1>1, <2>3, <2>5, AloneOrder DEF Heeds, Halts
<1> QED BY <1>2, <1>3

(* The files are written. *)
LEMMA SavedOrder ==
  ASSUME Sound1, Order(c, aps, gui, busy, heater, lane), Saved
  PROVE  Step2
<1> DEFINE n == Release([c EXCEPT !.saving = FALSE, !.lanes = FALSE])
<1>1. Becomes(n) /\ gui' = gui /\ Outside
  BY DEF Saved
<1>2. Typed(c) /\ Silent(c)
  BY DEF Sound1, Law, Lawful, Typing
<1> HIDE DEF n
<1>3. Typed(n) /\ n.ask = <<>> /\ n.shutdownDone = c.shutdownDone
  BY <1>2 DEF Typed, Slots, Silent, n, Release, Phases
<1>4. ~n.active /\ ~n.cleaning
  BY <1>2 DEF Typed, Slots, n, Release
<1> QED BY <1>1, <1>3, <1>4, AloneOrder DEF Heeds, Halts, Modest

(* A series begins: with nothing left of an earlier one, or cut. *)
LEMMA StartOrder ==
  ASSUME Sound1, NEW round \in BOOLEAN, NEW row \in BOOLEAN, Start(round, row)
  PROVE  Step2
<1> DEFINE k == [Controller EXCEPT !.active = TRUE, !.round = round, !.row = row,
                        !.phase = "configuring", !.claimed = TRUE, !.exclusive = TRUE, !.lanes = TRUE]
           q == Request("configure", "no")
           n == Ask(k, q)
<1>1. Becomes(n) /\ gui' = gui /\ Outside /\ cut' = ~Drained
  BY DEF Start
<1>2. Typed(k) /\ k.ask = <<>> /\ k.do = <<>>
  BY Fresh DEF Typed, Slots, Phases
<1>3. /\ k.active /\ ~k.cleaning /\ ~k.stored /\ ~k.rowTransition /\ k.phase = "configuring"
      /\ ~k.thermalHold /\ ~k.shutdownDone
      /\ k.hold = NoHold
  BY Fresh DEF Controller
<1> HIDE DEF k
<1>4. Typed(n) /\ n.do = <<>>
  BY <1>2 DEF Ask, Typed, Slots
<1>5. n.ask = <<q>>
  BY <1>2, One DEF Ask, Typed, Slots
<1>6. /\ n.active /\ ~n.cleaning /\ ~n.stored /\ ~n.rowTransition /\ n.phase = "configuring"
      /\ ~n.thermalHold /\ ~n.shutdownDone
      /\ n.hold = NoHold
  BY <1>2, <1>3 DEF Ask, Typed, Slots
<1> HIDE DEF n
<1>7. q \in Postable /\ q.op = "configure"
  BY RequestsAre
<1> HIDE DEF q
<1>8. Cleared
  BY <1>1, <1>4, <1>6, DoneKept
<1>9. CASE ~Drained
  BY <1>1, <1>8, <1>9 DEF Step2, Sound2
<1>10. CASE Drained
  <2>1. World /\ aps \in Seq(Postable) /\ gui \in Seq(Signals) /\ lane = <<>> /\ busy = "no"
    BY <1>10 DEF Sound1, Law, Lawful, Typing, World, Drained
  <2>2. \A i \in 1..Len(aps) : aps[i] \in Postable /\ aps[i].op = "connect"
    BY <1>10, <2>1, LenProperties, ElementOfSeq DEF Drained
  <2>3. \A i \in 1..Len(gui) : gui[i] \in Signals /\ gui[i].kind \in {"error", "disconnected"}
    BY <1>10, <2>1, LenProperties, ElementOfSeq DEF Drained
  <2>4. Only(aps, Connects) /\ None(aps, Configures) /\ None(aps, Persistents) /\ None(aps, Motions)
    BY <2>2 DEF Only, None, Connects, Configures, Persistents, Motions
  <2>5. Only(gui, Asides) /\ None(gui, PersistentOver) /\ None(gui, PersistentTold)
    BY <2>3 DEF Only, None, Asides, PersistentOver, PersistentTold
  <2>6. Behind(aps, Persistents, Motions)
    BY <2>4 DEF Behind, None
  <2>7. Tidy(aps, gui, busy, heater)
    BY <2>1, <2>5, <2>6 DEF Tidy
  <2>8. Tidy(aps \o n.ask, gui, busy, heater)
    BY <1>5, <1>7, <2>1, <2>7, AskTidy
  <2>9. Flying(aps, gui, busy) = 0
    BY <2>1, <2>4, <2>5, FlyingIs
  <2>10. Flying(aps \o n.ask, gui, busy) = 0
    BY <1>5, <1>7, <2>1, <2>9, FlyingAsks
  <2>11. Flight(n, aps \o n.ask, gui, busy)
    BY <2>10 DEF Flight
  <2>12. First(aps \o n.ask, Configures, Connects)
    BY <1>5, <1>7, <2>1, <2>4, FirstComes, Requested
  <2>13. lane \o n.do = <<>>
    BY <1>4, <2>1, SameKept
  <2>14. Early(n)
    BY <1>6 DEF Early, NoHold
  <2>15. Opening(n, aps \o n.ask, gui, busy, lane \o n.do)
    BY <1>6, <2>1, <2>5, <2>12, <2>13, <2>14 DEF Opening, Fronted
  <2>16. Order(c, aps, gui, busy, heater, lane)'
    BY <1>1, <1>4, <2>8, <2>11, <2>15, OrderPosted
  <2> QED BY <1>8, <2>16 DEF Step2, Sound2
<1> QED BY <1>9, <1>10

(* A series fails to begin. *)
LEMMA StartFailsOrder ==
  ASSUME Sound1, StartFails
  PROVE  Step2
<1> DEFINE k == [Controller EXCEPT !.exclusive = TRUE, !.claimed = TRUE]
           d == Cleanup(k, "failed", "persistent")
           n == [d EXCEPT !.zeroed = TRUE, !.do = <<>>]
<1>1. Becomes(n) /\ gui' = gui /\ Outside /\ cut' = ~Drained
  BY DEF StartFails
<1>2. Typed(k) /\ k.ask = <<>> /\ k.do = <<>>
  BY Fresh DEF Typed, Slots, Phases
<1>3. ~k.active /\ ~k.cleaning /\ k.claimed /\ ~k.shutdownDone
  BY Fresh DEF Controller
<1> HIDE DEF k
<1>4. Typed(d) /\ d.cleaning /\ ~d.shutdownDone
  BY <1>2, <1>3, C3 DEF Cleanup, Ask, Do, Typed, Slots, Phases, Waits
<1>5. d.ask = <<Request("pause", "user")>>
  BY <1>2, <1>3, One DEF Cleanup, Ask, Do, Typed, Slots
<1> HIDE DEF d
<1>6. Typed(n) /\ n.cleaning /\ ~n.shutdownDone /\ n.ask = d.ask
  BY <1>4 DEF Typed, Slots
<1> HIDE DEF n
<1>7. Halts(n)
  BY <1>5, <1>6, RequestsAre DEF Halts, Modest
<1>8. Cleared
  BY <1>1, <1>6, DoneKept
<1>9. CASE ~Drained
  BY <1>1, <1>8, <1>9 DEF Step2, Sound2
<1>10. CASE Drained
  <2>1. World /\ aps \in Seq(Postable) /\ gui \in Seq(Signals) /\ lane = <<>> /\ busy = "no"
    BY <1>10 DEF Sound1, Law, Lawful, Typing, World, Drained
  <2>2. \A i \in 1..Len(aps) : aps[i] \in Postable /\ aps[i].op = "connect"
    BY <1>10, <2>1, LenProperties, ElementOfSeq DEF Drained
  <2>3. \A i \in 1..Len(gui) : gui[i] \in Signals /\ gui[i].kind \in {"error", "disconnected"}
    BY <1>10, <2>1, LenProperties, ElementOfSeq DEF Drained
  <2>4. None(aps, Persistents) /\ None(aps, Motions)
    BY <2>2 DEF None, Persistents, Motions
  <2>5. None(gui, PersistentOver) /\ None(gui, PersistentTold)
    BY <2>3 DEF None, PersistentOver, PersistentTold
  <2>7. Tidy(aps, gui, busy, heater)
    BY <2>1, <2>4, <2>5 DEF Tidy, Behind, None
  <2>9. Flight(c, aps, gui, busy)
    BY <2>1, <2>4, <2>5, FlyingIs DEF Flight
  <2>10. Tidy(aps \o n.ask, gui, busy, heater) /\ Flight(n, aps \o n.ask, gui, busy)
    BY <1>7, <2>1, <2>7, <2>9, TurnOrder DEF Heeds
  <2>15. Opening(n, aps \o n.ask, gui, busy, lane \o n.do)
    BY <1>6 DEF Opening
  <2>16. Order(c, aps, gui, busy, heater, lane)'
    BY <1>1, <1>6, <2>10, <2>15, OrderPosted
  <2> QED BY <1>8, <2>16 DEF Step2, Sound2
<1> QED BY <1>9, <1>10

(* What is known of a signal. *)
LEMMA SignalsAre2 ==
  ASSUME NEW s \in Signals
  PROVE  /\ s \in PersistentTold <=> s.kind = "operation" /\ s.name = "persistent"
         /\ s \in PersistentOver <=> s.kind = "operation" /\ s.name \in {"persistent", "failed:persistent"}
         /\ s \in ConfiguredTold <=> s.kind = "configured"
         /\ s \in Asides <=> s.kind \in {"error", "disconnected"}
BY DEF PersistentTold, PersistentOver, ConfiguredTold, Asides

(* What taking an answer leaves alone. *)
LEMMA BaseIs ==
  ASSUME NEW k, NEW s, Typed(k)
  PROVE  LET b == Base(k, s)
         IN  /\ b.active = k.active /\ b.cleaning = k.cleaning /\ b.shutdownDone = k.shutdownDone
             /\ b.stored = (k.stored \/ (s.kind = "configured" /\ s.ok /\ k.active)) \/ b.stored = k.stored
             /\ s.kind # "configured" => b.stored = k.stored
             /\ (s.kind = "configured" /\ s.ok /\ k.active) => b.stored
             /\ k.stored => b.stored
             /\ b.rowTransition = k.rowTransition /\ b.rowInflight = k.rowInflight
             /\ ~(s.kind = "operation" /\ s.name = "persistent") => b.rowEntered = k.rowEntered
BY DEF Base, Typed, Slots

(* An answer taken is no longer under way. *)
LEMMA DeliverFlight ==
  ASSUME World, NEW g \in Seq(Signals), g # <<>>, NEW k, Typed(k), Tidy(aps, g, busy, heater),
         Flight(k, aps, g, busy)
  PROVE  Tidy(aps, Tail(g), busy, heater) /\ Flight(Base(k, Head(g)), aps, Tail(g), busy)
<1> DEFINE s == Head(g)
           t == Tail(g)
           b == Base(k, s)
<1>1. s \in Signals /\ t \in Seq(Signals) /\ aps \in Seq(Postable)
  BY Shrinks DEF World
<1>2. None(g, PersistentTold) => None(t, PersistentTold)
  BY NoneShrinks
<1>3. Tidy(aps, t, busy, heater)
  BY <1>2 DEF Tidy
<1>4. Count(g, PersistentOver) = Count(t, PersistentOver) + (IF s \in PersistentOver THEN 1 ELSE 0)
  BY CountShrinks
<1>5. Count(t, PersistentOver) \in Nat /\ Count(aps, Persistents) \in Nat
  BY <1>1, MarkedFinite
<1>6. Flying(aps, g, busy) = Flying(aps, t, busy) + (IF s \in PersistentOver THEN 1 ELSE 0)
      /\ Flying(aps, t, busy) \in Nat
  BY <1>4, <1>5 DEF Flying
<1>7. b.active = k.active /\ b.cleaning = k.cleaning /\ b.rowTransition = k.rowTransition
      /\ b.rowInflight = k.rowInflight
  BY BaseIs
<1>8. s \notin PersistentOver => b.rowEntered = k.rowEntered
  BY <1>1, SignalsAre2, BaseIs
<1> HIDE DEF s, t, b
<1>9. Flight(b, aps, t, busy)
  BY <1>6, <1>7, <1>8 DEF Flight
<1> QED BY <1>3, <1>9 DEF s, t, b

(* The clearance is given for the answer that the magnet is persistent. *)
LEMMA DeliverCleared ==
  ASSUME Sound1, Sound2, Deliver
  PROVE  Cleared
<1> DEFINE s == Head(gui)
           b == Base(c, s)
           n == Handled(s)
<1>1. gui # <<>> /\ Becomes(n)
  BY DEF Deliver
<1>2. Delivers(s, n) /\ Typed(c) /\ gui \in Seq(Signals)
  BY <1>1, HandledDelivers DEF Sound1, Law, Lawful, Typing
<1>3. b.shutdownDone = c.shutdownDone
  BY <1>2, BaseIs
<1>4. s \in Signals
  BY <1>1, <1>2, Shrinks
<1> HIDE DEF s, b, n
<1>5. Typed(n) /\ (n.shutdownDone = b.shutdownDone \/ (s.kind = "operation" /\ s.name = "persistent"))
  BY <1>2, <1>3 DEF Delivers, Ran, Runs, Frame, Cleaned, Sits, Posts, Concludes, Awaits, Saves,
     Leaves, Remains, Tended, Rests, b
<1>6. CASE n.shutdownDone = b.shutdownDone
  BY <1>1, <1>3, <1>5, <1>6, DoneKept
<1>7. CASE s.kind = "operation" /\ s.name = "persistent"
  <2>1. s \in PersistentTold
    BY <1>4, <1>7, SignalsAre2
  <2>2. ~None(gui, PersistentTold)
    BY <1>1, <1>2, <2>1, NoneShrinks DEF s
  <2> QED BY <2>2 DEF Sound2, Order, Tidy, Cleared
<1> QED BY <1>5, <1>6, <1>7

(* The GUI takes an answer. *)
LEMMA DeliverOrder ==
  ASSUME Sound1, Sound2, Deliver
  PROVE  Step2
<1> DEFINE s == Head(gui)
           b == Base(c, s)
           n == Handled(s)
           t == Tail(gui)
<1>1. gui # <<>> /\ gui' = t /\ Becomes(n) /\ Outside /\ cut' = (cut \/ Cuts(s))
  BY DEF Deliver
<1>2. Delivers(s, n) /\ Typed(c) /\ gui \in Seq(Signals) /\ World /\ lane \in Seq(Tasks) /\ Silent(c)
      /\ Owning(c, runs)
  BY <1>1, HandledDelivers DEF Sound1, Law, Lawful, Typing
<1>3. CASE cut'
  BY <1>3, DeliverCleared DEF Step2, Sound2
<1>4. CASE ~cut'
  <2>1. Order(c, aps, gui, busy, heater, lane) /\ ~Cuts(s)
    BY <1>1, <1>4 DEF Sound2
  <2>2. /\ b.active = c.active /\ b.cleaning = c.cleaning /\ b.shutdownDone = c.shutdownDone
        /\ s.kind # "configured" => b.stored = c.stored
        /\ (s.kind = "configured" /\ s.ok /\ c.active) => b.stored
        /\ c.stored => b.stored
    BY <1>2, BaseIs
  <2>3. s \in Signals /\ t \in Seq(Signals)
    BY <1>1, <1>2, Shrinks
  <2>4. ~(c.cleaning /\ Moves(n.ask))
    BY <2>1 DEF Cuts
  <2>5. s.kind = "configured" /\ ~s.ok /\ c.active /\ ~c.cleaning => n.cleaning
    <3> SUFFICES ASSUME s.kind = "configured", ~s.ok, c.active, ~c.cleaning PROVE n.cleaning
      OBVIOUS
    <3>1. n = Fail(c, "persistent")
      BY DEF Handled, Configured
    <3>2. Cleaned(c, n)
      BY <3>1, RunsAre, FailCleans DEF Sound1
    <3> QED BY <3>2 DEF Cleaned
  <2>6. s.kind \in {"error", "disconnected"} /\ c.active /\ ~c.cleaning /\ Early(c) => EarlyOut(n)
    <3> SUFFICES ASSUME s.kind \in {"error", "disconnected"}, c.active, ~c.cleaning, Early(c) PROVE EarlyOut(n)
      OBVIOUS
    <3>1. Runs(c) /\ ~c.shutdownWaiting
      BY <1>2, RunsAre DEF Sound1, Owning
    <3> QED BY <1>2, <3>1, EMagnetError, EMagnetDisconnected DEF Handled
  <2>7. Tidy(aps, gui, busy, heater) /\ Flight(c, aps, gui, busy) /\ Opening(c, aps, gui, busy, lane)
    BY <2>1 DEF Order
  <2>8. Tidy(aps, t, busy, heater) /\ Flight(b, aps, t, busy)
    BY <1>1, <1>2, <2>7, DeliverFlight
  <2>9. c.active /\ ~c.cleaning /\ c.stored => None(aps, Configures) /\ None(gui, ConfiguredTold)
        /\ None(t, ConfiguredTold) /\ s.kind # "configured"
    <3>1. None(gui, ConfiguredTold) => None(t, ConfiguredTold) /\ s \notin ConfiguredTold
      BY <1>1, <1>2, NoneShrinks
    <3> QED BY <2>3, <2>7, <3>1, SignalsAre2 DEF Opening
  <2>10. c.active /\ ~c.cleaning /\ ~c.stored =>
            /\ Early(c) /\ lane = <<>>
            /\ \/ s.kind \in {"error", "disconnected"} /\ Fronted(aps, t, busy)
               \/ s.kind = "configured" /\ None(aps, Configures) /\ None(t, ConfiguredTold)
    <3>1. Only(gui, Asides) => s \in Asides /\ Only(t, Asides)
      BY <1>1, <1>2, OnlyShrinks
    <3>2. First(gui, ConfiguredTold, Asides) => (s \in ConfiguredTold /\ None(t, ConfiguredTold))
          \/ (s \in Asides /\ First(t, ConfiguredTold, Asides))
      BY <1>1, <1>2, FirstShrinks
    <3> QED BY <2>3, <2>7, <3>1, <3>2, SignalsAre2 DEF Opening, Fronted
  <2> HIDE DEF s, b, n, t
  <2>11. s.kind # "configured" \/ ~c.rowTransition \/ ~(c.active /\ ~c.cleaning)
    BY <2>9, <2>10 DEF Early
  <2>12. Heeds(b, n) /\ Typed(n)
    <3>1. CASE Runs(b) /\ Ran(b, n)
      <4>1. c.active /\ ~c.cleaning
        BY <2>2, <3>1 DEF Runs
      <4>2. Paced(b, n)
        BY <1>2, <2>11, <3>1, <4>1 DEF Delivers, Cleaned, Ran, Runs, Cleans, Idles, b
      <4> QED BY <3>1, <4>2 DEF Heeds, Ran, Runs
    <3>2. CASE Cleaned(b, n)
      BY <3>2, RequestsAre DEF Heeds, Halts, Modest, Cleaned, Frame, PauseTo
    <3>3. CASE Cleans(b) /\ (Sits(b, n) \/ Posts(b, n, "persistent") \/ Posts(b, n, "restore"))
      <4>1. Modest(n)
        BY <3>3, RequestsAre DEF Modest, Sits, Posts
      <4> QED BY <3>3, <4>1 DEF Heeds, Halts, Sits, Posts, Remains, Tended, Owns
    <3>4. CASE Cleans(b) /\ n.ask = <<Request("move", "start")>>
      <4>1. Moves(n.ask)
        BY <3>4, Going DEF Goes
      <4> QED BY <2>2, <2>4, <3>4, <4>1 DEF Cleans
    <3>5. CASE Cleans(b) /\ Concludes(b, n)
      BY <3>5 DEF Heeds, Halts, Modest, Concludes, Awaits, Saves, Leaves, Remains, Tended, Owns
    <3>6. CASE Idles(b) /\ Rests(b, n)
      <4>1. Modest(n) /\ Typed(n) /\ ~n.active
        BY <3>6 DEF Rests, Modest
      <4> QED BY <4>1 DEF Heeds, Halts
    <3> QED BY <1>2, <3>1, <3>2, <3>3, <3>4, <3>5, <3>6 DEF Delivers, b
  <2>13. Tidy(aps \o n.ask, t, busy, heater) /\ Flight(n, aps \o n.ask, t, busy)
    BY <1>2, <2>3, <2>8, <2>12, TurnOrder
  <2>14. n.active /\ ~n.cleaning =>
             \/ n.stored /\ None(aps, Configures) /\ None(t, ConfiguredTold)
             \/ ~n.stored /\ EarlyOut(n) /\ lane = <<>> /\ Fronted(aps, t, busy)
    <3> SUFFICES ASSUME n.active, ~n.cleaning
                 PROVE  \/ n.stored /\ None(aps, Configures) /\ None(t, ConfiguredTold)
                        \/ ~n.stored /\ EarlyOut(n) /\ lane = <<>> /\ Fronted(aps, t, busy)
      OBVIOUS
    <3>1. Runs(b) /\ Ran(b, n)
      BY <2>12 DEF Heeds, Halts
    <3>2. c.active /\ ~c.cleaning /\ n.stored = b.stored
      BY <2>2, <3>1 DEF Runs, Ran, Frame
    <3>3. CASE c.stored
      BY <2>2, <2>9, <3>2, <3>3
    <3>4. CASE ~c.stored
      BY <2>2, <2>5, <2>6, <2>10, <3>2, <3>4
    <3> QED BY <3>3, <3>4
  <2>15. Opening(n, aps \o n.ask, t, busy, lane \o n.do)
    BY <1>2, <2>3, <2>12, <2>14, TurnOpening
  <2>16. Order(c, aps, gui, busy, heater, lane)'
    BY <1>1, <2>12, <2>13, <2>15, OrderPosted DEF t, n
  <2> QED BY <2>16, DeliverCleared DEF Step2, Sound2
<1> QED BY <1>3, <1>4

-----------------------------------------------------------------------------
(* The steps of the worker and of the lane, and the second invariant.      *)

(* The answers that say nothing of a configuration or of persistence. *)
Mild == {x \in Answers : x.kind # "configured"
    /\ ~(x.kind = "operation" /\ x.name \in {"persistent", "failed:persistent"})}

(* The worker says nothing, one thing or two. *)
Tells(S) ==
    \/ gui' = gui
    \/ \E x \in S : gui' = gui \o <<x>>
    \/ \E x, y \in S : gui' = gui \o <<x, y>>

(* One such answer. *)
LEMMA MildOne ==
  ASSUME NEW g \in Seq(Signals), NEW x \in Mild
  PROVE  /\ g \o <<x>> \in Seq(Signals)
         /\ None(g \o <<x>>, PersistentTold) <=> None(g, PersistentTold)
         /\ None(g \o <<x>>, ConfiguredTold) <=> None(g, ConfiguredTold)
         /\ Count(g \o <<x>>, PersistentOver) = Count(g, PersistentOver)
         /\ First(g, ConfiguredTold, Asides) => First(g \o <<x>>, ConfiguredTold, Asides)
         /\ x \in Asides /\ Only(g, Asides) => Only(g \o <<x>>, Asides)
<1>1. x \in Signals /\ x \notin PersistentTold /\ x \notin PersistentOver /\ x \notin ConfiguredTold
  BY DEF Mild, Signals, PersistentTold, PersistentOver, ConfiguredTold
<1>2. g \o <<x>> \in Seq(Signals)
  BY <1>1, Grows
<1>3. Count(g \o <<x>>, PersistentOver) = Count(g, PersistentOver) + 0
  BY <1>1, CountGrows
<1>4. Count(g, PersistentOver) \in Nat
  BY MarkedFinite
<1>5. None(g \o <<x>>, PersistentTold) <=> None(g, PersistentTold)
  BY <1>1, NoneGrows
<1>6. None(g \o <<x>>, ConfiguredTold) <=> None(g, ConfiguredTold)
  BY <1>1, NoneGrows
<1>7. First(g, ConfiguredTold, Asides) => First(g \o <<x>>, ConfiguredTold, Asides)
  BY <1>1, FirstGrows
<1>8. x \in Asides /\ Only(g, Asides) => Only(g \o <<x>>, Asides)
  BY <1>1, OnlyGrows
<1> QED BY <1>2, <1>3, <1>4, <1>5, <1>6, <1>7, <1>8

(* One error. *)
LEMMA AsidesOne ==
  ASSUME NEW g \in Seq(Signals), NEW x \in Asides
  PROVE  /\ g \o <<x>> \in Seq(Signals)
         /\ Only(g, Asides) => Only(g \o <<x>>, Asides)
<1>1. x \in Signals
  BY DEF Asides
<1> QED BY <1>1, Grows, OnlyGrows

(* Only errors are still only errors. *)
LEMMA AsidesTell ==
  ASSUME gui \in Seq(Signals), Tells(Asides), Only(gui, Asides)
  PROVE  Only(gui', Asides)
<1>1. CASE gui' = gui
  BY <1>1
<1>2. CASE gui' # gui /\ \E x \in Asides : gui' = gui \o <<x>>
  BY <1>2, AsidesOne
<1>3. CASE gui' # gui /\ \E x, y \in Asides : gui' = gui \o <<x, y>>
  <2>1. PICK x \in Asides, y \in Asides : gui' = gui \o <<x, y>>
    BY <1>3
  <2>2. x \in Signals /\ y \in Signals
    BY DEF Asides
  <2> DEFINE h == gui \o <<x>>
  <2>3. gui' = h \o <<y>> /\ h \in Seq(Signals)
    BY <2>1, <2>2, Twice, Grows
  <2>4. h \in Seq(Signals) /\ Only(h, Asides)
    BY AsidesOne
  <2> HIDE DEF h
  <2> QED BY <2>3, <2>4, AsidesOne
<1> QED BY <1>1, <1>2, <1>3 DEF Tells

(* A step that says such things only. *)
LEMMA MildTells ==
  ASSUME gui \in Seq(Signals), Tells(Mild)
  PROVE  /\ None(gui', PersistentTold) <=> None(gui, PersistentTold)
         /\ None(gui', ConfiguredTold) <=> None(gui, ConfiguredTold)
         /\ Count(gui', PersistentOver) = Count(gui, PersistentOver)
         /\ First(gui, ConfiguredTold, Asides) => First(gui', ConfiguredTold, Asides)
         /\ Tells(Asides) /\ Only(gui, Asides) => Only(gui', Asides)
<1>1. CASE gui' = gui
  BY <1>1
<1>2. CASE gui' # gui /\ \E x \in Mild : gui' = gui \o <<x>>
  <2>1. PICK x \in Mild : gui' = gui \o <<x>>
    BY <1>2
  <2>2. Tells(Asides) /\ Only(gui, Asides) => Only(gui', Asides)
    BY AsidesTell
  <2> QED BY <2>1, <2>2, MildOne
<1>3. CASE gui' # gui /\ \E x, y \in Mild : gui' = gui \o <<x, y>>
  <2>1. PICK x \in Mild, y \in Mild : gui' = gui \o <<x, y>>
    BY <1>3
  <2>2. x \in Signals /\ y \in Signals
    BY DEF Mild, Signals
  <2> DEFINE h == gui \o <<x>>
  <2>3. gui' = h \o <<y>> /\ h \in Seq(Signals)
    BY <2>1, <2>2, Twice, Grows
  <2>4. /\ None(h, PersistentTold) <=> None(gui, PersistentTold)
        /\ None(h, ConfiguredTold) <=> None(gui, ConfiguredTold)
        /\ Count(h, PersistentOver) = Count(gui, PersistentOver)
        /\ First(gui, ConfiguredTold, Asides) => First(h, ConfiguredTold, Asides)
    BY MildOne
  <2>5. Tells(Asides) /\ Only(gui, Asides) => Only(gui', Asides)
    BY AsidesTell
  <2> HIDE DEF h
  <2>6. /\ None(h \o <<y>>, PersistentTold) <=> None(h, PersistentTold)
        /\ None(h \o <<y>>, ConfiguredTold) <=> None(h, ConfiguredTold)
        /\ Count(h \o <<y>>, PersistentOver) = Count(h, PersistentOver)
        /\ First(h, ConfiguredTold, Asides) => First(h \o <<y>>, ConfiguredTold, Asides)
    BY <2>3, MildOne
  <2>7. First(gui, ConfiguredTold, Asides) => First(gui', ConfiguredTold, Asides)
    BY <2>3, <2>4, <2>6
  <2>8. /\ None(gui', PersistentTold) <=> None(gui, PersistentTold)
        /\ None(gui', ConfiguredTold) <=> None(gui, ConfiguredTold)
        /\ Count(gui', PersistentOver) = Count(gui, PersistentOver)
    BY <2>3, <2>4, <2>6
  <2> QED BY <2>5, <2>7, <2>8
<1> QED BY <1>1, <1>2, <1>3 DEF Tells

(* What is said so. *)
LEMMA Mildly ==
  /\ \A ok \in BOOLEAN : Signal("swept", "", ok) \in Mild /\ Signal("restored", "", ok) \in Mild
  /\ \A name \in {"ok", "user", "monitor", "thermal", "failed"},
     ok \in BOOLEAN : Signal("moved", name, ok) \in Mild
  /\ \A name \in {"pause", "failed:pause"} : Signal("operation", name, TRUE) \in Mild
  /\ \A name \in {"other", "read"} : Signal("error", name, FALSE) \in Mild
     /\ Signal("error", name, FALSE) \in Asides
  /\ Signal("disconnected", "", FALSE) \in Mild /\ Signal("disconnected", "", FALSE) \in Asides
<1>1. \A x \in Answers : x \in Signals
  BY DEF Signals
<1>2. \A ok \in BOOLEAN : Signal("swept", "", ok) \in Mild /\ Signal("restored", "", ok) \in Mild
  BY Said DEF Mild, Signal
<1>3. \A name \in {"ok", "user", "monitor", "thermal", "failed"},
      ok \in BOOLEAN : Signal("moved", name, ok) \in Mild
  BY Said DEF Mild, Signal
<1>4. \A name \in {"pause", "failed:pause"} : Signal("operation", name, TRUE) \in Mild
  BY Said DEF Mild, Signal
<1>5. \A name \in {"other", "read"} : Signal("error", name, FALSE) \in Mild
      /\ Signal("error", name, FALSE) \in Asides
  BY <1>1, Said DEF Mild, Asides, Signal
<1>6. Signal("disconnected", "", FALSE) \in Mild /\ Signal("disconnected", "", FALSE) \in Asides
  BY <1>1, Said DEF Mild, Asides, Signal
<1> QED BY <1>2, <1>3, <1>4, <1>5, <1>6

(* The worker takes a request. *)
LEMMA TakeTail ==
  ASSUME World, aps # <<>>, NEW g, NEW by, NEW h, Tidy(aps, g, by, h)
  PROVE  /\ Head(aps) \in Postable /\ Tail(aps) \in Seq(Postable)
         /\ Tidy(Tail(aps), g, by, h)
         /\ Head(aps).op = "persistent" => None(Tail(aps), Motions)
         /\ Head(aps).op = "move" => None(g, PersistentTold)
         /\ Count(aps, Persistents) = Count(Tail(aps),
            Persistents) + (IF Head(aps).op = "persistent" THEN 1 ELSE 0)
         /\ None(aps, Configures) => None(Tail(aps), Configures) /\ Head(aps).op # "configure"
         /\ First(aps, Configures, Connects) =>
               \/ Head(aps).op = "configure" /\ None(Tail(aps), Configures)
               \/ Head(aps).op = "connect" /\ First(Tail(aps), Configures, Connects)
<1> DEFINE q == Head(aps)
           t == Tail(aps)
<1>1. aps \in Seq(Postable) /\ q \in Postable /\ t \in Seq(Postable)
  BY Shrinks DEF World
<1>2. (None(aps, Motions) <=> q \notin Motions /\ None(t, Motions))
      /\ (None(aps, Configures) <=> q \notin Configures /\ None(t, Configures))
  BY <1>1, NoneShrinks
<1>3. Behind(t, Persistents, Motions) /\ (q \in Persistents => None(t, Motions))
  BY <1>1, BehindShrinks DEF Tidy
<1>4. Count(aps, Persistents) = Count(t, Persistents) + (IF q \in Persistents THEN 1 ELSE 0)
  BY <1>1, CountShrinks
<1>5. First(aps, Configures, Connects) => (q \in Configures /\ None(t, Configures))
      \/ (q \in Connects /\ First(t, Configures, Connects))
  BY <1>1, FirstShrinks
<1> HIDE DEF q, t
<1>6. Tidy(t, g, by, h)
  BY <1>2, <1>3 DEF Tidy
<1> QED BY <1>1, <1>2, <1>3, <1>4, <1>5, <1>6, Requested DEF Tidy, q, t

(* As many requests for persistence are under way as before, or none. *)
Flies(a, g, by) == Flying(a, g, by) = 0 \/ Flying(a, g, by) = Flying(aps, gui, busy)

(* A step of the worker keeps the order. *)
LEMMA WorkOrder ==
  ASSUME Order(c, aps, gui, busy, heater, lane), c' = c, lane' = lane, cut' = cut,
         Tidy(aps', gui', busy', heater'), Flies(aps', gui', busy'),
         Fronted(aps, gui, busy) => Fronted(aps', gui', busy'),
         None(aps, Configures) /\ None(gui, ConfiguredTold) => None(aps', Configures)
         /\ None(gui', ConfiguredTold)
  PROVE  Step2
<1>1. Tidy(aps, gui, busy, heater) /\ Flight(c, aps, gui, busy) /\ Opening(c, aps, gui, busy, lane)
  BY DEF Order
<1>2. Flight(c, aps', gui', busy')
  BY <1>1 DEF Flight, Flies
<1>3. Opening(c, aps', gui', busy', lane)
  BY <1>1 DEF Opening
<1> QED BY <1>2, <1>3 DEF Step2, Sound2, Order, Cleared

(* A request that is over at once. *)
LEMMA ShortOrder ==
  ASSUME Sound1, Order(c, aps, gui, busy, heater, lane), c' = c, lane' = lane, cut' = cut,
         aps # <<>>, aps' = Tail(aps), Head(aps).op \in {"sweep", "pause", "restore"}, busy' = busy,
         heater' = heater, Tells(Mild)
  PROVE  Step2
<1>1. World /\ gui \in Seq(Signals) /\ Tidy(aps, gui, busy, heater)
  BY DEF Sound1, Law, Lawful, Typing, Order
<1>2. /\ None(gui', PersistentTold) <=> None(gui, PersistentTold)
      /\ None(gui', ConfiguredTold) <=> None(gui, ConfiguredTold)
      /\ Count(gui', PersistentOver) = Count(gui, PersistentOver)
      /\ First(gui, ConfiguredTold, Asides) => First(gui', ConfiguredTold, Asides)
  BY <1>1, MildTells
<1>3. /\ Tidy(aps', gui, busy, heater)
      /\ Count(aps, Persistents) = Count(aps', Persistents) + 0
      /\ None(aps, Configures) => None(aps', Configures)
      /\ ~First(aps, Configures, Connects)
  BY <1>1, TakeTail
<1>4. Count(aps', Persistents) \in Nat
  BY <1>1, TakeTail, MarkedFinite
<1>5. Tidy(aps', gui', busy', heater')
  BY <1>2, <1>3 DEF Tidy
<1>6. Flies(aps', gui', busy')
  BY <1>2, <1>3, <1>4 DEF Flies, Flying
<1>7. Fronted(aps, gui, busy) => Fronted(aps', gui', busy')
  BY <1>2, <1>3 DEF Fronted
<1> QED BY <1>2, <1>3, <1>5, <1>6, <1>7, WorkOrder

(* A step that takes no request. *)
LEMMA AsideOrder ==
  ASSUME Sound1, Order(c, aps, gui, busy, heater, lane), c' = c, lane' = lane, cut' = cut,
         aps' = aps, busy' = busy, heater' = heater, Tells(Mild), Tells(Asides)
  PROVE  Step2
<1>1. World /\ gui \in Seq(Signals) /\ Tidy(aps, gui, busy, heater)
  BY DEF Sound1, Law, Lawful, Typing, Order
<1>2. /\ None(gui', PersistentTold) <=> None(gui, PersistentTold)
      /\ None(gui', ConfiguredTold) <=> None(gui, ConfiguredTold)
      /\ Count(gui', PersistentOver) = Count(gui, PersistentOver)
      /\ First(gui, ConfiguredTold, Asides) => First(gui', ConfiguredTold, Asides)
      /\ Only(gui, Asides) => Only(gui', Asides)
  BY <1>1, MildTells
<1>5. Tidy(aps', gui', busy', heater')
  BY <1>1, <1>2 DEF Tidy
<1>6. Flies(aps', gui', busy')
  BY <1>2 DEF Flies, Flying
<1>7. Fronted(aps, gui, busy) => Fronted(aps', gui', busy')
  BY <1>2 DEF Fronted
<1> QED BY <1>2, <1>5, <1>6, <1>7, WorkOrder

(* The worker configures the magnet. *)
LEMMA ConfigureOrder ==
  ASSUME Sound1, Order(c, aps, gui, busy, heater, lane), Configure
  PROVE  Step2
<1>1. World /\ gui \in Seq(Signals) /\ Tidy(aps, gui, busy, heater)
  BY DEF Sound1, Law, Lawful, Typing, Order
<1>2. c' = c /\ lane' = lane /\ cut' = cut /\ aps # <<>> /\ aps' = Tail(aps) /\ Head(aps).op = "configure"
      /\ busy' = busy /\ heater' = heater
      /\ busy = "no"
  BY DEF Configure, GuiAside, Taken, Next0, history
<1>3. PICK ok \in BOOLEAN : gui' = gui \o <<Signal("configured", "", ok)>>
  BY DEF Configure, Tell
<1> DEFINE x == Signal("configured", "", ok)
<1>4. x \in Signals /\ x.kind = "configured"
  BY Said DEF Signals, Signal
<1>5. gui' = gui \o <<x>>
  BY <1>3
<1> HIDE DEF x
<1>6. x \in ConfiguredTold /\ x \notin PersistentTold /\ x \notin PersistentOver
  BY <1>4, SignalsAre2
<1>7. (None(gui', PersistentTold) <=> None(gui, PersistentTold))
      /\ Count(gui', PersistentOver) = Count(gui, PersistentOver) + 0
  BY <1>1, <1>4, <1>5, <1>6, NoneGrows, CountGrows
<1>8. /\ Tidy(aps', gui, busy, heater)
      /\ Count(aps, Persistents) = Count(aps', Persistents) + 0
      /\ ~None(aps, Configures)
      /\ First(aps, Configures, Connects) => None(aps', Configures)
  BY <1>1, <1>2, TakeTail
<1>9. Count(aps', Persistents) \in Nat /\ Count(gui, PersistentOver) \in Nat
  BY <1>1, <1>2, TakeTail, MarkedFinite
<1>10. Tidy(aps', gui', busy', heater')
  BY <1>2, <1>7, <1>8 DEF Tidy
<1>11. Flies(aps', gui', busy')
  BY <1>2, <1>7, <1>8, <1>9 DEF Flies, Flying
<1>12. Only(gui, Asides) => First(gui', ConfiguredTold, Asides)
  <2>1. Only(gui, Asides) => None(gui, ConfiguredTold)
    BY DEF Only, None, Asides, ConfiguredTold
  <2> QED BY <1>1, <1>4, <1>5, <1>6, <2>1, FirstComes
<1>13. Fronted(aps, gui, busy) => Fronted(aps', gui', busy')
  BY <1>8, <1>12 DEF Fronted
<1> QED BY <1>2, <1>8, <1>10, <1>11, <1>13, WorkOrder

(* It takes a long request. *)
LEMMA TakeLongOrder ==
  ASSUME Sound1, Order(c, aps, gui, busy, heater, lane), TakeLong
  PROVE  Step2
<1>1. World /\ gui \in Seq(Signals) /\ Tidy(aps, gui, busy, heater)
  BY DEF Sound1, Law, Lawful, Typing, Order
<1>2. c' = c /\ lane' = lane /\ cut' = cut /\ aps # <<>> /\ aps' = Tail(aps) /\ heater' = heater /\ busy = "no"
  BY DEF TakeLong, GuiAside, Taken, Next0, history
<1>3. Head(aps).op \in {"move", "persistent"} /\ busy' \in {"no", Head(aps).op}
  BY DEF TakeLong, Taken
<1>4. Tells(Mild)
  <2>1. gui' = gui \/ gui' = gui \o <<Signal("moved", "failed", FALSE)>>
        \/ gui' = gui \o <<Signal("error", "other", FALSE)>>
    BY DEF TakeLong, Tell, NotConnected
  <2> QED BY <2>1, Mildly DEF Tells
<1>5. /\ None(gui', PersistentTold) <=> None(gui, PersistentTold)
      /\ None(gui', ConfiguredTold) <=> None(gui, ConfiguredTold)
      /\ Count(gui', PersistentOver) = Count(gui, PersistentOver)
      /\ First(gui, ConfiguredTold, Asides) => First(gui', ConfiguredTold, Asides)
  BY <1>1, <1>4, MildTells
<1>6. /\ Tidy(aps', gui, busy, heater)
      /\ Head(aps).op = "persistent" => None(aps', Motions)
      /\ Head(aps).op = "move" => None(gui, PersistentTold)
      /\ Count(aps, Persistents) = Count(aps', Persistents) + (IF Head(aps).op = "persistent" THEN 1 ELSE 0)
      /\ None(aps, Configures) => None(aps', Configures)
      /\ ~First(aps, Configures, Connects)
  BY <1>1, <1>2, <1>3, TakeTail
<1>7. Count(aps', Persistents) \in Nat /\ Count(gui, PersistentOver) \in Nat
  BY <1>1, <1>2, TakeTail, MarkedFinite
<1>8. Tidy(aps', gui', busy', heater')
  BY <1>2, <1>3, <1>5, <1>6 DEF Tidy
<1>9. Flight(c, aps', gui', busy')
  <2>1. Flying(aps', gui', busy') = Flying(aps, gui, busy)
        \/ Flying(aps', gui', busy') = Flying(aps, gui, busy) - 1
    BY <1>2, <1>3, <1>5, <1>6, <1>7 DEF Flying
  <2>2. Flying(aps, gui, busy) \in Nat /\ Flying(aps', gui', busy') \in Nat
    BY <1>2, <1>5, <1>6, <1>7 DEF Flying
  <2> QED BY <2>1, <2>2 DEF Order, Flight
<1>10. Opening(c, aps', gui', busy', lane)
  BY <1>5, <1>6 DEF Order, Opening, Fronted
<1> QED BY <1>2, <1>8, <1>9, <1>10 DEF Step2, Sound2, Order, Cleared

(* A move ends. *)
LEMMA MoveEndsOrder ==
  ASSUME Sound1, Order(c, aps, gui, busy, heater, lane), MoveEnds
  PROVE  Step2
<1>1. World /\ gui \in Seq(Signals) /\ Tidy(aps, gui, busy, heater)
  BY DEF Sound1, Law, Lawful, Typing, Order
<1>2. c' = c /\ lane' = lane /\ cut' = cut /\ aps' = aps /\ busy = "move" /\ busy' = "no"
  BY DEF MoveEnds, GuiAside, history
<1>3. Tells(Mild)
  <2>1. \E name \in {"ok", "user", "monitor", "thermal", "failed"},
        ok \in BOOLEAN : gui' = gui \o <<Signal("moved", name, ok)>>
    BY <1>1 DEF MoveEnds, Tell, World
  <2> QED BY <2>1, Mildly DEF Tells
<1>4. /\ None(gui', PersistentTold) <=> None(gui, PersistentTold)
      /\ None(gui', ConfiguredTold) <=> None(gui, ConfiguredTold)
      /\ Count(gui', PersistentOver) = Count(gui, PersistentOver)
      /\ First(gui, ConfiguredTold, Asides) => First(gui', ConfiguredTold, Asides)
  BY <1>1, <1>3, MildTells
<1>5. Tidy(aps', gui', busy', heater')
  BY <1>1, <1>2, <1>4 DEF Tidy
<1>6. Flies(aps', gui', busy')
  BY <1>2, <1>4 DEF Flies, Flying
<1>7. Fronted(aps, gui, busy) => Fronted(aps', gui', busy')
  BY <1>2, <1>4 DEF Fronted
<1> QED BY <1>2, <1>4, <1>5, <1>6, <1>7, WorkOrder

(* The magnet is persistent, or could not be made so. *)
LEMMA PersistentEndsOrder ==
  ASSUME Sound1, Order(c, aps, gui, busy, heater, lane), PersistentEnds
  PROVE  Step2
<1>1. World /\ gui \in Seq(Signals) /\ Tidy(aps, gui, busy, heater)
  BY DEF Sound1, Law, Lawful, Typing, Order
<1>2. c' = c /\ lane' = lane /\ cut' = cut /\ aps' = aps /\ busy = "persistent" /\ busy' = "no"
      /\ (heater = "off" => heater' = "off")
  BY DEF PersistentEnds, GuiAside, history
<1>3. PICK name \in {"persistent", "failed:persistent"} : gui' = gui \o <<Signal("operation", name, TRUE)>>
           /\ (name = "persistent" => heater' = "off")
  BY DEF PersistentEnds, Tell, Operation
<1> DEFINE x == Signal("operation", name, TRUE)
<1>4. x \in Signals /\ x.kind = "operation" /\ x.name = name
  BY Said DEF Signals, Signal
<1>5. gui' = gui \o <<x>>
  BY <1>3
<1> HIDE DEF x
<1>6. x \notin ConfiguredTold /\ x \in PersistentOver /\ (x \in PersistentTold => name = "persistent")
  BY <1>4, SignalsAre2
<1>7. (None(gui', PersistentTold) <=> None(gui, PersistentTold) /\ x \notin PersistentTold)
      /\ (None(gui', ConfiguredTold) <=> None(gui, ConfiguredTold))
  BY <1>1, <1>4, <1>5, <1>6, NoneGrows
<1>8. Count(gui', PersistentOver) = Count(gui, PersistentOver) + 1 /\ Count(gui, PersistentOver) \in Nat
      /\ Count(aps, Persistents) \in Nat
  BY <1>1, <1>4, <1>5, <1>6, CountGrows, MarkedFinite DEF World
<1>9. First(gui, ConfiguredTold, Asides) => First(gui', ConfiguredTold, Asides)
  BY <1>1, <1>4, <1>5, <1>6, FirstGrows
<1>10. Tidy(aps', gui', busy', heater')
  BY <1>1, <1>2, <1>3, <1>6, <1>7 DEF Tidy
<1>11. Flies(aps', gui', busy')
  BY <1>2, <1>8 DEF Flies, Flying
<1>12. Fronted(aps, gui, busy) => Fronted(aps', gui', busy')
  BY <1>2, <1>9 DEF Fronted
<1> QED BY <1>2, <1>7, <1>10, <1>11, <1>12, WorkOrder

(* It connects. *)
LEMMA TakeConnectOrder ==
  ASSUME Sound1, Order(c, aps, gui, busy, heater, lane), TakeConnect
  PROVE  Step2
<1>1. World /\ gui \in Seq(Signals) /\ Tidy(aps, gui, busy, heater)
  BY DEF Sound1, Law, Lawful, Typing, Order
<1>2. c' = c /\ lane' = lane /\ cut' = cut /\ aps # <<>> /\ aps' = Tail(aps) /\ Head(aps).op = "connect"
      /\ busy' = busy /\ heater' = heater
  BY DEF TakeConnect, GuiAside, Taken, Next0, history
<1>3. Tells(Mild) /\ Tells(Asides)
  BY Mildly DEF TakeConnect, Tell, Tells
<1>4. /\ None(gui', PersistentTold) <=> None(gui, PersistentTold)
      /\ None(gui', ConfiguredTold) <=> None(gui, ConfiguredTold)
      /\ Count(gui', PersistentOver) = Count(gui, PersistentOver)
      /\ First(gui, ConfiguredTold, Asides) => First(gui', ConfiguredTold, Asides)
      /\ Only(gui, Asides) => Only(gui', Asides)
  BY <1>1, <1>3, MildTells
<1>5. /\ Tidy(aps', gui, busy, heater)
      /\ Count(aps, Persistents) = Count(aps', Persistents) + 0
      /\ None(aps, Configures) => None(aps', Configures)
      /\ First(aps, Configures, Connects) => First(aps', Configures, Connects)
  BY <1>1, <1>2, TakeTail
<1>6. Count(aps', Persistents) \in Nat
  BY <1>1, <1>2, TakeTail, MarkedFinite
<1>7. Tidy(aps', gui', busy', heater')
  BY <1>2, <1>4, <1>5 DEF Tidy
<1>8. Flies(aps', gui', busy')
  BY <1>2, <1>4, <1>5, <1>6 DEF Flies, Flying
<1>9. Fronted(aps, gui, busy) => Fronted(aps', gui', busy')
  BY <1>2, <1>4, <1>5 DEF Fronted
<1> QED BY <1>2, <1>4, <1>5, <1>7, <1>8, <1>9, WorkOrder

(* The manager asks for a new session. *)
LEMMA AskConnectOrder ==
  ASSUME Sound1, Order(c, aps, gui, busy, heater, lane), AskConnect
  PROVE  Step2
<1> DEFINE q == Request("connect", "no")
<1>1. World /\ gui \in Seq(Signals) /\ Tidy(aps, gui, busy, heater) /\ aps \in Seq(Postable)
  BY DEF Sound1, Law, Lawful, Typing, Order, World
<1>2. c' = c /\ lane' = lane /\ cut' = cut /\ gui' = gui /\ busy' = busy /\ heater' = heater
  BY DEF AskConnect, GuiAside, history
<1>3. aps' = aps \o <<q>> /\ q \in Postable /\ q.op = "connect"
  BY <1>1, AskConnectWorks DEF Request, Postable, Requests
<1> HIDE DEF q
<1>4. q \notin Persistents /\ q \notin Motions /\ q \notin Configures
  BY <1>3, Requested
<1>5. (None(aps', Motions) <=> None(aps, Motions)) /\ (None(aps', Configures) <=> None(aps, Configures))
      /\ Behind(aps', Persistents, Motions)
  BY <1>1, <1>3, <1>4, NoneGrows, BehindGrows DEF Tidy
<1>6. Tidy(aps', gui', busy', heater')
  BY <1>1, <1>2, <1>5 DEF Tidy
<1>7. Flying(aps', gui, busy) = Flying(aps, gui, busy) + 0 /\ Flying(aps, gui, busy) \in Nat
  BY <1>1, <1>3, FlyingAsks, FlyingIs
<1>8. Flies(aps', gui', busy')
  BY <1>2, <1>7 DEF Flies
<1>9. Fronted(aps, gui, busy) => Fronted(aps', gui', busy')
  BY <1>1, <1>2, <1>3, FrontedAsks
<1> QED BY <1>2, <1>5, <1>6, <1>8, <1>9, WorkOrder

(* A step of the worker. *)
LEMMA WorkerOrder ==
  ASSUME Sound1, Order(c, aps, gui, busy, heater, lane), WorkerStep
  PROVE  Step2
<1>1. CASE TakeSweep
  <2>1. Tells(Mild)
    BY <1>1, Mildly DEF TakeSweep, Tell, Tells
  <2> QED BY <1>1, <2>1, ShortOrder DEF TakeSweep, GuiAside, Taken, Next0, history
<1>2. CASE TakePause
  <2>1. Tells(Mild)
    <3>1. CASE gui' = gui \o Operation("pause")
      BY <3>1, Mildly DEF Tells, Operation
    <3>2. CASE gui' = gui \o (<<Signal("error", "other", FALSE)>> \o Operation("failed:pause"))
      <4> DEFINE x == Signal("error", "other", FALSE)
                 y == Signal("operation", "failed:pause", TRUE)
      <4>1. x \in Mild /\ y \in Mild
        BY Mildly
      <4>2. gui' = gui \o (<<x>> \o <<y>>)
        BY <3>2 DEF Operation
      <4> HIDE DEF x, y
      <4>3. gui' = gui \o <<x, y>>
        BY <4>2
      <4> QED BY <4>1, <4>3 DEF Tells
    <3>3. CASE gui' = gui \o NotConnected
      BY <3>3, Mildly DEF Tells, NotConnected
    <3> QED BY <1>2, <3>1, <3>2, <3>3 DEF TakePause, Tell
  <2> QED BY <1>2, <2>1, ShortOrder DEF TakePause, GuiAside, Taken, Next0, history
<1>3. CASE TakeRestore
  <2>1. Tells(Mild)
    BY <1>3, Mildly DEF TakeRestore, Tell, Tells, Sound1, World
  <2> QED BY <1>3, <2>1, ShortOrder DEF TakeRestore, GuiAside, Taken, Next0, history
<1>4. CASE Poll
  <2>1. Tells(Mild) /\ Tells(Asides)
    BY <1>4, Mildly DEF Poll, Tell, Tells
  <2> QED BY <1>4, <2>1, AsideOrder DEF Poll, GuiAside, history
<1>5. CASE Sweeping
  <2>1. Tells(Mild) /\ Tells(Asides)
    BY <1>5 DEF Sweeping, Tells
  <2> QED BY <1>5, <2>1, AsideOrder DEF Sweeping, GuiAside, history
<1>6. CASE Unlink
  <2>1. Tells(Mild) /\ Tells(Asides)
    BY <1>6, Mildly DEF Unlink, Tell, Tells
  <2> QED BY <1>6, <2>1, AsideOrder DEF Unlink, GuiAside, history
<1> QED BY <1>1, <1>2, <1>3, <1>4, <1>5, <1>6, ConfigureOrder, TakeLongOrder, MoveEndsOrder,
    PersistentEndsOrder, TakeConnectOrder, AskConnectOrder
        DEF WorkerStep, Worker

(* A step of the lane. *)
LEMMA LaneOrder ==
  ASSUME Sound1, Order(c, aps, gui, busy, heater, lane), Lane
  PROVE  Step2
<1>1. gui \in Seq(Signals) /\ lane \in Seq(Tasks) /\ Tidy(aps, gui, busy, heater)
  BY DEF Sound1, Law, Lawful, Typing, Order
<1>2. c' = c /\ cut' = cut /\ aps' = aps /\ busy' = busy /\ heater' = heater /\ lane # <<>>
  BY DEF Lane, BiasRamps, BiasEnds, TakeSample, ZeroBiases, MagnetAside, magnetVars, history
<1>3. gui' = gui \/ \E x \in Signals : gui' = gui \o <<x>> /\ x.kind \in {"biases", "zeroed", "sample"}
  <2>1. CASE BiasRamps
    BY <2>1 DEF BiasRamps
  <2>2. CASE BiasEnds
    BY <2>2, LaneSays DEF BiasEnds, LaneDone, Tell
  <2>3. CASE ZeroBiases
    BY <2>3, LaneSays DEF ZeroBiases, LaneDone, Tell
  <2>4. CASE TakeSample
    <3>0. lane # <<>> /\ Head(lane).task = "sample"
      BY <2>4 DEF TakeSample
    <3>a. Head(lane) \in Tasks
      BY <1>1, <3>0, Shrinks
    <3>1. Head(lane).generation = Head(lane).holds /\ Head(lane).generation \in Nat
      BY <3>0, <3>a, TasksAre
    <3> DEFINE y == [kind |-> "sample", name |-> "", ok |-> TRUE, generation |-> Head(lane).generation,
        holds |-> Head(lane).holds]
    <3>2. y \in Signals /\ y.kind = "sample"
      BY <3>1 DEF SampleRows, Signals
    <3>3. gui' = gui \o <<y>> \/ gui' = gui \o <<Signal("sample", "", FALSE)>>
      BY <2>4 DEF TakeSample, Tell
    <3> HIDE DEF y
    <3> QED BY <3>2, <3>3, LaneSays
  <2> QED BY <2>1, <2>2, <2>3, <2>4 DEF Lane
<1>4. /\ None(gui', PersistentTold) <=> None(gui, PersistentTold)
      /\ None(gui', ConfiguredTold) <=> None(gui, ConfiguredTold)
      /\ Count(gui', PersistentOver) = Count(gui, PersistentOver)
  <2>1. CASE gui' = gui
    BY <2>1
  <2>2. CASE gui' # gui
    <3>1. PICK x \in Signals : gui' = gui \o <<x>> /\ x.kind \in {"biases", "zeroed", "sample"}
      BY <1>3, <2>2
    <3>2. x \notin PersistentTold /\ x \notin ConfiguredTold /\ x \notin PersistentOver
      BY <3>1, SignalsAre2
    <3>3. Count(gui', PersistentOver) = Count(gui, PersistentOver) + 0 /\ Count(gui, PersistentOver) \in Nat
      BY <1>1, <3>1, <3>2, CountGrows, MarkedFinite
    <3> QED BY <1>1, <3>1, <3>2, <3>3, NoneGrows
  <2> QED BY <2>1, <2>2
<1>5. Tidy(aps', gui', busy', heater')
  BY <1>1, <1>2, <1>4 DEF Tidy
<1>6. Flight(c, aps', gui', busy')
  BY <1>2, <1>4 DEF Order, Flight, Flying
<1>7. Opening(c, aps', gui', busy', lane')
  BY <1>2, <1>4 DEF Order, Opening
<1> QED BY <1>2, <1>5, <1>6, <1>7 DEF Step2, Sound2, Order, Cleared

(* The temperature changes, or nothing happens. *)
LEMMA ThermalOrder ==
  ASSUME Order(c, aps, gui, busy, heater, lane), Warms \/ Cools \/ UNCHANGED vars
  PROVE  Step2
<1>1. c' = c /\ aps' = aps /\ gui' = gui /\ busy' = busy /\ heater' = heater /\ lane' = lane /\ cut' = cut
  BY DEF Warms, Cools, vars, magnetVars, history
<1> QED BY <1>1 DEF Step2, Sound2, Cleared

(* What was cut stays cut until the next series. *)
LEMMA CutStays ==
  ASSUME cut, [Next]_vars
  PROVE  cut' \/ (\E round, row \in BOOLEAN : Start(round, row)) \/ StartFails
BY DEF Next, Stop, Close, CloseRejected, Continue, Deliver, Saved, RunFails, MonitoringLost,
   Adverse, Snapshot, LakeSnapshot, Watchdog,
       RowCooled, Worker, Configure, TakeLong, MoveEnds, PersistentEnds, TakeSweep, TakePause, TakeRestore,
       TakeConnect, Poll, Sweeping,
       Unlink, AskConnect, GuiAside, Lane, BiasRamps, BiasEnds, TakeSample, ZeroBiases, Warms, Cools, Rest,
       vars, history

(* Every step. *)
LEMMA SecondStep ==
  ASSUME Sound1, Sound2, [Next]_vars
  PROVE  Step2
<1>1. CASE cut
  <2>1. CASE cut'
    BY <1>1, <2>1 DEF Step2, Sound2, Cleared
  <2>2. CASE ~cut'
    BY <1>1, <2>2, CutStays, StartOrder, StartFailsOrder
  <2> QED BY <2>1, <2>2
<1>2. CASE ~cut
  <2>1. Order(c, aps, gui, busy, heater, lane)
    BY <1>2 DEF Sound2
  <2> QED BY <2>1, StartOrder, StartFailsOrder, StopOrder, CloseOrder, CloseRejectedOrder, ContinueOrder,
      DeliverOrder, SavedOrder,
             RunFailsOrder, MonitoringLostOrder, SnapshotOrder, LakeSnapshotOrder, WatchdogOrder,
             RowCooledOrder, WorkerOrder,
             LaneOrder, ThermalOrder DEF Next, WorkerStep, Rest
<1> QED BY <1>1, <1>2

(* The second invariant holds at the start. *)
LEMMA SecondInit == Init => Sound2
<1> SUFFICES ASSUME Init PROVE Sound2
  OBVIOUS
<1>1. c = Controller /\ gui = <<>> /\ aps = <<>> /\ busy = "no"
  BY DEF Init
<1>2. Tidy(aps, gui, busy, heater)
  BY <1>1, EmptySeq, NoneEmpty DEF Tidy, Behind
<1>3. ~c.active
  BY <1>1, Fresh
<1> QED BY <1>2, <1>3 DEF Sound2, Order, Flight, Opening

(* Both are invariants. *)
LEMMA SecondHolds == Spec => [](Sound1 /\ Sound2)
<1>1. Init => Sound1 /\ Sound2
  BY FirstInit, SecondInit
<1>2. Sound1 /\ Sound2 /\ [Next]_vars => (Sound1 /\ Sound2)'
  BY FirstStep, SecondStep DEF Step1, Step2
<1> QED BY <1>1, <1>2, PTL DEF Spec

(* The clearance to disconnect is given with the magnet's heater off, unless a cleanup
   was cut. *)
THEOREM CloseClears == Spec => CloseSafe
<1>1. Sound1 /\ Sound2 /\ [Next]_vars => [~c.shutdownDone /\ c'.shutdownDone /\ ~cut => heater = "off"]_vars
  BY SecondStep DEF Step2, Cleared
<1> QED BY <1>1, SecondHolds, PTL DEF Spec, CloseSafe

(* After a pause the magnet moves for the operator only, and the clearance to
   disconnect finds its heater off. *)
THEOREM MagnetStaysSafe == Spec => MagnetSafe
BY OperatorResumes, CloseClears, PTL DEF MagnetSafe

-----------------------------------------------------------------------------
(* Pauses before motions, and losses after acknowledgements.               *)

(* Somewhere in q there is a P that no X comes before and no M after. *)
Fenced(q, P, X, M) ==
    \E j \in 1..Len(q) : q[j] \in P /\ \A i \in 1..Len(q) : (i < j => q[i] \notin X) /\ (i > j => q[i] \notin M)

(* One more element, not an M, leaves it there. *)
LEMMA FencedGrows ==
  ASSUME NEW S, NEW q \in Seq(S), NEW x \in S, NEW P, NEW X, NEW M, x \notin M, Fenced(q, P, X, M)
  PROVE  Fenced(q \o <<x>>, P, X, M)
<1> DEFINE r == q \o <<x>>
<1>1. Len(r) = Len(q) + 1 /\ r[Len(q) + 1] = x /\ (\A i \in 1..Len(q) : r[i] = q[i]) /\ Len(q) \in Nat
  BY Grows
<1>2. PICK j \in 1..Len(q) : q[j] \in P /\ \A i \in 1..Len(q) : (i < j => q[i] \notin X)
           /\ (i > j => q[i] \notin M)
  BY DEF Fenced
<1> HIDE DEF r
<1>3. j \in 1..Len(r) /\ r[j] \in P
  BY <1>1, <1>2
<1>4. \A i \in 1..Len(r) : (i < j => r[i] \notin X) /\ (i > j => r[i] \notin M)
  <2> TAKE i \in 1..Len(r)
  <2>1. CASE i \in 1..Len(q)
    BY <1>1, <1>2, <2>1
  <2>2. CASE i = Len(q) + 1
    BY <1>1, <1>2, <2>2
  <2> QED BY <1>1, <2>1, <2>2
<1> QED BY <1>3, <1>4 DEF Fenced, r

(* A P that comes when there is no X is one. *)
LEMMA FencedComes ==
  ASSUME NEW S, NEW q \in Seq(S), NEW x \in S, NEW P, NEW X, NEW M, x \in P, None(q, X)
  PROVE  Fenced(q \o <<x>>, P, X, M)
<1> DEFINE r == q \o <<x>>
<1>1. Len(r) = Len(q) + 1 /\ r[Len(q) + 1] = x /\ (\A i \in 1..Len(q) : r[i] = q[i]) /\ Len(q) \in Nat
  BY Grows
<1> HIDE DEF r
<1>3. Len(q) + 1 \in 1..Len(r) /\ r[Len(q) + 1] \in P
  BY <1>1
<1>4. \A i \in 1..Len(r) : (i < Len(q) + 1 => r[i] \notin X) /\ (i > Len(q) + 1 => r[i] \notin M)
  <2> TAKE i \in 1..Len(r)
  <2>1. CASE i \in 1..Len(q)
    BY <1>1, <2>1 DEF None
  <2>2. CASE i = Len(q) + 1
    BY <1>1, <2>2
  <2> QED BY <1>1, <2>1, <2>2
<1> QED BY <1>3, <1>4 DEF Fenced, r

(* Without its head q still has it, or the head was it and there is no M. *)
LEMMA FencedShrinks ==
  ASSUME NEW S, NEW q \in Seq(S), q # <<>>, NEW P, NEW X, NEW M, Fenced(q, P, X, M)
  PROVE  \/ Head(q) \in P /\ None(Tail(q), M)
         \/ Head(q) \notin X /\ Fenced(Tail(q), P, X, M)
<1> DEFINE t == Tail(q)
<1>1. Len(t) = Len(q) - 1 /\ Len(q) \in Nat \ {0} /\ Head(q) = q[1] /\ \A i \in 1..Len(q) - 1 : t[i] = q[i + 1]
  BY Shrinks
<1> HIDE DEF t
<1>2. \A i \in 1..Len(t) : i + 1 \in 1..Len(q) /\ t[i] = q[i + 1] /\ i \in Nat /\ i >= 1
  BY <1>1
<1>3. PICK j \in 1..Len(q) : q[j] \in P /\ \A i \in 1..Len(q) : (i < j => q[i] \notin X)
           /\ (i > j => q[i] \notin M)
  BY DEF Fenced
<1>4. CASE j = 1
  <2>1. \A i \in 1..Len(t) : i + 1 > j
    BY <1>2, <1>4
  <2>2. None(t, M)
    BY <1>2, <1>3, <2>1 DEF None
  <2> QED BY <1>1, <1>3, <1>4, <2>2 DEF t
<1>5. CASE j # 1
  <2>1. 1 \in 1..Len(q) /\ 1 < j /\ j - 1 \in 1..Len(t) /\ (j - 1) + 1 = j
    BY <1>1, <1>5
  <2>2. Head(q) \notin X /\ t[j - 1] \in P
    BY <1>1, <1>2, <1>3, <2>1
  <2>3. \A i \in 1..Len(t) : (i < j - 1 => t[i] \notin X) /\ (i > j - 1 => t[i] \notin M)
    <3> TAKE i \in 1..Len(t)
    <3>1. (i + 1 < j => q[i + 1] \notin X) /\ (i + 1 > j => q[i + 1] \notin M)
      BY <1>2, <1>3
    <3> QED BY <1>1, <1>2, <3>1
  <2> QED BY <2>1, <2>2, <2>3 DEF Fenced, t
<1> QED BY <1>4, <1>5

(* So there is a P. *)
LEMMA FencedThere ==
  ASSUME NEW q, NEW P, NEW X, NEW M, Fenced(q, P, X, M)
  PROVE  ~None(q, P)
BY DEF Fenced, None

(* It is one for fewer Ms, and for other Xs when there is none of these. *)
LEMMA Loosened ==
  ASSUME NEW S, NEW q \in Seq(S), NEW P, NEW X, NEW M, Fenced(q, P, X, M), NEW Y, NEW N, None(q, Y),
         N \subseteq M
  PROVE  Fenced(q, P, Y, N)
<1>1. PICK j \in 1..Len(q) : q[j] \in P /\ \A i \in 1..Len(q) : (i < j => q[i] \notin X)
           /\ (i > j => q[i] \notin M)
  BY DEF Fenced
<1> QED BY <1>1 DEF Fenced, None

(* Any P is one when there is no X and nothing counts as M. *)
LEMMA ThereFenced ==
  ASSUME NEW q, NEW P, NEW X, ~None(q, P), None(q, X)
  PROVE  Fenced(q, P, X, {})
BY DEF Fenced, None

(* Where there is none of a set there is none of a part of it. *)
LEMMA NoneOf ==
  ASSUME NEW q, NEW M, NEW N, None(q, M), N \subseteq M
  PROVE  None(q, N)
BY DEF None

(* The requests that move the magnet. *)
Moving == {q \in Postable : q.op \in {"move", "sweep"}}

(* The requests to pause. *)
Pausing == {q \in Postable : q.op = "pause"}

(* The requests to give back the configuration. *)
Restoring == {q \in Postable : q.op = "restore"}

(* All requests but those to connect. *)
Unlike == {q \in Postable : q.op # "connect"}

(* The signals of an operation's end, a pause's among them. *)
Told == {s \in Signals : s.kind = "operation"}

(* A pause failed. *)
PauseFailed == {s \in Signals : s.kind = "operation" /\ s.name = "failed:pause"}

(* The session was lost, or begun anew. *)
Links == {s \in Signals : s.kind = "disconnected"}

(* After these a cleanup is cut unless it still waits for its pause. *)
Dangerous == Links \cup PauseFailed

(* The configuration was given back, or could not be. *)
RestoredTold == {s \in Signals : s.kind = "restored"}

(* The supply is paused, and nothing that was asked for will move it. *)
Still(a, by, sw) == sw = "no" /\ by # "move" /\ None(a, Moving)

(* A pause is queued, and no motion behind it. *)
Guarded(a) == Fenced(a, Pausing, {}, Moving)

(* A pause is queued, no restore before it and no motion behind it. *)
Barred(a) == Fenced(a, Pausing, Restoring, Moving)

(* A pause is the last thing the worker was asked for. *)
Sole(a) == Fenced(a, Pausing, {}, Unlike)

(* The GUI will hear that the session was lost, after all acknowledgements. *)
Parted(g) == None(g, Told) \/ Fenced(g, Links, {}, Told)

(* The GUI will hear of a danger before it hears of a restored configuration. *)
Doomed(g) == Fenced(g, Dangerous, RestoredTold, {})

(* The last acknowledgement is that of a pause that failed. *)
Refused(g) == Fenced(g, PauseFailed, {}, Told)

(* The GUI will hear of a danger. *)
Danger(g) == ~None(g, Dangerous)

(* The GUI will hear that the session was lost. *)
Lost(g) == ~None(g, Links)

(* Which requests are which. *)
LEMMA Requested2 ==
  ASSUME NEW q \in Postable
  PROVE  /\ q \in Moving <=> q.op \in {"move", "sweep"}
         /\ q \in Pausing <=> q.op = "pause"
         /\ q \in Restoring <=> q.op = "restore"
         /\ q \in Unlike <=> q.op # "connect"
         /\ q \in Connects <=> q.op = "connect"
BY DEF Moving, Pausing, Restoring, Unlike, Connects

(* Which signals are which. *)
LEMMA SignalsAre3 ==
  ASSUME NEW s \in Signals
  PROVE  /\ s \in Told <=> s.kind = "operation"
         /\ s \in PauseFailed <=> s.kind = "operation" /\ s.name = "failed:pause"
         /\ s \in Links <=> s.kind = "disconnected"
         /\ s \in Dangerous <=> s.kind = "disconnected" \/ (s.kind = "operation" /\ s.name = "failed:pause")
         /\ s \in RestoredTold <=> s.kind = "restored"
         /\ s \in PersistentTold <=> s.kind = "operation" /\ s.name = "persistent"
BY DEF Told, PauseFailed, Links, Dangerous, RestoredTold, PersistentTold

(* What taking the next request leaves of each of these. *)
LEMMA TakeOne ==
  ASSUME NEW a \in Seq(Postable), a # <<>>
  PROVE  LET h == Head(a)
             t == Tail(a)
         IN  /\ h \in Postable /\ t \in Seq(Postable)
             /\ None(a, Moving) <=> h.op \notin {"move", "sweep"} /\ None(t, Moving)
             /\ None(a, Restoring) <=> h.op # "restore" /\ None(t, Restoring)
             /\ Guarded(a) => Guarded(t) \/ (h.op = "pause" /\ None(t, Moving))
             /\ Barred(a) => h.op # "restore" /\ (Barred(t) \/ (h.op = "pause" /\ None(t, Moving)))
             /\ Sole(a) => Sole(t) \/ (h.op = "pause" /\ Only(t, Connects) /\ None(t, Moving))
             /\ Only(a, Connects) => h.op = "connect" /\ Only(t, Connects)
<1> DEFINE h == Head(a)
           t == Tail(a)
<1>1. h \in Postable /\ t \in Seq(Postable)
  BY Shrinks
<1>2. /\ h \in Moving <=> h.op \in {"move", "sweep"}
      /\ h \in Pausing <=> h.op = "pause"
      /\ h \in Restoring <=> h.op = "restore"
      /\ h \in Connects <=> h.op = "connect"
  BY <1>1, Requested2
<1>3. (None(a, Moving) <=> h \notin Moving /\ None(t, Moving))
      /\ (None(a, Restoring) <=> h \notin Restoring /\ None(t, Restoring))
  BY NoneShrinks
<1>4. Guarded(a) => Guarded(t) \/ (h \in Pausing /\ None(t, Moving))
  BY FencedShrinks DEF Guarded
<1>5. Barred(a) => (h \notin Restoring /\ Barred(t)) \/ (h \in Pausing /\ None(t, Moving))
  BY FencedShrinks DEF Barred
<1>6. Sole(a) => Sole(t) \/ (h \in Pausing /\ None(t, Unlike))
  BY FencedShrinks DEF Sole
<1>7. Only(a, Connects) => h \in Connects /\ Only(t, Connects)
  BY OnlyShrinks
<1>8. None(t, Unlike) => Only(t, Connects) /\ None(t, Moving)
  <2> SUFFICES ASSUME None(t, Unlike) PROVE Only(t, Connects) /\ None(t, Moving)
    OBVIOUS
  <2>1. \A i \in 1..Len(t) : t[i] \in Postable
    BY <1>1, ElementOfSeq
  <2>2. \A i \in 1..Len(t) : t[i].op = "connect"
    BY <2>1 DEF None, Unlike
  <2> HIDE DEF t
  <2> QED BY <2>1, <2>2 DEF Only, None, Connects, Moving
<1> HIDE DEF h, t
<1>9. h.op = "pause" => h.op # "restore"
  OBVIOUS
<1> QED BY <1>1, <1>2, <1>3, <1>4, <1>5, <1>6, <1>7, <1>8, <1>9 DEF h, t

(* What one more request does to them. *)
LEMMA AskOne ==
  ASSUME NEW a \in Seq(Postable), NEW q \in Postable
  PROVE  LET z == a \o <<q>>
         IN  /\ z \in Seq(Postable)
             /\ None(z, Moving) <=> None(a, Moving) /\ q.op \notin {"move", "sweep"}
             /\ None(z, Restoring) <=> None(a, Restoring) /\ q.op # "restore"
             /\ Guarded(a) /\ q.op \notin {"move", "sweep"} => Guarded(z)
             /\ Barred(a) /\ q.op \notin {"move", "sweep"} => Barred(z)
             /\ Sole(a) /\ q.op = "connect" => Sole(z)
             /\ Only(a, Connects) /\ q.op = "connect" => Only(z, Connects)
             /\ q.op = "pause" => Guarded(z) /\ Sole(z)
<1> DEFINE z == a \o <<q>>
<1>1. z \in Seq(Postable)
  BY Grows
<1>2. /\ q \in Moving <=> q.op \in {"move", "sweep"}
      /\ q \in Pausing <=> q.op = "pause"
      /\ q \in Restoring <=> q.op = "restore"
      /\ q \in Unlike <=> q.op # "connect"
      /\ q \in Connects <=> q.op = "connect"
  BY Requested2
<1>3. (None(z, Moving) <=> None(a, Moving) /\ q \notin Moving)
      /\ (None(z, Restoring) <=> None(a, Restoring) /\ q \notin Restoring)
  BY NoneGrows
<1>4. (Guarded(a) /\ q \notin Moving => Guarded(z)) /\ (Barred(a) /\ q \notin Moving => Barred(z))
      /\ (Sole(a) /\ q \notin Unlike => Sole(z))
  BY FencedGrows DEF Guarded, Barred, Sole
<1>5. Only(z, Connects) <=> Only(a, Connects) /\ q \in Connects
  BY OnlyGrows
<1>6. None(a, {})
  BY DEF None
<1>7. q \in Pausing => Guarded(z) /\ Sole(z)
  BY <1>6, FencedComes DEF Guarded, Sole
<1> HIDE DEF z
<1> QED BY <1>1, <1>2, <1>3, <1>4, <1>5, <1>7 DEF z

(* Which of them follow from which, of the requests. *)
LEMMA Emptier ==
  ASSUME NEW a \in Seq(Postable)
  PROVE  /\ Sole(a) => Guarded(a)
         /\ Guarded(a) /\ None(a, Restoring) => Barred(a)
         /\ Barred(a) => Guarded(a)
         /\ Only(a, Connects) => None(a, Restoring) /\ None(a, Moving)
<1>1. None(a, {}) /\ Moving \subseteq Moving
  BY DEF None
<1>2. Moving \subseteq Unlike
  BY DEF Moving, Unlike
<1>3. Sole(a) => Guarded(a)
  BY <1>1, <1>2, Loosened DEF Sole, Guarded
<1>4. Guarded(a) /\ None(a, Restoring) => Barred(a)
  BY <1>1, Loosened DEF Guarded, Barred
<1>5. Barred(a) => Guarded(a)
  BY <1>1, Loosened DEF Guarded, Barred
<1>6. Only(a, Connects) => None(a, Restoring) /\ None(a, Moving)
  BY DEF Only, None, Connects, Restoring, Moving
<1> QED BY <1>3, <1>4, <1>5, <1>6

(* Which of them follow from which, of the signals. *)
LEMMA Plainer ==
  ASSUME NEW g
  PROVE  /\ Lost(g) => Danger(g)
         /\ None(g, Told) => None(g, PersistentTold)
         /\ Danger(g) /\ None(g, RestoredTold) => Doomed(g)
         /\ Refused(g) => Danger(g)
         /\ Parted(g) => None(g, Told) \/ Lost(g)
<1>1. Links \subseteq Dangerous /\ PauseFailed \subseteq Dangerous /\ PersistentTold \subseteq Told
  BY DEF Dangerous, PersistentTold, Told
<1>2. Lost(g) => Danger(g)
  BY <1>1, NoneOf DEF Lost, Danger
<1>3. None(g, Told) => None(g, PersistentTold)
  BY <1>1, NoneOf
<1>4. Danger(g) /\ None(g, RestoredTold) => Doomed(g)
  BY ThereFenced DEF Danger, Doomed
<1>5. Refused(g) => Danger(g)
  BY <1>1, NoneOf, FencedThere DEF Refused, Danger
<1>6. Parted(g) => None(g, Told) \/ Lost(g)
  BY FencedThere DEF Parted, Lost
<1> QED BY <1>2, <1>3, <1>4, <1>5, <1>6

(* What handling the next signal leaves of each of them. *)
LEMMA HearOne ==
  ASSUME NEW g \in Seq(Signals), g # <<>>
  PROVE  LET s == Head(g)
             t == Tail(g)
         IN  /\ s \in Signals /\ t \in Seq(Signals)
             /\ None(g, Told) <=> s.kind # "operation" /\ None(t, Told)
             /\ None(g, PersistentTold) <=> ~(s.kind = "operation" /\ s.name = "persistent")
                /\ None(t, PersistentTold)
             /\ None(g, RestoredTold) <=> s.kind # "restored" /\ None(t, RestoredTold)
             /\ Danger(g) => Danger(t) \/ s.kind = "disconnected"
                \/ (s.kind = "operation" /\ s.name = "failed:pause")
             /\ Lost(g) => Lost(t) \/ s.kind = "disconnected"
             /\ Parted(g) => Parted(t) /\ (s.kind = "operation" => Lost(t))
             /\ Refused(g) => \/ s.kind = "operation" /\ s.name = "failed:pause" /\ None(t, Told)
                              \/ Refused(t)
             /\ Doomed(g) => \/ s.kind = "disconnected" \/ (s.kind = "operation" /\ s.name = "failed:pause")
                             \/ s.kind # "restored" /\ Doomed(t)
<1> DEFINE s == Head(g)
           t == Tail(g)
<1>1. s \in Signals /\ t \in Seq(Signals)
  BY Shrinks
<1>2. /\ s \in Told <=> s.kind = "operation"
      /\ s \in PauseFailed <=> s.kind = "operation" /\ s.name = "failed:pause"
      /\ s \in Links <=> s.kind = "disconnected"
      /\ s \in Dangerous <=> s.kind = "disconnected" \/ (s.kind = "operation" /\ s.name = "failed:pause")
      /\ s \in RestoredTold <=> s.kind = "restored"
      /\ s \in PersistentTold <=> s.kind = "operation" /\ s.name = "persistent"
  BY <1>1, SignalsAre3
<1>3. /\ None(g, Told) <=> s \notin Told /\ None(t, Told)
      /\ None(g, PersistentTold) <=> s \notin PersistentTold /\ None(t, PersistentTold)
      /\ None(g, RestoredTold) <=> s \notin RestoredTold /\ None(t, RestoredTold)
      /\ None(g, Dangerous) <=> s \notin Dangerous /\ None(t, Dangerous)
      /\ None(g, Links) <=> s \notin Links /\ None(t, Links)
  BY NoneShrinks
<1>4. Fenced(g, Links, {}, Told) => (s \in Links /\ None(t, Told)) \/ Fenced(t, Links, {}, Told)
  BY FencedShrinks
<1>5. Refused(g) => (s \in PauseFailed /\ None(t, Told)) \/ Refused(t)
  BY FencedShrinks DEF Refused
<1>6. Doomed(g) => s \in Dangerous \/ (s \notin RestoredTold /\ Doomed(t))
  BY FencedShrinks DEF Doomed
<1>7. Fenced(t, Links, {}, Told) => Lost(t)
  BY FencedThere DEF Lost
<1> HIDE DEF s, t
<1>8. (Danger(g) => Danger(t) \/ s \in Dangerous) /\ (Lost(g) => Lost(t) \/ s \in Links)
  BY <1>3 DEF Danger, Lost
<1>10. s.kind = "disconnected" => s.kind # "operation"
  OBVIOUS
<1>9. Parted(g) => Parted(t) /\ (s \in Told => Lost(t))
  BY <1>2, <1>3, <1>4, <1>7, <1>10 DEF Parted
<1> QED BY <1>1, <1>2, <1>3, <1>5, <1>6, <1>8, <1>9 DEF s, t

(* What one more signal does to them. *)
LEMMA SayOne ==
  ASSUME NEW g \in Seq(Signals), NEW x \in Signals
  PROVE  LET z == g \o <<x>>
         IN  /\ z \in Seq(Signals)
             /\ None(z, Told) <=> None(g, Told) /\ x.kind # "operation"
             /\ None(z, PersistentTold) <=> None(g, PersistentTold)
                /\ ~(x.kind = "operation" /\ x.name = "persistent")
             /\ None(z, RestoredTold) <=> None(g, RestoredTold) /\ x.kind # "restored"
             /\ Danger(g) \/ x.kind = "disconnected" \/ (x.kind = "operation" /\ x.name = "failed:pause")
                => Danger(z)
             /\ Lost(g) \/ x.kind = "disconnected" => Lost(z)
             /\ (Parted(g) /\ x.kind # "operation") \/ x.kind = "disconnected" => Parted(z)
             /\ (Refused(g) /\ x.kind # "operation") \/ (x.kind = "operation" /\ x.name = "failed:pause")
                => Refused(z)
             /\ Doomed(g) => Doomed(z)
<1> DEFINE z == g \o <<x>>
<1>1. z \in Seq(Signals)
  BY Grows
<1>2. /\ x \in Told <=> x.kind = "operation"
      /\ x \in PauseFailed <=> x.kind = "operation" /\ x.name = "failed:pause"
      /\ x \in Links <=> x.kind = "disconnected"
      /\ x \in Dangerous <=> x.kind = "disconnected" \/ (x.kind = "operation" /\ x.name = "failed:pause")
      /\ x \in RestoredTold <=> x.kind = "restored"
      /\ x \in PersistentTold <=> x.kind = "operation" /\ x.name = "persistent"
  BY SignalsAre3
<1>3. /\ None(z, Told) <=> None(g, Told) /\ x \notin Told
      /\ None(z, PersistentTold) <=> None(g, PersistentTold) /\ x \notin PersistentTold
      /\ None(z, RestoredTold) <=> None(g, RestoredTold) /\ x \notin RestoredTold
      /\ None(z, Dangerous) <=> None(g, Dangerous) /\ x \notin Dangerous
      /\ None(z, Links) <=> None(g, Links) /\ x \notin Links
  BY NoneGrows
<1>4. None(g, {}) /\ x \notin {}
  BY DEF None
<1>5. /\ Fenced(g, Links, {}, Told) /\ x \notin Told => Fenced(z, Links, {}, Told)
      /\ x \in Links => Fenced(z, Links, {}, Told)
  BY <1>4, FencedGrows, FencedComes
<1>6. (Refused(g) /\ x \notin Told) \/ x \in PauseFailed => Refused(z)
  BY <1>4, FencedGrows, FencedComes DEF Refused
<1>7. Doomed(g) => Doomed(z)
  BY <1>4, FencedGrows DEF Doomed
<1> HIDE DEF z
<1>8. (Danger(g) \/ x \in Dangerous => Danger(z)) /\ (Lost(g) \/ x \in Links => Lost(z))
  BY <1>3 DEF Danger, Lost
<1>9. (Parted(g) /\ x \notin Told) \/ x \in Links => Parted(z)
  BY <1>3, <1>5 DEF Parted
<1> QED BY <1>1, <1>2, <1>3, <1>6, <1>7, <1>8, <1>9 DEF z

-----------------------------------------------------------------------------
(* The rule that a magnet is given back still.                             *)

(* No acknowledgement can end the wait for the pause before the supply is paused. *)
Silenced(a, g, by, sw) == Still(a, by, sw) \/ None(g, Told) \/ Lost(g) \/ Refused(g)

(* While a cleanup waits for its pause, that pause is the last request, or it was taken
   and its word is on the way. *)
Waited(a, g, by, sw) ==
    /\ None(a, Restoring) /\ None(g, RestoredTold)
    /\ Sole(a) \/ (Only(a, Connects) /\ by = "no" /\ Silenced(a, g, by, sw))

(* A cleanup: the pause comes before whatever lets it go on. *)
Tamed(k, a, g, by, sw, lk) ==
    /\ Guarded(a) \/ (None(a, Moving) /\ by # "move")
    /\ Still(a, by, sw) \/ Danger(g) \/ None(a, Restoring) \/ Barred(a)
    /\ Still(a, by, sw) \/ None(g, RestoredTold) \/ Doomed(g)
    /\ Still(a, by, sw) \/ Danger(g) \/ None(g, PersistentTold) \/ Guarded(a)
    /\ k.waiting = "restore_done" \/ k.saving => Still(a, by, sw)
    /\ ~lk /\ k.waiting # "pause" => Lost(g)
    /\ k.waiting = "pause" => Waited(a, g, by, sw)

(* The magnet is still when nobody owns it, and until it is configured. *)
Steady(k, a, by, sw, r) == (r > 0 /\ ~k.claimed) \/ (k.claimed /\ ~k.stored) => Still(a, by, sw)

(* A running series has not asked to give the configuration back. *)
Unrestored(k, a, g) == k.active /\ ~k.cleaning => None(a, Restoring) /\ None(g, RestoredTold)

(* Without a session the worker does nothing, and the GUI will hear of the loss. *)
Apart(g, by, lk) == ~lk => by = "no" /\ Parted(g)

(* The magnet is still whenever it is given back, by way of the pause that every
   cleanup asks for first. *)
Ruled(k, a, g, by, sw, lk, r) ==
    /\ Steady(k, a, by, sw, r) /\ Unrestored(k, a, g) /\ Apart(g, by, lk)
    /\ k.cleaning => Tamed(k, a, g, by, sw, lk)

(* The signal of a pause that failed. *)
Failing(s) == s.kind = "operation" /\ s.name = "failed:pause"

(* The signal does not cut the cleanup. *)
Bearable(k, s) == k.cleaning => s.kind # "disconnected" /\ (Failing(s) => k.waiting = "pause")

(* A signal that does not cut the cleanup leaves the rule, before the controller
   answers. *)
LEMMA HearRuled ==
  ASSUME NEW g \in Seq(Signals), g # <<>>, NEW a \in Seq(Postable), NEW k, NEW by, NEW sw, NEW lk, NEW r,
         Ruled(k, a, g, by, sw, lk, r), Bearable(k, Head(g)),
         NEW b, b.active = k.active, b.cleaning = k.cleaning, b.claimed = k.claimed, b.waiting = k.waiting,
         b.saving = k.saving,
         k.stored => b.stored
  PROVE  Ruled(b, a, Tail(g), by, sw, lk, r)
<1> DEFINE s == Head(g)
           t == Tail(g)
<1>1. /\ s \in Signals /\ t \in Seq(Signals)
      /\ None(g, Told) <=> s.kind # "operation" /\ None(t, Told)
      /\ None(g, PersistentTold) <=> ~(s.kind = "operation" /\ s.name = "persistent") /\ None(t, PersistentTold)
      /\ None(g, RestoredTold) <=> s.kind # "restored" /\ None(t, RestoredTold)
      /\ Danger(g) => Danger(t) \/ s.kind = "disconnected" \/ Failing(s)
      /\ Lost(g) => Lost(t) \/ s.kind = "disconnected"
      /\ Parted(g) => Parted(t) /\ (s.kind = "operation" => Lost(t))
      /\ Refused(g) => (Failing(s) /\ None(t, Told)) \/ Refused(t)
      /\ Doomed(g) => s.kind = "disconnected" \/ Failing(s) \/ (s.kind # "restored" /\ Doomed(t))
  BY HearOne DEF Failing
<1>2. /\ Lost(t) => Danger(t)
      /\ None(t, Told) => None(t, PersistentTold)
      /\ Refused(t) => Danger(t)
  BY Plainer
<1>3. /\ Sole(a) => Guarded(a)
      /\ Only(a, Connects) => None(a, Restoring) /\ None(a, Moving)
  BY Emptier
<1>4. Failing(s) => s.kind = "operation"
  BY DEF Failing
<1>5. k.cleaning => s.kind # "disconnected" /\ (Failing(s) => k.waiting = "pause")
  BY DEF Bearable
<1> HIDE DEF s, t
<1>6. Steady(b, a, by, sw, r) /\ Unrestored(b, a, t) /\ Apart(t, by, lk)
  BY <1>1 DEF Ruled, Steady, Unrestored, Apart
<1>7. ASSUME k.cleaning PROVE Tamed(b, a, t, by, sw, lk)
  <2>1. Tamed(k, a, g, by, sw, lk) /\ s.kind # "disconnected" /\ (Failing(s) => k.waiting = "pause")
    BY <1>5, <1>7 DEF Ruled
  <2>2. Waited(a, g, by, sw) => Waited(a, t, by, sw)
    BY <1>1, <2>1 DEF Waited, Silenced
  <2>3. Failing(s) => Waited(a, g, by, sw)
    BY <2>1 DEF Tamed
  <2>4. Failing(s) => None(a, Restoring) /\ None(t, RestoredTold)
        /\ (Still(a, by, sw) \/ Danger(t) \/ None(t, PersistentTold) \/ Guarded(a))
    BY <1>1, <1>2, <1>3, <1>4, <2>1, <2>3 DEF Waited, Silenced
  <2>5. Still(a, by, sw) \/ Danger(t) \/ None(a, Restoring) \/ Barred(a)
    BY <1>1, <2>1, <2>4 DEF Tamed
  <2>6. Still(a, by, sw) \/ None(t, RestoredTold) \/ Doomed(t)
    BY <1>1, <2>1, <2>4 DEF Tamed
  <2>7. Still(a, by, sw) \/ Danger(t) \/ None(t, PersistentTold) \/ Guarded(a)
    BY <1>1, <2>1, <2>4 DEF Tamed
  <2>8. ~lk /\ k.waiting # "pause" => Lost(t)
    BY <1>1, <2>1 DEF Tamed
  <2> QED BY <2>1, <2>2, <2>5, <2>6, <2>7, <2>8 DEF Tamed
<1> QED BY <1>6, <1>7 DEF Ruled, t

(* What the signals that let a cleanup go on say of the magnet. *)
LEMMA HearTells ==
  ASSUME NEW g \in Seq(Signals), g # <<>>, NEW a \in Seq(Postable), NEW k, NEW by, NEW sw, NEW lk, NEW r,
         Ruled(k, a, g, by, sw, lk, r), k.cleaning, Bearable(k, Head(g))
  PROVE  LET s == Head(g)
             t == Tail(g)
         IN  /\ s.kind = "operation" => lk \/ Lost(t)
             /\ s.kind = "operation" /\ s.name = "pause" /\ k.waiting = "pause" => Still(a, by, sw)
                \/ Danger(t) \/ Barred(a)
             /\ s.kind = "operation" /\ s.name = "persistent" => Still(a, by, sw) \/ Danger(t) \/ Barred(a)
             /\ s.kind = "restored" => Still(a, by, sw)
             /\ ~k.stored /\ k.claimed => Still(a, by, sw)
<1> DEFINE s == Head(g)
           t == Tail(g)
<1>1. /\ s \in Signals /\ t \in Seq(Signals)
      /\ None(g, Told) <=> s.kind # "operation" /\ None(t, Told)
      /\ None(g, PersistentTold) <=> ~(s.kind = "operation" /\ s.name = "persistent") /\ None(t, PersistentTold)
      /\ None(g, RestoredTold) <=> s.kind # "restored" /\ None(t, RestoredTold)
      /\ Danger(g) => Danger(t) \/ s.kind = "disconnected" \/ Failing(s)
      /\ Lost(g) => Lost(t) \/ s.kind = "disconnected"
      /\ Parted(g) => Parted(t) /\ (s.kind = "operation" => Lost(t))
      /\ Refused(g) => (Failing(s) /\ None(t, Told)) \/ Refused(t)
      /\ Doomed(g) => s.kind = "disconnected" \/ Failing(s) \/ (s.kind # "restored" /\ Doomed(t))
  BY HearOne DEF Failing
<1>2. /\ Lost(t) => Danger(t)
      /\ Refused(t) => Danger(t)
  BY Plainer
<1>3. /\ Sole(a) => Guarded(a)
      /\ Guarded(a) /\ None(a, Restoring) => Barred(a)
  BY Emptier
<1>4. Failing(s) => s.kind = "operation" /\ s.name # "pause" /\ s.name # "persistent" /\ s.kind # "restored"
  BY DEF Failing
<1>5. s.kind # "disconnected"
  BY DEF Bearable
<1>6. Tamed(k, a, g, by, sw, lk) /\ Steady(k, a, by, sw, r) /\ Apart(g, by, lk)
  BY DEF Ruled
<1> HIDE DEF s, t
<1>7. s.kind = "operation" => lk \/ Lost(t)
  BY <1>1, <1>6 DEF Apart
<1>8. s.kind = "operation" /\ s.name = "pause" /\ k.waiting = "pause" => Still(a, by, sw) \/ Danger(t)
      \/ Barred(a)
  <2> SUFFICES ASSUME s.kind = "operation", s.name = "pause", k.waiting = "pause" PROVE Still(a, by, sw)
               \/ Danger(t) \/ Barred(a)
    OBVIOUS
  <2>1. Waited(a, g, by, sw)
    BY <1>6 DEF Tamed
  <2> QED BY <1>1, <1>2, <1>3, <1>4, <1>5, <2>1 DEF Waited, Silenced
<1>9. s.kind = "operation" /\ s.name = "persistent" => Still(a, by, sw) \/ Danger(t) \/ Barred(a)
  <2> SUFFICES ASSUME s.kind = "operation", s.name = "persistent" PROVE Still(a, by, sw) \/ Danger(t)
               \/ Barred(a)
    OBVIOUS
  <2>1. Still(a, by, sw) \/ Danger(g) \/ Guarded(a)
    BY <1>1, <1>6 DEF Tamed
  <2>2. Still(a, by, sw) \/ Danger(g) \/ None(a, Restoring) \/ Barred(a)
    BY <1>6 DEF Tamed
  <2>3. Danger(g) => Danger(t)
    BY <1>1, <1>4, <1>5
  <2> QED BY <1>3, <2>1, <2>2, <2>3
<1>10. s.kind = "restored" => Still(a, by, sw)
  BY <1>1, <1>4, <1>5, <1>6 DEF Tamed
<1>11. ~k.stored /\ k.claimed => Still(a, by, sw)
  BY <1>6 DEF Steady
<1> QED BY <1>7, <1>8, <1>9, <1>10, <1>11 DEF s, t

(* A request that moves nothing leaves the magnet still. *)
LEMMA StillAsks ==
  ASSUME NEW a \in Seq(Postable), NEW q \in Postable, NEW by, NEW sw
  PROVE  Still(a \o <<q>>, by, sw) <=> Still(a, by, sw) /\ q.op \notin {"move", "sweep"}
<1>1. None(a \o <<q>>, Moving) <=> None(a, Moving) /\ q.op \notin {"move", "sweep"}
  BY AskOne
<1> QED BY <1>1 DEF Still

(* No request leaves the queue as it is. *)
LEMMA AskedNothing ==
  ASSUME NEW a \in Seq(Postable), NEW n, n.ask = <<>>
  PROVE  a \o n.ask = a
BY SameKept

(* A series that goes on keeps the rule: it asks for nothing but a pause until it is
   configured, and never for a restore. *)
LEMMA RanRuled ==
  ASSUME NEW a \in Seq(Postable), NEW b, NEW g, NEW by, NEW sw, NEW lk, NEW r, Ruled(b, a, g, by, sw, lk, r),
         b.active, ~b.cleaning, b.claimed,
         NEW n, n.active, ~n.cleaning, n.claimed, n.stored = b.stored,
         NEW q, n.ask = <<>>
         \/ (n.ask = <<q>> /\ q \in Postable /\ q.op # "restore" /\ (~n.stored => q.op = "pause"))
  PROVE  Ruled(n, a \o n.ask, g, by, sw, lk, r)
<1>1. Steady(b, a, by, sw, r) /\ None(a, Restoring) /\ None(g, RestoredTold) /\ Apart(g, by, lk)
  BY DEF Ruled, Unrestored
<1>2. CASE n.ask = <<>>
  <2>1. a \o n.ask = a
    BY <1>2, AskedNothing
  <2> QED BY <1>1, <2>1 DEF Ruled, Steady, Unrestored
<1>3. CASE n.ask = <<q>> /\ q \in Postable /\ q.op # "restore" /\ (~n.stored => q.op = "pause")
  <2>1. None(a \o <<q>>, Restoring)
    BY <1>1, <1>3, AskOne
  <2>2. ~n.stored => Still(a \o <<q>>, by, sw)
    BY <1>1, <1>3, StillAsks DEF Steady
  <2> QED BY <1>1, <1>3, <2>1, <2>2 DEF Ruled, Steady, Unrestored
<1> QED BY <1>2, <1>3

(* A series that turns to its cleanup keeps it: the pause is the last request. *)
LEMMA CleanedRuled ==
  ASSUME NEW a \in Seq(Postable), NEW b, NEW g, NEW by, NEW sw, NEW lk, NEW r, Ruled(b, a, g, by, sw, lk, r),
         b.active, ~b.cleaning, b.claimed, ~b.saving,
         NEW n, n.cleaning, n.claimed, n.stored = b.stored, n.saving = b.saving, n.waiting = "pause",
         n.ask = <<Request("pause", "user")>>
  PROVE  Ruled(n, a \o n.ask, g, by, sw, lk, r)
<1>1. Steady(b, a, by, sw, r) /\ None(a, Restoring) /\ None(g, RestoredTold) /\ Apart(g, by, lk)
  BY DEF Ruled, Unrestored
<1> DEFINE q == Request("pause", "user")
<1>2. q \in Postable /\ q.op = "pause"
  BY RequestsAre
<1>3. n.ask = <<q>>
  OBVIOUS
<1> HIDE DEF q
<1>4. None(a \o <<q>>, Restoring) /\ Guarded(a \o <<q>>) /\ Sole(a \o <<q>>)
  BY <1>1, <1>2, AskOne
<1>5. Steady(n, a \o <<q>>, by, sw, r)
  BY <1>1, <1>2, StillAsks DEF Steady
<1>6. Tamed(n, a \o <<q>>, g, by, sw, lk)
  BY <1>1, <1>4 DEF Tamed, Waited
<1> QED BY <1>1, <1>3, <1>5, <1>6 DEF Ruled, Unrestored

(* A cleanup that goes on waiting keeps it. *)
LEMMA SitsRuled ==
  ASSUME NEW a \in Seq(Postable), NEW b, NEW g, NEW by, NEW sw, NEW lk, NEW r, Ruled(b, a, g, by, sw, lk, r),
         b.cleaning,
         NEW n, n.cleaning, n.claimed = b.claimed, n.stored = b.stored, n.saving = b.saving,
         n.waiting = b.waiting,
         n.ask = <<>>
  PROVE  Ruled(n, a \o n.ask, g, by, sw, lk, r)
<1>1. a \o n.ask = a
  BY AskedNothing
<1>2. Tamed(n, a, g, by, sw, lk)
  BY DEF Ruled, Tamed
<1> QED BY <1>1, <1>2 DEF Ruled, Unrestored, Steady

(* A cleanup that asks for the next step keeps it, behind its pause or when the magnet
   is still. *)
LEMMA PostsRuled ==
  ASSUME NEW a \in Seq(Postable), NEW b, NEW g, NEW by, NEW sw, NEW lk, NEW r, Ruled(b, a, g, by, sw, lk, r),
         b.cleaning, lk \/ Lost(g),
         NEW n, n.cleaning, n.claimed = b.claimed, n.stored = b.stored, n.saving = b.saving,
         NEW op \in {"persistent", "restore"}, n.ask = <<Request(op, "no")>>, n.waiting = op,
         op = "restore" => Still(a, by, sw) \/ Danger(g) \/ Barred(a)
  PROVE  Ruled(n, a \o n.ask, g, by, sw, lk, r)
<1> DEFINE q == Request(op, "no")
           z == a \o <<q>>
<1>1. q \in Postable /\ q.op = op
  BY RequestsAre
<1>2. a \o n.ask = z
  OBVIOUS
<1> HIDE DEF q
<1>3. /\ None(z, Moving) <=> None(a, Moving)
      /\ op # "restore" /\ None(a, Restoring) => None(z, Restoring)
      /\ Guarded(a) => Guarded(z)
      /\ Barred(a) => Barred(z)
  BY <1>1, AskOne
<1>4. Still(z, by, sw) <=> Still(a, by, sw)
  BY <1>1, StillAsks
<1> HIDE DEF z
<1>5. /\ Steady(b, a, by, sw, r) /\ Apart(g, by, lk) /\ Tamed(b, a, g, by, sw, lk)
  BY DEF Ruled
<1>6. Steady(n, z, by, sw, r)
  BY <1>4, <1>5 DEF Steady
<1>7. Still(z, by, sw) \/ Danger(g) \/ None(z, Restoring) \/ Barred(z)
  BY <1>3, <1>4, <1>5 DEF Tamed
<1>8. n.saving => Still(z, by, sw)
  BY <1>4, <1>5 DEF Tamed
<1>9. Guarded(z) \/ (None(z, Moving) /\ by # "move")
  BY <1>3, <1>5 DEF Tamed
<1>10. (Still(z, by, sw) \/ None(g, RestoredTold) \/ Doomed(g))
       /\ (Still(z, by, sw) \/ Danger(g) \/ None(g, PersistentTold) \/ Guarded(z))
  BY <1>3, <1>4, <1>5 DEF Tamed
<1>11. Tamed(n, z, g, by, sw, lk)
  BY <1>7, <1>8, <1>9, <1>10 DEF Tamed
<1> QED BY <1>2, <1>5, <1>6, <1>11 DEF Ruled, Unrestored

(* A cleanup that ends, or waits for the biases or the files only, keeps it when the
   magnet is still. *)
LEMMA ConcludesRuled ==
  ASSUME NEW a \in Seq(Postable), NEW b, NEW g, NEW by, NEW sw, NEW lk, NEW r, Ruled(b, a, g, by, sw, lk, r),
         b.cleaning, b.waiting = "pause" => lk \/ Lost(g), Still(a, by, sw),
         NEW n, n.ask = <<>>,
         \/ n.cleaning /\ n.waiting \in {b.waiting, "restore", "restore_done"}
         \/ ~n.cleaning /\ ~n.active
  PROVE  Ruled(n, a \o n.ask, g, by, sw, lk, r)
<1>1. a \o n.ask = a
  BY AskedNothing
<1>2. Steady(n, a, by, sw, r) /\ Apart(g, by, lk)
  BY DEF Steady, Ruled
<1>3. CASE n.cleaning /\ n.waiting \in {b.waiting, "restore", "restore_done"}
  <2>1. Tamed(b, a, g, by, sw, lk)
    BY DEF Ruled
  <2>2. ~lk /\ n.waiting # "pause" => Lost(g)
    BY <1>3, <2>1 DEF Tamed
  <2>3. n.waiting = "pause" => Waited(a, g, by, sw)
    BY <1>3, <2>1 DEF Tamed
  <2>4. Tamed(n, a, g, by, sw, lk)
    BY <2>1, <2>2, <2>3 DEF Tamed
  <2> QED BY <1>1, <1>2, <1>3, <2>4 DEF Ruled, Unrestored
<1>4. CASE ~n.cleaning /\ ~n.active
  BY <1>1, <1>2, <1>4 DEF Ruled, Unrestored
<1> QED BY <1>3, <1>4

(* Where nobody owns the magnet nobody asks. *)
LEMMA RestsRuled ==
  ASSUME NEW a \in Seq(Postable), NEW b, NEW g, NEW by, NEW sw, NEW lk, NEW r,
         Ruled(b, a, g, by, sw, lk, r), ~b.claimed,
         NEW n, ~n.claimed, ~n.active, ~n.cleaning,
         NEW q, n.ask = <<>> \/ (n.ask = <<q>> /\ q \in Postable /\ q.op = "persistent")
  PROVE  Ruled(n, a \o n.ask, g, by, sw, lk, r)
<1>1. Steady(b, a, by, sw, r) /\ Apart(g, by, lk)
  BY DEF Ruled
<1>2. Still(a, by, sw) => Still(a \o n.ask, by, sw)
  BY AskedNothing, StillAsks
<1> QED BY <1>1, <1>2 DEF Ruled, Steady, Unrestored

-----------------------------------------------------------------------------
(* The steps of the GUI, a third time.                                     *)

(* The rule, of the present state. *)
Now == Ruled(c, aps, gui, busy, sweep, linked, runs)

(* The third invariant, for a series that was not cut. *)
Sound3 == cut \/ Now

(* The rule looks at few fields of the controller. *)
LEMMA RuledSame ==
  ASSUME NEW k, NEW a, NEW g, NEW by, NEW sw, NEW lk, NEW r, Ruled(k, a, g, by, sw, lk, r),
         NEW n, n.active = k.active, n.cleaning = k.cleaning, n.claimed = k.claimed, n.stored = k.stored,
         n.waiting = k.waiting, n.saving = k.saving
  PROVE  Ruled(n, a, g, by, sw, lk, r)
<1>1. k.cleaning => Tamed(n, a, g, by, sw, lk)
  BY DEF Ruled, Tamed
<1> QED BY <1>1 DEF Ruled, Steady, Unrestored

(* A handler's step keeps the rule when its controller and its requests do. *)
LEMMA RuledPosted ==
  ASSUME NEW n, Typed(n), Becomes(n), Outside, Ruled(n, aps \o n.ask, gui', busy, sweep, linked, runs')
  PROVE  Now'
<1> DEFINE m == [n EXCEPT !.ask = <<>>, !.do = <<>>]
<1>1. c' = m /\ aps' = aps \o n.ask /\ busy' = busy /\ sweep' = sweep /\ linked' = linked
  BY DEF Becomes, Outside
<1>2. m.active = n.active /\ m.cleaning = n.cleaning /\ m.claimed = n.claimed /\ m.stored = n.stored
      /\ m.waiting = n.waiting /\ m.saving = n.saving
  BY DEF Typed, Slots
<1> HIDE DEF m
<1>3. Ruled(m, aps \o n.ask, gui', busy, sweep, linked, runs')
  BY <1>2, RuledSame
<1> QED BY <1>1, <1>3 DEF Now

(* A step of the running series, or its turn to the cleanup. *)
LEMMA WentRuled ==
  ASSUME Sound1, Order(c, aps, gui, busy, heater, lane), Now, NEW n, Becomes(n), Outside, gui' = gui,
         runs' = runs,
         c.active, ~c.cleaning, Went(c, n), Early(c) => EarlyOut(n)
  PROVE  Now'
<1>1. aps \in Seq(Postable) /\ Owning(c, runs) /\ Runs(c)
  BY RunsAre DEF Sound1, World, Law, Lawful
<1>2. c.claimed /\ ~c.saving
  BY <1>1 DEF Owning
<1>3. Ruled(c, aps, gui, busy, sweep, linked, runs)
  BY DEF Now
<1>4. CASE Ran(c, n)
  <2>1. n.active /\ ~n.cleaning /\ n.claimed /\ n.stored = c.stored /\ Typed(n)
    BY <1>2, <1>4 DEF Ran, Runs, Frame
  <2>2. ~n.stored => n.ask = <<>> \/ Interposes(n)
    BY <2>1 DEF Order, Opening, EarlyOut
  <2>3. PICK q : n.ask = <<>>
             \/ (n.ask = <<q>> /\ q \in Postable /\ q.op \in {"pause", "persistent", "move", "sweep"})
    BY <1>4, AsksAre
  <2>4. n.ask = <<q>> /\ Interposes(n) => q.op = "pause"
    BY RequestsAre DEF Interposes, PauseTo
  <2>5. n.ask = <<>> \/ (n.ask = <<q>> /\ q \in Postable /\ q.op # "restore" /\ (~n.stored => q.op = "pause"))
    BY <2>2, <2>3, <2>4
  <2>6. Ruled(n, aps \o n.ask, gui, busy, sweep, linked, runs)
    BY <1>1, <1>2, <1>3, <2>1, <2>5, RanRuled
  <2> QED BY <2>1, <2>6, RuledPosted
<1>5. CASE Cleaned(c, n)
  <2>1. /\ n.cleaning /\ n.claimed /\ n.stored = c.stored /\ n.saving = c.saving /\ n.waiting = "pause"
        /\ Typed(n)
        /\ n.ask = <<Request("pause", "user")>>
    BY <1>2, <1>5 DEF Cleaned, Frame, PauseTo
  <2>2. Ruled(n, aps \o n.ask, gui, busy, sweep, linked, runs)
    BY <1>1, <1>2, <1>3, <2>1, CleanedRuled
  <2> QED BY <2>1, <2>2, RuledPosted
<1> QED BY <1>4, <1>5 DEF Went

(* The state stands: only what nobody looks at changes. *)
LEMMA StandsRuled ==
  ASSUME Sound1, Now, NEW n, Becomes(n), Outside, gui' = gui, runs' = runs, Typed(n), n.ask = <<>>,
         n.active = c.active, n.cleaning = c.cleaning, n.claimed = c.claimed, n.stored = c.stored,
         n.waiting = c.waiting, n.saving = c.saving
  PROVE  Now'
<1>1. Ruled(n, aps, gui, busy, sweep, linked, runs)
  BY RuledSame DEF Now
<1>2. aps \o n.ask = aps
  BY AskedNothing DEF Sound1, World
<1> QED BY <1>1, <1>2, RuledPosted

(* A step of the GUI that changes a running series only. *)
LEMMA AloneRuled ==
  ASSUME Sound1, Order(c, aps, gui, busy, heater, lane), Now, NEW n, Becomes(n), Outside, gui' = gui,
         runs' = runs,
         c.active /\ ~c.cleaning => Went(c, n) /\ (Early(c) => EarlyOut(n)),
         ~(c.active /\ ~c.cleaning) => n = c
  PROVE  Now'
<1>1. CASE c.active /\ ~c.cleaning
  BY <1>1, WentRuled
<1>2. CASE n = c
  <2>1. Typed(c) /\ Silent(c)
    BY DEF Sound1, Law, Lawful, Typing
  <2> QED BY <1>2, <2>1, StandsRuled DEF Silent
<1> QED BY <1>1, <1>2

(* A snapshot of the magnet. *)
LEMMA SnapshotRuled ==
  ASSUME Sound1, Order(c, aps, gui, busy, heater, lane), Now, Snapshot
  PROVE  Now'
<1> DEFINE n == SnapshotHandled(c, reading)
<1>1. Becomes(n) /\ gui' = gui /\ Outside /\ runs' = runs
  BY DEF Snapshot
<1>2. c.active /\ ~c.cleaning => Out(c, n) /\ (Early(c) => EarlyOut(n))
  BY RunsAre, LSnapshotHandled, ESnapshotHandled DEF Sound1, Law, Lawful, Pending
<1>3. ~(c.active /\ ~c.cleaning) => n = c
  BY DEF SnapshotHandled
<1> HIDE DEF n
<1> QED BY <1>1, <1>2, <1>3, OutWent, AloneRuled

(* A snapshot of the temperatures. *)
LEMMA LakeSnapshotRuled ==
  ASSUME Sound1, Order(c, aps, gui, busy, heater, lane), Now, LakeSnapshot
  PROVE  Now'
<1> DEFINE n == LakeHandled(c)
<1>1. Becomes(n) /\ gui' = gui /\ Outside /\ runs' = runs
  BY DEF LakeSnapshot
<1>2. c.active /\ ~c.cleaning => Out(c, n) /\ (Early(c) => EarlyOut(n))
  BY RunsAre, LLakeHandled, ELakeHandled DEF Sound1
<1>3. ~(c.active /\ ~c.cleaning) => n = c
  BY DEF LakeHandled
<1> HIDE DEF n
<1> QED BY <1>1, <1>2, <1>3, OutWent, AloneRuled

(* The watchdog. *)
LEMMA WatchdogRuled ==
  ASSUME Sound1, Order(c, aps, gui, busy, heater, lane), Now, Watchdog
  PROVE  Now'
<1> DEFINE n == WatchdogHandled(c)
<1>1. Becomes(n) /\ gui' = gui /\ Outside /\ runs' = runs
  BY DEF Watchdog
<1>2. c.active /\ ~c.cleaning => Out(c, n) /\ (Early(c) => EarlyOut(n))
  BY RunsAre, LWatchdogHandled, EWatchdogHandled DEF Sound1
<1>3. ~(c.active /\ ~c.cleaning) => n = c
  BY DEF WatchdogHandled
<1> HIDE DEF n
<1> QED BY <1>1, <1>2, <1>3, OutWent, AloneRuled

(* The run fails for a reason of its own. *)
LEMMA RunFailsRuled ==
  ASSUME Sound1, Order(c, aps, gui, busy, heater, lane), Now, RunFails
  PROVE  Now'
<1>1. PICK f : f \in {"unchanged", "persistent"} /\ Adverse(Fail(c, f))
  BY DEF RunFails
<1> DEFINE n == Fail(c, f)
<1>2. Becomes(n) /\ gui' = gui /\ Outside /\ runs' = runs /\ c.active /\ ~c.cleaning
  BY <1>1 DEF RunFails, Adverse
<1>3. Out(c, n) /\ (Early(c) => EarlyOut(n))
  BY <1>2, RunsAre, FailCleans, EFail DEF Sound1, Out
<1> HIDE DEF n
<1> QED BY <1>2, <1>3, OutWent, AloneRuled

(* The monitoring is lost. *)
LEMMA MonitoringLostRuled ==
  ASSUME Sound1, Order(c, aps, gui, busy, heater, lane), Now, MonitoringLost
  PROVE  Now'
<1> DEFINE n == BeginHold(c)
<1>2. Becomes(n) /\ gui' = gui /\ Outside /\ runs' = runs /\ c.active /\ ~c.cleaning
  BY DEF MonitoringLost, Adverse
<1>3. Out(c, n) /\ (Early(c) => EarlyOut(n))
  BY <1>2, RunsAre, LBeginHold, EBeginHold DEF Sound1
<1> HIDE DEF n
<1> QED BY <1>2, <1>3, OutWent, AloneRuled

(* The operator continues. *)
LEMMA ContinueRuled ==
  ASSUME Sound1, Order(c, aps, gui, busy, heater, lane), Now, Continue
  PROVE  Now'
<1> DEFINE n == Resume(c, TRUE)
<1>1. Becomes(n) /\ gui' = gui /\ Outside /\ runs' = runs
  BY DEF Continue
<1>2. CASE c.active /\ ~c.cleaning
  <2>1. Went(c, n) /\ (Early(c) => EarlyOut(n))
    BY <1>2, RunsAre, LResume, EResume DEF Sound1, Went
  <2> HIDE DEF n
  <2> QED BY <1>1, <1>2, <2>1, WentRuled
<1>3. CASE ~(c.active /\ ~c.cleaning)
  <2>1. n = [c EXCEPT !.button = FALSE]
    BY <1>3 DEF Resume
  <2>2. Typed(c) /\ Silent(c)
    BY DEF Sound1, Law, Lawful, Typing
  <2> HIDE DEF n
  <2>3. /\ Typed(n) /\ n.active = c.active /\ n.cleaning = c.cleaning /\ n.ask = <<>>
        /\ n.claimed = c.claimed /\ n.stored = c.stored /\ n.waiting = c.waiting /\ n.saving = c.saving
    BY <2>1, <2>2 DEF Typed, Slots, Silent
  <2> QED BY <1>1, <2>3, StandsRuled
<1> QED BY <1>2, <1>3

(* The heater of the transition has cooled. *)
LEMMA RowCooledRuled ==
  ASSUME Sound1, Now, RowCooled
  PROVE  Now'
<1> DEFINE n == [c EXCEPT !.rowCooling = FALSE]
<1>1. c' = n /\ aps' = aps /\ gui' = gui /\ busy' = busy /\ sweep' = sweep /\ linked' = linked /\ runs' = runs
  BY DEF RowCooled, magnetVars
<1>2. Typed(c)
  BY DEF Sound1, Law, Lawful, Typing
<1>3. /\ n.active = c.active /\ n.cleaning = c.cleaning /\ n.claimed = c.claimed /\ n.stored = c.stored
      /\ n.waiting = c.waiting /\ n.saving = c.saving
  BY <1>2 DEF Typed, Slots
<1> HIDE DEF n
<1>4. Ruled(n, aps, gui, busy, sweep, linked, runs)
  BY <1>3, RuledSame DEF Now
<1> QED BY <1>1, <1>4 DEF Now

(* The close was refused. *)
LEMMA CloseRejectedRuled ==
  ASSUME Sound1, Now, CloseRejected
  PROVE  Now'
<1> DEFINE n == [c EXCEPT !.shutdownDone = FALSE]
<1>1. Becomes(n) /\ gui' = gui /\ Outside /\ runs' = runs
  BY DEF CloseRejected
<1>2. Typed(c) /\ Silent(c)
  BY DEF Sound1, Law, Lawful, Typing
<1>3. /\ Typed(n) /\ n.active = c.active /\ n.cleaning = c.cleaning /\ n.ask = <<>>
      /\ n.claimed = c.claimed /\ n.stored = c.stored /\ n.waiting = c.waiting /\ n.saving = c.saving
  BY <1>2 DEF Typed, Slots, Silent
<1> HIDE DEF n
<1> QED BY <1>1, <1>3, StandsRuled

(* The series, or its cleanup, is stopped. *)
LEMMA StopRunRuled ==
  ASSUME Sound1, Order(c, aps, gui, busy, heater, lane), Now, NEW n, Becomes(n), Outside, gui' = gui,
         runs' = runs,
         (c.cleaning /\ n = ForcePersistent(c))
         \/ (c.active /\ ~c.cleaning /\ n = Cleanup(c, "stopped", "persistent"))
  PROVE  Now'
<1>1. CASE c.active /\ ~c.cleaning /\ n = Cleanup(c, "stopped", "persistent")
  <2>1. Runs(c) /\ Silent(c)
    BY <1>1, RunsAre DEF Sound1
  <2>2. Cleaned(c, n)
    BY <1>1, <2>1, CleanupCleans DEF Runs
  <2>3. EarlyOut(n)
    BY <2>2 DEF Cleaned, EarlyOut
  <2> QED BY <1>1, <2>2, <2>3, WentRuled DEF Went
<1>2. CASE c.cleaning /\ n = ForcePersistent(c)
  <2>1. Cleans(c) /\ aps \in Seq(Postable)
    BY <1>2, Three DEF Runs, Idles, Sound1, World
  <2>2. Ruled(c, aps, gui, busy, sweep, linked, runs)
    BY DEF Now
  <2>3. CASE c.waiting = "restore" /\ Posts(c, n, "persistent")
    <3>1. /\ n.cleaning /\ n.claimed = c.claimed /\ n.stored = c.stored /\ n.saving = c.saving /\ Typed(n)
          /\ n.ask = <<Request("persistent", "no")>> /\ n.waiting = "persistent"
      BY <2>3 DEF Posts, Remains, Owns, Tended
    <3>2. linked \/ Lost(gui)
      BY <1>2, <2>2, <2>3 DEF Ruled, Tamed
    <3>3. Ruled(n, aps \o n.ask, gui, busy, sweep, linked, runs)
      BY <1>2, <2>1, <2>2, <3>1, <3>2, PostsRuled
    <3> QED BY <3>1, <3>3, RuledPosted
  <2>4. CASE Sits(c, n)
    <3>1. /\ n.cleaning /\ n.claimed = c.claimed /\ n.stored = c.stored /\ n.saving = c.saving /\ Typed(n)
          /\ n.active = c.active
          /\ n.ask = <<>> /\ n.waiting = c.waiting
      BY <2>4 DEF Sits, Remains, Owns, Tended
    <3> QED BY <1>2, <3>1, StandsRuled
  <2> QED BY <1>2, <2>1, <2>3, <2>4, CForce
<1> QED BY <1>1, <1>2

(* The operator stops. *)
LEMMA StopRuled ==
  ASSUME Sound1, Order(c, aps, gui, busy, heater, lane), Now, Stop
  PROVE  Now'
<1> DEFINE n == StopRun(c)
<1>1. Becomes(n) /\ gui' = gui /\ Outside /\ runs' = runs
  BY DEF Stop
<1>2. (c.cleaning /\ n = ForcePersistent(c))
      \/ (c.active /\ ~c.cleaning /\ n = Cleanup(c, "stopped", "persistent"))
  BY DEF Stop, StopRun
<1> HIDE DEF n
<1> QED BY <1>1, <1>2, StopRunRuled

(* The application closes. *)
LEMMA CloseRuled ==
  ASSUME Sound1, Order(c, aps, gui, busy, heater, lane), Now, Close
  PROVE  Now'
<1> DEFINE n == PrepareShutdown(c)
<1>1. Becomes(n) /\ gui' = gui /\ Outside /\ runs' = runs
  BY DEF Close
<1>2. CASE c.cleaning \/ c.active
  <2>1. (c.cleaning /\ n = ForcePersistent(c))
        \/ (c.active /\ ~c.cleaning /\ n = Cleanup(c, "stopped", "persistent"))
    BY <1>2 DEF PrepareShutdown
  <2> HIDE DEF n
  <2> QED BY <1>1, <2>1, StopRunRuled
<1>3. CASE ~c.cleaning /\ ~c.active
  <2>1. Typed(c) /\ Silent(c) /\ ~c.claimed /\ aps \in Seq(Postable)
    BY <1>3 DEF Sound1, Law, Lawful, Typing, Owning, World
  <2>2. n = c \/ n = Ask([c EXCEPT !.shutdownExclusive = TRUE, !.shutdownWaiting = TRUE],
        Request("persistent", "no"))
    BY <1>3 DEF PrepareShutdown
  <2> HIDE DEF n
  <2>3. Typed(n) /\ ~n.active /\ ~n.cleaning /\ ~n.claimed
    <3>1. CASE n = c
      BY <1>3, <2>1, <3>1
    <3>2. CASE n = Ask([c EXCEPT !.shutdownExclusive = TRUE, !.shutdownWaiting = TRUE],
               Request("persistent", "no"))
      BY <1>3, <2>1, <3>2 DEF Ask, Typed, Slots
    <3> QED BY <2>2, <3>1, <3>2
  <2>4. n.ask = <<>> \/ n.ask = <<Request("persistent", "no")>>
    BY <2>1, <2>2, One DEF Ask, Typed, Slots, Silent
  <2>5. Request("persistent", "no") \in Postable /\ Request("persistent", "no").op = "persistent"
    BY RequestsAre
  <2>6. Ruled(n, aps \o n.ask, gui, busy, sweep, linked, runs)
    BY <2>1, <2>3, <2>4, <2>5, RestsRuled DEF Now
  <2> QED BY <1>1, <2>3, <2>6, RuledPosted
<1> QED BY <1>2, <1>3

(* The files are written, and the magnet is given back. *)
LEMMA SavedRuled ==
  ASSUME Sound1, Now, Saved
  PROVE  Now'
<1> DEFINE n == Release([c EXCEPT !.saving = FALSE, !.lanes = FALSE])
<1>1. Becomes(n) /\ gui' = gui /\ Outside /\ c.saving /\ runs' = runs
  BY DEF Saved
<1>2. Typed(c) /\ Silent(c) /\ aps \in Seq(Postable) /\ Owning(c, runs)
  BY DEF Sound1, Law, Lawful, Typing, World
<1> HIDE DEF n
<1>3. Typed(n) /\ n.ask = <<>>
  BY <1>2 DEF Typed, Slots, Silent, n, Release, Phases
<1>4. ~n.active /\ ~n.cleaning
  BY <1>2 DEF Typed, Slots, n, Release
<1>5. c.cleaning
  BY <1>1, <1>2 DEF Owning
<1>6. Still(aps, busy, sweep) /\ Steady(c, aps, busy, sweep, runs) /\ Apart(gui, busy, linked)
  BY <1>1, <1>5 DEF Now, Ruled, Tamed
<1>7. aps \o n.ask = aps
  BY <1>2, <1>3, AskedNothing
<1>8. Ruled(n, aps \o n.ask, gui, busy, sweep, linked, runs)
  BY <1>4, <1>6, <1>7 DEF Ruled, Steady, Unrestored
<1> QED BY <1>1, <1>3, <1>8, RuledPosted

(* Nothing of an earlier series is left when a series begins undisturbed. *)
LEMMA DrainedIs ==
  ASSUME Sound1, Drained
  PROVE  /\ aps \in Seq(Postable) /\ Still(aps, busy, sweep) /\ None(aps, Restoring) /\ None(gui, RestoredTold)
<1>1. aps \in Seq(Postable) /\ gui \in Seq(Signals) /\ busy = "no" /\ sweep = "no"
  BY DEF Sound1, Law, Lawful, Typing, World, Drained
<1>2. \A i \in 1..Len(aps) : aps[i] \in Postable /\ aps[i].op = "connect"
  BY <1>1, LenProperties, ElementOfSeq DEF Drained
<1>3. \A i \in 1..Len(gui) : gui[i] \in Signals /\ gui[i].kind \in {"error", "disconnected"}
  BY <1>1, LenProperties, ElementOfSeq DEF Drained
<1>4. None(aps, Moving) /\ None(aps, Restoring)
  BY <1>2 DEF None, Moving, Restoring
<1>5. None(gui, RestoredTold)
  BY <1>3 DEF None, RestoredTold
<1> QED BY <1>1, <1>4, <1>5 DEF Still

(* A series begins. *)
LEMMA StartRuled ==
  ASSUME Sound1, NEW round \in BOOLEAN, NEW row \in BOOLEAN, Start(round, row)
  PROVE  Sound3'
<1> DEFINE k == [Controller EXCEPT !.active = TRUE, !.round = round, !.row = row,
                        !.phase = "configuring", !.claimed = TRUE, !.exclusive = TRUE, !.lanes = TRUE]
           q == Request("configure", "no")
           n == Ask(k, q)
<1>1. Becomes(n) /\ gui' = gui /\ Outside /\ cut' = ~Drained /\ linked
  BY DEF Start, MayStart
<1>2. Typed(k) /\ k.ask = <<>>
  BY Fresh DEF Typed, Slots, Phases
<1>3. k.active /\ ~k.cleaning
  BY Fresh DEF Controller
<1> HIDE DEF k
<1>4. Typed(n) /\ n.active /\ ~n.cleaning
  BY <1>2, <1>3 DEF Ask, Typed, Slots
<1>5. n.ask = <<q>>
  BY <1>2, One DEF Ask, Typed, Slots
<1> HIDE DEF n
<1>6. q \in Postable /\ q.op = "configure"
  BY RequestsAre
<1> HIDE DEF q
<1>7. CASE Drained
  <2>1. aps \in Seq(Postable) /\ Still(aps, busy, sweep) /\ None(aps, Restoring) /\ None(gui, RestoredTold)
    BY <1>7, DrainedIs
  <2>2. Still(aps \o n.ask, busy, sweep) /\ None(aps \o n.ask, Restoring)
    BY <1>5, <1>6, <2>1, StillAsks, AskOne
  <2>3. Ruled(n, aps \o n.ask, gui', busy, sweep, linked, runs')
    BY <1>1, <1>4, <2>1, <2>2 DEF Ruled, Steady, Unrestored, Apart
  <2> QED BY <1>1, <1>4, <2>3, RuledPosted DEF Sound3
<1> QED BY <1>1, <1>7 DEF Sound3

(* A series fails to begin. *)
LEMMA StartFailsRuled ==
  ASSUME Sound1, StartFails
  PROVE  Sound3'
<1> DEFINE k == [Controller EXCEPT !.exclusive = TRUE, !.claimed = TRUE]
           d == Cleanup(k, "failed", "persistent")
           n == [d EXCEPT !.zeroed = TRUE, !.do = <<>>]
           q == Request("pause", "user")
<1>1. Becomes(n) /\ gui' = gui /\ Outside /\ cut' = ~Drained /\ linked
  BY DEF StartFails, MayStart
<1>2. Typed(k) /\ k.ask = <<>> /\ k.do = <<>>
  BY Fresh DEF Typed, Slots, Phases
<1>3. ~k.active /\ ~k.cleaning /\ k.claimed /\ ~k.saving
  BY Fresh DEF Controller
<1> HIDE DEF k
<1>4. Typed(d) /\ d.cleaning /\ ~d.saving /\ d.waiting = "pause"
  BY <1>2, <1>3, C3 DEF Cleanup, Ask, Do, Typed, Slots, Phases, Waits
<1>5. d.ask = <<q>>
  BY <1>2, <1>3, One DEF Cleanup, Ask, Do, Typed, Slots
<1> HIDE DEF d
<1>6. Typed(n) /\ n.cleaning /\ ~n.saving /\ n.waiting = "pause" /\ n.ask = <<q>>
  BY <1>4, <1>5 DEF Typed, Slots
<1> HIDE DEF n
<1>7. q \in Postable /\ q.op = "pause"
  BY RequestsAre
<1> HIDE DEF q
<1>8. CASE Drained
  <2>1. aps \in Seq(Postable) /\ Still(aps, busy, sweep) /\ None(aps, Restoring) /\ None(gui, RestoredTold)
    BY <1>8, DrainedIs
  <2>2. Still(aps \o n.ask, busy, sweep) /\ None(aps \o n.ask, Restoring) /\ Guarded(aps \o n.ask)
        /\ Sole(aps \o n.ask)
    BY <1>6, <1>7, <2>1, StillAsks, AskOne
  <2>3. Tamed(n, aps \o n.ask, gui, busy, sweep, linked)
    BY <1>1, <1>6, <2>1, <2>2 DEF Tamed, Waited
  <2>4. Ruled(n, aps \o n.ask, gui', busy, sweep, linked, runs')
    BY <1>1, <1>6, <2>2, <2>3 DEF Ruled, Steady, Unrestored, Apart
  <2> QED BY <1>1, <1>6, <2>4, RuledPosted DEF Sound3
<1> QED BY <1>1, <1>8 DEF Sound3

(* What a signal's first half leaves alone. *)
LEMMA BaseIs2 ==
  ASSUME NEW k, NEW s, Typed(k)
  PROVE  LET b == Base(k, s)
         IN  b.claimed = k.claimed /\ b.waiting = k.waiting /\ b.saving = k.saving
BY DEF Base, Typed, Slots

(* What a cleanup answers, and to which signal. *)
LEMMA CleansAnswers ==
  ASSUME Law, gui # <<>>, Cleans(c), Head(gui).kind # "disconnected", ~Moves(Handled(Head(gui)).ask)
  PROVE  LET s == Head(gui)
             b == Base(c, s)
             n == Handled(s)
         IN  \/ Sits(b, n)
             \/ s.kind = "operation" /\ Posts(b, n, "persistent")
             \/ /\ s.kind = "operation" /\ ((s.name = "pause" /\ c.waiting = "pause") \/ s.name = "persistent")
                /\ Posts(b, n, "restore")
             \/ s.kind = "operation" /\ ~b.stored /\ Concludes(b, n)
             \/ s.kind = "restored" /\ c.waiting = "restore" /\ Concludes(b, n)
             \/ s.kind = "zeroed" /\ c.waiting = "restore_done" /\ Concludes(b, n)
<1> DEFINE s == Head(gui)
           b == Base(c, s)
           n == Handled(s)
<1>1. Silent(b) /\ Cleans(b) /\ s.kind \in Kinds /\ s.ok \in BOOLEAN /\ ~c.shutdownWaiting
  BY BaseKeeps, Heads DEF Law, Lawful, Owning, Cleans
<1>2. Delivers(s, n)
  BY CleansHandled
<1>3. ~(Remains(b, n) /\ n.ask = <<Request("move", "start")>>)
  <2>1. n.ask = <<Request("move", "start")>> => Moves(n.ask)
    BY Going DEF Goes
  <2> QED BY <2>1
<1>4. \/ Sits(b, n)
      \/ (Posts(b, n, "persistent") \/ Posts(b, n, "restore")) /\ s.kind = "operation"
      \/ Concludes(b, n)
  <2> HIDE DEF n
  <2> QED BY <1>1, <1>2, <1>3 DEF Delivers, Runs, Cleans, Idles
<1> HIDE DEF s
<1>5. CASE s.kind = "operation"
  <2>1. b = c
    BY <1>5 DEF Base, Cleans
  <2>2. n = AnswersCleanup(c, s.name)
    BY <1>1, <1>5 DEF Handled, MagnetOperation, Cleans
  <2> HIDE DEF b, n
  <2> QED BY <1>5, <2>1, <2>2, CAnswers DEF s, b, n
<1>6. CASE s.kind = "restored"
  <2>1. b = c
    BY <1>6 DEF Base, Cleans
  <2>2. n = Restored(c, s.ok)
    BY <1>6 DEF Handled
  <2> HIDE DEF b, n
  <2> QED BY <1>1, <1>6, <2>1, <2>2, CRestored DEF s, b, n
<1>7. CASE s.kind = "zeroed"
  <2>1. b = [c EXCEPT !.zeroed = TRUE] /\ n = BiasesZeroed(c, s.ok)
    BY <1>7 DEF Base, Handled
  <2> HIDE DEF b, n
  <2> QED BY <1>1, <1>7, <2>1, CBiasesZeroed DEF s, b, n
<1>8. CASE s.kind = "configured"
  <2>1. CASE s.ok /\ c.active
    <3>1. b = [c EXCEPT !.stored = TRUE] /\ n = Configured(c, s.ok)
      BY <1>8, <2>1 DEF Base, Handled
    <3>2. n = c => Sits(b, n)
      <4>1. Configured(c, TRUE).stored
        BY <2>1 DEF Configured, Position, Ask, Cleans, Typed, Slots
      <4>2. n = c => c.stored
        BY <1>1, <2>1, <3>1, <4>1
      <4>3. c.stored => Sits([c EXCEPT !.stored = TRUE], c)
        BY DEF Sits, Remains, Owns, Tended, Cleans, Typed, Slots, Silent
      <4> HIDE DEF b, n
      <4> QED BY <3>1, <4>2, <4>3
    <3> HIDE DEF b, n
    <3>3. Sits(b, n)
      BY <1>1, <1>3, <3>1, <3>2, CConfigured
    <3> QED BY <3>3 DEF s, b, n
  <2>2. CASE ~(s.ok /\ c.active)
    <3>1. b = c /\ n = c
      BY <1>1, <1>8, <2>2 DEF Base, Handled, Configured, Fail, Cleans
    <3> HIDE DEF b, n
    <3>2. Sits(b, n)
      BY <3>1, CStay
    <3> QED BY <3>2 DEF s, b, n
  <2> QED BY <2>1, <2>2
<1>9. CASE s.kind \in {"moved", "swept", "error", "biases", "sample"}
  <2>1. CASE s.kind = "sample"
    <3>1. b = [c EXCEPT !.pending = @ - 1] /\ n = SampleReady(c, s.ok)
      BY <2>1 DEF Base, Handled
    <3> HIDE DEF b, n
    <3>2. Sits(b, n)
      BY <1>1, <3>1, CSampleReady, CStay
    <3> QED BY <3>2 DEF s, b, n
  <2>2. CASE s.kind # "sample"
    <3>1. b = c
      BY <1>9, <2>2 DEF Base
    <3> HIDE DEF b
    <3>2. s.kind \in {"moved", "swept"} => n = c
      BY DEF Handled, Moved, SweepStarted, Cleans
    <3>3. (s.kind = "error" => n = MagnetError(c, s.name)) /\ (s.kind = "biases" => n = BiasesReady(c, s.ok))
      BY DEF Handled
    <3> HIDE DEF n
    <3>4. Sits(b, n)
      BY <1>1, <1>9, <2>2, <3>1, <3>2, <3>3, CStay, CMagnetError, CBiasesReady
    <3> QED BY <3>4 DEF s, b, n
  <2> QED BY <2>1, <2>2
<1> QED BY <1>1, <1>5, <1>6, <1>7, <1>8, <1>9 DEF s, Kinds

(* Before the magnet is configured a signal makes the run pause, at most. *)
LEMMA DeliverEarly ==
  ASSUME Sound1, Order(c, aps, gui, busy, heater, lane), gui # <<>>, c.active, ~c.cleaning, ~c.stored,
         NEW n, n = Handled(Head(gui)), n.active, ~n.cleaning, n.stored = Base(c, Head(gui)).stored
  PROVE  n.stored \/ n.ask = <<>> \/ Interposes(n)
<1> DEFINE s == Head(gui)
<1>1. Typed(c) /\ gui \in Seq(Signals) /\ Owning(c, runs) /\ Runs(c) /\ Silent(c)
  BY RunsAre DEF Sound1, Law, Lawful, Typing
<1>2. s \in Signals
  BY <1>1, Shrinks
<1>3. s.kind = "configured" /\ s.ok /\ c.active => Base(c, s).stored
  BY <1>1, BaseIs
<1>4. s.kind = "configured" /\ ~s.ok => n.cleaning
  <2> SUFFICES ASSUME s.kind = "configured", ~s.ok PROVE n.cleaning
    OBVIOUS
  <2>1. n = Fail(c, "persistent")
    BY DEF Handled, Configured
  <2>2. Cleaned(c, n)
    BY <1>1, <2>1, FailCleans
  <2> QED BY <2>2 DEF Cleaned
<1>5. Early(c) /\ s.kind \in {"error", "disconnected", "configured"}
  <2>1. Only(gui, Asides) => s \in Asides
    BY <1>1, OnlyShrinks
  <2>2. First(gui, ConfiguredTold, Asides) => s \in ConfiguredTold \/ s \in Asides
    BY <1>1, FirstShrinks
  <2> HIDE DEF s
  <2> QED BY <1>2, <2>1, <2>2, SignalsAre2 DEF Order, Opening, Fronted
<1>6. s.kind \in {"error", "disconnected"} => EarlyOut(n)
  <2> SUFFICES ASSUME s.kind \in {"error", "disconnected"} PROVE EarlyOut(n)
    OBVIOUS
  <2>1. ~c.shutdownWaiting
    BY <1>1 DEF Owning
  <2> QED BY <1>1, <1>5, <2>1, EMagnetError, EMagnetDisconnected DEF Handled
<1> HIDE DEF s
<1> QED BY <1>3, <1>4, <1>5, <1>6 DEF EarlyOut, s

(* A signal to a running series. *)
LEMMA DeliverRuns ==
  ASSUME Sound1, Order(c, aps, gui, busy, heater, lane), gui # <<>>, c.active, ~c.cleaning,
         NEW b, NEW n, b = Base(c, Head(gui)), n = Handled(Head(gui)),
         Ruled(b, aps, Tail(gui), busy, sweep, linked, runs)
  PROVE  Ruled(n, aps \o n.ask, Tail(gui), busy, sweep, linked, runs) /\ Typed(n)
<1> DEFINE t == Tail(gui)
<1>1. aps \in Seq(Postable) /\ Owning(c, runs) /\ Typed(c)
  BY DEF Sound1, World, Law, Lawful, Typing
<1>2. b.claimed /\ ~b.saving /\ b.active /\ ~b.cleaning
  BY <1>1, BaseIs, BaseIs2 DEF Owning
<1>3. (Runs(b) /\ Ran(b, n)) \/ Cleaned(b, n)
  BY <1>2, HandledDelivers DEF Sound1, Delivers, Cleans, Idles
<1> HIDE DEF t
<1>4. CASE Ran(b, n)
  <2>1. n.active /\ ~n.cleaning /\ n.claimed /\ n.stored = b.stored /\ Typed(n)
    BY <1>2, <1>4 DEF Ran, Runs, Frame
  <2>2. c.stored => b.stored
    BY <1>1, BaseIs
  <2>3. n.stored \/ n.ask = <<>> \/ Interposes(n)
    BY <2>1, <2>2, DeliverEarly
  <2>4. PICK q : n.ask = <<>>
             \/ (n.ask = <<q>> /\ q \in Postable /\ q.op \in {"pause", "persistent", "move", "sweep"})
    BY <1>4, AsksAre
  <2>5. n.ask = <<q>> /\ Interposes(n) => q.op = "pause"
    BY RequestsAre DEF Interposes, PauseTo
  <2>6. n.ask = <<>> \/ (n.ask = <<q>> /\ q \in Postable /\ q.op # "restore" /\ (~n.stored => q.op = "pause"))
    BY <2>3, <2>4, <2>5
  <2> QED BY <1>1, <1>2, <2>1, <2>6, RanRuled
<1>5. CASE Cleaned(b, n)
  <2>1. /\ n.cleaning /\ n.claimed /\ n.stored = b.stored /\ n.saving = b.saving /\ n.waiting = "pause"
        /\ Typed(n)
        /\ n.ask = <<Request("pause", "user")>>
    BY <1>2, <1>5 DEF Cleaned, Frame, PauseTo
  <2> QED BY <1>1, <1>2, <2>1, CleanedRuled
<1> QED BY <1>3, <1>4, <1>5

(* A signal to a cleanup. *)
LEMMA DeliverCleans ==
  ASSUME Sound1, Now, gui # <<>>, c.cleaning, ~Cuts(Head(gui)),
         NEW b, NEW n, b = Base(c, Head(gui)), n = Handled(Head(gui)),
         Ruled(b, aps, Tail(gui), busy, sweep, linked, runs)
  PROVE  Ruled(n, aps \o n.ask, Tail(gui), busy, sweep, linked, runs) /\ Typed(n)
<1> DEFINE s == Head(gui)
           t == Tail(gui)
<1>1. aps \in Seq(Postable) /\ gui \in Seq(Signals) /\ Owning(c, runs) /\ Typed(c) /\ Law
  BY DEF Sound1, World, Law, Lawful, Typing
<1>2. b.cleaning /\ b.claimed = c.claimed /\ b.waiting = c.waiting /\ b.saving = c.saving
      /\ (c.stored => b.stored) /\ c.claimed
  BY <1>1, BaseIs, BaseIs2 DEF Owning
<1>3. Cleans(c)
  BY <1>1, Three DEF Runs, Idles
<1>4. s.kind # "disconnected" /\ ~Moves(n.ask) /\ Bearable(c, s)
  BY DEF Cuts, Bearable, Failing
<1>5. \/ Sits(b, n)
      \/ s.kind = "operation" /\ Posts(b, n, "persistent")
      \/ /\ s.kind = "operation" /\ ((s.name = "pause" /\ c.waiting = "pause") \/ s.name = "persistent")
         /\ Posts(b, n, "restore")
      \/ s.kind = "operation" /\ ~b.stored /\ Concludes(b, n)
      \/ s.kind = "restored" /\ c.waiting = "restore" /\ Concludes(b, n)
      \/ s.kind = "zeroed" /\ c.waiting = "restore_done" /\ Concludes(b, n)
  BY <1>1, <1>3, <1>4, CleansAnswers
<1>6. /\ s.kind = "operation" => linked \/ Lost(t)
      /\ s.kind = "operation" /\ s.name = "pause" /\ c.waiting = "pause" => Still(aps, busy, sweep)
         \/ Danger(t) \/ Barred(aps)
      /\ s.kind = "operation" /\ s.name = "persistent" => Still(aps, busy, sweep) \/ Danger(t) \/ Barred(aps)
      /\ s.kind = "restored" => Still(aps, busy, sweep)
      /\ ~c.stored /\ c.claimed => Still(aps, busy, sweep)
  BY <1>1, <1>4, HearTells DEF Now
<1>7. c.waiting = "restore_done" => Still(aps, busy, sweep)
  BY DEF Now, Ruled, Tamed
<1> HIDE DEF s, t
<1>8. Ruled(b, aps, t, busy, sweep, linked, runs)
  BY DEF t
<1>9. CASE Sits(b, n)
  <2>1. /\ n.cleaning /\ n.claimed = b.claimed /\ n.stored = b.stored /\ n.saving = b.saving
        /\ n.waiting = b.waiting
        /\ n.ask = <<>> /\ Typed(n)
    BY <1>9 DEF Sits, Remains, Owns, Tended
  <2> QED BY <1>1, <1>2, <1>8, <2>1, SitsRuled DEF t
<1>10. CASE s.kind = "operation" /\ Posts(b, n, "persistent")
  <2>1. /\ n.cleaning /\ n.claimed = b.claimed /\ n.stored = b.stored /\ n.saving = b.saving
        /\ n.waiting = "persistent"
        /\ n.ask = <<Request("persistent", "no")>> /\ Typed(n)
    BY <1>10 DEF Posts, Remains, Owns, Tended
  <2> QED BY <1>1, <1>2, <1>6, <1>8, <1>10, <2>1, PostsRuled DEF t
<1>11. CASE /\ s.kind = "operation" /\ ((s.name = "pause" /\ c.waiting = "pause") \/ s.name = "persistent")
            /\ Posts(b, n, "restore")
  <2>1. /\ n.cleaning /\ n.claimed = b.claimed /\ n.stored = b.stored /\ n.saving = b.saving
        /\ n.waiting = "restore"
        /\ n.ask = <<Request("restore", "no")>> /\ Typed(n)
    BY <1>11 DEF Posts, Remains, Owns, Tended
  <2>2. Still(aps, busy, sweep) \/ Danger(t) \/ Barred(aps)
    BY <1>6, <1>11
  <2>3. linked \/ Lost(t)
    BY <1>6, <1>11
  <2> QED BY <1>1, <1>2, <1>8, <2>1, <2>2, <2>3, PostsRuled DEF t
<1>12. CASE Concludes(b, n) /\ Still(aps, busy, sweep) /\ (b.waiting = "pause" => linked \/ Lost(t))
  <2>1. Typed(n) /\ n.ask = <<>>
    BY <1>12 DEF Concludes, Awaits, Saves, Leaves, Remains, Tended
  <2>2. \/ n.cleaning /\ n.waiting \in {b.waiting, "restore", "restore_done"}
        \/ ~n.cleaning /\ ~n.active
    BY <1>12 DEF Concludes, Awaits, Saves, Leaves, Remains, Owns
  <2> QED BY <1>1, <1>2, <1>8, <1>12, <2>1, <2>2, ConcludesRuled DEF t
<1> QED BY <1>2, <1>5, <1>6, <1>7, <1>9, <1>10, <1>11, <1>12 DEF t

(* A signal or a completion is handled. *)
LEMMA DeliverRuled ==
  ASSUME Sound1, Sound2, Sound3, Deliver
  PROVE  Sound3'
<1> DEFINE s == Head(gui)
           b == Base(c, s)
           n == Handled(s)
           t == Tail(gui)
<1>1. gui # <<>> /\ gui' = t /\ Becomes(n) /\ Outside /\ cut' = (cut \/ Cuts(s)) /\ runs' = runs
  BY DEF Deliver
<1>2. CASE ~cut'
  <2>1. Order(c, aps, gui, busy, heater, lane) /\ Now /\ ~Cuts(s)
    BY <1>1, <1>2 DEF Sound2, Sound3
  <2>2. Typed(c) /\ gui \in Seq(Signals) /\ aps \in Seq(Postable) /\ Law
    BY DEF Sound1, Law, Lawful, Typing, World
  <2>3. /\ b.active = c.active /\ b.cleaning = c.cleaning /\ (c.stored => b.stored)
        /\ b.claimed = c.claimed /\ b.waiting = c.waiting /\ b.saving = c.saving
    BY <2>2, BaseIs, BaseIs2
  <2>4. Bearable(c, s)
    BY <2>1 DEF Cuts, Bearable, Failing
  <2> HIDE DEF b
  <2>5. Ruled(b, aps, t, busy, sweep, linked, runs)
    BY <1>1, <2>1, <2>2, <2>3, <2>4, HearRuled DEF Now
  <2>6. Ruled(n, aps \o n.ask, t, busy, sweep, linked, runs) /\ Typed(n)
    <3>1. CASE c.active /\ ~c.cleaning
      BY <1>1, <2>1, <2>5, <3>1, DeliverRuns DEF b
    <3>2. CASE c.cleaning
      BY <1>1, <2>1, <2>5, <3>2, DeliverCleans DEF b
    <3>3. CASE ~c.active /\ ~c.cleaning
      <4>1. Idles(b) /\ Rests(b, n)
        BY <1>1, <2>2, <2>3, <3>3, HandledDelivers DEF Delivers, b, Runs, Cleans
      <4>2. ~b.claimed
        BY <2>2, <2>3, <3>3 DEF Law, Lawful, Owning
      <4>3. ~n.claimed /\ ~n.active /\ ~n.cleaning /\ n.ask = <<>> /\ Typed(n)
        BY <4>1, <4>2 DEF Rests
      <4> HIDE DEF n
      <4> QED BY <2>2, <2>5, <4>2, <4>3, RestsRuled
    <3> QED BY <3>1, <3>2, <3>3
  <2> HIDE DEF n, t
  <2> QED BY <1>1, <2>6, RuledPosted DEF Sound3
<1> QED BY <1>2 DEF Sound3

-----------------------------------------------------------------------------
(* The steps of the worker and of the lane, and the third invariant.       *)

(* The signals that say neither of an operation's end nor of a restored configuration. *)
Soft == {x \in Signals : x.kind \notin {"operation", "restored"}}

(* Such signals only were added. *)
Gently(g, z) ==
    /\ z \in Seq(Signals)
    /\ None(z, Told) <=> None(g, Told)
    /\ None(z, PersistentTold) <=> None(g, PersistentTold)
    /\ None(z, RestoredTold) <=> None(g, RestoredTold)
    /\ (Danger(g) => Danger(z)) /\ (Lost(g) => Lost(z)) /\ (Parted(g) => Parted(z))
    /\ (Refused(g) => Refused(z)) /\ (Doomed(g) => Doomed(z))

(* One such signal. *)
LEMMA SoftSays ==
  ASSUME NEW g \in Seq(Signals), NEW x \in Soft
  PROVE  Gently(g, g \o <<x>>)
<1>1. x \in Signals /\ x.kind # "operation" /\ x.kind # "restored"
  BY DEF Soft
<1> QED BY <1>1, SayOne DEF Gently

(* A step that says such things only. *)
LEMMA SoftTells ==
  ASSUME gui \in Seq(Signals), Tells(Soft)
  PROVE  Gently(gui, gui')
<1>1. CASE gui' = gui
  BY <1>1 DEF Gently
<1>2. CASE \E x \in Soft : gui' = gui \o <<x>>
  BY <1>2, SoftSays
<1>3. CASE \E x, y \in Soft : gui' = gui \o <<x, y>>
  <2>1. PICK x \in Soft, y \in Soft : gui' = gui \o <<x, y>>
    BY <1>3
  <2>2. x \in Signals /\ y \in Signals
    BY DEF Soft
  <2> DEFINE h == gui \o <<x>>
  <2>3. gui' = h \o <<y>> /\ h \in Seq(Signals)
    BY <2>1, <2>2, Twice, Grows
  <2>5. Gently(gui, h)
    BY SoftSays
  <2> HIDE DEF h
  <2>4. Gently(h, gui')
    BY <2>3, SoftSays
  <2> QED BY <2>4, <2>5 DEF Gently
<1> QED BY <1>1, <1>2, <1>3 DEF Tells

(* Nothing that the rule rests on is lost. *)
Eased(a, g, by, sw, lk, b, h, bz, sv, ll) ==
    /\ Gently(g, h)
    /\ Still(a, by, sw) => Still(b, bz, sv)
    /\ None(a, Restoring) => None(b, Restoring)
    /\ (Guarded(a) => Guarded(b)) /\ (Barred(a) => Barred(b)) /\ (Sole(a) => Sole(b))
    /\ Only(a, Connects) /\ by = "no" => Only(b, Connects) /\ bz = "no"
    /\ None(a, Moving) /\ by # "move" => None(b, Moving) /\ bz # "move"
    /\ ~ll => bz = "no" /\ Parted(h) /\ (lk => Lost(h))

(* Then the rule holds on. *)
LEMMA EasedRuled ==
  ASSUME NEW k, NEW a, NEW g, NEW by, NEW sw, NEW lk, NEW r, Ruled(k, a, g, by, sw, lk, r), lk \in BOOLEAN,
         NEW b, NEW h, NEW bz, NEW sv, NEW ll, Eased(a, g, by, sw, lk, b, h, bz, sv, ll)
  PROVE  Ruled(k, b, h, bz, sv, ll, r)
<1>1. Steady(k, b, bz, sv, r) /\ Unrestored(k, b, h) /\ Apart(h, bz, ll)
  BY DEF Ruled, Steady, Unrestored, Apart, Eased, Gently
<1>2. ASSUME k.cleaning PROVE Tamed(k, b, h, bz, sv, ll)
  <2>1. Tamed(k, a, g, by, sw, lk)
    BY <1>2 DEF Ruled
  <2>2. Silenced(a, g, by, sw) => Silenced(b, h, bz, sv)
    BY DEF Silenced, Eased, Gently
  <2>3. Waited(a, g, by, sw) => Waited(b, h, bz, sv)
    BY <2>2 DEF Waited, Eased, Gently
  <2>4. Guarded(b) \/ (None(b, Moving) /\ bz # "move")
    BY <2>1 DEF Tamed, Eased
  <2>5. Still(b, bz, sv) \/ Danger(h) \/ None(b, Restoring) \/ Barred(b)
    BY <2>1 DEF Tamed, Eased, Gently
  <2>6. Still(b, bz, sv) \/ None(h, RestoredTold) \/ Doomed(h)
    BY <2>1 DEF Tamed, Eased, Gently
  <2>7. Still(b, bz, sv) \/ Danger(h) \/ None(h, PersistentTold) \/ Guarded(b)
    BY <2>1 DEF Tamed, Eased, Gently
  <2>8. ~ll /\ k.waiting # "pause" => Lost(h)
    BY <2>1 DEF Tamed, Eased, Gently
  <2> QED BY <2>1, <2>3, <2>4, <2>5, <2>6, <2>7, <2>8 DEF Tamed, Eased
<1> QED BY <1>1, <1>2 DEF Ruled

(* The same, of a step that leaves the controller alone. *)
LEMMA EasedNow ==
  ASSUME Sound1, Now, c' = c, runs' = runs,
         Eased(aps, gui, busy, sweep, linked, aps', gui', busy', sweep', linked')
  PROVE  Now'
<1>1. linked \in BOOLEAN
  BY DEF Sound1, World
<1>2. Ruled(c, aps', gui', busy', sweep', linked', runs)
  BY <1>1, EasedRuled DEF Now
<1> QED BY <1>2 DEF Now

(* A request other than a pause or to restore is taken, and softly answered. *)
LEMMA TakeRuled ==
  ASSUME Sound1, Now, c' = c, runs' = runs, aps # <<>>, aps' = Tail(aps),
         Head(aps).op \notin {"pause", "restore"}, Tells(Soft),
         busy = "no", linked' = linked, linked \/ busy' = "no", Still(aps, busy, sweep) => sweep' = "no",
         busy' = "move" => Head(aps).op = "move", busy' # "no" => Head(aps).op # "connect"
  PROVE  Now'
<1>1. aps \in Seq(Postable) /\ gui \in Seq(Signals) /\ linked \in BOOLEAN
  BY DEF Sound1, World, Law, Lawful, Typing
<1>2. Gently(gui, gui')
  BY <1>1, SoftTells
<1>3. /\ None(aps, Moving) <=> Head(aps).op \notin {"move", "sweep"} /\ None(aps', Moving)
      /\ None(aps, Restoring) <=> Head(aps).op # "restore" /\ None(aps', Restoring)
      /\ Guarded(aps) => Guarded(aps') \/ (Head(aps).op = "pause" /\ None(aps', Moving))
      /\ Barred(aps) => Head(aps).op # "restore"
         /\ (Barred(aps') \/ (Head(aps).op = "pause" /\ None(aps', Moving)))
      /\ Sole(aps) => Sole(aps') \/ (Head(aps).op = "pause" /\ Only(aps', Connects) /\ None(aps', Moving))
      /\ Only(aps, Connects) => Head(aps).op = "connect" /\ Only(aps', Connects)
  BY <1>1, TakeOne
<1>4. Apart(gui, busy, linked)
  BY DEF Now, Ruled
<1>5. None(aps, Moving) => None(aps', Moving) /\ busy' # "move"
  BY <1>3
<1>6. Still(aps, busy, sweep) => Still(aps', busy', sweep')
  BY <1>5 DEF Still
<1>7. ~linked' => busy' = "no" /\ Parted(gui')
  BY <1>2, <1>4 DEF Apart, Gently
<1> QED BY <1>2, <1>3, <1>5, <1>6, <1>7, EasedNow DEF Eased

(* Nothing is taken, and what is said is soft. *)
LEMMA KeptRuled ==
  ASSUME Sound1, Now, c' = c, runs' = runs, aps' = aps, Tells(Soft), linked' = linked,
         busy' \in {"no", busy}, Still(aps, busy, sweep) => sweep' = "no"
  PROVE  Now'
<1>1. aps \in Seq(Postable) /\ gui \in Seq(Signals) /\ linked \in BOOLEAN
  BY DEF Sound1, World, Law, Lawful, Typing
<1>2. Gently(gui, gui')
  BY <1>1, SoftTells
<1>4. Apart(gui, busy, linked)
  BY DEF Now, Ruled
<1>6. Still(aps, busy, sweep) => Still(aps', busy', sweep')
  BY DEF Still
<1>7. ~linked' => busy' = "no" /\ Parted(gui')
  BY <1>2, <1>4 DEF Apart, Gently
<1> QED BY <1>2, <1>6, <1>7, EasedNow DEF Eased

(* What is said so. *)
LEMMA Softly ==
  /\ \A ok \in BOOLEAN : Signal("configured", "", ok) \in Soft /\ Signal("swept", "", ok) \in Soft
  /\ \A name \in {"ok", "user", "monitor", "thermal", "failed"},
     ok \in BOOLEAN : Signal("moved", name, ok) \in Soft
  /\ \A name \in {"other", "read"} : Signal("error", name, FALSE) \in Soft
  /\ Signal("disconnected", "", FALSE) \in Soft
<1>1. \A x \in Answers : x \in Signals
  BY DEF Signals
<1>2. \A ok \in BOOLEAN : Signal("configured", "", ok) \in Soft /\ Signal("swept", "", ok) \in Soft
  BY <1>1, Said DEF Soft, Signal
<1>3. \A name \in {"ok", "user", "monitor", "thermal", "failed"},
      ok \in BOOLEAN : Signal("moved", name, ok) \in Soft
  BY <1>1, Said DEF Soft, Signal
<1>4. \A name \in {"other", "read"} : Signal("error", name, FALSE) \in Soft
  BY <1>1, Said DEF Soft, Signal
<1>5. Signal("disconnected", "", FALSE) \in Soft
  BY <1>1, Said DEF Soft, Signal
<1> QED BY <1>2, <1>3, <1>4, <1>5

(* The worker configures the magnet. *)
LEMMA ConfigureRuled == ASSUME Sound1, Now, Configure PROVE Now'
<1>1. /\ c' = c /\ runs' = runs /\ aps # <<>> /\ aps' = Tail(aps) /\ Head(aps).op = "configure"
      /\ busy = "no" /\ busy' = busy
      /\ linked' = linked /\ sweep' \in {"no", sweep}
  BY DEF Configure, GuiAside, Taken, Next0
<1>2. Tells(Soft)
  BY Softly DEF Configure, Tell, Tells
<1> QED BY <1>1, <1>2, TakeRuled DEF Still

(* It takes a long request. *)
LEMMA TakeLongRuled == ASSUME Sound1, Now, TakeLong PROVE Now'
<1>1. /\ c' = c /\ runs' = runs /\ aps # <<>> /\ aps' = Tail(aps) /\ Head(aps).op \in {"move", "persistent"}
      /\ busy = "no"
      /\ linked' = linked /\ sweep' = sweep /\ busy' = (IF linked THEN Head(aps).op ELSE "no")
  BY DEF TakeLong, GuiAside, Taken, Next0
<1>2. Tells(Soft)
  <2>1. gui' = gui \/ gui' = gui \o <<Signal("moved", "failed", FALSE)>>
        \/ gui' = gui \o <<Signal("error", "other", FALSE)>>
    BY DEF TakeLong, Tell, NotConnected
  <2> QED BY <2>1, Softly DEF Tells
<1> QED BY <1>1, <1>2, TakeRuled DEF Still

(* It starts a sweep. *)
LEMMA TakeSweepRuled == ASSUME Sound1, Now, TakeSweep PROVE Now'
<1>1. /\ c' = c /\ runs' = runs /\ aps # <<>> /\ aps' = Tail(aps) /\ Head(aps).op = "sweep" /\ busy = "no"
      /\ busy' = busy
      /\ linked' = linked
  BY DEF TakeSweep, GuiAside, Taken, Next0
<1>2. Tells(Soft)
  BY Softly DEF TakeSweep, Tell, Tells
<1>3. ~Still(aps, busy, sweep)
  <2>1. aps \in Seq(Postable)
    BY DEF Sound1, World
  <2>2. ~None(aps, Moving)
    BY <1>1, <2>1, TakeOne
  <2> QED BY <2>2 DEF Still
<1> QED BY <1>1, <1>2, <1>3, TakeRuled

(* It connects. *)
LEMMA TakeConnectRuled == ASSUME Sound1, Now, TakeConnect PROVE Now'
<1>1. /\ c' = c /\ runs' = runs /\ aps # <<>> /\ aps' = Tail(aps) /\ Head(aps).op = "connect" /\ busy = "no"
      /\ busy' = busy
      /\ linked' = TRUE /\ sweep' = sweep
  BY DEF TakeConnect, GuiAside, Taken, Next0
<1>2. Tells(Soft)
  BY Softly DEF TakeConnect, Tell, Tells
<1>3. aps \in Seq(Postable) /\ gui \in Seq(Signals)
  BY DEF Sound1, World, Law, Lawful, Typing
<1>4. Gently(gui, gui')
  BY <1>2, <1>3, SoftTells
<1>5. /\ None(aps, Moving) => None(aps', Moving)
      /\ None(aps, Restoring) => None(aps', Restoring)
      /\ Guarded(aps) => Guarded(aps')
      /\ Barred(aps) => Barred(aps')
      /\ Sole(aps) => Sole(aps')
      /\ Only(aps, Connects) => Only(aps', Connects)
  BY <1>1, <1>3, TakeOne
<1>6. Still(aps, busy, sweep) => Still(aps', busy', sweep')
  BY <1>1, <1>5 DEF Still
<1> QED BY <1>1, <1>4, <1>5, <1>6, EasedNow DEF Eased

(* The user asks for a new session. *)
LEMMA AskConnectRuled == ASSUME Sound1, Now, AskConnect PROVE Now'
<1> DEFINE q == Request("connect", "no")
<1>1. c' = c /\ runs' = runs /\ gui' = gui /\ busy' = busy /\ linked' = linked /\ sweep' = sweep
  BY DEF AskConnect, GuiAside
<1>2. Tells(Soft)
  BY <1>1 DEF Tells
<1>3. aps \in Seq(Postable) /\ gui \in Seq(Signals) /\ World
  BY DEF Sound1, World, Law, Lawful, Typing
<1>4. Gently(gui, gui')
  BY <1>2, <1>3, SoftTells
<1>5. aps' = aps \o <<q>> /\ q \in Postable /\ q.op = "connect"
  BY <1>3, AskConnectWorks DEF Request, Postable, Requests
<1> HIDE DEF q
<1>6. /\ None(aps, Moving) => None(aps', Moving)
      /\ None(aps, Restoring) => None(aps', Restoring)
      /\ Guarded(aps) => Guarded(aps')
      /\ Barred(aps) => Barred(aps')
      /\ Sole(aps) => Sole(aps')
      /\ Only(aps, Connects) => Only(aps', Connects)
  BY <1>3, <1>5, AskOne
<1>7. Still(aps, busy, sweep) => Still(aps', busy', sweep')
  BY <1>1, <1>6 DEF Still
<1>8. Apart(gui, busy, linked)
  BY DEF Now, Ruled
<1>9. ~linked' => busy' = "no" /\ Parted(gui')
  BY <1>1, <1>8 DEF Apart
<1> QED BY <1>1, <1>4, <1>6, <1>7, <1>9, EasedNow DEF Eased

(* A move ends. *)
LEMMA MoveEndsRuled == ASSUME Sound1, Now, MoveEnds PROVE Now'
<1>1. c' = c /\ runs' = runs /\ aps' = aps /\ busy = "move" /\ busy' = "no" /\ linked' = linked
  BY DEF MoveEnds, GuiAside
<1>2. Tells(Soft)
  <2>1. \E name \in {"ok", "user", "monitor", "thermal", "failed"},
        ok \in BOOLEAN : gui' = gui \o <<Signal("moved", name, ok)>>
    BY DEF MoveEnds, Tell, World, Sound1
  <2> QED BY <2>1, Softly DEF Tells
<1> QED BY <1>1, <1>2, KeptRuled DEF Still

(* The timer reads the magnet. *)
LEMMA PollRuled == ASSUME Sound1, Now, Poll PROVE Now'
<1>1. c' = c /\ runs' = runs /\ aps' = aps /\ busy' = busy /\ linked' = linked /\ sweep' = sweep
  BY DEF Poll, GuiAside
<1>2. Tells(Soft)
  BY Softly DEF Poll, Tell, Tells
<1> QED BY <1>1, <1>2, KeptRuled DEF Still

(* The field follows the supply. *)
LEMMA SweepingRuled == ASSUME Sound1, Now, Sweeping PROVE Now'
<1>1. c' = c /\ runs' = runs /\ aps' = aps /\ busy' = busy /\ linked' = linked /\ sweep # "no" /\ gui' = gui
  BY DEF Sweeping, GuiAside
<1>2. Tells(Soft)
  BY <1>1 DEF Tells
<1> QED BY <1>1, <1>2, KeptRuled DEF Still

(* The session is lost. *)
LEMMA UnlinkRuled == ASSUME Sound1, Now, Unlink PROVE Now'
<1> DEFINE x == Signal("error", "read", FALSE)
           y == Signal("disconnected", "", FALSE)
<1>1. c' = c /\ runs' = runs /\ aps' = aps /\ busy = "no" /\ busy' = busy /\ linked /\ linked' = FALSE
      /\ sweep' = sweep /\ gui' = gui \o <<x, y>>
  BY DEF Unlink, GuiAside, Tell
<1>2. x \in Soft /\ y \in Soft /\ y.kind = "disconnected"
  BY Softly DEF Signal
<1> HIDE DEF x, y
<1>3. aps \in Seq(Postable) /\ gui \in Seq(Signals) /\ x \in Signals /\ y \in Signals
  BY <1>2 DEF Sound1, World, Law, Lawful, Typing, Soft
<1>4. Gently(gui, gui')
  <2>1. Tells(Soft)
    BY <1>1, <1>2 DEF Tells
  <2> QED BY <1>3, <2>1, SoftTells
<1> DEFINE h == gui \o <<x>>
<1>5. gui' = h \o <<y>> /\ h \in Seq(Signals)
  BY <1>1, <1>3, Twice, Grows
<1> HIDE DEF h
<1>6. Parted(gui') /\ Lost(gui')
  BY <1>2, <1>3, <1>5, SayOne
<1>7. Still(aps, busy, sweep) => Still(aps', busy', sweep')
  BY <1>1
<1> QED BY <1>1, <1>4, <1>6, <1>7, EasedNow DEF Eased

(* The magnet is persistent, which pauses the supply, or could not be made so. *)
LEMMA PersistentEndsRuled == ASSUME Sound1, Now, PersistentEnds PROVE Now'
<1>1. /\ c' = c /\ runs' = runs /\ aps' = aps /\ busy = "persistent" /\ busy' = "no" /\ linked' = linked
      /\ sweep' \in {"no", sweep}
  BY DEF PersistentEnds, GuiAside
<1>2. PICK name \in {"persistent", "failed:persistent"} : gui' = gui \o <<Signal("operation", name, TRUE)>>
           /\ (name = "persistent" => sweep' = "no")
  BY DEF PersistentEnds, Tell, Operation
<1> DEFINE x == Signal("operation", name, TRUE)
<1>3. x \in Signals /\ x.kind = "operation" /\ x.name = name
  BY Said DEF Signals, Signal
<1>4. gui' = gui \o <<x>> /\ gui \in Seq(Signals)
  BY <1>2 DEF Sound1, Law, Lawful, Typing
<1> HIDE DEF x
<1>5. /\ None(gui', PersistentTold) <=> None(gui, PersistentTold) /\ name # "persistent"
      /\ None(gui', RestoredTold) <=> None(gui, RestoredTold)
      /\ Danger(gui) => Danger(gui')
      /\ Doomed(gui) => Doomed(gui')
      /\ Lost(gui) => Lost(gui')
  <2>1. x.kind # "restored"
    BY <1>3
  <2> QED BY <1>3, <1>4, <2>1, SayOne
<1>6. linked
  BY <1>1 DEF Now, Ruled, Apart
<1>7. Still(aps, busy, sweep) => Still(aps, "no", sweep')
  BY <1>1 DEF Still
<1>8. Steady(c, aps, "no", sweep', runs) /\ Unrestored(c, aps, gui') /\ Apart(gui', "no", linked)
  BY <1>5, <1>6, <1>7 DEF Now, Ruled, Steady, Unrestored, Apart
<1>9. ASSUME c.cleaning PROVE Tamed(c, aps, gui', "no", sweep', linked)
  <2>1. Tamed(c, aps, gui, busy, sweep, linked)
    BY <1>9 DEF Now, Ruled
  <2>2. Waited(aps, gui, busy, sweep) => Waited(aps, gui', "no", sweep')
    BY <1>1, <1>5 DEF Waited
  <2>3. Guarded(aps) \/ None(aps, Moving)
    BY <2>1 DEF Tamed
  <2>4. Guarded(aps) \/ Still(aps, "no", sweep') \/ name # "persistent"
    BY <1>2, <2>3 DEF Still
  <2>5. Still(aps, "no", sweep') \/ Danger(gui') \/ None(gui', PersistentTold) \/ Guarded(aps)
    BY <1>5, <1>7, <2>1, <2>4 DEF Tamed
  <2>6. Still(aps, "no", sweep') \/ Danger(gui') \/ None(aps, Restoring) \/ Barred(aps)
    BY <1>5, <1>7, <2>1 DEF Tamed
  <2>7. Still(aps, "no", sweep') \/ None(gui', RestoredTold) \/ Doomed(gui')
    BY <1>5, <1>7, <2>1 DEF Tamed
  <2>8. ~linked /\ c.waiting # "pause" => Lost(gui')
    BY <1>6
  <2> QED BY <1>7, <2>1, <2>2, <2>3, <2>5, <2>6, <2>7, <2>8 DEF Tamed
<1> QED BY <1>1, <1>8, <1>9 DEF Now, Ruled

(* The configuration is given back; had the magnet not been still, a danger would have
   been told before. *)
LEMMA TakeRestoreRuled == ASSUME Sound1, Now, TakeRestore PROVE Now'
<1>1. /\ c' = c /\ runs' = runs /\ aps # <<>> /\ aps' = Tail(aps) /\ Head(aps).op = "restore" /\ busy = "no"
      /\ busy' = busy
      /\ linked' = linked /\ sweep' = sweep /\ gui' = gui \o <<Signal("restored", "", linked)>>
  BY DEF TakeRestore, GuiAside, Taken, Next0, Tell
<1> DEFINE x == Signal("restored", "", linked)
<1>2. x \in Signals /\ x.kind = "restored" /\ gui' = gui \o <<x>> /\ gui \in Seq(Signals)
      /\ aps \in Seq(Postable)
  BY <1>1, Said DEF Signals, Signal, Sound1, World, Law, Lawful, Typing
<1> HIDE DEF x
<1>3. /\ None(aps, Moving) => None(aps', Moving)
      /\ ~None(aps, Restoring) /\ ~Barred(aps)
      /\ Guarded(aps) => Guarded(aps')
  BY <1>1, <1>2, TakeOne
<1>4. x.kind # "operation"
  BY <1>2
<1>5. /\ None(gui', PersistentTold) <=> None(gui, PersistentTold)
      /\ Danger(gui) => Danger(gui')
      /\ Doomed(gui) => Doomed(gui')
      /\ Lost(gui) => Lost(gui')
      /\ Parted(gui) => Parted(gui')
  BY <1>2, <1>4, SayOne
<1>6. Still(aps, busy, sweep) => Still(aps', busy', sweep')
  BY <1>1, <1>3 DEF Still
<1>7. Steady(c, aps', busy', sweep', runs) /\ Unrestored(c, aps', gui') /\ Apart(gui', busy', linked)
  BY <1>1, <1>3, <1>5, <1>6 DEF Now, Ruled, Steady, Unrestored, Apart
<1>8. ASSUME c.cleaning PROVE Tamed(c, aps', gui', busy', sweep', linked)
  <2>1. Tamed(c, aps, gui, busy, sweep, linked)
    BY <1>8 DEF Now, Ruled
  <2>2. c.waiting # "pause"
    BY <1>3, <2>1 DEF Tamed, Waited
  <2>3. Guarded(aps') \/ (None(aps', Moving) /\ busy' # "move")
    BY <1>1, <1>3, <2>1 DEF Tamed
  <2>4. Still(aps, busy, sweep) \/ Danger(gui)
    BY <1>3, <2>1 DEF Tamed
  <2>5. Still(aps, busy, sweep) \/ Doomed(gui)
    BY <2>1, <2>4, Plainer DEF Tamed
  <2>6. Still(aps', busy', sweep') \/ Danger(gui')
    BY <1>5, <1>6, <2>4
  <2>7. Still(aps', busy', sweep') \/ Doomed(gui')
    BY <1>5, <1>6, <2>5
  <2>8. ~linked /\ c.waiting # "pause" => Lost(gui')
    BY <1>5, <2>1 DEF Tamed
  <2>9. c.waiting = "restore_done" \/ c.saving => Still(aps', busy', sweep')
    BY <1>6, <2>1 DEF Tamed
  <2> QED BY <2>2, <2>3, <2>6, <2>7, <2>8, <2>9 DEF Tamed
<1> QED BY <1>1, <1>7, <1>8 DEF Now, Ruled

(* A pause is taken: it succeeds, it fails, or there is no session. *)
LEMMA TakePauseSays ==
  ASSUME gui \in Seq(Signals), TakePause
  PROVE  /\ (None(gui', RestoredTold) <=> None(gui, RestoredTold)) /\ (Danger(gui) => Danger(gui'))
         /\ (Doomed(gui) => Doomed(gui'))
         /\ \/ linked /\ sweep' = "no" /\ (None(gui', PersistentTold) <=> None(gui, PersistentTold))
            \/ linked /\ sweep' = sweep /\ Danger(gui') /\ Refused(gui')
            \/ ~linked /\ sweep' = sweep /\ Gently(gui, gui')
<1>1. CASE linked /\ sweep' = "no" /\ gui' = gui \o Operation("pause")
  <2> DEFINE x == Signal("operation", "pause", TRUE)
  <2>1. x \in Signals /\ x.kind # "restored" /\ x.name # "persistent" /\ gui' = gui \o <<x>>
    BY <1>1, Said DEF Signals, Signal, Operation
  <2> HIDE DEF x
  <2>2. /\ None(gui', PersistentTold) <=> None(gui, PersistentTold)
        /\ ~(x.kind = "operation" /\ x.name = "persistent")
        /\ None(gui', RestoredTold) <=> None(gui, RestoredTold) /\ x.kind # "restored"
        /\ Danger(gui) => Danger(gui')
        /\ Doomed(gui) => Doomed(gui')
    BY <2>1, SayOne
  <2> QED BY <1>1, <2>1, <2>2
<1>2. CASE linked /\ sweep' = sweep
           /\ gui' = gui \o (<<Signal("error", "other", FALSE)>> \o Operation("failed:pause"))
  <2> DEFINE x == Signal("error", "other", FALSE)
             y == Signal("operation", "failed:pause", TRUE)
  <2>1. x \in Soft /\ x \in Signals /\ y \in Signals /\ y.kind = "operation" /\ y.name = "failed:pause"
    BY Said, Softly DEF Signals, Signal
  <2>2. gui' = gui \o (<<x>> \o <<y>>)
    BY <1>2 DEF Operation
  <2> HIDE DEF x, y
  <2>3. <<x>> \in Seq(Signals) /\ <<y>> \in Seq(Signals)
    BY <2>1
  <2> DEFINE h == gui \o <<x>>
  <2>4. gui' = h \o <<y>> /\ h \in Seq(Signals)
    BY <2>1, <2>2, <2>3, ConcatAssociative, Grows
  <2>5. Gently(gui, h)
    BY <2>1, SoftSays
  <2> HIDE DEF h
  <2>6. y.kind # "restored"
    BY <2>1
  <2>7. (None(gui', RestoredTold) <=> None(h, RestoredTold)) /\ (Doomed(h) => Doomed(gui')) /\ Danger(gui')
        /\ Refused(gui')
    BY <2>1, <2>4, <2>6, SayOne
  <2> QED BY <1>2, <2>5, <2>7 DEF Gently
<1>3. CASE ~linked /\ sweep' = sweep /\ gui' = gui \o NotConnected
  <2>1. Tells(Soft)
    BY <1>3, Softly DEF NotConnected, Tells
  <2>2. Gently(gui, gui')
    BY <2>1, SoftTells
  <2> QED BY <1>3, <2>2 DEF Gently
<1> QED BY <1>1, <1>2, <1>3 DEF TakePause, Tell

(* In each case the rule holds on: the supply is paused, or the GUI will hear why it is
   not. *)
LEMMA TakePauseRuled == ASSUME Sound1, Now, TakePause PROVE Now'
<1>1. /\ c' = c /\ runs' = runs /\ aps # <<>> /\ aps' = Tail(aps) /\ Head(aps).op = "pause" /\ busy = "no"
      /\ busy' = busy
      /\ linked' = linked
  BY DEF TakePause, GuiAside, Taken, Next0
<1>2. gui \in Seq(Signals) /\ aps \in Seq(Postable)
  BY DEF Sound1, World, Law, Lawful, Typing
<1>3. /\ None(aps, Moving) => None(aps', Moving)
      /\ None(aps, Restoring) => None(aps', Restoring)
      /\ Guarded(aps) => Guarded(aps') \/ None(aps', Moving)
      /\ Barred(aps) => Barred(aps') \/ None(aps', Moving)
      /\ Sole(aps) => Sole(aps') \/ (Only(aps', Connects) /\ None(aps', Moving))
      /\ ~Only(aps, Connects)
  BY <1>1, <1>2, TakeOne
<1>4. (None(gui', RestoredTold) <=> None(gui, RestoredTold)) /\ (Danger(gui) => Danger(gui'))
      /\ (Doomed(gui) => Doomed(gui'))
  BY <1>2, TakePauseSays
<1>5. Still(aps, busy, sweep) => Still(aps', busy', sweep')
  <2>1. sweep' \in {"no", sweep}
    BY <1>2, TakePauseSays
  <2> QED BY <1>1, <1>3, <2>1 DEF Still
<1>6. Apart(gui, busy, linked)
  BY DEF Now, Ruled
<1>7. ~linked => Gently(gui, gui')
  BY <1>2, TakePauseSays
<1>8. Apart(gui', busy', linked)
  BY <1>1, <1>6, <1>7 DEF Apart, Gently
<1>9. Steady(c, aps', busy', sweep', runs) /\ Unrestored(c, aps', gui')
  BY <1>3, <1>4, <1>5 DEF Now, Ruled, Steady, Unrestored
<1>10. ASSUME c.cleaning PROVE Tamed(c, aps', gui', busy', sweep', linked)
  <2>1. Tamed(c, aps, gui, busy, sweep, linked)
    BY <1>10 DEF Now, Ruled
  <2>2. Guarded(aps') \/ (None(aps', Moving) /\ busy' # "move")
    BY <1>1, <1>3, <2>1 DEF Tamed
  <2>3. Still(aps', busy', sweep') \/ None(gui', RestoredTold) \/ Doomed(gui')
    BY <1>4, <1>5, <2>1 DEF Tamed
  <2>4. ~linked /\ c.waiting # "pause" => Lost(gui')
    BY <1>7, <2>1 DEF Tamed, Gently
  <2>5. c.waiting = "restore_done" \/ c.saving => Still(aps', busy', sweep')
    BY <1>5, <2>1 DEF Tamed
  <2>6. c.waiting = "pause" => None(aps, Restoring) /\ None(gui, RestoredTold) /\ Sole(aps)
    BY <1>3, <2>1 DEF Tamed, Waited
  <2>7. c.waiting = "pause" => None(aps', Restoring) /\ None(gui', RestoredTold)
        /\ (Sole(aps') \/ (Only(aps', Connects) /\ None(aps', Moving)))
    BY <1>3, <1>4, <2>6
  <2>8. /\ Still(aps', busy', sweep') \/ Danger(gui') \/ None(aps', Restoring) \/ Barred(aps')
        /\ Still(aps', busy', sweep') \/ Danger(gui') \/ None(gui', PersistentTold) \/ Guarded(aps')
        /\ None(aps', Moving) => Silenced(aps', gui', busy', sweep')
    <3>1. CASE linked /\ sweep' = "no" /\ (None(gui', PersistentTold) <=> None(gui, PersistentTold))
      <4>1. None(aps', Moving) => Still(aps', busy', sweep')
        BY <1>1, <3>1 DEF Still
      <4> QED BY <1>3, <1>4, <1>5, <2>1, <3>1, <4>1 DEF Tamed, Silenced
    <3>2. CASE Danger(gui') /\ Refused(gui')
      BY <3>2 DEF Silenced
    <3>3. CASE ~linked /\ Gently(gui, gui')
      <4>1. Parted(gui)
        BY <1>6, <3>3 DEF Apart
      <4>2. None(gui, Told) \/ Lost(gui)
        BY <4>1, Plainer
      <4>3. (None(gui', Told) /\ None(gui', PersistentTold)) \/ (Lost(gui') /\ Danger(gui'))
        BY <3>3, <4>2, Plainer DEF Gently
      <4>4. c.waiting # "pause" => Danger(gui')
        BY <2>4, <3>3, Plainer
      <4>5. c.waiting = "pause" => None(aps', Restoring)
        BY <2>7
      <4> QED BY <4>3, <4>4, <4>5 DEF Silenced
    <3> QED BY <1>2, <3>1, <3>2, <3>3, TakePauseSays
  <2>9. c.waiting = "pause" => Waited(aps', gui', busy', sweep')
    BY <1>1, <2>7, <2>8 DEF Waited
  <2> QED BY <2>2, <2>3, <2>4, <2>5, <2>8, <2>9 DEF Tamed
<1> QED BY <1>1, <1>8, <1>9, <1>10 DEF Now, Ruled

(* The lane's answers are none of the magnet's. *)
LEMMA LaneTells ==
  ASSUME Sound1, Lane
  PROVE  Tells(Soft)
<1>1. gui \in Seq(Signals) /\ lane \in Seq(Tasks)
  BY DEF Sound1, Law, Lawful, Typing
<1>2. \A x \in Signals : x.kind \in {"biases", "zeroed", "sample"} => x \in Soft
  BY DEF Soft
<1>3. CASE BiasRamps
  BY <1>3 DEF BiasRamps, Tells
<1>4. CASE BiasEnds
  <2>1. \E ok \in BOOLEAN : gui' = gui \o <<Signal("biases", "", ok)>>
    BY <1>4 DEF BiasEnds, LaneDone, Tell
  <2> QED BY <1>2, <2>1, LaneSays DEF Tells
<1>5. CASE ZeroBiases
  <2>1. \E ok \in BOOLEAN : gui' = gui \o <<Signal("zeroed", "", ok)>>
    BY <1>5 DEF ZeroBiases, LaneDone, Tell
  <2> QED BY <1>2, <2>1, LaneSays DEF Tells
<1>6. CASE TakeSample
  <2>1. lane # <<>> /\ Head(lane).task = "sample"
    BY <1>6 DEF TakeSample
  <2>2. Head(lane) \in Tasks
    BY <1>1, <2>1, Shrinks
  <2>3. Head(lane).generation = Head(lane).holds /\ Head(lane).generation \in Nat
    BY <2>1, <2>2, TasksAre
  <2> DEFINE y == [kind |-> "sample", name |-> "", ok |-> TRUE, generation |-> Head(lane).generation,
      holds |-> Head(lane).holds]
  <2>4. y \in Signals /\ y.kind = "sample"
    BY <2>3 DEF SampleRows, Signals
  <2>5. gui' = gui \o <<y>> \/ gui' = gui \o <<Signal("sample", "", FALSE)>>
    BY <1>6 DEF TakeSample, Tell
  <2> HIDE DEF y
  <2> QED BY <1>2, <2>4, <2>5, LaneSays DEF Tells
<1> QED BY <1>3, <1>4, <1>5, <1>6 DEF Lane

(* A step of the lane. *)
LEMMA LaneRuled == ASSUME Sound1, Now, Lane PROVE Now'
<1>1. c' = c /\ runs' = runs /\ aps' = aps /\ busy' = busy /\ linked' = linked /\ sweep' = sweep
  BY DEF Lane, BiasRamps, BiasEnds, TakeSample, ZeroBiases, MagnetAside, magnetVars
<1> QED BY <1>1, LaneTells, KeptRuled DEF Still

(* The temperature changes, or nothing happens. *)
LEMMA ThermalRuled == ASSUME Now, Warms \/ Cools \/ UNCHANGED vars PROVE Now'
<1>1. c' = c /\ aps' = aps /\ gui' = gui /\ busy' = busy /\ sweep' = sweep /\ linked' = linked /\ runs' = runs
  BY DEF Warms, Cools, vars, magnetVars
<1> QED BY <1>1 DEF Now

(* A step of the worker. *)
LEMMA WorkerRuled == ASSUME Sound1, Now, WorkerStep PROVE Now'
BY ConfigureRuled, TakeLongRuled, MoveEndsRuled, PersistentEndsRuled, TakeSweepRuled,
   TakePauseRuled, TakeRestoreRuled, TakeConnectRuled,
   PollRuled, SweepingRuled, UnlinkRuled, AskConnectRuled DEF WorkerStep, Worker

(* Every step keeps the third invariant, given the other two. *)
LEMMA ThirdStep ==
  ASSUME Sound1, Sound2, Sound3, [Next]_vars
  PROVE  Sound3'
<1>1. CASE cut
  <2>1. CASE cut'
    BY <2>1 DEF Sound3
  <2>2. CASE ~cut'
    BY <1>1, <2>2, CutStays, StartRuled, StartFailsRuled
  <2> QED BY <2>1, <2>2
<1>2. CASE ~cut
  <2>1. Order(c, aps, gui, busy, heater, lane) /\ Now
    BY <1>2 DEF Sound2, Sound3
  <2>2. Now' => Sound3'
    BY DEF Sound3
  <2>3. CASE WorkerStep \/ Lane \/ Warms \/ Cools \/ UNCHANGED vars
    BY <2>1, <2>2, <2>3, WorkerRuled, LaneRuled, ThermalRuled
  <2>4. CASE Stop \/ Close \/ CloseRejected \/ Continue \/ Saved \/ RunFails \/ MonitoringLost \/ Snapshot
             \/ LakeSnapshot \/ Watchdog \/ RowCooled
    BY <2>1, <2>2, <2>4, StopRuled, CloseRuled, CloseRejectedRuled, ContinueRuled, SavedRuled,
       RunFailsRuled, MonitoringLostRuled,
       SnapshotRuled, LakeSnapshotRuled, WatchdogRuled, RowCooledRuled
  <2>5. CASE (\E round, row \in BOOLEAN : Start(round, row)) \/ StartFails \/ Deliver
    BY <2>5, StartRuled, StartFailsRuled, DeliverRuled
  <2> QED BY <2>3, <2>4, <2>5 DEF Next, WorkerStep, Rest
<1> QED BY <1>1, <1>2

(* It holds at the start. *)
LEMMA ThirdInit == Init => Sound3
<1> SUFFICES ASSUME Init PROVE Sound3
  OBVIOUS
<1>1. c = Controller /\ linked = TRUE /\ runs = 0
  BY DEF Init
<1>2. ~c.active /\ ~c.cleaning /\ ~c.claimed
  BY <1>1, Fresh
<1>3. Steady(c, aps, busy, sweep, runs)
  BY <1>1, <1>2 DEF Steady
<1>4. Unrestored(c, aps, gui) /\ Apart(gui, busy, linked)
  BY <1>1, <1>2 DEF Unrestored, Apart
<1> QED BY <1>2, <1>3, <1>4 DEF Sound3, Now, Ruled

(* So it is an invariant. *)
LEMMA ThirdHolds == Spec => [](Sound1 /\ Sound3)
<1>1. Init => Sound1 /\ Sound2 /\ Sound3
  BY FirstInit, SecondInit, ThirdInit
<1>2. Sound1 /\ Sound2 /\ Sound3 /\ [Next]_vars => (Sound1 /\ Sound2 /\ Sound3)'
  BY FirstStep, SecondStep, ThirdStep DEF Step1, Step2
<1> QED BY <1>1, <1>2, PTL DEF Spec

(* It says more than ReleasedQuiet. *)
LEMMA ReleasedFollows == Sound1 /\ Sound3 => ReleasedQuiet
<1> SUFFICES ASSUME Sound1, Sound3, runs > 0, ~c.exclusive, ~cut
             PROVE  sweep = "no" /\ busy # "move" /\ ~Moves(aps)
  BY DEF ReleasedQuiet
<1>1. Owning(c, runs) /\ aps \in Seq(Postable)
  BY DEF Sound1, Law, Lawful, World
<1>2. ~c.claimed
  BY <1>1 DEF Owning
<1>3. Still(aps, busy, sweep)
  BY <1>2 DEF Sound3, Now, Ruled, Steady
<1>4. \A i \in DOMAIN aps : aps[i] \in Postable /\ aps[i] \notin Moving
  BY <1>1, <1>3, LenProperties, ElementOfSeq DEF Still, None
<1>5. ~Moves(aps)
  BY <1>4, Requested2 DEF Moves
<1> QED BY <1>3, <1>5 DEF Still

(* The lane is empty when the sources are given back, and when the magnet is given back
   after a cleanup that was not cut the supply is paused and no motion is queued or
   under way. *)
THEOREM OwnershipStaysQuiet == Spec => []OwnershipQuiet
BY ThirdHolds, TypeFollows, LaneQuietFollows, ReleasedFollows, PTL DEF OwnershipQuiet
=============================================================================
