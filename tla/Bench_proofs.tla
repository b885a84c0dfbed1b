---------------------------- MODULE Bench_proofs ----------------------------
(***************************************************************************)
(* Proofs about the bench: who touches the voltage sources, what their     *)
(* drivers do, and how a field sweep is set up; for every set of gates,    *)
(* every limit, supply and plan, and every bound.                          *)
(*                                                                         *)
(* The manager: one owner at a time, every emergency stop served, the last *)
(* target wins, no session closed at a level other than zero.  The         *)
(* properties are not inductive: what the user was told (Told) needs to    *)
(* know who drives the output, and that an emergency stop is served        *)
(* (Promised) needs to know who is still going to move each of its         *)
(* outputs.  Holds collects these facts, one lemma per conjunct shows that *)
(* every action keeps it.  The two parts below the manager follow it, each *)
(* with an invariant of its own.                                           *)
(***************************************************************************)
EXTENDS Bench, TLAPS, SequenceTheorems, FiniteSetTheorems

\* What a sequence lists.
In(s) == {s[i] : i \in 1 .. Len(s)}

\* The types, in groups.  Beyond TypeOK they say that only a step worker that has
\* not read its output has a relative target, and that whoever ramps an output for
\* a connection knows where it is.
OpRecords == [kind : {"none", "connect", "disconnect", "shutdown"}, left : Seq(Outputs),
              cur : Levels \cup {NoLevel}, phase : {"next", "zero", "open", "ended"},
              bad : BOOLEAN]
ManualRecords == [phase : {"none", "start", "loop", "settle", "ended"}, out : Outputs,
                  step : BOOLEAN, target : Int, relative : BOOLEAN, cur : Levels,
                  dirty : BOOLEAN, cancel : BOOLEAN, ok : BOOLEAN, raced : BOOLEAN]
ProtectorRecords == [phase : {"none", "run", "ended"}, out : Outputs, ok : BOOLEAN]
EmergencyRecords == [phase : {"none", "run", "ended"}, left : Seq(Outputs),
                     cur : Levels \cup {NoLevel}, lost : SUBSET Outputs]
RunRecords == [phase : {"none", "sweep", "zero", "ended"}, cur : Levels, stop : BOOLEAN]

LevelTypes == level \in [Outputs -> Levels]
SessionTypes ==
    /\ session \in [Outputs -> {"none", "ok", "err"}]
    /\ moved \subseteq Gates /\ applied \subseteq Gates
OpTypes ==
    /\ op \in OpRecords
    /\ op.phase \in {"zero", "open"} => op.cur \in Levels
    /\ op.kind \in {"disconnect", "shutdown"} => op.left \in Seq(Gates)
ManualTypes ==
    /\ manual \in ManualRecords
    /\ manual.phase \in {"loop", "settle"} => manual.target \in Levels
    /\ manual.relative => manual.phase \in {"start", "ended"} /\ ~manual.ok
WorkerTypes ==
    /\ reader \in {"none", "run", "ended"} /\ protector \in ProtectorRecords
    /\ protector.phase # "none" => protector.out \in Gates
    /\ run \in RunRecords
EmergencyTypes == emergency \in EmergencyRecords
FlagTypes ==
    /\ pending \in BOOLEAN /\ timer \in BOOLEAN /\ queued \in BOOLEAN
    /\ closing \in {"open", "asked", "manual", "reader", "protector", "emergency",
                    "zero", "closed"}
UsedTypes == used \in [Inputs -> Nat] /\ \A i \in Inputs : used[i] \in 0 .. Bound[i]
HistoryTypes ==
    /\ goal \in [Gates -> Int]
    /\ answer \in [Outputs -> {"none", "ok", "failed"}]
    /\ due \subseteq Outputs /\ dropped \subseteq Gates
Types ==
    /\ LevelTypes /\ SessionTypes /\ OpTypes /\ ManualTypes
    /\ WorkerTypes /\ EmergencyTypes /\ FlagTypes /\ UsedTypes /\ HistoryTypes

\* Whose turn it is: one at a time, the emergency ramp beside a measurement or a
\* connection at most, a waiting emergency stop behind somebody who will serve it,
\* and nobody new once the shutdown has passed him.
Manual == manual.phase # "none"
Reads == reader # "none"
Protects == protector.phase # "none"
Stopping == emergency.phase # "none"
Operates == op.kind \in {"connect", "disconnect"}
Late == closing \notin {"open", "asked", "manual"}

Turns ==
    /\ Manual => ~Reads /\ ~Protects /\ ~Stopping /\ ~Operates /\ ~InUse
    /\ Reads => ~Protects /\ ~Stopping /\ ~Operates /\ ~InUse
    /\ Protects => ~Stopping /\ ~Operates /\ ~InUse
    /\ Operates => ~InUse
    /\ pending => Manual \/ Reads \/ Protects
    /\ closing = "open" => op.kind # "shutdown"
    /\ closing \notin {"open", "zero"} => op.kind = "none"
    /\ closing = "zero" => op.kind = "shutdown"
    /\ closing \notin {"open", "asked"} => ~InUse
    /\ Late /\ Manual => ~pending /\ manual.raced
    /\ Late /\ closing # "reader" => ~Reads
    /\ closing \in {"emergency", "zero", "closed"} => ~Protects
    /\ closing \in {"zero", "closed"} => emergency.phase # "run"

\* What the user was told: of an output reported as reached the last command still
\* holds, and while an output is driven nothing is reported of it.
Told ==
    /\ \A g \in Gates : answer[g] = "ok" => goal[g] \in {level[g], NoLevel}
    /\ Manual => answer[manual.out] = "none"
    /\ InUse => answer[RunGate] # "ok"
    /\ Operates => \A g \in Gates : answer[g] # "ok"
    /\ closing = "zero" => \A g \in Gates : goal[g] = NoLevel
    /\ Manual /\ ~manual.raced /\ manual.out \in Gates =>
        goal[manual.out] = IF manual.relative THEN level[manual.out] + manual.target
                           ELSE manual.target
    /\ Manual /\ ~manual.raced /\ manual.out \in Gates /\ manual.phase = "ended" /\ manual.ok =>
        level[manual.out] = manual.cur

\* Who is still going to move an output: the emergency ramp, a measurement, or a
\* connection that has begun to ramp it.
Comes(o) ==
    /\ emergency.phase = "run" /\ emergency.left # <<>>
    /\ o \in In(Tail(emergency.left)) \/ (o = Head(emergency.left) /\ emergency.cur # 0)
RunMoves(o) == o = RunGate /\ (run.phase = "sweep" \/ (run.phase = "zero" /\ run.cur # 0))
OpMoves(o) ==
    /\ op.kind # "none" /\ op.left # <<>> /\ o = Head(op.left)
    /\ op.phase \in {"zero", "open"} /\ op.cur # 0

\* An output that an emergency stop has promised to zero is at zero, or somebody
\* is going to bring it there, and the manual control does not drive it.
Promised ==
    \A o \in due : level[o] = 0 \/ pending \/ Comes(o) \/ RunMoves(o) \/ OpMoves(o)
Spared == Manual /\ ~pending => manual.out \notin due

\* A connection ramps what it can reach, and never the DAQ card.
Paced ==
    /\ op.kind \in {"disconnect", "shutdown"} => op.phase # "open"
    /\ op.kind # "none" /\ op.left # <<>> /\ op.phase = "zero" => Reachable(Head(op.left))
    /\ op.kind # "none" /\ op.left # <<>> /\ Head(op.left) = "daq" => op.phase \notin {"zero", "open"}

\* A disconnection without a failure so far has left every gate behind it at zero,
\* unless the emergency ramp is at it or has reported that it failed there.
Verified ==
    op.kind \in {"disconnect", "shutdown"} /\ ~op.bad /\ ~Manual =>
        \A g \in Gates :
            g \notin In(op.left) /\ Reachable(g) =>
                level[g] = 0 \/ answer[g] = "failed" \/ Comes(g)
LostSessions ==
    op.kind = "disconnect" /\ emergency.phase = "run" =>
        \A o \in emergency.lost : session[o] = "none"

IInv == Turns /\ Told /\ Promised /\ Spared /\ Paced /\ Verified /\ LostSessions
Holds == Types /\ IInv

-----------------------------------------------------------------------------

\* Levels are integers around zero and NoLevel is none of them; a ramp step stays
\* among them (_next_ramp_value).
LEMMA LevelFacts ==
    /\ 0 \in Levels /\ Levels \subseteq Int /\ Top \in Levels /\ NoLevel \notin Levels
    /\ NoLevel # 0 /\ NoLevel \in Int
    /\ \A v, t \in Levels : Toward(v, t) \in Levels
BY DeviceAssumption DEF Levels, NoLevel, Toward

\* The order of the gates lists every gate, and the one of the outputs every output.
LEMMA OrderFacts ==
    /\ GateOrder \in Seq(Gates) /\ GateOrder # <<>> /\ In(GateOrder) = Gates
    /\ AllOutputs \in Seq(Outputs) /\ AllOutputs # <<>> /\ In(AllOutputs) = Outputs
    /\ RunGate \in Gates /\ Gates \subseteq Outputs /\ "daq" \in Outputs /\ "daq" \notin Gates
<1> DEFINE n == Cardinality(Gates)
<1>1. n \in Nat /\ ExistsBijection(1 .. n, Gates)
  BY FS_CardinalityType, DeviceAssumption
<1>2. PICK b \in Bijection(1 .. n, Gates) : TRUE
  BY <1>1 DEF ExistsBijection
<1>3. b \in [1 .. n -> Gates] /\ IsInjective(b)
  BY <1>2 DEF Bijection, Injection
<1>4. GateOrder \in [1 .. n -> Gates] /\ IsInjective(GateOrder)
  BY <1>3 DEF GateOrder, SetToSeq
<1>5. Cardinality(1 .. n) = n
  BY <1>1, FS_Interval
<1>6. GateOrder \in Surjection(1 .. n, Gates)
  BY <1>1, <1>4, <1>5, FS_Injection, DeviceAssumption DEF Injection
<1>7. \A g \in Gates : \E i \in 1 .. n : GateOrder[i] = g
  BY <1>6 DEF Surjection
<1>8. GateOrder \in Seq(Gates) /\ Len(GateOrder) = n
  BY <1>1, <1>4, SeqDef
<1>9. In(GateOrder) = Gates /\ GateOrder # <<>>
  BY <1>1, <1>4, <1>7, <1>8, DeviceAssumption DEF In
<1>10. RunGate \in Gates
  BY <1>8, <1>9, HeadTailProperties DEF RunGate
<1>11. GateOrder \in Seq(Outputs) /\ "daq" \in Outputs
  BY <1>8, SeqDef DEF Outputs
<1>12. /\ AllOutputs \in Seq(Outputs) /\ Len(AllOutputs) = n + 1
       /\ \A i \in 1 .. n : AllOutputs[i] = GateOrder[i]
       /\ AllOutputs[n + 1] = "daq"
  BY <1>8, <1>11, AppendProperties DEF AllOutputs
<1>13. In(AllOutputs) = Outputs
  <2>1. \A i \in 1 .. n + 1 : AllOutputs[i] \in Outputs
    BY <1>1, <1>12, ElementOfSeq
  <2>2. \A o \in Outputs : \E i \in 1 .. n + 1 : AllOutputs[i] = o
    BY <1>1, <1>7, <1>12 DEF Outputs
  <2>. QED BY <2>1, <2>2, <1>12 DEF In
<1>. QED BY <1>1, <1>8, <1>9, <1>10, <1>12, <1>13, DeviceAssumption DEF Outputs

\* Gates are outputs, the DAQ card is one that is not a gate.
LEMMA GateFacts == RunGate \in Gates /\ Gates \subseteq Outputs /\ "daq" \in Outputs /\ "daq" \notin Gates
BY OrderFacts

\* A sequence is its head and its tail.
LEMMA TailIn ==
    ASSUME NEW S, NEW s \in Seq(S), s # <<>>
    PROVE  /\ Head(s) \in S /\ Tail(s) \in Seq(S)
           /\ In(s) = {Head(s)} \cup In(Tail(s))
<1>1. Len(s) \in Nat /\ Len(s) # 0
  BY LenProperties, EmptySeq
<1>2. /\ Head(s) \in S /\ Tail(s) \in Seq(S) /\ Len(Tail(s)) = Len(s) - 1
      /\ \A i \in 1 .. Len(s) - 1 : Tail(s)[i] = s[i + 1]
  BY HeadTailProperties
<1>3. Head(s) = s[1]
  OBVIOUS
<1>4. \A i \in 1 .. Len(s) : i = 1 \/ (i - 1 \in 1 .. Len(s) - 1 /\ s[i] = Tail(s)[i - 1])
  BY <1>1, <1>2
<1>5. In(s) \subseteq {Head(s)} \cup In(Tail(s))
  BY <1>1, <1>2, <1>3, <1>4 DEF In
<1>6. {Head(s)} \cup In(Tail(s)) \subseteq In(s)
  BY <1>1, <1>2, <1>3 DEF In
<1>. QED BY <1>2, <1>5, <1>6

\* Nothing is in an empty sequence, and a sequence of gates does not hold the DAQ card.
LEMMA InFacts ==
    /\ In(<<>>) = {}
    /\ \A s \in Seq(Gates) : s \in Seq(Outputs)
BY OrderFacts, SeqDef, EmptySeq DEF In

\* A bounded input is spent within its bound.
LEMMA Spending ==
    ASSUME UsedTypes, NEW i \in Inputs, Spend(i)
    PROVE  UsedTypes'
<1>1. Bound[i] \in Nat
  BY DeviceAssumption DEF Bound, Inputs
<1>. QED BY <1>1 DEF UsedTypes, Spend

\* No bound is exceeded.
LEMMA UsedStep ==
    ASSUME UsedTypes, Next
    PROVE  UsedTypes'
<1>1. ASSUME NEW g \in Gates, NEW t \in Levels, RampGate(g, t) PROVE UsedTypes'
  BY <1>1, Spending DEF RampGate, Inputs
<1>2. ASSUME NEW g \in Gates, NEW d \in {-1, 1}, StepGate(g, d) PROVE UsedTypes'
  BY <1>2, Spending DEF StepGate, Inputs
<1>3. ASSUME NEW t \in {0, Top}, RampDaq(t) PROVE UsedTypes'
  BY <1>3, Spending DEF RampDaq, Inputs
<1>4. ASSUME NEW g \in Gates, ApplyProtection(g) PROVE UsedTypes'
  BY <1>4, Spending DEF ApplyProtection, Inputs
<1>5. ASSUME NEW g \in Gates, EditProfile(g) PROVE UsedTypes'
  BY <1>5, Spending DEF EditProfile, Inputs
<1>6. ASSUME NEW g \in Gates, EditAddress(g) PROVE UsedTypes'
  <2>1. CASE Spend("edit")
    BY <2>1, Spending DEF Inputs
  <2>2. CASE /\ used.edit < MaxEdits /\ used.trouble < MaxTrouble
             /\ used' = [used EXCEPT !.edit = @ + 1, !.trouble = @ + 1]
    <3>1. Bound.edit = MaxEdits /\ Bound.trouble = MaxTrouble /\ MaxEdits \in Nat /\ MaxTrouble \in Nat
      BY DeviceAssumption DEF Bound
    <3>2. "edit" \in Inputs /\ "trouble" \in Inputs
      BY DEF Inputs
    <3>3. used.edit \in Nat /\ used.trouble \in Nat
      BY <3>2 DEF UsedTypes
    <3>4. /\ used' \in [Inputs -> Nat]
          /\ used'["edit"] = used.edit + 1 /\ used'["trouble"] = used.trouble + 1
          /\ \A i \in Inputs \ {"edit", "trouble"} : used'[i] = used[i]
      <4> DEFINE spent == [used EXCEPT !.edit = @ + 1]
      <4>1. used \in [Inputs -> Nat]
        BY DEF UsedTypes
      <4>2. /\ spent \in [Inputs -> Nat] /\ spent["edit"] = used.edit + 1
            /\ \A i \in Inputs \ {"edit"} : spent[i] = used[i]
        BY <4>1, <3>2, <3>3
      <4>3. used' = [spent EXCEPT !.trouble = @ + 1]
        BY <2>2
      <4> HIDE DEF spent
      <4>4. spent["trouble"] = used.trouble /\ spent["trouble"] \in Nat
        BY <4>2, <3>2, <3>3
      <4>. QED BY <4>2, <4>3, <4>4, <3>2, <3>3
    <3>5. ASSUME NEW i \in Inputs PROVE used'[i] \in 0 .. Bound[i]
      <4>1. CASE i = "edit"
        BY <4>1, <2>2, <3>1, <3>3, <3>4
      <4>2. CASE i = "trouble"
        BY <4>2, <2>2, <3>1, <3>3, <3>4
      <4>3. CASE i \in Inputs \ {"edit", "trouble"}
        BY <4>3, <3>4 DEF UsedTypes
      <4>. QED BY <4>1, <4>2, <4>3
    <3>. QED BY <3>4, <3>5 DEF UsedTypes
  <2>3. CASE UNCHANGED used
    BY <2>3 DEF UsedTypes
  <2>. QED BY <1>6, <2>1, <2>2, <2>3 DEF EditAddress
<1>7. ASSUME NEW k \in {"connect", "disconnect"}, StartOperation(k) PROVE UsedTypes'
  BY <1>7, Spending DEF StartOperation, Inputs
<1>8. ASSUME Read PROVE UsedTypes'
  BY <1>8, Spending DEF Read, Inputs
<1>9. ASSUME EmergencyStop PROVE UsedTypes'
  BY <1>9, Spending DEF EmergencyStop, Inputs
<1>10. ASSUME RunStart PROVE UsedTypes'
  BY <1>10, Spending DEF RunStart, Inputs
<1>11. ASSUME ManualStart PROVE UsedTypes'
  <2>1. Fine \/ Trouble
    BY <1>11 DEF ManualStart
  <2>. QED BY <2>1, Spending DEF Fine, Trouble, Inputs, UsedTypes
<1>12. ASSUME ManualLoop PROVE UsedTypes'
  <2>1. Fine \/ Trouble
    BY <1>12 DEF ManualLoop
  <2>. QED BY <2>1, Spending DEF Fine, Trouble, Inputs, UsedTypes
<1>13. ASSUME ManualSettle PROVE UsedTypes'
  <2>1. Fine \/ Trouble
    BY <1>13 DEF ManualSettle
  <2>. QED BY <2>1, Spending DEF Fine, Trouble, Inputs, UsedTypes
<1>14. ASSUME ProtectorRuns PROVE UsedTypes'
  <2>1. Fine \/ Trouble
    BY <1>14 DEF ProtectorRuns
  <2>. QED BY <2>1, Spending DEF Fine, Trouble, Inputs, UsedTypes
<1>15. ASSUME DisconnectZero PROVE UsedTypes'
  <2>1. Fine \/ Trouble
    BY <1>15 DEF DisconnectZero
  <2>. QED BY <2>1, Spending DEF Fine, Trouble, Inputs, UsedTypes
<1>16. ASSUME DisconnectClose PROVE UsedTypes'
  BY <1>16 DEF DisconnectClose, Fine, UsedTypes
<1>17. ASSUME ConnectGate PROVE UsedTypes'
  <2>1. Fine \/ Trouble
    BY <1>17 DEF ConnectGate
  <2>. QED BY <2>1, Spending DEF Fine, Trouble, Inputs, UsedTypes
<1>18. ASSUME ConnectDaq PROVE UsedTypes'
  <2>1. Fine \/ Trouble
    BY <1>18 DEF ConnectDaq
  <2>. QED BY <2>1, Spending DEF Fine, Trouble, Inputs, UsedTypes
<1>19. ASSUME EmergencyRamps PROVE UsedTypes'
  <2>1. Fine \/ Trouble
    BY <1>19 DEF EmergencyRamps
  <2>. QED BY <2>1, Spending DEF Fine, Trouble, Inputs, UsedTypes
<1>20. ASSUME RunSweeps PROVE UsedTypes'
  BY <1>20 DEF RunSweeps, Fine, UsedTypes
<1>21. ASSUME RunZeroes PROVE UsedTypes'
  <2>1. Fine \/ Trouble
    BY <1>21 DEF RunZeroes
  <2>. QED BY <2>1, Spending DEF Fine, Trouble, Inputs, UsedTypes
<1>22. ASSUME RunRelease PROVE UsedTypes'
  BY <1>22 DEF RunRelease, Fine, UsedTypes
<1>23. ASSUME \/ RequestClose
              \/ OnManualFinished
              \/ TimerRead
              \/ QueuedRead
              \/ ReaderReads
              \/ OnReadFinished
              \/ OnProtectionFinished
              \/ OnOperationFinished
              \/ OnEmergencyFinished
              \/ Shutdown
              \/ ShutdownWaits
              \/ ShutdownEnds
              \/ UNCHANGED vars
      PROVE UsedTypes'
  <2>. UNCHANGED <<used>>
    BY <1>23, Zenon DEF RequestClose, history, OnManualFinished, TimerRead, Idle, QueuedRead,
       ReaderReads, OnReadFinished, OnProtectionFinished, OnOperationFinished,
       OnEmergencyFinished, Shutdown, ShutdownWaits, ShutdownEnds, vars, threads, requests
  <2>. QED BY  DEF UsedTypes
<1>. QED BY <1>1, <1>2, <1>3, <1>4, <1>5, <1>6, <1>7, <1>8, <1>9, <1>10, <1>11, <1>12,
        <1>13, <1>14, <1>15, <1>16, <1>17, <1>18, <1>19, <1>20, <1>21, <1>22, <1>23 DEF Next

\* One step of a ramp keeps the levels within the limit.
LEMMA Ramping ==
    ASSUME LevelTypes, NEW o \in Outputs, NEW v \in Levels, NEW t \in Levels,
           level' = [level EXCEPT ![o] = Toward(v, t)]
    PROVE  LevelTypes'
<1>1. Toward(v, t) \in Levels
  BY LevelFacts
<1>. QED BY <1>1 DEF LevelTypes

\* Levels stay within the limit, whoever ramps.
LEMMA LevelStep ==
    ASSUME Types, Next
    PROVE  LevelTypes'
<1>1. /\ LevelTypes /\ manual.out \in Outputs /\ manual.cur \in Levels
      /\ op.phase \in {"zero", "open"} => op.cur \in Levels
      /\ manual.phase = "loop" => manual.target \in Levels
      /\ run.cur \in Levels
  BY DEF Types, LevelTypes, SessionTypes, OpTypes, ManualTypes, WorkerTypes, EmergencyTypes,
     FlagTypes, HistoryTypes, OpRecords, ManualRecords, ProtectorRecords, EmergencyRecords,
     RunRecords
<1>2. op.left # <<>> => Head(op.left) \in Outputs
  BY TailIn DEF Types, OpTypes, OpRecords
<1>3. emergency.left # <<>> => Head(emergency.left) \in Outputs
  BY TailIn DEF Types, EmergencyTypes, EmergencyRecords
<1>4. ASSUME NEW g \in Gates, EditAddress(g) PROVE LevelTypes'
  BY <1>4, LevelFacts, GateFacts, <1>1, <1>2, <1>3 DEF EditAddress, Accepting, threads, IsBusy,
     InUse, LevelTypes
<1>5. ASSUME ManualLoop PROVE LevelTypes'
  <2>1. CASE manual.phase = "loop" /\ level' = [level EXCEPT ![manual.out] = Toward(manual.cur, manual.target)]
    BY <2>1, <1>1, <1>2, <1>3, Ramping, LevelFacts, GateFacts
  <2>2. CASE level' = level
    BY <2>2, <1>1 DEF LevelTypes
  <2>. QED BY <1>5, <2>1, <2>2 DEF ManualLoop
<1>6. ASSUME DisconnectZero PROVE LevelTypes'
  <2>1. CASE op.left # <<>> /\ op.phase = "zero" /\ level' = [level EXCEPT ![Head(op.left)] = Toward(op.cur, 0)]
    BY <2>1, <1>1, <1>2, <1>3, Ramping, LevelFacts, GateFacts
  <2>2. CASE level' = level
    BY <2>2, <1>1 DEF LevelTypes
  <2>. QED BY <1>6, <2>1, <2>2 DEF DisconnectZero
<1>7. ASSUME ConnectGate PROVE LevelTypes'
  <2>1. CASE op.left # <<>> /\ op.phase \in {"zero", "open"}
             /\ level' = [level EXCEPT ![Head(op.left)] = Toward(op.cur, 0)]
    BY <2>1, <1>1, <1>2, <1>3, Ramping, LevelFacts, GateFacts
  <2>2. CASE level' = level
    BY <2>2, <1>1 DEF LevelTypes
  <2>3. CASE op.left # <<>> /\ level' = [level EXCEPT ![Head(op.left)] = 0]
    BY <2>3, <1>1, <1>2, LevelFacts DEF LevelTypes
  <2>. QED BY <1>7, <2>1, <2>2, <2>3 DEF ConnectGate
<1>8. ASSUME EmergencyRamps PROVE LevelTypes'
  <2>1. CASE emergency.left # <<>> /\ emergency.cur \in Levels
             /\ level' = [level EXCEPT ![Head(emergency.left)] = Toward(emergency.cur, 0)]
    BY <2>1, <1>1, <1>2, <1>3, Ramping, LevelFacts, GateFacts
  <2>2. CASE level' = level
    BY <2>2, <1>1 DEF LevelTypes
  <2>. QED BY <1>8, <2>1, <2>2 DEF EmergencyRamps
<1>9. ASSUME RunSweeps PROVE LevelTypes'
  BY <1>9, LevelFacts, GateFacts, <1>1, <1>2, <1>3 DEF RunSweeps, RunKeeps, LevelTypes
<1>10. ASSUME RunZeroes PROVE LevelTypes'
  <2>1. CASE TRUE /\ level' = [level EXCEPT ![RunGate] = Toward(run.cur, 0)]
    BY <2>1, <1>1, <1>2, <1>3, Ramping, LevelFacts, GateFacts
  <2>2. CASE level' = level
    BY <2>2, <1>1 DEF LevelTypes
  <2>. QED BY <1>10, <2>1, <2>2 DEF RunZeroes
<1>11. ASSUME \/ (\E g \in Gates, t \in Levels : RampGate(g, t))
              \/ (\E g \in Gates, d \in {-1, 1} : StepGate(g, d))
              \/ (\E t \in {0, Top} : RampDaq(t))
              \/ (\E g \in Gates : ApplyProtection(g))
              \/ (\E g \in Gates : EditProfile(g))
              \/ (\E k \in {"connect", "disconnect"} : StartOperation(k))
              \/ Read
              \/ EmergencyStop
              \/ RunStart
              \/ RequestClose
              \/ ManualStart
              \/ ManualSettle
              \/ OnManualFinished
              \/ TimerRead
              \/ QueuedRead
              \/ ReaderReads
              \/ OnReadFinished
              \/ ProtectorRuns
              \/ OnProtectionFinished
              \/ DisconnectClose
              \/ ConnectDaq
              \/ OnOperationFinished
              \/ OnEmergencyFinished
              \/ RunRelease
              \/ Shutdown
              \/ ShutdownWaits
              \/ ShutdownEnds
              \/ UNCHANGED vars
      PROVE LevelTypes'
  <2>. UNCHANGED <<level>>
    BY <1>11, Zenon DEF RampGate, StepGate, RampDaq, ApplyProtection, EditProfile, threads,
       StartOperation, Read, Idle, history, EmergencyStop, RunStart, RunKeeps, RequestClose,
       ManualStart, ManualKeeps, ManualSettle, OnManualFinished, TimerRead, QueuedRead,
       ReaderReads, OnReadFinished, ProtectorRuns, OnProtectionFinished, DisconnectClose,
       OpKeeps, ConnectDaq, OnOperationFinished, OnEmergencyFinished, RunRelease, Shutdown,
       ShutdownWaits, ShutdownEnds, vars, requests
  <2>. QED BY LevelFacts, GateFacts, <1>1, <1>2, <1>3 DEF LevelTypes
<1>. QED BY <1>4, <1>5, <1>6, <1>7, <1>8, <1>9, <1>10, <1>11 DEF Next

\* The sessions, and the gates whose address or profile waits.
LEMMA SessionStep ==
    ASSUME Types, Next
    PROVE  SessionTypes'
<1>1. SessionTypes
  BY DEF Types
<1>2. op.left # <<>> => Head(op.left) \in Outputs
  BY TailIn DEF Types, OpTypes, OpRecords
<1>3. protector.phase # "none" => protector.out \in Gates
  BY DEF Types, WorkerTypes
<1>4. ASSUME NEW g \in Gates, ApplyProtection(g) PROVE SessionTypes'
  BY <1>4, LevelFacts, GateFacts, <1>1, <1>2, <1>3 DEF ApplyProtection, Accepting, Connected,
     IsBusy, InUse, SessionTypes
<1>5. ASSUME NEW g \in Gates, EditProfile(g) PROVE SessionTypes'
  BY <1>5, LevelFacts, GateFacts, <1>1, <1>2, <1>3 DEF EditProfile, Accepting, threads, SessionTypes
<1>6. ASSUME NEW g \in Gates, EditAddress(g) PROVE SessionTypes'
  BY <1>6, LevelFacts, GateFacts, <1>1, <1>2, <1>3 DEF EditAddress, Accepting, threads, IsBusy,
     InUse, SessionTypes
<1>7. ASSUME OnProtectionFinished PROVE SessionTypes'
  BY <1>7, LevelFacts, GateFacts, <1>1, <1>2, <1>3 DEF OnProtectionFinished, GuiFree,
     FinishProtect, NoProtector, ServePending, StartEmergency, NoEmergency, Reachable, history,
     SessionTypes
<1>8. ASSUME DisconnectZero PROVE SessionTypes'
  BY <1>8, LevelFacts, GateFacts, <1>1, <1>2, <1>3 DEF DisconnectZero, Next1, Reachable,
     Reported, OpKeeps, SessionTypes
<1>9. ASSUME DisconnectClose PROVE SessionTypes'
  BY <1>9, LevelFacts, GateFacts, <1>1, <1>2, <1>3 DEF DisconnectClose, MayClose, Closes,
     OpKeeps, SessionTypes
<1>10. ASSUME ConnectGate PROVE SessionTypes'
  <2>1. op.left # <<>> /\ Head(op.left) \in Gates
    BY <1>10, <1>2 DEF ConnectGate, Outputs
  <2>2. /\ session' = session \/ session' = [session EXCEPT ![Head(op.left)] = "ok"]
                             \/ session' = [session EXCEPT ![Head(op.left)] = "none"]
        /\ moved' = moved \/ moved' = moved \ {Head(op.left)}
        /\ applied' \in {applied, applied \cup {Head(op.left)}, applied \ {Head(op.left)}}
    BY <1>10 DEF ConnectGate, GiveUp
  <2>. QED BY <2>1, <2>2, <1>1 DEF SessionTypes
<1>11. ASSUME ConnectDaq PROVE SessionTypes'
  BY <1>11, LevelFacts, GateFacts, <1>1, <1>2, <1>3 DEF ConnectDaq, Next1, Reachable, OpKeeps,
     SessionTypes
<1>12. ASSUME ShutdownWaits PROVE SessionTypes'
  BY <1>12, LevelFacts, GateFacts, <1>1, <1>2, <1>3 DEF ShutdownWaits, ShutdownStep, FinishRead,
     FinishProtect, NoProtector, EmergencyDone, NoOp, GuiFree, FinishManual, Restarts,
     NewManual, NoManual, ServePending, StartEmergency, NoEmergency, Reachable, SessionTypes
<1>13. ASSUME ShutdownEnds PROVE SessionTypes'
  BY <1>13, LevelFacts, GateFacts, <1>1, <1>2, <1>3 DEF ShutdownEnds, NoOp, MayClose, Closes,
     history, SessionTypes
<1>14. ASSUME \/ (\E g \in Gates, t \in Levels : RampGate(g, t))
              \/ (\E g \in Gates, d \in {-1, 1} : StepGate(g, d))
              \/ (\E t \in {0, Top} : RampDaq(t))
              \/ (\E k \in {"connect", "disconnect"} : StartOperation(k))
              \/ Read
              \/ EmergencyStop
              \/ RunStart
              \/ RequestClose
              \/ ManualStart
              \/ ManualLoop
              \/ ManualSettle
              \/ OnManualFinished
              \/ TimerRead
              \/ QueuedRead
              \/ ReaderReads
              \/ OnReadFinished
              \/ ProtectorRuns
              \/ OnOperationFinished
              \/ EmergencyRamps
              \/ OnEmergencyFinished
              \/ RunSweeps
              \/ RunZeroes
              \/ RunRelease
              \/ Shutdown
              \/ UNCHANGED vars
      PROVE SessionTypes'
  <2>. UNCHANGED <<session, moved, applied>>
    BY <1>14, Zenon DEF RampGate, StepGate, RampDaq, StartOperation, Read, Idle, history,
       EmergencyStop, RunStart, RunKeeps, RequestClose, ManualStart, ManualKeeps, ManualLoop,
       ManualSettle, OnManualFinished, TimerRead, QueuedRead, ReaderReads, OnReadFinished,
       ProtectorRuns, OnOperationFinished, EmergencyRamps, OnEmergencyFinished, RunSweeps,
       RunZeroes, RunRelease, Shutdown, vars, threads, requests
  <2>. QED BY LevelFacts, GateFacts, <1>1, <1>2, <1>3 DEF SessionTypes
<1>. QED BY <1>4, <1>5, <1>6, <1>7, <1>8, <1>9, <1>10, <1>11, <1>12, <1>13, <1>14 DEF Next

\* The thread goes on to the next device, begins to ramp an output from where it
\* is, moves it by a step, or opens a session anew: its state stays well-formed.
LEMMA OpMade ==
    ASSUME OpTypes, LevelTypes, op.left # <<>>,
           \/ op' = Next1 \/ op' = [Next1 EXCEPT !.bad = TRUE]
           \/ \E ph \in {"zero", "open"} : op' = [op EXCEPT !.phase = ph, !.cur = level[Head(op.left)]]
           \/ op.phase \in {"zero", "open"} /\ op' = [op EXCEPT !.cur = Toward(@, 0)]
           \/ op' = [op EXCEPT !.phase = "open", !.cur = 0]
    PROVE  OpTypes'
<1>1. /\ Head(op.left) \in Outputs /\ Tail(op.left) \in Seq(Outputs)
      /\ op.left \in Seq(Gates) => Head(op.left) \in Gates /\ Tail(op.left) \in Seq(Gates)
      /\ level[Head(op.left)] \in Levels
  BY TailIn, HeadTailProperties DEF OpTypes, OpRecords, LevelTypes
<1>2. op \in OpRecords /\ (op.kind \in {"disconnect", "shutdown"} => op.left \in Seq(Gates))
  BY DEF OpTypes
<1>3. CASE op' = Next1 \/ op' = [Next1 EXCEPT !.bad = TRUE]
  BY <1>1, <1>2, <1>3 DEF OpTypes, OpRecords, Next1
<1>4. ASSUME NEW ph \in {"zero", "open"}, op' = [op EXCEPT !.phase = ph, !.cur = level[Head(op.left)]]
      PROVE  OpTypes'
  BY <1>1, <1>2, <1>4 DEF OpTypes, OpRecords
<1>5. CASE op.phase \in {"zero", "open"} /\ op' = [op EXCEPT !.cur = Toward(@, 0)]
  <2>1. Toward(op.cur, 0) \in Levels
    BY <1>5, LevelFacts DEF OpTypes
  <2>. QED BY <1>2, <1>5, <2>1 DEF OpTypes, OpRecords
<1>6. CASE op' = [op EXCEPT !.phase = "open", !.cur = 0]
  BY <1>2, <1>6, LevelFacts DEF OpTypes, OpRecords
<1>. QED BY <1>3, <1>4, <1>5, <1>6

\* The thread of a connection or disconnection.
LEMMA OpStep ==
    ASSUME Types, Next
    PROVE  OpTypes'
<1>1. LevelTypes /\ OpTypes
  BY DEF Types
<1>2. op.left # <<>> =>
           /\ Head(op.left) \in Outputs /\ Tail(op.left) \in Seq(Outputs)
           /\ op.left \in Seq(Gates) => Head(op.left) \in Gates /\ Tail(op.left) \in Seq(Gates)
           /\ level[Head(op.left)] \in Levels
  BY <1>1, TailIn, HeadTailProperties DEF OpTypes, OpRecords, LevelTypes
<1>3. /\ GateOrder \in Seq(Gates) /\ GateOrder \in Seq(Outputs) /\ AllOutputs \in Seq(Outputs)
      /\ <<>> \in Seq(Gates) /\ <<>> \in Seq(Outputs)
  BY OrderFacts, InFacts, EmptySeq
<1>4. ASSUME NEW k \in {"connect", "disconnect"}, StartOperation(k) PROVE OpTypes'
  BY <1>4, LevelFacts, GateFacts, <1>1, <1>2, <1>3 DEF StartOperation, Accepting, NoOp, IsBusy,
     InUse, OpTypes, OpRecords
<1>5. ASSUME DisconnectZero PROVE OpTypes'
  <2>1. op.left # <<>>
    BY <1>5 DEF DisconnectZero
  <2>2. \/ op' = Next1 \/ op' = [Next1 EXCEPT !.bad = TRUE]
        \/ \E ph \in {"zero", "open"} : op' = [op EXCEPT !.phase = ph, !.cur = level[Head(op.left)]]
        \/ op.phase \in {"zero", "open"} /\ op' = [op EXCEPT !.cur = Toward(@, 0)]
        \/ op' = [op EXCEPT !.phase = "open", !.cur = 0]
    BY <1>5 DEF DisconnectZero
  <2>. QED BY <2>1, <2>2, <1>1, OpMade
<1>6. ASSUME DisconnectClose PROVE OpTypes'
  BY <1>6, LevelFacts, GateFacts, <1>1, <1>2, <1>3 DEF DisconnectClose, MayClose, Closes,
     OpKeeps, OpTypes, OpRecords
<1>7. ASSUME ConnectGate PROVE OpTypes'
  <2>1. op.left # <<>>
    BY <1>7 DEF ConnectGate
  <2>2. \/ op' = Next1 \/ op' = [Next1 EXCEPT !.bad = TRUE]
        \/ \E ph \in {"zero", "open"} : op' = [op EXCEPT !.phase = ph, !.cur = level[Head(op.left)]]
        \/ op.phase \in {"zero", "open"} /\ op' = [op EXCEPT !.cur = Toward(@, 0)]
        \/ op' = [op EXCEPT !.phase = "open", !.cur = 0]
    BY <1>7, Zenon DEF ConnectGate, GiveUp
  <2>. QED BY <2>1, <2>2, <1>1, OpMade
<1>8. ASSUME ConnectDaq PROVE OpTypes'
  BY <1>8, LevelFacts, GateFacts, <1>1, <1>2, <1>3 DEF ConnectDaq, Next1, Reachable, OpKeeps,
     OpTypes, OpRecords
<1>9. ASSUME OnOperationFinished PROVE OpTypes'
  BY <1>9, LevelFacts, GateFacts, <1>1, <1>2, <1>3 DEF OnOperationFinished, GuiFree, NoOp,
     history, OpTypes, OpRecords
<1>10. ASSUME ShutdownWaits PROVE OpTypes'
  BY <1>10, LevelFacts, GateFacts, <1>1, <1>2, <1>3 DEF ShutdownWaits, ShutdownStep, FinishRead,
     FinishProtect, NoProtector, EmergencyDone, NoOp, GuiFree, FinishManual, Restarts,
     NewManual, NoManual, ServePending, StartEmergency, NoEmergency, Reachable, OpTypes,
     OpRecords
<1>11. ASSUME ShutdownEnds PROVE OpTypes'
  BY <1>11, LevelFacts, GateFacts, <1>1, <1>2, <1>3 DEF ShutdownEnds, NoOp, MayClose, Closes,
     history, OpTypes, OpRecords
<1>12. ASSUME \/ (\E g \in Gates, t \in Levels : RampGate(g, t))
              \/ (\E g \in Gates, d \in {-1, 1} : StepGate(g, d))
              \/ (\E t \in {0, Top} : RampDaq(t))
              \/ (\E g \in Gates : ApplyProtection(g))
              \/ (\E g \in Gates : EditProfile(g))
              \/ (\E g \in Gates : EditAddress(g))
              \/ Read
              \/ EmergencyStop
              \/ RunStart
              \/ RequestClose
              \/ ManualStart
              \/ ManualLoop
              \/ ManualSettle
              \/ OnManualFinished
              \/ TimerRead
              \/ QueuedRead
              \/ ReaderReads
              \/ OnReadFinished
              \/ ProtectorRuns
              \/ OnProtectionFinished
              \/ EmergencyRamps
              \/ OnEmergencyFinished
              \/ RunSweeps
              \/ RunZeroes
              \/ RunRelease
              \/ Shutdown
              \/ UNCHANGED vars
      PROVE OpTypes'
  <2>. UNCHANGED <<op>>
    BY <1>12, Zenon DEF RampGate, StepGate, RampDaq, ApplyProtection, EditProfile, threads,
       EditAddress, Read, Idle, history, EmergencyStop, RunStart, RunKeeps, RequestClose,
       ManualStart, ManualKeeps, ManualLoop, ManualSettle, OnManualFinished, TimerRead,
       QueuedRead, ReaderReads, OnReadFinished, ProtectorRuns, OnProtectionFinished,
       EmergencyRamps, OnEmergencyFinished, RunSweeps, RunZeroes, RunRelease, Shutdown, vars,
       requests
  <2>. QED BY LevelFacts, GateFacts, <1>1, <1>2, <1>3 DEF OpTypes, OpRecords
<1>. QED BY <1>4, <1>5, <1>6, <1>7, <1>8, <1>9, <1>10, <1>11, <1>12 DEF Next

\* A finished ramp goes on to a late target or leaves nothing behind.
LEMMA ManualFinished ==
    ASSUME ManualTypes, FinishManual
    PROVE  ManualTypes'
<1>1. CASE manual' = NoManual
  BY <1>1, LevelFacts, GateFacts DEF ManualTypes, ManualRecords, NoManual
<1>2. CASE manual' = [NewManual(manual.out, manual.target, FALSE)
                         EXCEPT !.raced = manual.raced \/ ~GuiFree]
  <2>1. (manual.raced \/ ~GuiFree) \in BOOLEAN
    BY Zenon
  <2>2. PICK b \in BOOLEAN : manual' = [NewManual(manual.out, manual.target, FALSE) EXCEPT !.raced = b]
    BY <1>2, <2>1, Zenon
  <2>3. manual.out \in Outputs /\ manual.target \in Int
    BY DEF ManualTypes, ManualRecords
  <2>. QED BY <2>2, <2>3, LevelFacts DEF ManualTypes, ManualRecords, NewManual, NoManual
<1>. QED BY <1>1, <1>2, Zenon DEF FinishManual

\* The manual control.
LEMMA ManualStep ==
    ASSUME Types, Next
    PROVE  ManualTypes'
<1>1. LevelTypes /\ ManualTypes /\ "daq" \in Outputs
  BY GateFacts DEF Types
<1>2. level[manual.out] \in Levels
  BY <1>1 DEF ManualTypes, ManualRecords, LevelTypes
<1>3. ASSUME NEW g \in Gates, NEW t \in Levels, RampGate(g, t) PROVE ManualTypes'
  BY <1>3, LevelFacts, GateFacts, <1>1, <1>2, ZenonT(30) DEF RampGate, CanAcceptGateTarget,
     UpdateTarget, NewManual, NoManual, Promise, Accepting, Connected, InUse, ManualTypes,
     ManualRecords
<1>4. ASSUME NEW g \in Gates, NEW d \in {-1, 1}, StepGate(g, d) PROVE ManualTypes'
  <2>1. d \in Int /\ manual.target \in Int /\ g \in Outputs
    BY <1>1, GateFacts DEF ManualTypes, ManualRecords
  <2>2. CASE manual' = NewManual(g, d, TRUE)
    BY <2>1, <2>2, LevelFacts DEF ManualTypes, ManualRecords, NewManual, NoManual
  <2>3. CASE /\ manual.relative \/ manual.target + d \in Levels
             /\ manual' = [manual EXCEPT !.target = @ + d, !.dirty = TRUE]
    <3>1. manual.target + d \in Int
      BY <2>1
    <3>2. manual' \in ManualRecords
      BY <1>1, <2>3, <3>1 DEF ManualTypes, ManualRecords
    <3>. QED BY <1>1, <2>3, <3>2 DEF ManualTypes, ManualRecords
  <2>. QED BY <1>4, <2>2, <2>3 DEF StepGate
<1>5. ASSUME NEW t \in {0, Top}, RampDaq(t) PROVE ManualTypes'
  BY <1>5, LevelFacts, GateFacts, <1>1, <1>2 DEF RampDaq, NewManual, NoManual, Accepting,
     Connected, IsBusy, InUse, ManualTypes, ManualRecords
<1>6. ASSUME EmergencyStop PROVE ManualTypes'
  BY <1>6, LevelFacts, GateFacts, <1>1, <1>2 DEF EmergencyStop, GuiFree, StartEmergency,
     NoEmergency, InUse, Reachable, ManualTypes, ManualRecords
<1>7. ASSUME ManualStart PROVE ManualTypes'
  BY <1>7, LevelFacts, GateFacts, <1>1, <1>2, ZenonT(30) DEF ManualStart, Reachable, Ends,
     ManualKeeps, history, ManualTypes, ManualRecords
<1>8. ASSUME ManualLoop PROVE ManualTypes'
  <2>1. manual.phase = "loop" => Toward(manual.cur, manual.target) \in Levels
    BY <1>1, LevelFacts DEF ManualTypes, ManualRecords
  <2>2. \/ Ends(FALSE)
        \/ manual' = [manual EXCEPT !.phase = "settle", !.dirty = FALSE]
        \/ manual' = [manual EXCEPT !.cur = Toward(manual.cur, manual.target), !.dirty = FALSE]
    BY <1>8 DEF ManualLoop
  <2>3. manual.phase = "loop"
    BY <1>8 DEF ManualLoop
  <2>. QED BY <2>1, <2>2, <2>3, <1>1 DEF ManualTypes, ManualRecords, Ends
<1>9. ASSUME ManualSettle PROVE ManualTypes'
  BY <1>9, LevelFacts, GateFacts, <1>1, <1>2, ZenonT(30) DEF ManualSettle, Reachable, Ends,
     ManualKeeps, history, Settled, GoesOn, ManualTypes, ManualRecords
<1>10. ASSUME OnManualFinished PROVE ManualTypes'
  BY <1>10, <1>1, ManualFinished DEF OnManualFinished
<1>11. ASSUME Shutdown PROVE ManualTypes'
  BY <1>11, LevelFacts, GateFacts, <1>1, <1>2 DEF Shutdown, InUse, history, ManualTypes,
     ManualRecords
<1>12. ASSUME ShutdownWaits PROVE ManualTypes'
  <2>1. FinishManual \/ manual' = manual
    BY <1>12, Zenon DEF ShutdownWaits, ShutdownStep
  <2>. QED BY <2>1, <1>1, ManualFinished DEF ManualTypes
<1>13. ASSUME \/ (\E g \in Gates : ApplyProtection(g))
              \/ (\E g \in Gates : EditProfile(g))
              \/ (\E g \in Gates : EditAddress(g))
              \/ (\E k \in {"connect", "disconnect"} : StartOperation(k))
              \/ Read
              \/ RunStart
              \/ RequestClose
              \/ TimerRead
              \/ QueuedRead
              \/ ReaderReads
              \/ OnReadFinished
              \/ ProtectorRuns
              \/ OnProtectionFinished
              \/ DisconnectZero
              \/ DisconnectClose
              \/ ConnectGate
              \/ ConnectDaq
              \/ OnOperationFinished
              \/ EmergencyRamps
              \/ OnEmergencyFinished
              \/ RunSweeps
              \/ RunZeroes
              \/ RunRelease
              \/ ShutdownEnds
              \/ UNCHANGED vars
      PROVE ManualTypes'
  <2>. UNCHANGED <<manual>>
    BY <1>13, Zenon DEF ApplyProtection, EditProfile, threads, EditAddress, StartOperation,
       Read, Idle, history, RunStart, RunKeeps, RequestClose, TimerRead, QueuedRead,
       ReaderReads, OnReadFinished, ProtectorRuns, OnProtectionFinished, DisconnectZero,
       OpKeeps, DisconnectClose, ConnectGate, ConnectDaq, OnOperationFinished, EmergencyRamps,
       OnEmergencyFinished, RunSweeps, RunZeroes, RunRelease, ShutdownEnds, vars, requests
  <2>. QED BY LevelFacts, GateFacts, <1>1, <1>2 DEF ManualTypes, ManualRecords
<1>. QED BY <1>3, <1>4, <1>5, <1>6, <1>7, <1>8, <1>9, <1>10, <1>11, <1>12, <1>13 DEF Next

\* An emergency ramp starts with every output before it, and loses what is closed.
LEMMA EmergencyMade ==
    ASSUME EmergencyTypes, LevelTypes,
           \/ StartEmergency \/ ServePending \/ Closes(Outputs) \/ \E g \in Gates : Closes({g})
    PROVE  EmergencyTypes'
<1>1. CASE StartEmergency
  BY <1>1, OrderFacts DEF EmergencyTypes, EmergencyRecords, StartEmergency, NoEmergency
<1>2. CASE ServePending
  BY <1>1, <1>2 DEF ServePending, EmergencyTypes
<1>3. CASE Closes(Outputs)
  BY <1>3 DEF Closes, EmergencyTypes, EmergencyRecords
<1>4. ASSUME NEW g \in Gates, Closes({g}) PROVE EmergencyTypes'
  BY <1>4, GateFacts DEF Closes, EmergencyTypes, EmergencyRecords
<1>. QED BY <1>1, <1>2, <1>3, <1>4

\* The emergency ramp.
LEMMA EmergencyStep ==
    ASSUME Types, Next
    PROVE  EmergencyTypes'
<1>1. EmergencyTypes /\ LevelTypes
  BY DEF Types
<1>2. ASSUME EmergencyStop PROVE EmergencyTypes'
  <2>1. StartEmergency \/ ServePending \/ Closes(Outputs) \/ emergency' = emergency
    BY <1>2, Zenon DEF EmergencyStop
  <2>. QED BY <2>1, <1>1, EmergencyMade DEF EmergencyTypes
<1>3. ASSUME OnManualFinished PROVE EmergencyTypes'
  <2>1. StartEmergency \/ ServePending \/ Closes(Outputs) \/ emergency' = emergency
    BY <1>3, Zenon DEF OnManualFinished, FinishManual
  <2>. QED BY <2>1, <1>1, EmergencyMade DEF EmergencyTypes
<1>4. ASSUME OnReadFinished PROVE EmergencyTypes'
  <2>1. StartEmergency \/ ServePending \/ Closes(Outputs) \/ emergency' = emergency
    BY <1>4, Zenon DEF OnReadFinished, FinishRead
  <2>. QED BY <2>1, <1>1, EmergencyMade DEF EmergencyTypes
<1>5. ASSUME OnProtectionFinished PROVE EmergencyTypes'
  <2>1. StartEmergency \/ ServePending \/ Closes(Outputs) \/ emergency' = emergency
    BY <1>5, Zenon DEF OnProtectionFinished, FinishProtect
  <2>. QED BY <2>1, <1>1, EmergencyMade DEF EmergencyTypes
<1>6. ASSUME DisconnectClose PROVE EmergencyTypes'
  <2>1. StartEmergency \/ ServePending \/ Closes(Outputs) \/ emergency' = emergency
    BY <1>6, Zenon DEF DisconnectClose
  <2>. QED BY <2>1, <1>1, EmergencyMade DEF EmergencyTypes
<1>7. ASSUME ConnectGate PROVE EmergencyTypes'
  <2>1. op.left # <<>> /\ Head(op.left) # "daq"
    BY <1>7 DEF ConnectGate
  <2>2. Head(op.left) \in Gates
    BY <2>1, TailIn DEF Types, OpTypes, OpRecords, Outputs
  <2>3. Closes({Head(op.left)}) \/ emergency' = emergency
    BY <1>7, Zenon DEF ConnectGate
  <2>. QED BY <2>2, <2>3, <1>1, EmergencyMade DEF EmergencyTypes
<1>8. ASSUME EmergencyRamps PROVE EmergencyTypes'
  <2>1. CASE emergency.left = <<>> /\ emergency' = [NoEmergency EXCEPT !.phase = "ended"]
    BY <2>1, EmptySeq DEF EmergencyTypes, EmergencyRecords, NoEmergency
  <2>2. CASE emergency.left # <<>>
    <3>1. Head(emergency.left) \in Outputs /\ Tail(emergency.left) \in Seq(Outputs)
      BY <1>1, <2>2, TailIn DEF EmergencyTypes, EmergencyRecords
    <3>2. level[Head(emergency.left)] \in Levels
      BY <1>1, <3>1 DEF LevelTypes
    <3>3. emergency.cur \in Levels => Toward(emergency.cur, 0) \in Levels
      BY LevelFacts
    <3>4. \/ emergency' = Leaves(Head(emergency.left))
          \/ emergency' = [emergency EXCEPT !.cur = level[Head(emergency.left)]]
          \/ emergency.cur \in Levels /\ emergency' = [emergency EXCEPT !.cur = Toward(@, 0)]
      BY <1>8, <2>2 DEF EmergencyRamps
    <3>. QED BY <1>1, <3>1, <3>2, <3>3, <3>4 DEF EmergencyTypes, EmergencyRecords, Leaves
  <2>. QED BY <1>8, <2>1, <2>2 DEF EmergencyRamps
<1>9. ASSUME OnEmergencyFinished PROVE EmergencyTypes'
  BY <1>9, EmptySeq DEF OnEmergencyFinished, EmergencyTypes, EmergencyRecords, NoEmergency
<1>10. ASSUME ShutdownWaits PROVE EmergencyTypes'
  <2>1. StartEmergency \/ ServePending \/ Closes(Outputs) \/ emergency' = emergency
    BY <1>10, Zenon DEF ShutdownWaits, ShutdownStep, FinishManual, FinishRead, FinishProtect
  <2>. QED BY <2>1, <1>1, EmergencyMade DEF EmergencyTypes
<1>11. ASSUME ShutdownEnds PROVE EmergencyTypes'
  <2>1. StartEmergency \/ ServePending \/ Closes(Outputs) \/ emergency' = emergency
    BY <1>11, Zenon DEF ShutdownEnds
  <2>. QED BY <2>1, <1>1, EmergencyMade DEF EmergencyTypes
<1>12. ASSUME \/ (\E g \in Gates, t \in Levels : RampGate(g, t))
              \/ (\E g \in Gates, d \in {-1, 1} : StepGate(g, d))
              \/ (\E t \in {0, Top} : RampDaq(t))
              \/ (\E g \in Gates : ApplyProtection(g))
              \/ (\E g \in Gates : EditProfile(g))
              \/ (\E g \in Gates : EditAddress(g))
              \/ (\E k \in {"connect", "disconnect"} : StartOperation(k))
              \/ Read
              \/ RunStart
              \/ RequestClose
              \/ ManualStart
              \/ ManualLoop
              \/ ManualSettle
              \/ TimerRead
              \/ QueuedRead
              \/ ReaderReads
              \/ ProtectorRuns
              \/ DisconnectZero
              \/ ConnectDaq
              \/ OnOperationFinished
              \/ RunSweeps
              \/ RunZeroes
              \/ RunRelease
              \/ Shutdown
              \/ UNCHANGED vars
      PROVE EmergencyTypes'
  <2>. UNCHANGED <<emergency>>
    BY <1>12, Zenon DEF RampGate, StepGate, RampDaq, ApplyProtection, EditProfile, threads,
       EditAddress, StartOperation, Read, Idle, history, RunStart, RunKeeps, RequestClose,
       ManualStart, ManualKeeps, ManualLoop, ManualSettle, TimerRead, QueuedRead, ReaderReads,
       ProtectorRuns, DisconnectZero, OpKeeps, ConnectDaq, OnOperationFinished, RunSweeps,
       RunZeroes, RunRelease, Shutdown, vars, requests
  <2>. QED BY <1>1 DEF EmergencyTypes, EmergencyRecords
<1>. QED BY <1>2, <1>3, <1>4, <1>5, <1>6, <1>7, <1>8, <1>9, <1>10, <1>11, <1>12 DEF Next

\* Readback, protection and measurement.
LEMMA WorkerStep ==
    ASSUME Types, Next
    PROVE  WorkerTypes'
<1>1. LevelTypes /\ WorkerTypes /\ level[RunGate] \in Levels
  BY GateFacts DEF Types, LevelTypes
<1>2. ASSUME NEW g \in Gates, ApplyProtection(g) PROVE WorkerTypes'
  BY <1>2, LevelFacts, GateFacts, <1>1 DEF ApplyProtection, Accepting, Connected, IsBusy, InUse,
     WorkerTypes, ProtectorRecords, RunRecords
<1>3. ASSUME Read PROVE WorkerTypes'
  BY <1>3, LevelFacts, GateFacts, <1>1 DEF Read, Accepting, ReadAllowed, Idle, history, IsBusy,
     InUse, WorkerTypes, ProtectorRecords, RunRecords
<1>4. ASSUME EmergencyStop PROVE WorkerTypes'
  BY <1>4, LevelFacts, GateFacts, <1>1 DEF EmergencyStop, GuiFree, StartEmergency, NoEmergency,
     InUse, Reachable, WorkerTypes, ProtectorRecords, RunRecords
<1>5. ASSUME RunStart PROVE WorkerTypes'
  BY <1>5, LevelFacts, GateFacts, <1>1 DEF RunStart, Accepting, Connected, NoRun, RunKeeps,
     IsBusy, InUse, WorkerTypes, ProtectorRecords, RunRecords
<1>6. ASSUME RequestClose PROVE WorkerTypes'
  BY <1>6, LevelFacts, GateFacts, <1>1 DEF RequestClose, Accepting, InUse, history, WorkerTypes,
     ProtectorRecords, RunRecords
<1>7. ASSUME TimerRead PROVE WorkerTypes'
  BY <1>7, LevelFacts, GateFacts, <1>1 DEF TimerRead, GuiFree, ReadAllowed, Idle, history,
     IsBusy, InUse, WorkerTypes, ProtectorRecords, RunRecords
<1>8. ASSUME QueuedRead PROVE WorkerTypes'
  BY <1>8, LevelFacts, GateFacts, <1>1 DEF QueuedRead, GuiFree, ReadAllowed, Idle, history,
     IsBusy, InUse, WorkerTypes, ProtectorRecords, RunRecords
<1>9. ASSUME ReaderReads PROVE WorkerTypes'
  BY <1>9, LevelFacts, GateFacts, <1>1 DEF ReaderReads, Idle, history, WorkerTypes,
     ProtectorRecords, RunRecords
<1>10. ASSUME OnReadFinished PROVE WorkerTypes'
  BY <1>10, LevelFacts, GateFacts, <1>1 DEF OnReadFinished, GuiFree, FinishRead, ServePending,
     StartEmergency, NoEmergency, Reachable, history, WorkerTypes, ProtectorRecords, RunRecords
<1>11. ASSUME ProtectorRuns PROVE WorkerTypes'
  BY <1>11, LevelFacts, GateFacts, <1>1 DEF ProtectorRuns, Idle, history, WorkerTypes,
     ProtectorRecords, RunRecords
<1>12. ASSUME OnProtectionFinished PROVE WorkerTypes'
  BY <1>12, LevelFacts, GateFacts, <1>1 DEF OnProtectionFinished, GuiFree, FinishProtect,
     NoProtector, ServePending, StartEmergency, NoEmergency, Reachable, history, WorkerTypes,
     ProtectorRecords, RunRecords
<1>13. ASSUME RunSweeps PROVE WorkerTypes'
  BY <1>13, LevelFacts, GateFacts, <1>1 DEF RunSweeps, RunKeeps, WorkerTypes, ProtectorRecords,
     RunRecords
<1>14. ASSUME RunZeroes PROVE WorkerTypes'
  <2>1. Toward(run.cur, 0) \in Levels
    BY <1>1, LevelFacts DEF WorkerTypes, RunRecords
  <2>2. \/ run' = [run EXCEPT !.cur = Toward(@, 0)] \/ run' = [run EXCEPT !.phase = "ended"]
    BY <1>14 DEF RunZeroes
  <2>3. UNCHANGED <<reader, protector>>
    BY <1>14 DEF RunZeroes, RunKeeps
  <2>. QED BY <2>1, <2>2, <2>3, <1>1 DEF WorkerTypes, RunRecords
<1>15. ASSUME RunRelease PROVE WorkerTypes'
  BY <1>15, LevelFacts, GateFacts, <1>1 DEF RunRelease, GuiFree, NoRun, RunKeeps, WorkerTypes,
     ProtectorRecords, RunRecords
<1>16. ASSUME ShutdownWaits PROVE WorkerTypes'
  <2>1. reader' \in {reader, "none"} /\ protector' \in {protector, NoProtector} /\ run' = run
    BY <1>16 DEF ShutdownWaits, ShutdownStep, FinishRead, FinishProtect
  <2>2. NoProtector \in ProtectorRecords /\ NoProtector.phase = "none"
    BY GateFacts DEF ProtectorRecords, NoProtector
  <2>. QED BY <2>1, <2>2, <1>1 DEF WorkerTypes
<1>17. ASSUME \/ (\E g \in Gates, t \in Levels : RampGate(g, t))
              \/ (\E g \in Gates, d \in {-1, 1} : StepGate(g, d))
              \/ (\E t \in {0, Top} : RampDaq(t))
              \/ (\E g \in Gates : EditProfile(g))
              \/ (\E g \in Gates : EditAddress(g))
              \/ (\E k \in {"connect", "disconnect"} : StartOperation(k))
              \/ ManualStart
              \/ ManualLoop
              \/ ManualSettle
              \/ OnManualFinished
              \/ DisconnectZero
              \/ DisconnectClose
              \/ ConnectGate
              \/ ConnectDaq
              \/ OnOperationFinished
              \/ EmergencyRamps
              \/ OnEmergencyFinished
              \/ Shutdown
              \/ ShutdownEnds
              \/ UNCHANGED vars
      PROVE WorkerTypes'
  <2>. UNCHANGED <<reader, protector, run>>
    BY <1>17, Zenon DEF RampGate, StepGate, RampDaq, EditProfile, threads, EditAddress,
       StartOperation, ManualStart, ManualKeeps, history, ManualLoop, ManualSettle,
       OnManualFinished, DisconnectZero, OpKeeps, DisconnectClose, ConnectGate, ConnectDaq,
       OnOperationFinished, EmergencyRamps, OnEmergencyFinished, Shutdown, ShutdownEnds, vars,
       requests
  <2>. QED BY LevelFacts, GateFacts, <1>1 DEF WorkerTypes, ProtectorRecords, RunRecords
<1>. QED BY <1>2, <1>3, <1>4, <1>5, <1>6, <1>7, <1>8, <1>9, <1>10, <1>11, <1>12, <1>13,
        <1>14, <1>15, <1>16, <1>17 DEF Next

\* Timers, posted readbacks and the shutdown.
LEMMA FlagStep ==
    ASSUME Types, Next
    PROVE  FlagTypes'
<1>1. FlagTypes
  BY DEF Types
<1>2. ASSUME NEW g \in Gates, NEW t \in Levels, RampGate(g, t) PROVE FlagTypes'
  BY <1>2, <1>1 DEF RampGate, CanAcceptGateTarget, UpdateTarget, NewManual, NoManual, Promise,
     Accepting, Connected, InUse, FlagTypes
<1>3. ASSUME NEW g \in Gates, NEW d \in {-1, 1}, StepGate(g, d) PROVE FlagTypes'
  BY <1>3, <1>1 DEF StepGate, CanAcceptGateTarget, NewManual, NoManual, Promise, Accepting,
     Connected, InUse, FlagTypes
<1>4. ASSUME EmergencyStop PROVE FlagTypes'
  BY <1>4, <1>1 DEF EmergencyStop, GuiFree, StartEmergency, NoEmergency, InUse, Reachable, FlagTypes
<1>5. ASSUME RequestClose PROVE FlagTypes'
  BY <1>5, <1>1 DEF RequestClose, Accepting, InUse, history, FlagTypes
<1>6. ASSUME OnManualFinished PROVE FlagTypes'
  BY <1>6, <1>1 DEF OnManualFinished, GuiFree, FinishManual, Restarts, NewManual, NoManual,
     ServePending, StartEmergency, NoEmergency, Reachable, FlagTypes
<1>7. ASSUME TimerRead PROVE FlagTypes'
  BY <1>7, <1>1 DEF TimerRead, GuiFree, ReadAllowed, Idle, history, IsBusy, InUse, FlagTypes
<1>8. ASSUME QueuedRead PROVE FlagTypes'
  BY <1>8, <1>1 DEF QueuedRead, GuiFree, ReadAllowed, Idle, history, IsBusy, InUse, FlagTypes
<1>9. ASSUME OnReadFinished PROVE FlagTypes'
  BY <1>9, <1>1 DEF OnReadFinished, GuiFree, FinishRead, ServePending, StartEmergency,
     NoEmergency, Reachable, history, FlagTypes
<1>10. ASSUME OnProtectionFinished PROVE FlagTypes'
  BY <1>10, <1>1 DEF OnProtectionFinished, GuiFree, FinishProtect, NoProtector, ServePending,
     StartEmergency, NoEmergency, Reachable, history, FlagTypes
<1>11. ASSUME OnOperationFinished PROVE FlagTypes'
  BY <1>11, <1>1 DEF OnOperationFinished, GuiFree, NoOp, history, FlagTypes
<1>12. ASSUME OnEmergencyFinished PROVE FlagTypes'
  BY <1>12, <1>1 DEF OnEmergencyFinished, GuiFree, NoEmergency, history, FlagTypes
<1>13. ASSUME Shutdown PROVE FlagTypes'
  BY <1>13, <1>1 DEF Shutdown, InUse, history, FlagTypes
<1>14. ASSUME ShutdownWaits PROVE FlagTypes'
  BY <1>14, <1>1 DEF ShutdownWaits, ShutdownStep, FinishRead, FinishProtect, NoProtector,
     EmergencyDone, NoOp, GuiFree, FinishManual, Restarts, NewManual, NoManual, ServePending,
     StartEmergency, NoEmergency, Reachable, FlagTypes
<1>15. ASSUME ShutdownEnds PROVE FlagTypes'
  BY <1>15, <1>1 DEF ShutdownEnds, NoOp, MayClose, Closes, history, FlagTypes
<1>16. ASSUME \/ (\E t \in {0, Top} : RampDaq(t))
              \/ (\E g \in Gates : ApplyProtection(g))
              \/ (\E g \in Gates : EditProfile(g))
              \/ (\E g \in Gates : EditAddress(g))
              \/ (\E k \in {"connect", "disconnect"} : StartOperation(k))
              \/ Read
              \/ RunStart
              \/ ManualStart
              \/ ManualLoop
              \/ ManualSettle
              \/ ReaderReads
              \/ ProtectorRuns
              \/ DisconnectZero
              \/ DisconnectClose
              \/ ConnectGate
              \/ ConnectDaq
              \/ EmergencyRamps
              \/ RunSweeps
              \/ RunZeroes
              \/ RunRelease
              \/ UNCHANGED vars
      PROVE FlagTypes'
  <2>. UNCHANGED <<pending, timer, queued, closing>>
    BY <1>16, Zenon DEF RampDaq, ApplyProtection, EditProfile, threads, EditAddress,
       StartOperation, Read, Idle, history, RunStart, RunKeeps, ManualStart, ManualKeeps,
       ManualLoop, ManualSettle, ReaderReads, ProtectorRuns, DisconnectZero, OpKeeps,
       DisconnectClose, ConnectGate, ConnectDaq, EmergencyRamps, RunSweeps, RunZeroes,
       RunRelease, vars, requests
  <2>. QED BY <1>1 DEF FlagTypes
<1>. QED BY <1>2, <1>3, <1>4, <1>5, <1>6, <1>7, <1>8, <1>9, <1>10, <1>11, <1>12, <1>13,
        <1>14, <1>15, <1>16 DEF Next

\* What was commanded, told, promised and given up.
LEMMA HistoryStep ==
    ASSUME Types, Next
    PROVE  HistoryTypes'
<1>1. HistoryTypes /\ LevelTypes
  BY DEF Types
<1>2. ASSUME NEW g \in Gates, NEW t \in Levels, RampGate(g, t) PROVE HistoryTypes'
  BY <1>2, LevelFacts, GateFacts, <1>1 DEF RampGate, CanAcceptGateTarget, UpdateTarget,
     NewManual, NoManual, Promise, Accepting, Connected, InUse, HistoryTypes
<1>3. ASSUME NEW g \in Gates, NEW d \in {-1, 1}, StepGate(g, d) PROVE HistoryTypes'
  <2>3. level[g] \in Int
    BY <1>1, LevelFacts, GateFacts DEF LevelTypes
  <2>4. goal[g] \in Int /\ d \in Int
    BY <1>1 DEF HistoryTypes
  <2>1. level[g] + d \in Int /\ goal[g] + d \in Int /\ g \in Outputs
    BY <2>3, <2>4, GateFacts
  <2>2. Promise(g, level[g] + d) \/ Promise(g, goal[g] + d)
    BY <1>3 DEF StepGate
  <2>. QED BY <2>1, <2>2, <1>1 DEF HistoryTypes, Promise
<1>4. ASSUME NEW t \in {0, Top}, RampDaq(t) PROVE HistoryTypes'
  BY <1>4, LevelFacts, GateFacts, <1>1 DEF RampDaq, NewManual, NoManual, Accepting, Connected,
     IsBusy, InUse, HistoryTypes
<1>5. ASSUME NEW g \in Gates, EditAddress(g) PROVE HistoryTypes'
  BY <1>5, LevelFacts, GateFacts, <1>1 DEF EditAddress, Accepting, threads, IsBusy, InUse,
     HistoryTypes
<1>6. ASSUME NEW k \in {"connect", "disconnect"}, StartOperation(k) PROVE HistoryTypes'
  BY <1>6, LevelFacts, GateFacts, <1>1 DEF StartOperation, Accepting, NoOp, IsBusy, InUse,
     HistoryTypes
<1>7. ASSUME EmergencyStop PROVE HistoryTypes'
  BY <1>7, LevelFacts, GateFacts, <1>1 DEF EmergencyStop, GuiFree, StartEmergency, NoEmergency,
     InUse, Reachable, HistoryTypes
<1>8. ASSUME RunStart PROVE HistoryTypes'
  BY <1>8, LevelFacts, GateFacts, <1>1 DEF RunStart, Accepting, Connected, NoRun, RunKeeps,
     IsBusy, InUse, HistoryTypes
<1>9. ASSUME OnManualFinished PROVE HistoryTypes'
  BY <1>9, LevelFacts, GateFacts, <1>1 DEF OnManualFinished, GuiFree, FinishManual, Restarts,
     NewManual, NoManual, ServePending, StartEmergency, NoEmergency, Reachable, HistoryTypes
<1>10. ASSUME DisconnectZero PROVE HistoryTypes'
  BY <1>10, LevelFacts, GateFacts, <1>1 DEF DisconnectZero, Next1, Reachable, Reported, OpKeeps,
     HistoryTypes
<1>11. ASSUME ConnectGate PROVE HistoryTypes'
  <2>1. op.left # <<>> /\ Head(op.left) # "daq"
    BY <1>11 DEF ConnectGate
  <2>2. Head(op.left) \in Gates
    BY <2>1, TailIn DEF Types, OpTypes, OpRecords, Outputs
  <2>3. /\ due' \in {due, due \ {Head(op.left)}}
        /\ dropped' \in {dropped, dropped \cup {Head(op.left)}, dropped \ {Head(op.left)}}
        /\ UNCHANGED <<goal, answer>>
    BY <1>11 DEF ConnectGate, GiveUp, Reported, OpKeeps
  <2>. QED BY <2>2, <2>3, <1>1 DEF HistoryTypes
<1>12. ASSUME EmergencyRamps PROVE HistoryTypes'
  BY <1>12, LevelFacts, GateFacts, <1>1 DEF EmergencyRamps, NoEmergency, Leaves, HistoryTypes
<1>13. ASSUME RunZeroes PROVE HistoryTypes'
  BY <1>13, LevelFacts, GateFacts, <1>1 DEF RunZeroes, RunKeeps, HistoryTypes
<1>14. ASSUME ShutdownWaits PROVE HistoryTypes'
  BY <1>14, LevelFacts, GateFacts, <1>1 DEF ShutdownWaits, ShutdownStep, FinishRead,
     FinishProtect, NoProtector, EmergencyDone, NoOp, GuiFree, FinishManual, Restarts,
     NewManual, NoManual, ServePending, StartEmergency, NoEmergency, Reachable, HistoryTypes
<1>15. ASSUME \/ (\E g \in Gates : ApplyProtection(g))
              \/ (\E g \in Gates : EditProfile(g))
              \/ Read
              \/ RequestClose
              \/ ManualStart
              \/ ManualLoop
              \/ ManualSettle
              \/ TimerRead
              \/ QueuedRead
              \/ ReaderReads
              \/ OnReadFinished
              \/ ProtectorRuns
              \/ OnProtectionFinished
              \/ DisconnectClose
              \/ ConnectDaq
              \/ OnOperationFinished
              \/ OnEmergencyFinished
              \/ RunSweeps
              \/ RunRelease
              \/ Shutdown
              \/ ShutdownEnds
              \/ UNCHANGED vars
      PROVE HistoryTypes'
  <2>. UNCHANGED <<goal, answer, due, dropped>>
    BY <1>15, Zenon DEF ApplyProtection, EditProfile, threads, Read, Idle, history,
       RequestClose, ManualStart, ManualKeeps, ManualLoop, ManualSettle, TimerRead, QueuedRead,
       ReaderReads, OnReadFinished, ProtectorRuns, OnProtectionFinished, DisconnectClose,
       OpKeeps, ConnectDaq, OnOperationFinished, OnEmergencyFinished, RunSweeps, RunKeeps,
       RunRelease, Shutdown, ShutdownEnds, vars, requests
  <2>. QED BY LevelFacts, GateFacts, <1>1 DEF HistoryTypes
<1>. QED BY <1>2, <1>3, <1>4, <1>5, <1>6, <1>7, <1>8, <1>9, <1>10, <1>11, <1>12, <1>13,
        <1>14, <1>15 DEF Next

\* The types at the start.
LEMMA TypesInit == Init => Types
<1>. SUFFICES ASSUME Init PROVE Types
  OBVIOUS
<1>1. LevelTypes /\ SessionTypes
  BY LevelFacts DEF Init, LevelTypes, SessionTypes
<1>2. OpTypes
  BY EmptySeq DEF Init, OpTypes, OpRecords, NoOp
<1>3. ManualTypes
  BY LevelFacts, GateFacts DEF Init, ManualTypes, ManualRecords, NoManual
<1>4. WorkerTypes
  BY LevelFacts, GateFacts DEF Init, WorkerTypes, ProtectorRecords, RunRecords, NoProtector, NoRun
<1>5. EmergencyTypes
  BY EmptySeq DEF Init, EmergencyTypes, EmergencyRecords, NoEmergency
<1>6. FlagTypes
  BY DEF Init, FlagTypes
<1>8. HistoryTypes
  <2>1. goal \in [Gates -> Int] /\ answer \in [Outputs -> {"none", "ok", "failed"}]
    BY DEF Init
  <2>2. due \subseteq Outputs /\ dropped \subseteq Gates
    BY DEF Init
  <2>. QED BY <2>1, <2>2 DEF HistoryTypes
<1>7. UsedTypes
  <2>1. \A i \in Inputs : Bound[i] \in Nat
    BY DeviceAssumption DEF Bound, Inputs
  <2>. QED BY <2>1 DEF Init, UsedTypes
<1>. QED BY <1>1, <1>2, <1>3, <1>4, <1>5, <1>6, <1>7, <1>8 DEF Types

\* Every action keeps the types.
LEMMA TypesStep ==
    ASSUME Types, Next
    PROVE  Types'
BY UsedStep, LevelStep, SessionStep, OpStep, ManualStep, EmergencyStep, WorkerStep, FlagStep,
   HistoryStep
   DEF Types

\* The types of the proof are those of the model.
LEMMA TypesImply == Types => TypeOK
<1>. SUFFICES ASSUME Types PROVE TypeOK
  OBVIOUS
<1>1. LevelTypes /\ SessionTypes /\ HistoryTypes /\ FlagTypes /\ UsedTypes
  BY DEF Types
<1>2. op \in OpRecords /\ manual \in ManualRecords /\ emergency \in EmergencyRecords
  BY DEF Types, OpTypes, ManualTypes, EmergencyTypes
<1>3. reader \in {"none", "run", "ended"} /\ protector \in ProtectorRecords /\ run \in RunRecords
  BY DEF Types, WorkerTypes
<1>4. manual.phase \in {"loop", "settle"} => manual.target \in Levels
  BY DEF Types, ManualTypes
<1>. QED BY <1>1, <1>2, <1>3, <1>4
         DEF TypeOK, LevelTypes, SessionTypes, HistoryTypes, FlagTypes, UsedTypes,
             OpRecords, ManualRecords, ProtectorRecords, EmergencyRecords, RunRecords

\* What the three slots that may serve a waiting emergency stop do with it.
LEMMA Serving ==
    ASSUME EmergencyTypes, ServePending, pending \in BOOLEAN
    PROVE  /\ pending' = FALSE
           /\ pending => emergency'.phase = "run"
           /\ ~pending => emergency' = emergency
BY DEF ServePending, StartEmergency, NoEmergency, EmergencyTypes, EmergencyRecords

\* A finished ramp is restarted, during the shutdown in a race with it, or over.
LEMMA Finishing ==
    ASSUME Types, FinishManual
    PROVE  /\ manual.phase = "ended"
           /\ \/ /\ ~pending /\ manual'.phase = "start" /\ manual'.out = manual.out
                 /\ manual.out \in Gates
                 /\ ~GuiFree => manual'.raced
                 /\ manual.raced => manual'.raced
                 /\ ~manual'.raced => ~manual.raced
                 /\ manual'.target = manual.target /\ ~manual'.relative /\ ~manual'.ok
                 /\ manual.ok
                 /\ UNCHANGED <<emergency, pending, timer, answer>>
              \/ /\ ~Restarts /\ manual'.phase = "none" /\ ServePending
                 /\ answer' = [answer EXCEPT ![manual.out] =
                                   IF ~manual.ok THEN "failed"
                                   ELSE IF pending \/ manual.raced THEN "none" ELSE "ok"]
<1>1. manual.phase = "ended"
  BY DEF FinishManual
<1>2. CASE /\ Restarts /\ UNCHANGED <<emergency, pending, timer, answer>>
           /\ manual' = [NewManual(manual.out, manual.target, FALSE)
                             EXCEPT !.raced = manual.raced \/ ~GuiFree]
  <2>1. /\ manual'.phase = "start" /\ manual'.out = manual.out /\ manual'.target = manual.target
        /\ manual'.relative = FALSE /\ manual'.ok = FALSE
    BY <1>2 DEF NewManual, NoManual
  <2>2. manual'.raced = (manual.raced \/ ~GuiFree)
    BY <1>2 DEF NewManual, NoManual
  <2>3. ~pending /\ manual.ok /\ manual.out \in Gates
    BY <1>2 DEF Restarts
  <2>4. /\ ~GuiFree => manual'.raced
        /\ manual.raced => manual'.raced
        /\ ~manual'.raced => ~manual.raced
    BY <2>2, Zenon
  <2>. QED BY <1>1, <1>2, <2>1, <2>3, <2>4
<1>3. CASE /\ ~Restarts /\ manual' = NoManual /\ ServePending
           /\ answer' = [answer EXCEPT ![manual.out] =
                             IF ~manual.ok THEN "failed"
                             ELSE IF pending \/ manual.raced THEN "none" ELSE "ok"]
  <2>1. manual'.phase = "none"
    BY <1>3 DEF NoManual
  <2>. QED BY <1>1, <1>3, <2>1, Zenon
<1>. QED BY <1>2, <1>3, Zenon DEF FinishManual

\* Whoever takes the bus takes it when it is free, and gives it back in his slot.
LEMMA TurnsStep ==
    ASSUME Types, Turns, Next
    PROVE  Turns'
<1>1. op \in OpRecords /\ manual \in ManualRecords
  BY DEF Types, OpTypes, ManualTypes
<1>2. protector \in ProtectorRecords /\ run \in RunRecords
  BY DEF Types, WorkerTypes
<1>3. emergency \in EmergencyRecords
  BY DEF Types, EmergencyTypes
<1>4. closing \in {"open", "asked", "manual", "reader", "protector", "emergency", "zero", "closed"}
      /\ pending \in BOOLEAN
  BY DEF Types, FlagTypes
<1>5. reader \in {"none", "run", "ended"}
  BY DEF Types, WorkerTypes
<1>6. Turns
  OBVIOUS
<1>7. ASSUME NEW g \in Gates, NEW t \in Levels, RampGate(g, t) PROVE Turns'
  BY <1>7, <1>1, <1>2, <1>3, <1>4, <1>5, <1>6 DEF RampGate, CanAcceptGateTarget, UpdateTarget,
     NewManual, NoManual, Promise, Accepting, Connected, InUse, Turns, Manual, Reads, Protects,
     Stopping, Operates, Late
<1>8. ASSUME NEW g \in Gates, NEW d \in {-1, 1}, StepGate(g, d) PROVE Turns'
  BY <1>8, <1>1, <1>2, <1>3, <1>4, <1>5, <1>6 DEF StepGate, CanAcceptGateTarget, NewManual,
     NoManual, Promise, Accepting, Connected, InUse, Turns, Manual, Reads, Protects, Stopping,
     Operates, Late
<1>9. ASSUME NEW t \in {0, Top}, RampDaq(t) PROVE Turns'
  BY <1>9, <1>1, <1>2, <1>3, <1>4, <1>5, <1>6 DEF RampDaq, NewManual, NoManual, Accepting,
     Connected, IsBusy, InUse, Turns, Manual, Reads, Protects, Stopping, Operates, Late
<1>10. ASSUME NEW g \in Gates, ApplyProtection(g) PROVE Turns'
  BY <1>10, <1>1, <1>2, <1>3, <1>4, <1>5, <1>6 DEF ApplyProtection, Accepting, Connected,
     IsBusy, InUse, Turns, Manual, Reads, Protects, Stopping, Operates, Late
<1>11. ASSUME NEW k \in {"connect", "disconnect"}, StartOperation(k) PROVE Turns'
  BY <1>11, <1>1, <1>2, <1>3, <1>4, <1>5, <1>6 DEF StartOperation, Accepting, NoOp, IsBusy,
     InUse, Turns, Manual, Reads, Protects, Stopping, Operates, Late
<1>12. ASSUME Read PROVE Turns'
  BY <1>12, <1>1, <1>2, <1>3, <1>4, <1>5, <1>6 DEF Read, Accepting, ReadAllowed, Idle, history,
     IsBusy, InUse, Turns, Manual, Reads, Protects, Stopping, Operates, Late
<1>13. ASSUME EmergencyStop PROVE Turns'
  <2>1. /\ run'.phase = run.phase /\ closing \in {"open", "asked"}
        /\ UNCHANGED <<op, reader, protector, closing>>
    BY <1>13, <1>2 DEF EmergencyStop, GuiFree, RunRecords
  <2>2. CASE UNCHANGED <<manual, emergency, pending>>
    BY <2>1, <2>2, <1>6 DEF Turns, Manual, Reads, Protects, Stopping, Operates, Late, InUse
  <2>3. CASE /\ manual.phase # "none" /\ emergency.phase = "none" /\ pending' = TRUE
             /\ manual' = [manual EXCEPT !.cancel = TRUE] /\ emergency' = emergency
    <3>1. manual'.phase = manual.phase /\ manual'.raced = manual.raced
      BY <2>3, <1>1 DEF ManualRecords
    <3>. QED BY <2>1, <2>3, <3>1, <1>6 DEF Turns, Manual, Reads, Protects, Stopping,
            Operates, Late, InUse
  <2>4. CASE /\ emergency.phase = "none" /\ manual.phase = "none" /\ UNCHANGED <<manual, emergency>>
             /\ reader # "none" \/ protector.phase # "none"
             /\ pending' = TRUE
    BY <2>1, <2>4, <1>6 DEF Turns, Manual, Reads, Protects, Stopping, Operates, Late, InUse
  <2>5. CASE /\ emergency.phase = "none" /\ manual.phase = "none" /\ reader = "none"
             /\ protector.phase = "none" /\ StartEmergency /\ UNCHANGED <<manual, pending>>
    <3>1. emergency'.phase = "run"
      BY <2>5 DEF StartEmergency, NoEmergency
    <3>. QED BY <2>1, <2>5, <3>1, <1>6 DEF Turns, Manual, Reads, Protects, Stopping,
            Operates, Late, InUse
  <2>. QED BY <1>13, <2>2, <2>3, <2>4, <2>5, Zenon DEF EmergencyStop
<1>14. ASSUME RunStart PROVE Turns'
  BY <1>14, <1>1, <1>2, <1>3, <1>4, <1>5, <1>6 DEF RunStart, Accepting, Connected, NoRun,
     RunKeeps, IsBusy, InUse, Turns, Manual, Reads, Protects, Stopping, Operates, Late
<1>15. ASSUME RequestClose PROVE Turns'
  BY <1>15, <1>1, <1>2, <1>3, <1>4, <1>5, <1>6 DEF RequestClose, Accepting, InUse, history,
     Turns, Manual, Reads, Protects, Stopping, Operates, Late
<1>16. ASSUME ManualStart PROVE Turns'
  <2>1. /\ manual.phase # "none" /\ manual'.phase # "none" /\ manual'.raced = manual.raced
        /\ UNCHANGED <<op, reader, protector, emergency, run, pending, closing>>
    BY <1>16, <1>1 DEF ManualStart, Ends, ManualRecords, ManualKeeps
  <2>. QED BY <2>1, <1>6 DEF Turns, Manual, Reads, Protects, Stopping, Operates, Late, InUse
<1>17. ASSUME ManualLoop PROVE Turns'
  <2>1. /\ manual.phase # "none" /\ manual'.phase # "none" /\ manual'.raced = manual.raced
        /\ UNCHANGED <<op, reader, protector, emergency, run, pending, closing>>
    BY <1>17, <1>1 DEF ManualLoop, Ends, ManualRecords, ManualKeeps
  <2>. QED BY <2>1, <1>6 DEF Turns, Manual, Reads, Protects, Stopping, Operates, Late, InUse
<1>18. ASSUME ManualSettle PROVE Turns'
  <2>1. /\ manual.phase # "none" /\ manual'.phase # "none" /\ manual'.raced = manual.raced
        /\ UNCHANGED <<op, reader, protector, emergency, run, pending, closing>>
    BY <1>18, <1>1 DEF ManualSettle, Ends, ManualRecords, ManualKeeps
  <2>. QED BY <2>1, <1>6 DEF Turns, Manual, Reads, Protects, Stopping, Operates, Late, InUse
<1>19. ASSUME OnManualFinished PROVE Turns'
  <2>1. /\ closing \in {"open", "asked"} /\ FinishManual
        /\ UNCHANGED <<op, reader, protector, run, closing>>
    BY <1>19 DEF OnManualFinished, GuiFree
  <2>2. /\ manual.phase = "ended"
        /\ \/ ~pending /\ manual'.phase = "start" /\ UNCHANGED <<emergency, pending>>
           \/ manual'.phase = "none" /\ ServePending
    BY <2>1, Finishing
  <2>3. ServePending => /\ pending' = FALSE
                        /\ pending => emergency'.phase = "run"
                        /\ ~pending => emergency' = emergency
    BY Serving, <1>4 DEF Types
  <2>. QED BY <2>1, <2>2, <2>3, <1>6 DEF Turns, Manual, Reads, Protects, Stopping, Operates,
          Late, InUse
<1>20. ASSUME TimerRead PROVE Turns'
  BY <1>20, <1>1, <1>2, <1>3, <1>4, <1>5, <1>6 DEF TimerRead, GuiFree, ReadAllowed, Idle,
     history, IsBusy, InUse, Turns, Manual, Reads, Protects, Stopping, Operates, Late
<1>21. ASSUME QueuedRead PROVE Turns'
  BY <1>21, <1>1, <1>2, <1>3, <1>4, <1>5, <1>6 DEF QueuedRead, GuiFree, ReadAllowed, Idle,
     history, IsBusy, InUse, Turns, Manual, Reads, Protects, Stopping, Operates, Late
<1>22. ASSUME ReaderReads PROVE Turns'
  BY <1>22, <1>1, <1>2, <1>3, <1>4, <1>5, <1>6 DEF ReaderReads, Idle, history, Turns, Manual,
     Reads, Protects, Stopping, Operates, Late, InUse
<1>23. ASSUME OnReadFinished PROVE Turns'
  BY <1>23, <1>1, <1>2, <1>3, <1>4, <1>5, <1>6 DEF OnReadFinished, GuiFree, FinishRead,
     ServePending, StartEmergency, NoEmergency, Reachable, history, Turns, Manual, Reads,
     Protects, Stopping, Operates, Late, InUse
<1>24. ASSUME ProtectorRuns PROVE Turns'
  <2>1. /\ protector.phase # "none" /\ protector'.phase # "none"
        /\ UNCHANGED <<op, manual, reader, emergency, run, pending, closing>>
    BY <1>24, <1>2 DEF ProtectorRuns, ProtectorRecords, Idle
  <2>. QED BY <2>1, <1>6 DEF Turns, Manual, Reads, Protects, Stopping, Operates, Late, InUse
<1>25. ASSUME OnProtectionFinished PROVE Turns'
  BY <1>25, <1>1, <1>2, <1>3, <1>4, <1>5, <1>6 DEF OnProtectionFinished, GuiFree, FinishProtect,
     NoProtector, ServePending, StartEmergency, NoEmergency, Reachable, history, Turns, Manual,
     Reads, Protects, Stopping, Operates, Late, InUse
<1>26. ASSUME DisconnectZero PROVE Turns'
  <2>1. /\ op'.kind = op.kind
        /\ UNCHANGED <<manual, reader, protector, emergency, run, pending, closing>>
    BY <1>26, <1>1 DEF DisconnectZero, Next1, OpRecords, OpKeeps
  <2>. QED BY <2>1, <1>6 DEF Turns, Manual, Reads, Protects, Stopping, Operates, Late, InUse
<1>27. ASSUME DisconnectClose PROVE Turns'
  BY <1>27, <1>1, <1>2, <1>3, <1>4, <1>5, <1>6 DEF DisconnectClose, MayClose, Closes, OpKeeps,
     Turns, Manual, Reads, Protects, Stopping, Operates, Late, InUse
<1>28. ASSUME ConnectGate PROVE Turns'
  <2>1. op'.kind = op.kind
    BY <1>28, <1>1 DEF ConnectGate, GiveUp, Next1, OpRecords
  <2>2. emergency'.phase = emergency.phase
    BY <1>28, <1>3 DEF ConnectGate, Closes, EmergencyRecords
  <2>3. UNCHANGED <<manual, reader, protector, run, pending, closing>>
    BY <1>28 DEF ConnectGate, OpKeeps
  <2>. QED BY <2>1, <2>2, <2>3, <1>6 DEF Turns, Manual, Reads, Protects, Stopping, Operates,
          Late, InUse
<1>29. ASSUME ConnectDaq PROVE Turns'
  BY <1>29, <1>1, <1>2, <1>3, <1>4, <1>5, <1>6 DEF ConnectDaq, Next1, Reachable, OpKeeps, Turns,
     Manual, Reads, Protects, Stopping, Operates, Late, InUse
<1>30. ASSUME OnOperationFinished PROVE Turns'
  BY <1>30, <1>1, <1>2, <1>3, <1>4, <1>5, <1>6 DEF OnOperationFinished, GuiFree, NoOp, history,
     Turns, Manual, Reads, Protects, Stopping, Operates, Late, InUse
<1>31. ASSUME EmergencyRamps PROVE Turns'
  BY <1>31, <1>1, <1>2, <1>3, <1>4, <1>5, <1>6 DEF EmergencyRamps, NoEmergency, Leaves, Turns,
     Manual, Reads, Protects, Stopping, Operates, Late, InUse
<1>32. ASSUME OnEmergencyFinished PROVE Turns'
  BY <1>32, <1>1, <1>2, <1>3, <1>4, <1>5, <1>6 DEF OnEmergencyFinished, GuiFree, NoEmergency,
     history, Turns, Manual, Reads, Protects, Stopping, Operates, Late, InUse
<1>33. ASSUME RunSweeps PROVE Turns'
  BY <1>33, <1>1, <1>2, <1>3, <1>4, <1>5, <1>6 DEF RunSweeps, RunKeeps, Turns, Manual, Reads,
     Protects, Stopping, Operates, Late, InUse
<1>34. ASSUME RunZeroes PROVE Turns'
  BY <1>34, <1>1, <1>2, <1>3, <1>4, <1>5, <1>6 DEF RunZeroes, RunKeeps, Turns, Manual, Reads,
     Protects, Stopping, Operates, Late, InUse
<1>35. ASSUME RunRelease PROVE Turns'
  BY <1>35, <1>1, <1>2, <1>3, <1>4, <1>5, <1>6 DEF RunRelease, GuiFree, NoRun, RunKeeps, Turns,
     Manual, Reads, Protects, Stopping, Operates, Late, InUse
<1>36. ASSUME Shutdown PROVE Turns'
  BY <1>36, <1>1, <1>2, <1>3, <1>4, <1>5, <1>6 DEF Shutdown, InUse, history, Turns, Manual,
     Reads, Protects, Stopping, Operates, Late
<1>37. ASSUME ShutdownWaits PROVE Turns'
  <2>1. UNCHANGED run
    BY <1>37 DEF ShutdownWaits
  <2>2. ServePending => /\ pending' = FALSE
                        /\ pending => emergency'.phase = "run"
                        /\ ~pending => emergency' = emergency
    BY Serving, <1>4 DEF Types
  <2>3. CASE closing = "manual"
    <3>1. /\ closing' = "reader" /\ UNCHANGED <<reader, protector, op>>
          /\ FinishManual \/ (manual.phase = "none" /\ UNCHANGED <<manual, emergency, pending>>)
      BY <1>37, <2>3 DEF ShutdownWaits, ShutdownStep
    <3>2. FinishManual =>
            \/ ~pending /\ manual'.phase = "start" /\ manual'.raced /\ UNCHANGED <<emergency, pending>>
            \/ manual'.phase = "none" /\ ServePending
      BY <2>3, Finishing DEF GuiFree
    <3>3. FinishManual => manual.phase = "ended"
      BY DEF FinishManual
    <3>. QED BY <2>1, <2>2, <2>3, <3>1, <3>2, <3>3, <1>6 DEF Turns, Manual, Reads, Protects,
            Stopping, Operates, Late, InUse
  <2>4. CASE closing = "reader"
    <3>1. /\ closing' = "protector" /\ UNCHANGED <<manual, protector, op>>
          /\ \/ reader # "none" /\ reader' = "none" /\ ServePending
             \/ reader = "none" /\ UNCHANGED <<reader, emergency, pending>>
      BY <1>37, <2>4 DEF ShutdownWaits, ShutdownStep, FinishRead
    <3>. QED BY <2>1, <2>2, <2>4, <3>1, <1>6 DEF Turns, Manual, Reads, Protects, Stopping,
            Operates, Late, InUse
  <2>5. CASE closing = "protector"
    <3>1. /\ closing' = "emergency" /\ UNCHANGED <<manual, reader, op>>
          /\ \/ protector.phase # "none" /\ protector' = NoProtector /\ ServePending
             \/ protector.phase = "none" /\ UNCHANGED <<protector, emergency, pending>>
      BY <1>37, <2>5 DEF ShutdownWaits, ShutdownStep, FinishProtect
    <3>2. NoProtector.phase = "none"
      BY DEF NoProtector
    <3>. QED BY <2>1, <2>2, <2>5, <3>1, <3>2, <1>6 DEF Turns, Manual, Reads, Protects,
            Stopping, Operates, Late, InUse
  <2>6. CASE closing = "emergency"
    <3>1. /\ closing' = "zero" /\ emergency.phase # "run" /\ op'.kind = "shutdown"
          /\ UNCHANGED <<manual, reader, protector, emergency, pending>>
      BY <1>37, <2>6 DEF ShutdownWaits, ShutdownStep, EmergencyDone, NoOp
    <3>. QED BY <2>1, <2>6, <3>1, <1>6 DEF Turns, Manual, Reads, Protects, Stopping,
            Operates, Late, InUse
  <2>. QED BY <1>37, <2>3, <2>4, <2>5, <2>6 DEF ShutdownWaits, ShutdownStep
<1>38. ASSUME ShutdownEnds PROVE Turns'
  BY <1>38, <1>1, <1>2, <1>3, <1>4, <1>5, <1>6 DEF ShutdownEnds, NoOp, MayClose, Closes,
     history, Turns, Manual, Reads, Protects, Stopping, Operates, Late, InUse
<1>39. ASSUME \/ (\E g \in Gates : EditProfile(g))
              \/ (\E g \in Gates : EditAddress(g))
              \/ UNCHANGED vars
      PROVE Turns'
  <2>. UNCHANGED <<op, manual, reader, protector, emergency, run, pending, closing>>
    BY <1>39, Zenon DEF EditProfile, threads, EditAddress, vars, requests, history
  <2>. QED BY <1>1, <1>2, <1>3, <1>4, <1>5, <1>6 DEF Turns, Manual, Reads, Protects,
          Stopping, Operates, Late, InUse
<1>. QED BY <1>7, <1>8, <1>9, <1>10, <1>11, <1>12, <1>13, <1>14, <1>15, <1>16, <1>17, <1>18,
        <1>19, <1>20, <1>21, <1>22, <1>23, <1>24, <1>25, <1>26, <1>27, <1>28, <1>29, <1>30,
        <1>31, <1>32, <1>33, <1>34, <1>35, <1>36, <1>37, <1>38, <1>39 DEF Next

\* Steps that tell the user nothing and command nothing: an output they move is one
\* of which nothing was said, or one that the shutdown zeroes.
LEMMA Untold ==
    ASSUME Types, Told, UNCHANGED <<answer, goal>>,
           InUse' => InUse, Operates' => Operates, closing' = "zero" => closing = "zero",
           manual' = manual \/ manual' = [manual EXCEPT !.cancel = TRUE],
           \/ level' = level
           \/ /\ ~Manual \/ manual.raced
              /\ \A g \in Gates : level'[g] = level[g] \/ answer[g] # "ok" \/ goal[g] = NoLevel
    PROVE  Told'
<1>1. manual \in ManualRecords
  BY DEF Types, ManualTypes
<1>2. UNCHANGED <<manual.phase, manual.out, manual.raced, manual.relative, manual.target, manual.ok,
      manual.cur>>
  BY <1>1 DEF ManualRecords
<1>3. \A g \in Gates : answer'[g] = "ok" => goal'[g] \in {level'[g], NoLevel}
  BY DEF Told
<1>4. Manual /\ ~manual.raced => level' = level
  OBVIOUS
<1>. QED BY <1>2, <1>3, <1>4 DEF Told, Manual, Operates, InUse

\* Whoever may drive an output drives one of which nothing was said.
LEMMA Drives ==
    ASSUME Types, Turns, Told
    PROVE  /\ InUse => ~Manual /\ answer[RunGate] # "ok"
           /\ op.kind # "none" => /\ ~Manual \/ manual.raced
                                  /\ \A g \in Gates : answer[g] # "ok" \/ goal[g] = NoLevel
           /\ closing = "open" => op.kind # "shutdown"
           /\ closing # "open" /\ op.kind # "none" => closing = "zero"
<1>1. op.kind \in {"none", "connect", "disconnect", "shutdown"}
  BY DEF Types, OpTypes, OpRecords
<1>. QED BY <1>1 DEF Turns, Told, Manual, Operates, Late, InUse

\* A command for a gate: from here on it is what counts, and the control is on its
\* way there.
LEMMA Commanded ==
    ASSUME Types, Told, NEW g \in Gates, NEW t \in Int,
           goal' = [goal EXCEPT ![g] = t], answer' = [answer EXCEPT ![g] = "none"],
           level' = level, closing' # "zero", ~InUse', ~Operates', manual'.out = g,
           t = IF manual'.relative THEN level[g] + manual'.target ELSE manual'.target,
           manual'.phase = "ended" /\ ~manual'.raced /\ manual'.ok => 
               manual.phase = "ended" /\ manual.out = g /\ manual.ok /\ ~manual.raced
               /\ manual'.cur = manual.cur
    PROVE  Told'
<1>1. goal'[g] = t /\ answer'[g] = "none" /\ g \in Outputs
  BY GateFacts DEF Types, HistoryTypes
<1>2. \A h \in Gates : h # g => goal'[h] = goal[h] /\ answer'[h] = answer[h]
  BY GateFacts DEF Types, HistoryTypes
<1>3. \A h \in Gates : answer'[h] = "ok" => goal'[h] \in {level'[h], NoLevel}
  BY <1>1, <1>2 DEF Told
<1>. QED BY <1>1, <1>3 DEF Told, Manual, Operates, InUse

\* The slot of a finished ramp reports a gate as reached only where the last command
\* sends it.
LEMMA ToldAtEnd ==
    ASSUME Types, Turns, Told, FinishManual,
           UNCHANGED <<level, goal, run, op>>, closing' # "zero"
    PROVE  Told'
<1>1. Manual /\ ~InUse /\ ~Operates /\ manual.out \in Outputs /\ HistoryTypes
  BY DEF FinishManual, Manual, Turns, Types, ManualTypes, ManualRecords
<1>2. CASE /\ manual'.phase = "start" /\ manual'.out = manual.out /\ manual.out \in Gates
           /\ ~manual'.raced => ~manual.raced
           /\ manual'.target = manual.target /\ ~manual'.relative /\ manual.ok
           /\ UNCHANGED answer
  <2>1. ~manual.relative
    BY <1>2 DEF Types, ManualTypes
  <2>. QED BY <1>1, <1>2, <2>1 DEF Told, Manual, Operates, InUse
<1>3. CASE /\ ~Restarts /\ manual'.phase = "none"
           /\ answer' = [answer EXCEPT ![manual.out] =
                             IF ~manual.ok THEN "failed"
                             ELSE IF pending \/ manual.raced THEN "none" ELSE "ok"]
  <2>1. \A g \in Gates : g # manual.out => answer'[g] = answer[g]
    BY <1>1, <1>3, GateFacts DEF HistoryTypes
  <2>2. answer'[manual.out] = "ok" => manual.ok /\ ~pending /\ ~manual.raced
    <3>1. answer'[manual.out] = IF ~manual.ok THEN "failed"
                                ELSE IF pending \/ manual.raced THEN "none" ELSE "ok"
      BY <1>1, <1>3 DEF HistoryTypes
    <3>. QED BY <3>1
  <2>3. ASSUME manual.out \in Gates, answer'[manual.out] = "ok"
        PROVE  goal[manual.out] = level[manual.out]
    <3>1. manual.ok /\ ~pending /\ ~manual.raced /\ manual.phase = "ended"
      BY <2>2, <2>3 DEF FinishManual
    <3>2. manual.cur = manual.target
      BY <1>3, <2>3, <3>1 DEF Restarts
    <3>3. ~manual.relative
      BY <3>1 DEF Types, ManualTypes
    <3>. QED BY <1>1, <2>3, <3>1, <3>2, <3>3 DEF Told
  <2>4. \A g \in Gates : answer'[g] = "ok" => goal'[g] \in {level'[g], NoLevel}
    BY <2>1, <2>3 DEF Told
  <2>. QED BY <1>1, <1>3, <2>4 DEF Told, Manual, Operates, InUse
<1>. QED BY <1>2, <1>3, Finishing

\* What the user was told stays true until he commands something else.
LEMMA ToldStep ==
    ASSUME Types, Turns, Told, Next
    PROVE  Told'
<1>1. manual \in ManualRecords
  BY DEF Types, ManualTypes
<1>2. op \in OpRecords
  BY DEF Types, OpTypes
<1>3. LevelTypes /\ HistoryTypes
  BY DEF Types
<1>4. Told
  OBVIOUS
<1>5. ASSUME NEW g \in Gates, NEW t \in Levels, RampGate(g, t) PROVE Told'
  <2>1. /\ manual'.out = g /\ manual'.target = t /\ ~manual'.relative
        /\ manual'.phase = "ended" => manual.phase = "ended" /\ manual.out = g
           /\ UNCHANGED <<manual.ok, manual.raced, manual.cur>>
    BY <1>5, <1>1 DEF RampGate, CanAcceptGateTarget, UpdateTarget, NewManual, NoManual,
       ManualRecords
  <2>2. /\ goal' = [goal EXCEPT ![g] = t] /\ answer' = [answer EXCEPT ![g] = "none"] /\ level' = level
        /\ closing' # "zero" /\ ~InUse' /\ ~Operates'
    BY <1>5 DEF RampGate, Promise, Accepting, CanAcceptGateTarget, InUse, Operates
  <2>3. t \in Int
    BY LevelFacts
  <2>. QED BY <2>1, <2>2, <2>3, Commanded
<1>6. ASSUME NEW g \in Gates, NEW d \in {-1, 1}, StepGate(g, d) PROVE Told'
  <2>1. /\ level' = level /\ closing' # "zero" /\ ~InUse' /\ ~Operates'
        /\ manual.phase = "none" \/ manual.out = g
    BY <1>6 DEF StepGate, Accepting, CanAcceptGateTarget, InUse, Operates
  <2>5. level[g] \in Int
    BY <1>3, LevelFacts, GateFacts DEF LevelTypes
  <2>6. goal[g] \in Int
    BY <1>3 DEF HistoryTypes
  <2>7. manual.target \in Int
    BY <1>1 DEF ManualRecords
  <2>2. d \in Int /\ level[g] \in Int /\ goal[g] \in Int /\ manual.target \in Int
    BY <2>5, <2>6, <2>7
  <2>3. CASE manual.phase = "none" /\ manual' = NewManual(g, d, TRUE) /\ Promise(g, level[g] + d)
    <3>1. manual'.out = g /\ manual'.relative /\ manual'.target = d /\ manual'.phase = "start"
      BY <2>3 DEF NewManual, NoManual
    <3>2. level[g] + d \in Int
      BY <2>2
    <3>3. goal' = [goal EXCEPT ![g] = level[g] + d] /\ answer' = [answer EXCEPT ![g] = "none"]
      BY <2>3 DEF Promise
    <3>. QED BY <2>1, <3>1, <3>2, <3>3, Commanded
  <2>4. CASE /\ manual.phase # "none" /\ Promise(g, goal[g] + d)
             /\ manual' = [manual EXCEPT !.target = @ + d, !.dirty = TRUE]
    <3>1. /\ manual'.out = g /\ manual'.target = manual.target + d
          /\ UNCHANGED <<manual.phase, manual.relative, manual.ok, manual.raced, manual.cur>>
      BY <2>1, <2>2, <2>4, <1>1 DEF ManualRecords
    <3>2. goal[g] + d \in Int
      BY <2>2
    <3>3. goal' = [goal EXCEPT ![g] = goal[g] + d] /\ answer' = [answer EXCEPT ![g] = "none"]
      BY <2>4 DEF Promise
    <3>4. CASE manual.raced
      <4>1. goal'[g] = goal[g] + d /\ answer'[g] = "none"
        BY <3>3, GateFacts, <1>3 DEF HistoryTypes
      <4>2. \A h \in Gates : h # g => goal'[h] = goal[h] /\ answer'[h] = answer[h]
        BY <3>3, GateFacts, <1>3 DEF HistoryTypes
      <4>3. \A h \in Gates : answer'[h] = "ok" => goal'[h] \in {level'[h], NoLevel}
        BY <2>1, <4>1, <4>2 DEF Told
      <4>. QED BY <2>1, <3>1, <3>4, <4>1, <4>3 DEF Told, Manual, Operates, InUse
    <3>5. CASE ~manual.raced
      <4>1. goal[g] + d = IF manual'.relative THEN level[g] + manual'.target ELSE manual'.target
        BY <2>1, <2>2, <2>4, <3>1, <3>5 DEF Told, Manual
      <4>. QED BY <2>1, <3>1, <3>2, <3>3, <4>1, Commanded
    <3>. QED BY <3>4, <3>5
  <2>. QED BY <1>6, <2>3, <2>4 DEF StepGate
<1>7. ASSUME NEW t \in {0, Top}, RampDaq(t) PROVE Told'
  <2>1. /\ manual'.out = "daq" /\ answer' = [answer EXCEPT !["daq"] = "none"]
        /\ UNCHANGED <<level, goal, run, op, closing>> /\ closing = "open" /\ ~InUse /\ op.kind = "none"
    BY <1>7 DEF RampDaq, NewManual, NoManual, Accepting, IsBusy, InUse
  <2>2. answer'["daq"] = "none" /\ \A g \in Gates : answer'[g] = answer[g]
    BY <2>1, <1>3, GateFacts DEF HistoryTypes
  <2>3. \A g \in Gates : answer'[g] = "ok" => goal'[g] \in {level'[g], NoLevel}
    BY <2>1, <2>2 DEF Told
  <2>. QED BY <2>1, <2>2, <2>3, GateFacts DEF Told, Manual, Operates, InUse
<1>8. ASSUME NEW g \in Gates, EditAddress(g) PROVE Told'
  <2>1. /\ UNCHANGED <<goal, run, op, manual, closing>> /\ closing = "open"
    BY <1>8 DEF EditAddress, threads, Accepting
  <2>2. CASE UNCHANGED <<level, answer>>
    BY <2>1, <2>2, <1>4 DEF Told, Manual, Operates, InUse
  <2>3. CASE ~IsBusy /\ ~InUse /\ answer' = [answer EXCEPT ![g] = "none"]
             /\ level' \in {level, [level EXCEPT ![g] = 0]}
    <3>1. ~InUse /\ op.kind = "none" /\ ~Manual
      BY <2>3 DEF IsBusy, Manual
    <3>2. \A h \in Gates : answer'[h] = "none" \/ (answer'[h] = answer[h] /\ level'[h] = level[h])
      BY <2>3, <1>3, GateFacts DEF HistoryTypes, LevelTypes
    <3>3. \A h \in Gates : answer'[h] = "ok" => goal'[h] \in {level'[h], NoLevel}
      BY <2>1, <3>2 DEF Told
    <3>. QED BY <2>1, <3>1, <3>3 DEF Told, Manual, Operates, InUse
  <2>. QED BY <1>8, <2>2, <2>3 DEF EditAddress
<1>9. ASSUME NEW k \in {"connect", "disconnect"}, StartOperation(k) PROVE Told'
  BY <1>9, GateFacts, <1>1, <1>2, <1>3, <1>4 DEF StartOperation, Accepting, NoOp, IsBusy, InUse,
     Told, Manual, Operates
<1>10. ASSUME EmergencyStop PROVE Told'
  <2>1. UNCHANGED <<answer, goal>>
    BY <1>10 DEF EmergencyStop
  <2>2. manual' = manual \/ manual' = [manual EXCEPT !.cancel = TRUE]
    BY <1>10 DEF EmergencyStop
  <2>3. level' = level
    BY <1>10 DEF EmergencyStop
  <2>4. (InUse' => InUse) /\ (Operates' => Operates) /\ closing' = closing
    BY <1>10 DEF EmergencyStop, InUse, Operates
  <2>. QED BY <2>1, <2>2, <2>3, <2>4, Untold
<1>11. ASSUME RunStart PROVE Told'
  <2>1. /\ answer' = [answer EXCEPT ![RunGate] = "none"]
        /\ UNCHANGED <<level, goal, op, manual, closing>> /\ closing = "open"
        /\ op.kind = "none" /\ ~Manual
    BY <1>11 DEF RunStart, RunKeeps, Accepting, IsBusy, Manual
  <2>2. answer'[RunGate] = "none" /\ \A g \in Gates : answer'[g] = "none" \/ answer'[g] = answer[g]
    BY <2>1, <1>3, GateFacts DEF HistoryTypes
  <2>3. \A g \in Gates : answer'[g] = "ok" => goal'[g] \in {level'[g], NoLevel}
    BY <2>1, <2>2 DEF Told
  <2>. QED BY <2>1, <2>2, <2>3 DEF Told, Manual, Operates, InUse
<1>12. ASSUME RequestClose PROVE Told'
  <2>1. UNCHANGED <<answer, goal>>
    BY <1>12 DEF RequestClose, history
  <2>2. manual' = manual \/ manual' = [manual EXCEPT !.cancel = TRUE]
    BY <1>12 DEF RequestClose, history
  <2>3. level' = level
    BY <1>12 DEF RequestClose
  <2>4. (InUse' => InUse) /\ (Operates' => Operates) /\ closing' # "zero"
    BY <1>12 DEF RequestClose, InUse, Operates
  <2>. QED BY <2>1, <2>2, <2>3, <2>4, Untold
<1>13. ASSUME ManualStart PROVE Told'
  <2>1. Manual /\ ~InUse /\ ~Operates
    BY <1>13 DEF ManualStart, Manual, Turns
  <2>2. UNCHANGED <<level, answer, goal, run, op, closing>>
    BY <1>13 DEF ManualStart, ManualKeeps, history
  <2>3. manual'.out = manual.out /\ manual'.raced = manual.raced /\ manual'.phase # "none"
    BY <1>13, <1>1 DEF ManualStart, Ends, ManualRecords
  <2>4. manual'.phase = "ended" => ~manual'.ok
    <3>1. \/ Ends(FALSE)
          \/ \E to : manual' = [manual EXCEPT !.phase = "loop", !.cur = level[manual.out], !.target = to,
                                              !.relative = FALSE]
      BY <1>13 DEF ManualStart
    <3>2. ASSUME NEW to, manual' = [manual EXCEPT !.phase = "loop", !.cur = level[manual.out],
                                                  !.target = to, !.relative = FALSE]
          PROVE  manual'.phase = "loop"
      BY <3>2, <1>1 DEF ManualRecords
    <3>3. Ends(FALSE) => manual'.ok = FALSE
      BY <1>1 DEF Ends, ManualRecords
    <3>. QED BY <3>1, <3>2, <3>3
  <2>5. (IF manual'.relative THEN level[manual.out] + manual'.target ELSE manual'.target)
           = (IF manual.relative THEN level[manual.out] + manual.target ELSE manual.target)
    BY <1>13, <1>1 DEF ManualStart, Ends, ManualRecords
  <2>. QED BY <2>1, <2>2, <2>3, <2>4, <2>5, <1>4 DEF Told, Manual, Operates, InUse
<1>14. ASSUME ManualLoop PROVE Told'
  <2>1. Manual /\ ~InUse /\ ~Operates /\ ~manual.relative
    BY <1>14 DEF ManualLoop, Manual, Turns, Types, ManualTypes
  <2>2. UNCHANGED <<answer, goal, run, op, closing>>
    BY <1>14 DEF ManualLoop, ManualKeeps, history
  <2>3. /\ manual'.out = manual.out /\ manual'.raced = manual.raced /\ manual'.phase # "none"
        /\ manual'.target = manual.target /\ manual'.relative = manual.relative
    BY <1>14, <1>1 DEF ManualLoop, Ends, ManualRecords
  <2>4. manual'.phase = "ended" => ~manual'.ok
    BY <1>14, <1>1, ZenonT(30) DEF ManualLoop, Ends, ManualRecords
  <2>5. \A g \in Gates : g # manual.out => level'[g] = level[g]
    <3>1. level' = level \/ level' = [level EXCEPT ![manual.out] = Toward(manual.cur, manual.target)]
      BY <1>14 DEF ManualLoop
    <3>. QED BY <3>1, <1>3, GateFacts DEF LevelTypes
  <2>6. \A g \in Gates : answer'[g] = "ok" => goal'[g] \in {level'[g], NoLevel}
    BY <2>1, <2>2, <2>5 DEF Told
  <2>. QED BY <2>1, <2>2, <2>3, <2>4, <2>6, <1>4 DEF Told, Manual, Operates, InUse
<1>15. ASSUME ManualSettle PROVE Told'
  <2>1. Manual /\ ~InUse /\ ~Operates /\ ~manual.relative
    BY <1>15 DEF ManualSettle, Manual, Turns, Types, ManualTypes
  <2>2. UNCHANGED <<level, answer, goal, run, op, closing>>
    BY <1>15 DEF ManualSettle, ManualKeeps, history
  <2>3. /\ manual'.out = manual.out /\ manual'.raced = manual.raced /\ manual'.phase # "none"
        /\ manual'.target = manual.target /\ manual'.relative = manual.relative
    BY <1>15, <1>1 DEF ManualSettle, Ends, ManualRecords
  <2>4. manual'.phase = "ended" /\ manual'.ok => manual'.cur = level[manual.out]
    BY <1>15, <1>1 DEF ManualSettle, Ends, ManualRecords
  <2>. QED BY <2>1, <2>2, <2>3, <2>4, <1>4 DEF Told, Manual, Operates, InUse
<1>16. ASSUME OnManualFinished PROVE Told'
  <2>1. FinishManual /\ UNCHANGED <<level, goal, run, op>> /\ closing' # "zero"
    BY <1>16 DEF OnManualFinished, GuiFree
  <2>. QED BY <2>1, ToldAtEnd
<1>17. ASSUME DisconnectZero PROVE Told'
  <2>1. UNCHANGED <<answer, goal>>
    BY <1>17 DEF DisconnectZero, OpKeeps
  <2>2. manual' = manual \/ manual' = [manual EXCEPT !.cancel = TRUE]
    BY <1>17 DEF DisconnectZero, OpKeeps
  <2>3. op.kind # "none"
    BY <1>17 DEF DisconnectZero
  <2>4. op'.kind = op.kind
    BY <1>17, <1>2 DEF DisconnectZero, Next1, OpRecords
  <2>5. (InUse' => InUse) /\ (Operates' => Operates) /\ closing' = closing
    BY <1>17, <2>4 DEF DisconnectZero, OpKeeps, InUse, Operates
  <2>. QED BY <2>1, <2>2, <2>3, <2>5, Drives, Untold
<1>18. ASSUME DisconnectClose PROVE Told'
  <2>1. UNCHANGED <<answer, goal>>
    BY <1>18 DEF DisconnectClose, OpKeeps
  <2>2. manual' = manual \/ manual' = [manual EXCEPT !.cancel = TRUE]
    BY <1>18 DEF DisconnectClose, OpKeeps
  <2>3. level' = level
    BY <1>18 DEF DisconnectClose
  <2>4. op'.kind = op.kind
    BY <1>18, <1>2 DEF DisconnectClose, OpRecords
  <2>5. (InUse' => InUse) /\ (Operates' => Operates) /\ closing' = closing
    BY <1>18, <2>4 DEF DisconnectClose, OpKeeps, InUse, Operates
  <2>. QED BY <2>1, <2>2, <2>3, <2>5, Untold
<1>19. ASSUME ConnectGate PROVE Told'
  <2>1. UNCHANGED <<answer, goal>>
    BY <1>19 DEF ConnectGate, OpKeeps
  <2>2. manual' = manual \/ manual' = [manual EXCEPT !.cancel = TRUE]
    BY <1>19 DEF ConnectGate, OpKeeps
  <2>3. op.kind # "none"
    BY <1>19 DEF ConnectGate
  <2>4. op'.kind = op.kind
    BY <1>19, <1>2 DEF ConnectGate, Next1, GiveUp, OpRecords
  <2>5. (InUse' => InUse) /\ (Operates' => Operates) /\ closing' = closing
    BY <1>19, <2>4 DEF ConnectGate, OpKeeps, InUse, Operates
  <2>. QED BY <2>1, <2>2, <2>3, <2>5, Drives, Untold
<1>20. ASSUME ConnectDaq PROVE Told'
  <2>1. UNCHANGED <<answer, goal>>
    BY <1>20 DEF ConnectDaq, OpKeeps
  <2>2. manual' = manual \/ manual' = [manual EXCEPT !.cancel = TRUE]
    BY <1>20 DEF ConnectDaq, OpKeeps
  <2>3. level' = level
    BY <1>20 DEF ConnectDaq
  <2>4. op'.kind = op.kind
    BY <1>20, <1>2 DEF ConnectDaq, Next1, OpRecords
  <2>5. (InUse' => InUse) /\ (Operates' => Operates) /\ closing' = closing
    BY <1>20, <2>4 DEF ConnectDaq, OpKeeps, InUse, Operates
  <2>. QED BY <2>1, <2>2, <2>3, <2>5, Untold
<1>21. ASSUME OnOperationFinished PROVE Told'
  <2>1. UNCHANGED <<answer, goal>>
    BY <1>21 DEF OnOperationFinished, history
  <2>2. manual' = manual \/ manual' = [manual EXCEPT !.cancel = TRUE]
    BY <1>21 DEF OnOperationFinished, history
  <2>3. level' = level
    BY <1>21 DEF OnOperationFinished
  <2>4. (InUse' => InUse) /\ (Operates' => Operates) /\ closing' = closing
    BY <1>21 DEF OnOperationFinished, InUse, Operates, NoOp
  <2>. QED BY <2>1, <2>2, <2>3, <2>4, Untold
<1>22. ASSUME EmergencyRamps PROVE Told'
  <2>1. UNCHANGED <<goal, run, op, manual, closing>> /\ ~Manual
    BY <1>22 DEF EmergencyRamps, Manual, Turns, Stopping
  <2>2. emergency.left # <<>> => Head(emergency.left) \in Outputs
    BY TailIn DEF Types, EmergencyTypes, EmergencyRecords
  <2>3. \/ UNCHANGED <<level, answer>>
        \/ /\ emergency.left # <<>> /\ UNCHANGED level
           /\ answer' = [answer EXCEPT ![Head(emergency.left)] = "failed"]
        \/ /\ emergency.left # <<>> /\ answer' = [answer EXCEPT ![Head(emergency.left)] = "none"]
           /\ level' = [level EXCEPT ![Head(emergency.left)] = Toward(emergency.cur, 0)]
    BY <1>22 DEF EmergencyRamps
  <2>4. \A o \in Outputs : answer'[o] \in {"none", "failed"} \/ (answer'[o] = answer[o] /\ level'[o] = level[o])
    BY <2>2, <2>3, <1>3 DEF HistoryTypes, LevelTypes
  <2>5. \A g \in Gates : answer'[g] = "ok" => goal'[g] \in {level'[g], NoLevel}
    BY <2>1, <2>4, GateFacts DEF Told
  <2>6. answer'[RunGate] = "ok" => answer[RunGate] = "ok"
    BY <2>4, GateFacts
  <2>7. \A g \in Gates : answer'[g] = "ok" => answer[g] = "ok"
    BY <2>4, GateFacts
  <2>. QED BY <2>1, <2>5, <2>6, <2>7, <1>4 DEF Told, Manual, Operates, InUse
<1>23. ASSUME RunSweeps PROVE Told'
  <2>1. UNCHANGED <<answer, goal>>
    BY <1>23 DEF RunSweeps, RunKeeps
  <2>2. manual' = manual \/ manual' = [manual EXCEPT !.cancel = TRUE]
    BY <1>23 DEF RunSweeps, RunKeeps
  <2>5. \E v : level' = [level EXCEPT ![RunGate] = v] \/ level' = level
    BY <1>23 DEF RunSweeps
  <2>3. InUse /\ \A g \in Gates : level'[g] = level[g] \/ g = RunGate
    BY <1>23, <2>5, <1>3, GateFacts DEF RunSweeps, InUse, LevelTypes
  <2>4. (InUse' => InUse) /\ (Operates' => Operates) /\ closing' = closing
    BY <1>23, <2>3 DEF RunSweeps, RunKeeps, Operates
  <2>. QED BY <2>1, <2>2, <2>3, <2>4, Drives, Untold
<1>24. ASSUME RunZeroes PROVE Told'
  <2>1. UNCHANGED <<answer, goal>>
    BY <1>24 DEF RunZeroes, RunKeeps
  <2>2. manual' = manual \/ manual' = [manual EXCEPT !.cancel = TRUE]
    BY <1>24 DEF RunZeroes, RunKeeps
  <2>5. \E v : level' = [level EXCEPT ![RunGate] = v] \/ level' = level
    BY <1>24 DEF RunZeroes
  <2>3. InUse /\ \A g \in Gates : level'[g] = level[g] \/ g = RunGate
    BY <1>24, <2>5, <1>3, GateFacts DEF RunZeroes, InUse, LevelTypes
  <2>4. (InUse' => InUse) /\ (Operates' => Operates) /\ closing' = closing
    BY <1>24, <2>3 DEF RunZeroes, RunKeeps, Operates
  <2>. QED BY <2>1, <2>2, <2>3, <2>4, Drives, Untold
<1>25. ASSUME RunRelease PROVE Told'
  <2>1. UNCHANGED <<answer, goal>>
    BY <1>25 DEF RunRelease, RunKeeps
  <2>2. manual' = manual \/ manual' = [manual EXCEPT !.cancel = TRUE]
    BY <1>25 DEF RunRelease, RunKeeps
  <2>3. level' = level
    BY <1>25 DEF RunRelease
  <2>4. (InUse' => InUse) /\ (Operates' => Operates) /\ closing' = closing
    BY <1>25 DEF RunRelease, RunKeeps, InUse, Operates, NoRun
  <2>. QED BY <2>1, <2>2, <2>3, <2>4, Untold
<1>26. ASSUME Shutdown PROVE Told'
  <2>1. UNCHANGED <<answer, goal>>
    BY <1>26 DEF Shutdown, history
  <2>2. manual' = manual \/ manual' = [manual EXCEPT !.cancel = TRUE]
    BY <1>26 DEF Shutdown, history
  <2>3. level' = level
    BY <1>26 DEF Shutdown
  <2>4. (InUse' => InUse) /\ (Operates' => Operates) /\ closing' # "zero"
    BY <1>26 DEF Shutdown, InUse, Operates
  <2>. QED BY <2>1, <2>2, <2>3, <2>4, Untold
<1>27. ASSUME ShutdownWaits PROVE Told'
  <2>1. UNCHANGED <<level, run>>
    BY <1>27 DEF ShutdownWaits
  <2>2. CASE closing = "manual" /\ FinishManual
    <3>1. UNCHANGED <<goal, op>> /\ closing' # "zero"
      BY <1>27, <2>2 DEF ShutdownWaits, ShutdownStep
    <3>. QED BY <2>1, <2>2, <3>1, ToldAtEnd
  <2>3. CASE UNCHANGED <<manual, answer, goal, op>> /\ closing' # "zero"
    <3>1. (InUse' => InUse) /\ (Operates' => Operates)
      BY <2>1, <2>3 DEF InUse, Operates
    <3>. QED BY <2>1, <2>3, <3>1, Untold
  <2>4. CASE closing = "emergency"
    <3>1. /\ goal' = [g \in Gates |-> NoLevel] /\ op'.kind = "shutdown"
          /\ UNCHANGED <<manual, answer>>
      BY <1>27, <2>4 DEF ShutdownWaits, ShutdownStep, NoOp
    <3>2. Manual => manual.raced
      BY <2>4 DEF Turns, Late
    <3>3. ~InUse
      BY <2>4 DEF Turns
    <3>4. \A g \in Gates : goal'[g] = NoLevel
      BY <3>1
    <3>. QED BY <2>1, <3>1, <3>2, <3>3, <3>4 DEF Told, Manual, Operates, InUse
  <2>. QED BY <1>27, <2>2, <2>3, <2>4 DEF ShutdownWaits, ShutdownStep
<1>28. ASSUME ShutdownEnds PROVE Told'
  <2>1. UNCHANGED <<answer, goal>>
    BY <1>28 DEF ShutdownEnds, history
  <2>2. manual' = manual \/ manual' = [manual EXCEPT !.cancel = TRUE]
    BY <1>28 DEF ShutdownEnds, history
  <2>3. level' = level
    BY <1>28 DEF ShutdownEnds
  <2>4. (InUse' => InUse) /\ (Operates' => Operates) /\ closing' # "zero"
    BY <1>28 DEF ShutdownEnds, InUse, Operates, NoOp
  <2>. QED BY <2>1, <2>2, <2>3, <2>4, Untold
<1>29. ASSUME \/ (\E g \in Gates : ApplyProtection(g))
              \/ (\E g \in Gates : EditProfile(g))
              \/ Read
              \/ TimerRead
              \/ QueuedRead
              \/ ReaderReads
              \/ OnReadFinished
              \/ ProtectorRuns
              \/ OnProtectionFinished
              \/ OnEmergencyFinished
              \/ UNCHANGED vars
      PROVE Told'
  <2>. UNCHANGED <<level, op, manual, run, closing, goal, answer>>
    BY <1>29, Zenon DEF ApplyProtection, EditProfile, threads, Read, Idle, history, TimerRead,
       QueuedRead, ReaderReads, OnReadFinished, ProtectorRuns, OnProtectionFinished,
       OnEmergencyFinished, vars, requests
  <2>. QED BY GateFacts, <1>1, <1>2, <1>3, <1>4 DEF Told, Manual, Operates, InUse
<1>. QED BY <1>5, <1>6, <1>7, <1>8, <1>9, <1>10, <1>11, <1>12, <1>13, <1>14, <1>15, <1>16,
        <1>17, <1>18, <1>19, <1>20, <1>21, <1>22, <1>23, <1>24, <1>25, <1>26, <1>27, <1>28,
        <1>29 DEF Next

\* A connection walks through the devices and ramps only what it can reach.
LEMMA PacedStep ==
    ASSUME Types, Paced, Next
    PROVE  Paced'
<1>1. op \in OpRecords /\ SessionTypes
  BY DEF Types, OpTypes
<1>2. ASSUME NEW g \in Gates, EditAddress(g) PROVE Paced'
  <2>1. op' = op
    BY <1>2 DEF EditAddress, threads
  <2>2. session' = session \/ op.kind = "none"
    BY <1>2 DEF EditAddress, IsBusy
  <2>. QED BY <2>1, <2>2 DEF Paced, Reachable
<1>3. ASSUME NEW k \in {"connect", "disconnect"}, StartOperation(k) PROVE Paced'
  BY <1>3, <1>1 DEF StartOperation, Accepting, NoOp, IsBusy, InUse, Paced, Reachable
<1>4. ASSUME DisconnectZero PROVE Paced'
  <2>1. op.left # <<>> /\ op.kind # "none" /\ op.kind # "connect"
    BY <1>4 DEF DisconnectZero
  <2>2. Head(op.left) \in Outputs
    BY <1>1, <2>1, TailIn DEF OpRecords
  <2>3. CASE op' = Next1 \/ op' = [Next1 EXCEPT !.bad = TRUE]
    <3>1. op'.phase = "next"
      BY <2>3, <1>1 DEF Next1, OpRecords
    <3>. QED BY <3>1 DEF Paced
  <2>4. CASE /\ op'.kind = op.kind /\ op'.left = op.left /\ op'.phase = "zero"
             /\ Reachable(Head(op.left)) /\ session' = session
    <3>1. Head(op.left) # "daq"
      <4>1. op.left \in Seq(Gates)
        BY <2>1, <1>1 DEF Types, OpTypes, OpRecords
      <4>. QED BY <4>1, <2>1, TailIn, GateFacts
    <3>. QED BY <2>4, <3>1 DEF Paced, Reachable
  <2>. QED BY <1>4, <2>3, <2>4, <1>1 DEF DisconnectZero, OpRecords
<1>5. ASSUME DisconnectClose PROVE Paced'
  <2>1. op'.phase = "ended"
    BY <1>5, <1>1 DEF DisconnectClose, OpRecords
  <2>. QED BY <2>1 DEF Paced
<1>6. ASSUME ConnectGate PROVE Paced'
  <2>1. op.left # <<>> /\ op.kind = "connect" /\ Head(op.left) # "daq"
    BY <1>6 DEF ConnectGate
  <2>2. Head(op.left) \in Outputs
    BY <1>1, <2>1, TailIn DEF OpRecords
  <2>3. CASE op' = Next1
    <3>1. op'.phase = "next"
      BY <2>3, <1>1 DEF Next1, OpRecords
    <3>. QED BY <3>1 DEF Paced
  <2>4. CASE /\ op'.kind = "connect" /\ op'.left = op.left
             /\ op'.phase = "zero" => Reachable(Head(op.left)) /\ session' = session
    BY <2>1, <2>4 DEF Paced, Reachable
  <2>5. CASE op' = [op EXCEPT !.phase = IF Reachable(Head(op.left)) THEN "zero" ELSE "open",
                              !.cur = level[Head(op.left)]] /\ session' = session
    BY <2>1, <2>4, <2>5, <1>1 DEF OpRecords
  <2>6. CASE op.phase \in {"zero", "open"} /\ op' = [op EXCEPT !.cur = Toward(@, 0)] /\ session' = session
    <3>1. op.phase = "zero" => Reachable(Head(op.left))
      BY <2>1 DEF Paced
    <3>. QED BY <2>1, <2>4, <2>6, <3>1, <1>1 DEF OpRecords
  <2>7. CASE op' = [op EXCEPT !.phase = "open", !.cur = 0]
    BY <2>1, <2>4, <2>7, <1>1 DEF OpRecords
  <2>. QED BY <1>6, <2>3, <2>5, <2>6, <2>7 DEF ConnectGate, GiveUp
<1>7. ASSUME ConnectDaq PROVE Paced'
  <2>1. op'.phase = "ended"
    BY <1>7, <1>1 DEF ConnectDaq, Next1, OpRecords
  <2>. QED BY <2>1 DEF Paced
<1>8. ASSUME OnOperationFinished PROVE Paced'
  BY <1>8, <1>1 DEF OnOperationFinished, GuiFree, NoOp, history, Paced, Reachable
<1>9. ASSUME ShutdownWaits PROVE Paced'
  <2>1. session' = session /\ (op' = op \/ op'.phase = "next")
    BY <1>9 DEF ShutdownWaits, ShutdownStep, NoOp
  <2>. QED BY <2>1 DEF Paced, Reachable
<1>10. ASSUME ShutdownEnds PROVE Paced'
  BY <1>10, <1>1 DEF ShutdownEnds, NoOp, MayClose, Closes, history, Paced, Reachable
<1>11. ASSUME \/ (\E g \in Gates, t \in Levels : RampGate(g, t))
              \/ (\E g \in Gates, d \in {-1, 1} : StepGate(g, d))
              \/ (\E t \in {0, Top} : RampDaq(t))
              \/ (\E g \in Gates : ApplyProtection(g))
              \/ (\E g \in Gates : EditProfile(g))
              \/ Read
              \/ EmergencyStop
              \/ RunStart
              \/ RequestClose
              \/ ManualStart
              \/ ManualLoop
              \/ ManualSettle
              \/ OnManualFinished
              \/ TimerRead
              \/ QueuedRead
              \/ ReaderReads
              \/ OnReadFinished
              \/ ProtectorRuns
              \/ OnProtectionFinished
              \/ EmergencyRamps
              \/ OnEmergencyFinished
              \/ RunSweeps
              \/ RunZeroes
              \/ RunRelease
              \/ Shutdown
              \/ UNCHANGED vars
      PROVE Paced'
  <2>. UNCHANGED <<session, op>>
    BY <1>11, Zenon DEF RampGate, StepGate, RampDaq, ApplyProtection, EditProfile, threads,
       Read, Idle, history, EmergencyStop, RunStart, RunKeeps, RequestClose, ManualStart,
       ManualKeeps, ManualLoop, ManualSettle, OnManualFinished, TimerRead, QueuedRead,
       ReaderReads, OnReadFinished, ProtectorRuns, OnProtectionFinished, EmergencyRamps,
       OnEmergencyFinished, RunSweeps, RunZeroes, RunRelease, Shutdown, vars, requests
  <2>. QED BY <1>1 DEF Paced, Reachable
<1>. QED BY <1>2, <1>3, <1>4, <1>5, <1>6, <1>7, <1>8, <1>9, <1>10, <1>11 DEF Next

\* While a disconnection runs, what the emergency ramp has lost stays closed.
LEMMA LostStep ==
    ASSUME Types, Turns, LostSessions, Next
    PROVE  LostSessions'
<1>1. op \in OpRecords /\ SessionTypes
  BY DEF Types, OpTypes
<1>2. Turns /\ LostSessions
  OBVIOUS
<1>3. emergency \in EmergencyRecords
  BY DEF Types, EmergencyTypes
<1>4. ASSUME NEW g \in Gates, EditAddress(g) PROVE LostSessions'
  <2>1. op' = op /\ emergency' = emergency
    BY <1>4 DEF EditAddress, threads
  <2>2. session' = session \/ op.kind = "none"
    BY <1>4 DEF EditAddress, IsBusy
  <2>. QED BY <2>1, <2>2 DEF LostSessions
<1>5. ASSUME NEW k \in {"connect", "disconnect"}, StartOperation(k) PROVE LostSessions'
  <2>1. emergency.phase = "none" /\ emergency' = emergency
    BY <1>5 DEF StartOperation, IsBusy
  <2>. QED BY <2>1 DEF LostSessions
<1>6. ASSUME EmergencyStop PROVE LostSessions'
  <2>1. op' = op /\ session' = session
    BY <1>6 DEF EmergencyStop
  <2>2. StartEmergency \/ emergency' = emergency
    BY <1>6, Zenon DEF EmergencyStop
  <2>3. CASE StartEmergency
    BY <2>1, <2>3 DEF StartEmergency, NoEmergency, LostSessions, Reachable
  <2>4. CASE emergency' = emergency
    BY <2>1, <2>4 DEF LostSessions
  <2>. QED BY <2>2, <2>3, <2>4
<1>7. ASSUME OnManualFinished PROVE LostSessions'
  <2>1. op' = op /\ op.kind # "disconnect"
    BY <1>7, <1>2 DEF OnManualFinished, FinishManual, Turns, Manual, Reads, Protects, Operates
  <2>. QED BY <2>1 DEF LostSessions
<1>8. ASSUME OnReadFinished PROVE LostSessions'
  <2>1. op' = op /\ op.kind # "disconnect"
    BY <1>8, <1>2 DEF OnReadFinished, FinishRead, Turns, Manual, Reads, Protects, Operates
  <2>. QED BY <2>1 DEF LostSessions
<1>9. ASSUME OnProtectionFinished PROVE LostSessions'
  <2>1. op' = op /\ op.kind # "disconnect"
    BY <1>9, <1>2 DEF OnProtectionFinished, FinishProtect, Turns, Manual, Reads, Protects, Operates
  <2>. QED BY <2>1 DEF LostSessions
<1>10. ASSUME DisconnectZero PROVE LostSessions'
  <2>1. op'.kind = op.kind /\ emergency' = emergency
    BY <1>10, <1>1 DEF DisconnectZero, Next1, OpRecords
  <2>2. session' = session \/ (op.left # <<>> /\ session[Head(op.left)] # "none"
                               /\ session' = [session EXCEPT ![Head(op.left)] = "err"])
    BY <1>10 DEF DisconnectZero, Reachable
  <2>3. \A o \in Outputs : session[o] = "none" => session'[o] = "none"
    BY <2>2, <1>1 DEF SessionTypes
  <2>4. emergency.lost \subseteq Outputs
    BY DEF Types, EmergencyTypes, EmergencyRecords
  <2>. QED BY <2>1, <2>3, <2>4 DEF LostSessions
<1>11. ASSUME DisconnectClose PROVE LostSessions'
  <2>1. op'.kind = op.kind
    BY <1>11, <1>1 DEF DisconnectClose, OpRecords
  <2>2. CASE session' = session /\ emergency' = emergency
    BY <2>1, <2>2 DEF LostSessions
  <2>3. CASE session' = [o \in Outputs |-> "none"] /\ Closes(Outputs)
    <3>1. emergency'.lost \subseteq Outputs
      BY EmergencyMade, <2>3 DEF Types, EmergencyTypes, EmergencyRecords
    <3>. QED BY <2>3, <3>1 DEF LostSessions
  <2>. QED BY <1>11, <2>2, <2>3 DEF DisconnectClose
<1>12. ASSUME ConnectGate PROVE LostSessions'
  <2>1. op'.kind # "disconnect"
    BY <1>12, <1>1 DEF ConnectGate, GiveUp, Next1, OpRecords
  <2>. QED BY <2>1 DEF LostSessions
<1>13. ASSUME ConnectDaq PROVE LostSessions'
  <2>1. op'.kind # "disconnect"
    BY <1>13, <1>1 DEF ConnectDaq, GiveUp, Next1, OpRecords
  <2>. QED BY <2>1 DEF LostSessions
<1>14. ASSUME OnOperationFinished PROVE LostSessions'
  BY <1>14, <1>1, <1>2, <1>3 DEF OnOperationFinished, GuiFree, NoOp, history, LostSessions
<1>15. ASSUME EmergencyRamps PROVE LostSessions'
  <2>1. UNCHANGED <<op, session>>
    BY <1>15 DEF EmergencyRamps
  <2>2. emergency'.phase = "run" => emergency'.lost = emergency.lost /\ emergency.phase = "run"
    BY <1>15, <1>3 DEF EmergencyRamps, Leaves, NoEmergency, EmergencyRecords
  <2>. QED BY <2>1, <2>2 DEF LostSessions
<1>16. ASSUME OnEmergencyFinished PROVE LostSessions'
  BY <1>16, <1>1, <1>2, <1>3 DEF OnEmergencyFinished, GuiFree, NoEmergency, history, LostSessions
<1>17. ASSUME ShutdownWaits PROVE LostSessions'
  <2>1. op.kind # "disconnect" /\ (op' = op \/ op'.kind = "shutdown")
    BY <1>17, <1>2 DEF ShutdownWaits, ShutdownStep, NoOp, Turns
  <2>. QED BY <2>1 DEF LostSessions
<1>18. ASSUME ShutdownEnds PROVE LostSessions'
  <2>1. op'.kind = "none"
    BY <1>18 DEF ShutdownEnds, NoOp
  <2>. QED BY <2>1 DEF LostSessions
<1>19. ASSUME \/ (\E g \in Gates, t \in Levels : RampGate(g, t))
              \/ (\E g \in Gates, d \in {-1, 1} : StepGate(g, d))
              \/ (\E t \in {0, Top} : RampDaq(t))
              \/ (\E g \in Gates : ApplyProtection(g))
              \/ (\E g \in Gates : EditProfile(g))
              \/ Read
              \/ RunStart
              \/ RequestClose
              \/ ManualStart
              \/ ManualLoop
              \/ ManualSettle
              \/ TimerRead
              \/ QueuedRead
              \/ ReaderReads
              \/ ProtectorRuns
              \/ RunSweeps
              \/ RunZeroes
              \/ RunRelease
              \/ Shutdown
              \/ UNCHANGED vars
      PROVE LostSessions'
  <2>. UNCHANGED <<session, op, emergency>>
    BY <1>19, Zenon DEF RampGate, StepGate, RampDaq, ApplyProtection, EditProfile, threads,
       Read, Idle, history, RunStart, RunKeeps, RequestClose, ManualStart, ManualKeeps,
       ManualLoop, ManualSettle, TimerRead, QueuedRead, ReaderReads, ProtectorRuns, RunSweeps,
       RunZeroes, RunRelease, Shutdown, vars, requests
  <2>. QED BY <1>1, <1>2, <1>3 DEF LostSessions
<1>. QED BY <1>4, <1>5, <1>6, <1>7, <1>8, <1>9, <1>10, <1>11, <1>12, <1>13, <1>14, <1>15,
        <1>16, <1>17, <1>18, <1>19 DEF Next

\* A command takes its output out of the promise.
LEMMA SparedStep ==
    ASSUME Types, Turns, Spared, Next
    PROVE  Spared'
<1>1. manual \in ManualRecords
  BY DEF Types, ManualTypes
<1>2. Turns /\ Spared
  OBVIOUS
<1>3. ASSUME NEW g \in Gates, NEW t \in Levels, RampGate(g, t) PROVE Spared'
  <2>1. due' = due \ {g}
    BY <1>3 DEF RampGate, Promise
  <2>2. manual'.out = g
    BY <1>3, <1>1 DEF RampGate, CanAcceptGateTarget, UpdateTarget, NewManual, NoManual,
       ManualRecords
  <2>. QED BY <2>1, <2>2 DEF Spared
<1>4. ASSUME NEW g \in Gates, NEW d \in {-1, 1}, StepGate(g, d) PROVE Spared'
  <2>1. due' = due \ {g}
    BY <1>4 DEF StepGate, Promise
  <2>2. manual'.out = g
    BY <1>4, <1>1 DEF StepGate, CanAcceptGateTarget, UpdateTarget, NewManual, NoManual,
       ManualRecords
  <2>. QED BY <2>1, <2>2 DEF Spared
<1>5. ASSUME NEW t \in {0, Top}, RampDaq(t) PROVE Spared'
  BY <1>5, <1>1, <1>2 DEF RampDaq, NewManual, NoManual, Accepting, Connected, IsBusy, InUse,
     Spared, Manual
<1>6. ASSUME EmergencyStop PROVE Spared'
  <2>1. CASE UNCHANGED <<manual, pending>> /\ emergency.phase # "none"
    BY <1>6, <2>1, <1>2 DEF EmergencyStop, Turns, Stopping, Manual, Spared
  <2>2. CASE pending' = TRUE
    BY <2>2 DEF Spared
  <2>3. CASE manual.phase = "none" /\ UNCHANGED manual
    BY <2>3 DEF Spared, Manual
  <2>. QED BY <1>6, <2>1, <2>2, <2>3 DEF EmergencyStop
<1>7. ASSUME RunStart PROVE Spared'
  BY <1>7, <1>1, <1>2 DEF RunStart, Accepting, Connected, NoRun, RunKeeps, IsBusy, InUse,
     Spared, Manual
<1>8. ASSUME ManualStart PROVE Spared'
  <2>1. manual'.out = manual.out /\ manual.phase # "none"
    BY <1>8, <1>1 DEF ManualStart, Ends, ManualRecords
  <2>2. UNCHANGED <<due, pending>>
    BY <1>8 DEF ManualStart, ManualKeeps, history
  <2>. QED BY <2>1, <2>2 DEF Spared, Manual
<1>9. ASSUME ManualLoop PROVE Spared'
  <2>1. manual'.out = manual.out /\ manual.phase # "none"
    BY <1>9, <1>1 DEF ManualLoop, Ends, ManualRecords
  <2>2. UNCHANGED <<due, pending>>
    BY <1>9 DEF ManualLoop, ManualKeeps, history
  <2>. QED BY <2>1, <2>2 DEF Spared, Manual
<1>10. ASSUME ManualSettle PROVE Spared'
  <2>1. manual'.out = manual.out /\ manual.phase # "none"
    BY <1>10, <1>1 DEF ManualSettle, Ends, ManualRecords
  <2>2. UNCHANGED <<due, pending>>
    BY <1>10 DEF ManualSettle, ManualKeeps, history
  <2>. QED BY <2>1, <2>2 DEF Spared, Manual
<1>11. ASSUME OnManualFinished PROVE Spared'
  <2>1. FinishManual /\ due' = due
    BY <1>11 DEF OnManualFinished
  <2>2. CASE manual'.out = manual.out /\ UNCHANGED pending
    BY <2>1, <2>2 DEF Spared, FinishManual, Manual
  <2>3. CASE manual'.phase = "none"
    BY <2>3 DEF Spared, Manual
  <2>. QED BY <2>1, <2>2, <2>3, Finishing
<1>12. ASSUME OnReadFinished PROVE Spared'
  <2>1. manual' = manual /\ manual.phase = "none"
    BY <1>12, <1>2 DEF OnReadFinished, FinishRead, Turns, Manual, Reads
  <2>. QED BY <2>1 DEF Spared, Manual
<1>13. ASSUME OnProtectionFinished PROVE Spared'
  <2>1. manual' = manual /\ manual.phase = "none"
    BY <1>13, <1>2 DEF OnProtectionFinished, FinishProtect, Turns, Manual, Protects
  <2>. QED BY <2>1 DEF Spared, Manual
<1>14. ASSUME DisconnectZero PROVE Spared'
  <2>1. due' \subseteq due /\ UNCHANGED <<manual, pending>>
    BY <1>14 DEF DisconnectZero, Reported, OpKeeps
  <2>. QED BY <2>1 DEF Spared, Manual
<1>15. ASSUME ConnectGate PROVE Spared'
  <2>1. due' \subseteq due /\ UNCHANGED <<manual, pending>>
    BY <1>15 DEF ConnectGate, GiveUp, Reported, OpKeeps
  <2>. QED BY <2>1 DEF Spared, Manual
<1>16. ASSUME EmergencyRamps PROVE Spared'
  <2>1. due' \subseteq due /\ UNCHANGED <<manual, pending>>
    BY <1>16 DEF EmergencyRamps
  <2>. QED BY <2>1 DEF Spared, Manual
<1>17. ASSUME RunZeroes PROVE Spared'
  BY <1>17, <1>1, <1>2 DEF RunZeroes, RunKeeps, Spared, Manual
<1>18. ASSUME Shutdown PROVE Spared'
  <2>1. UNCHANGED <<manual.out, manual.phase, pending, due>>
    BY <1>18, <1>1 DEF Shutdown, history, ManualRecords
  <2>. QED BY <2>1 DEF Spared, Manual
<1>19. ASSUME ShutdownWaits PROVE Spared'
  <2>1. due' = due
    BY <1>19 DEF ShutdownWaits
  <2>2. CASE FinishManual
    <3>1. CASE manual'.out = manual.out /\ UNCHANGED pending
      BY <2>1, <2>2, <3>1 DEF Spared, FinishManual, Manual
    <3>2. CASE manual'.phase = "none"
      BY <3>2 DEF Spared, Manual
    <3>. QED BY <2>2, <3>1, <3>2, Finishing
  <2>3. CASE UNCHANGED <<manual, pending>>
    BY <2>1, <2>3 DEF Spared, Manual
  <2>4. CASE manual' = manual /\ (FinishRead \/ FinishProtect)
    <3>1. manual.phase = "none"
      BY <2>4, <1>2 DEF FinishRead, FinishProtect, Turns, Manual, Reads, Protects
    <3>. QED BY <2>4, <3>1 DEF Spared, Manual
  <2>. QED BY <1>19, <2>2, <2>3, <2>4 DEF ShutdownWaits, ShutdownStep
<1>20. ASSUME \/ (\E g \in Gates : ApplyProtection(g))
              \/ (\E g \in Gates : EditProfile(g))
              \/ (\E g \in Gates : EditAddress(g))
              \/ (\E k \in {"connect", "disconnect"} : StartOperation(k))
              \/ Read
              \/ RequestClose
              \/ TimerRead
              \/ QueuedRead
              \/ ReaderReads
              \/ ProtectorRuns
              \/ DisconnectClose
              \/ ConnectDaq
              \/ OnOperationFinished
              \/ OnEmergencyFinished
              \/ RunSweeps
              \/ RunRelease
              \/ ShutdownEnds
              \/ UNCHANGED vars
      PROVE Spared'
  <2>. UNCHANGED <<manual, pending, due>>
    BY <1>20, Zenon DEF ApplyProtection, EditProfile, threads, EditAddress, StartOperation,
       Read, Idle, history, RequestClose, TimerRead, QueuedRead, ReaderReads, ProtectorRuns,
       DisconnectClose, OpKeeps, ConnectDaq, OnOperationFinished, OnEmergencyFinished,
       RunSweeps, RunKeeps, RunRelease, ShutdownEnds, vars, requests
  <2>. QED BY <1>1, <1>2 DEF Spared, Manual
<1>. QED BY <1>3, <1>4, <1>5, <1>6, <1>7, <1>8, <1>9, <1>10, <1>11, <1>12, <1>13, <1>14,
        <1>15, <1>16, <1>17, <1>18, <1>19, <1>20 DEF Next

\* A new emergency ramp comes to every output.
LEMMA ComesToAll ==
    ASSUME StartEmergency
    PROVE  \A o \in Outputs : Comes(o)'
<1>1. /\ emergency'.phase = "run" /\ emergency'.left = AllOutputs /\ emergency'.cur = NoLevel
  BY DEF StartEmergency, NoEmergency
<1>2. In(AllOutputs) = {Head(AllOutputs)} \cup In(Tail(AllOutputs)) /\ AllOutputs # <<>>
  BY OrderFacts, TailIn
<1>. QED BY <1>1, <1>2, OrderFacts, LevelFacts DEF Comes

\* The emergency ramp that leaves one output still comes to the outputs after it.
LEMMA ComesOn ==
    ASSUME Types, emergency.phase = "run", emergency.left # <<>>, NEW h, emergency' = Leaves(h)
    PROVE  /\ Tail(emergency.left) \in Seq(Outputs)
           /\ \A o \in In(Tail(emergency.left)) : Comes(o)'
<1>1. Tail(emergency.left) \in Seq(Outputs)
  BY TailIn DEF Types, EmergencyTypes, EmergencyRecords
<1>2. /\ emergency'.phase = "run" /\ emergency'.left = Tail(emergency.left) /\ emergency'.cur # 0
  BY LevelFacts DEF Types, EmergencyTypes, Leaves, EmergencyRecords
<1>3. CASE Tail(emergency.left) = <<>>
  BY <1>1, <1>3, InFacts
<1>4. CASE Tail(emergency.left) # <<>>
  <2>1. In(Tail(emergency.left)) = {Head(Tail(emergency.left))} \cup In(Tail(Tail(emergency.left)))
    BY <1>1, <1>4, TailIn
  <2>. QED BY <1>1, <1>2, <1>4, <2>1 DEF Comes
<1>. QED BY <1>3, <1>4

\* The promise outlives a step after which everybody who was to bring an output to
\* zero still is.
LEMMA Kept ==
    ASSUME Promised, due' \subseteq due,
           \A o \in due' : level'[o] = level[o] \/ level'[o] = 0,
           pending => pending',
           \A o \in due' : Comes(o) => Comes(o)' \/ level'[o] = 0,
           \A o \in due' : RunMoves(o) => RunMoves(o)' \/ level'[o] = 0,
           \A o \in due' : OpMoves(o) => OpMoves(o)' \/ level'[o] = 0
    PROVE  Promised'
BY DEF Promised

\* A slot that serves a waiting emergency stop keeps its promise.
LEMMA KeptByServing ==
    ASSUME Types, Promised, due' = due, level' = level, op' = op, run' = run, ServePending
    PROVE  Promised'
<1>1. CASE pending /\ StartEmergency
  BY <1>1, ComesToAll DEF Promised, Types, HistoryTypes
<1>2. CASE ~pending /\ emergency' = emergency
  BY <1>2 DEF Promised, Comes, RunMoves, OpMoves
<1>. QED BY <1>1, <1>2 DEF ServePending

\* An emergency stop is kept in mind until it has been served.
LEMMA PromisedStep ==
    ASSUME Types, Turns, Spared, Paced, Promised, Next
    PROVE  Promised'
<1>1. LevelTypes /\ HistoryTypes
  BY DEF Types
<1>2. run \in RunRecords
  BY DEF Types, WorkerTypes
<1>3. Turns /\ Promised
  OBVIOUS
<1>4. emergency \in EmergencyRecords
  BY DEF Types, EmergencyTypes
<1>5. op \in OpRecords
  BY DEF Types, OpTypes
<1>6. ASSUME NEW g \in Gates, NEW t \in Levels, RampGate(g, t) PROVE Promised'
  <2>1. /\ due' \subseteq due
        /\ UNCHANGED <<level, pending, emergency, run, op>>
    BY <1>6 DEF RampGate, Promise
  <2>. QED BY <2>1, Kept DEF Comes, RunMoves, OpMoves
<1>7. ASSUME NEW g \in Gates, NEW d \in {-1, 1}, StepGate(g, d) PROVE Promised'
  <2>1. /\ due' \subseteq due
        /\ UNCHANGED <<level, pending, emergency, run, op>>
    BY <1>7 DEF StepGate, Promise
  <2>. QED BY <2>1, Kept DEF Comes, RunMoves, OpMoves
<1>8. ASSUME NEW t \in {0, Top}, RampDaq(t) PROVE Promised'
  <2>1. /\ due' \subseteq due
        /\ UNCHANGED <<level, pending, emergency, run, op>>
    BY <1>8 DEF RampDaq
  <2>. QED BY <2>1, Kept DEF Comes, RunMoves, OpMoves
<1>9. ASSUME NEW g \in Gates, EditAddress(g) PROVE Promised'
  <2>1. UNCHANGED <<due, pending, emergency, run, op>>
    BY <1>9 DEF EditAddress, threads
  <2>2. level' = level \/ level' = [level EXCEPT ![g] = 0]
    BY <1>9 DEF EditAddress
  <2>3. \A o \in due : level'[o] = level[o] \/ level'[o] = 0
    BY <2>2, <1>1 DEF HistoryTypes, LevelTypes
  <2>. QED BY <2>1, <2>3, Kept DEF Comes, RunMoves, OpMoves
<1>10. ASSUME NEW k \in {"connect", "disconnect"}, StartOperation(k) PROVE Promised'
  <2>1. UNCHANGED <<level, due, pending, emergency, run>> /\ op.kind = "none"
    BY <1>10 DEF StartOperation, IsBusy
  <2>. QED BY <2>1, Kept DEF Comes, RunMoves, OpMoves
<1>11. ASSUME EmergencyStop PROVE Promised'
  <2>1. /\ UNCHANGED <<level, op>> /\ run'.phase = run.phase /\ run'.cur = run.cur
    BY <1>11, <1>2 DEF EmergencyStop, RunRecords
  <2>2. CASE due' = due /\ UNCHANGED <<pending, emergency>>
    BY <2>1, <2>2, Kept DEF Comes, RunMoves, OpMoves
  <2>3. CASE pending' = TRUE
    BY <2>3 DEF Promised
  <2>4. CASE due' \subseteq Outputs /\ StartEmergency
    BY <2>4, ComesToAll DEF Promised
  <2>. QED BY <1>11, <2>2, <2>3, <2>4 DEF EmergencyStop
<1>12. ASSUME RunStart PROVE Promised'
  <2>1. due' \subseteq due /\ UNCHANGED <<level, pending, emergency, op>> /\ run.phase = "none"
    BY <1>12 DEF RunStart, RunKeeps, InUse
  <2>. QED BY <2>1, Kept DEF Comes, RunMoves, OpMoves
<1>13. ASSUME RequestClose PROVE Promised'
  <2>1. UNCHANGED <<level, due, pending, emergency, op>> /\ run'.phase = run.phase /\ run'.cur = run.cur
    BY <1>13, <1>2 DEF RequestClose, history, RunRecords
  <2>. QED BY <2>1, Kept DEF Comes, RunMoves, OpMoves
<1>14. ASSUME ManualLoop PROVE Promised'
  <2>1. UNCHANGED <<due, pending, emergency, run, op>> /\ Manual
    BY <1>14 DEF ManualLoop, ManualKeeps, history, Manual
  <2>2. CASE pending
    BY <2>1, <2>2 DEF Promised
  <2>3. CASE ~pending
    <3>1. manual.out \notin due
      BY <2>1, <2>3 DEF Spared
    <3>2. level' = level \/ level' = [level EXCEPT ![manual.out] = Toward(manual.cur, manual.target)]
      BY <1>14 DEF ManualLoop
    <3>3. \A o \in due : level'[o] = level[o]
      BY <3>1, <3>2, <1>1 DEF HistoryTypes, LevelTypes
    <3>. QED BY <2>1, <3>3, Kept DEF Comes, RunMoves, OpMoves
  <2>. QED BY <2>2, <2>3
<1>15. ASSUME OnManualFinished PROVE Promised'
  <2>1. FinishManual /\ UNCHANGED <<due, level, op, run>>
    BY <1>15 DEF OnManualFinished
  <2>2. CASE ServePending
    BY <2>1, <2>2, KeptByServing
  <2>3. CASE UNCHANGED <<emergency, pending>>
    BY <2>1, <2>3, Kept DEF Comes, RunMoves, OpMoves
  <2>. QED BY <2>1, <2>2, <2>3, Finishing
<1>16. ASSUME OnReadFinished PROVE Promised'
  <2>1. ServePending /\ UNCHANGED <<due, level, op, run>>
    BY <1>16 DEF OnReadFinished, FinishRead, history
  <2>. QED BY <2>1, KeptByServing
<1>17. ASSUME OnProtectionFinished PROVE Promised'
  <2>1. ServePending /\ UNCHANGED <<due, level, op, run>>
    BY <1>17 DEF OnProtectionFinished, FinishProtect, history
  <2>. QED BY <2>1, KeptByServing
<1>18. ASSUME DisconnectZero PROVE Promised'
  <2>1. op.left # <<>> /\ op.kind # "none" /\ due' \subseteq due
    BY <1>18 DEF DisconnectZero, GiveUp, Reported
  <2>2. Head(op.left) \in Outputs
    BY <2>1, TailIn DEF Types, OpTypes, OpRecords
  <2>3. /\ UNCHANGED <<pending, run>>
        /\ \A o : Comes(o)' = Comes(o)
    <3>1. UNCHANGED <<pending, run>>
      BY <1>18 DEF DisconnectZero, OpKeeps
    <3>2. UNCHANGED <<emergency.phase, emergency.left, emergency.cur>>
      BY <1>18, <1>4 DEF DisconnectZero, Closes, EmergencyRecords
    <3>. QED BY <3>1, <3>2 DEF Comes
  <2>4. \/ level' = level
        \/ op.cur # 0 /\ op.phase \in {"zero", "open"} /\ op' = [op EXCEPT !.cur = Toward(@, 0)]
           /\ level' = [level EXCEPT ![Head(op.left)] = Toward(op.cur, 0)]
    BY <1>18 DEF DisconnectZero
  <2>5. ASSUME NEW o \in due', o # Head(op.left)
        PROVE  level'[o] = level[o] /\ ~OpMoves(o)
    BY <2>1, <2>2, <2>4, <2>5, <1>1 DEF HistoryTypes, LevelTypes, OpMoves
  <2>6. ASSUME NEW o \in due', o = Head(op.left)
        PROVE  \/ level'[o] = 0
               \/ OpMoves(o)'
               \/ level'[o] = level[o] /\ ~OpMoves(o)
    <3>1. CASE op.cur # 0 /\ op.phase \in {"zero", "open"} /\ op' = [op EXCEPT !.cur = Toward(@, 0)]
               /\ level' = [level EXCEPT ![o] = Toward(op.cur, 0)]
      <4>1. op'.cur = Toward(op.cur, 0) /\ op'.kind = op.kind /\ op'.left = op.left /\ op'.phase = op.phase
        BY <3>1, <1>5 DEF OpRecords
      <4>2. level'[o] = op'.cur
        BY <4>1, <3>1, <2>2, <2>6, <1>1 DEF LevelTypes
      <4>. QED BY <4>1, <4>2, <2>1, <2>6, <3>1 DEF OpMoves
    <3>2. CASE \E ph \in {"zero", "open"} : op' = [op EXCEPT !.phase = ph, !.cur = level[o]] /\ level' = level
      <4>1. /\ op'.cur = level[o] /\ op'.kind = op.kind /\ op'.left = op.left
            /\ op'.phase \in {"zero", "open"} /\ level' = level
        BY <3>2, <1>5 DEF OpRecords
      <4>. QED BY <4>1, <2>1, <2>6 DEF OpMoves
    <3>3. CASE level'[o] = 0
      BY <3>3
    <3>4. CASE level' = level /\ (op.cur = 0 \/ op.phase \notin {"zero", "open"})
      BY <3>4 DEF OpMoves
    <3>5. CASE level'[o] = level[o] /\ session[o] = "none" /\ op.kind # "connect"
      <4>1. op.kind \in {"disconnect", "shutdown"}
        BY <3>5, <2>1, <1>5 DEF OpRecords
      <4>. QED BY <3>5, <4>1, <2>1, <2>6 DEF OpMoves, Paced, Reachable
    <3>6. level' = [level EXCEPT ![o] = 0] => level'[o] = 0
      BY <2>2, <2>6, <1>1 DEF LevelTypes
    <3>7. due' # due \ {o}
      BY <2>6
    <3>8. CASE op' = [op EXCEPT !.phase = "zero", !.cur = level[o]] /\ level' = level
      BY <3>2, <3>8, Zenon
    <3>. QED BY <1>18, <2>6, <3>1, <3>3, <3>4, <3>5, <3>7, <3>8 DEF DisconnectZero, Reported
  <2>7. ASSUME NEW o \in due'
        PROVE  level'[o] = 0 \/ pending' \/ Comes(o)' \/ RunMoves(o)' \/ OpMoves(o)'
    <3>1. level[o] = 0 \/ pending \/ Comes(o) \/ RunMoves(o) \/ OpMoves(o)
      BY <2>1, <2>7 DEF Promised
    <3>2. RunMoves(o)' = RunMoves(o)
      BY <2>3 DEF RunMoves
    <3>3. CASE o # Head(op.left)
      BY <3>1, <3>2, <3>3, <2>3, <2>5, <2>7
    <3>4. CASE o = Head(op.left)
      <4>1. Comes(o)' = Comes(o) /\ pending' = pending
        BY <2>3
      <4>. QED BY <3>1, <3>2, <3>4, <4>1, <2>6, <2>7
    <3>. QED BY <3>3, <3>4
  <2>. QED BY <2>7 DEF Promised
<1>19. ASSUME DisconnectClose PROVE Promised'
  <2>1. UNCHANGED <<due, level, pending, run>> /\ op.left = <<>>
    BY <1>19 DEF DisconnectClose, OpKeeps
  <2>2. UNCHANGED <<emergency.phase, emergency.left, emergency.cur>>
    BY <1>19, <1>4 DEF DisconnectClose, Closes, EmergencyRecords
  <2>. QED BY <2>1, <2>2, Kept DEF Comes, RunMoves, OpMoves
<1>20. ASSUME ConnectGate PROVE Promised'
  <2>1. op.left # <<>> /\ op.kind # "none" /\ due' \subseteq due
    BY <1>20 DEF ConnectGate, GiveUp, Reported
  <2>2. Head(op.left) \in Outputs
    BY <2>1, TailIn DEF Types, OpTypes, OpRecords
  <2>3. /\ UNCHANGED <<pending, run>>
        /\ \A o : Comes(o)' = Comes(o)
    <3>1. UNCHANGED <<pending, run>>
      BY <1>20 DEF ConnectGate, OpKeeps
    <3>2. UNCHANGED <<emergency.phase, emergency.left, emergency.cur>>
      BY <1>20, <1>4 DEF ConnectGate, Closes, EmergencyRecords
    <3>. QED BY <3>1, <3>2 DEF Comes
  <2>4. \/ level' = level
        \/ op.cur # 0 /\ op.phase \in {"zero", "open"} /\ op' = [op EXCEPT !.cur = Toward(@, 0)]
           /\ level' = [level EXCEPT ![Head(op.left)] = Toward(op.cur, 0)]
        \/ level' = [level EXCEPT ![Head(op.left)] = 0]
    BY <1>20 DEF ConnectGate
  <2>5. ASSUME NEW o \in due', o # Head(op.left)
        PROVE  level'[o] = level[o] /\ ~OpMoves(o)
    BY <2>1, <2>2, <2>4, <2>5, <1>1 DEF HistoryTypes, LevelTypes, OpMoves
  <2>6. ASSUME NEW o \in due', o = Head(op.left)
        PROVE  \/ level'[o] = 0
               \/ OpMoves(o)'
               \/ level'[o] = level[o] /\ ~OpMoves(o)
    <3>1. CASE op.cur # 0 /\ op.phase \in {"zero", "open"} /\ op' = [op EXCEPT !.cur = Toward(@, 0)]
               /\ level' = [level EXCEPT ![o] = Toward(op.cur, 0)]
      <4>1. op'.cur = Toward(op.cur, 0) /\ op'.kind = op.kind /\ op'.left = op.left /\ op'.phase = op.phase
        BY <3>1, <1>5 DEF OpRecords
      <4>2. level'[o] = op'.cur
        BY <4>1, <3>1, <2>2, <2>6, <1>1 DEF LevelTypes
      <4>. QED BY <4>1, <4>2, <2>1, <2>6, <3>1 DEF OpMoves
    <3>2. CASE \E ph \in {"zero", "open"} : op' = [op EXCEPT !.phase = ph, !.cur = level[o]] /\ level' = level
      <4>1. /\ op'.cur = level[o] /\ op'.kind = op.kind /\ op'.left = op.left
            /\ op'.phase \in {"zero", "open"} /\ level' = level
        BY <3>2, <1>5 DEF OpRecords
      <4>. QED BY <4>1, <2>1, <2>6 DEF OpMoves
    <3>3. CASE level'[o] = 0
      BY <3>3
    <3>4. CASE level' = level /\ (op.cur = 0 \/ op.phase \notin {"zero", "open"})
      BY <3>4 DEF OpMoves
    <3>5. CASE level'[o] = level[o] /\ session[o] = "none" /\ op.kind # "connect"
      <4>1. op.kind \in {"disconnect", "shutdown"}
        BY <3>5, <2>1, <1>5 DEF OpRecords
      <4>. QED BY <3>5, <4>1, <2>1, <2>6 DEF OpMoves, Paced, Reachable
    <3>6. level' = [level EXCEPT ![o] = 0] => level'[o] = 0
      BY <2>2, <2>6, <1>1 DEF LevelTypes
    <3>7. due' # due \ {o}
      BY <2>6
    <3>8. CASE op' = [op EXCEPT !.phase = IF Reachable(o) THEN "zero" ELSE "open", !.cur = level[o]]
               /\ level' = level
      BY <3>2, <3>8, Zenon
    <3>. QED BY <1>20, <2>6, <3>1, <3>3, <3>4, <3>6, <3>7, <3>8 DEF ConnectGate, GiveUp,
            Reported
  <2>7. ASSUME NEW o \in due'
        PROVE  level'[o] = 0 \/ pending' \/ Comes(o)' \/ RunMoves(o)' \/ OpMoves(o)'
    <3>1. level[o] = 0 \/ pending \/ Comes(o) \/ RunMoves(o) \/ OpMoves(o)
      BY <2>1, <2>7 DEF Promised
    <3>2. RunMoves(o)' = RunMoves(o)
      BY <2>3 DEF RunMoves
    <3>3. CASE o # Head(op.left)
      BY <3>1, <3>2, <3>3, <2>3, <2>5, <2>7
    <3>4. CASE o = Head(op.left)
      <4>1. Comes(o)' = Comes(o) /\ pending' = pending
        BY <2>3
      <4>. QED BY <3>1, <3>2, <3>4, <4>1, <2>6, <2>7
    <3>. QED BY <3>3, <3>4
  <2>. QED BY <2>7 DEF Promised
<1>21. ASSUME ConnectDaq PROVE Promised'
  <2>1. UNCHANGED <<due, level, pending, run, emergency>>
    BY <1>21 DEF ConnectDaq, OpKeeps
  <2>2. \A o : ~OpMoves(o)
    BY <1>21 DEF ConnectDaq, OpMoves, Paced
  <2>. QED BY <2>1, <2>2, Kept DEF Comes, RunMoves
<1>22. ASSUME OnOperationFinished PROVE Promised'
  <2>1. UNCHANGED <<due, level, pending, run, emergency>> /\ op.phase = "ended"
    BY <1>22 DEF OnOperationFinished, history
  <2>. QED BY <2>1, Kept DEF Comes, RunMoves, OpMoves
<1>23. ASSUME EmergencyRamps PROVE Promised'
  <2>1. due' \subseteq due /\ UNCHANGED <<pending, run, op>> /\ emergency.phase = "run"
    BY <1>23 DEF EmergencyRamps
  <2>2. CASE emergency.left = <<>> /\ level' = level
    BY <2>1, <2>2, Kept DEF Comes, RunMoves, OpMoves
  <2>3. CASE emergency.left # <<>>
    <3> DEFINE h == Head(emergency.left)
    <3>1. /\ h \in Outputs /\ Tail(emergency.left) \in Seq(Outputs)
      BY <2>3, <1>4, TailIn DEF EmergencyRecords
    <3>2. CASE emergency' = Leaves(h) /\ level' = level /\ (h \notin due' \/ emergency.cur = 0)
      <4>2. \A o \in In(Tail(emergency.left)) : Comes(o)'
        BY <2>1, <2>3, <3>2, ComesOn
      <4>3. \A o \in due' : Comes(o) => Comes(o)'
        BY <4>2, <3>2 DEF Comes
      <4>. QED BY <2>1, <3>2, <4>3, Kept DEF RunMoves, OpMoves
    <3>3. CASE emergency' = [emergency EXCEPT !.cur = level[h]] /\ level' = level
      <4>1. emergency'.phase = "run" /\ emergency'.left = emergency.left /\ emergency'.cur = level[h]
        BY <2>1, <3>3, <1>4 DEF EmergencyRecords
      <4>2. \A o \in due' : Comes(o) => Comes(o)' \/ level'[o] = 0
        BY <4>1, <3>3 DEF Comes
      <4>. QED BY <2>1, <3>3, <4>2, Kept DEF RunMoves, OpMoves
    <3>4. CASE /\ emergency' = [emergency EXCEPT !.cur = Toward(@, 0)]
               /\ level' = [level EXCEPT ![h] = Toward(emergency.cur, 0)]
      <4>1. /\ emergency'.phase = "run" /\ emergency'.left = emergency.left
            /\ emergency'.cur = Toward(emergency.cur, 0)
        BY <2>1, <3>4, <1>4 DEF EmergencyRecords
      <4>2. level'[h] = emergency'.cur /\ \A o \in due' : o # h => level'[o] = level[o]
        BY <2>1, <3>1, <3>4, <4>1, <1>1 DEF LevelTypes, HistoryTypes
      <4>3. \A o : o # h => (Comes(o) => Comes(o)')
        BY <4>1 DEF Comes
      <4>4. ASSUME NEW o \in due', o = h PROVE level'[o] = 0 \/ Comes(o)'
        BY <2>3, <4>1, <4>2, <4>4 DEF Comes
      <4>5. ASSUME NEW o \in due', o # h
            PROVE  level'[o] = 0 \/ pending' \/ Comes(o)' \/ RunMoves(o)' \/ OpMoves(o)'
        <5>1. level[o] = 0 \/ pending \/ Comes(o) \/ RunMoves(o) \/ OpMoves(o)
          BY <2>1, <4>5 DEF Promised
        <5>2. level'[o] = level[o]
          BY <4>2, <4>5
        <5>3. Comes(o) => Comes(o)'
          BY <4>3, <4>5
        <5>4. RunMoves(o) => RunMoves(o)'
          BY <2>1 DEF RunMoves
        <5>5. OpMoves(o) => OpMoves(o)'
          BY <2>1 DEF OpMoves
        <5>. QED BY <2>1, <5>1, <5>2, <5>3, <5>4, <5>5
      <4>. QED BY <4>4, <4>5 DEF Promised
    <3>. QED BY <1>23, <2>3, <3>2, <3>3, <3>4 DEF EmergencyRamps
  <2>. QED BY <1>23, <2>2, <2>3 DEF EmergencyRamps
<1>24. ASSUME OnEmergencyFinished PROVE Promised'
  <2>1. UNCHANGED <<due, level, pending, run, op>> /\ emergency.phase = "ended"
    BY <1>24 DEF OnEmergencyFinished, history
  <2>. QED BY <2>1, Kept DEF Comes, RunMoves, OpMoves
<1>25. ASSUME RunSweeps PROVE Promised'
  <2>1. UNCHANGED <<due, pending, emergency, op>>
    BY <1>25 DEF RunSweeps, RunKeeps
  <2>2. (\E v : level' = [level EXCEPT ![RunGate] = v]) \/ level' = level
    BY <1>25 DEF RunSweeps
  <2>3. \A o \in due : o # RunGate => level'[o] = level[o]
    BY <2>2, <1>1 DEF HistoryTypes, LevelTypes
  <2>4. level'[RunGate] = 0 \/ RunMoves(RunGate)'
    <3>1. CASE \E v : run' = [run EXCEPT !.cur = v] /\ run.phase = "sweep"
      <4>1. run'.phase = "sweep"
        BY <3>1, <1>2 DEF RunRecords
      <4>. QED BY <4>1 DEF RunMoves
    <3>2. CASE run' = [run EXCEPT !.phase = "zero", !.cur = level[RunGate]] /\ level' = level
      <4>1. run'.phase = "zero" /\ run'.cur = level[RunGate]
        BY <3>2, <1>2 DEF RunRecords
      <4>. QED BY <4>1, <3>2 DEF RunMoves
    <3>. QED BY <1>25, <3>1, <3>2 DEF RunSweeps
  <2>. QED BY <2>1, <2>3, <2>4 DEF Promised, Comes, OpMoves, RunMoves
<1>26. ASSUME RunZeroes PROVE Promised'
  <2>1. due' \subseteq due /\ UNCHANGED <<pending, emergency, op>> /\ run.phase = "zero"
    BY <1>26 DEF RunZeroes, RunKeeps
  <2>2. level' = level \/ level' = [level EXCEPT ![RunGate] = Toward(run.cur, 0)]
    BY <1>26 DEF RunZeroes
  <2>3. \A o \in due : o # RunGate => level'[o] = level[o]
    BY <2>2, <1>1 DEF HistoryTypes, LevelTypes
  <2>4. RunGate \in due' =>
            level'[RunGate] = 0 \/ RunMoves(RunGate)' \/ (level' = level /\ ~RunMoves(RunGate))
    <3>1. CASE /\ level' = [level EXCEPT ![RunGate] = Toward(run.cur, 0)]
               /\ run' = [run EXCEPT !.cur = Toward(@, 0)]
      <4>1. run'.phase = "zero" /\ run'.cur = Toward(run.cur, 0)
        BY <2>1, <3>1, <1>2 DEF RunRecords
      <4>2. level'[RunGate] = Toward(run.cur, 0)
        BY <3>1, <1>1, GateFacts DEF LevelTypes
      <4>. QED BY <4>1, <4>2 DEF RunMoves
    <3>2. CASE run.cur = 0 /\ level' = level
      BY <2>1, <3>2 DEF RunMoves
    <3>3. CASE due' = due \ {RunGate}
      BY <3>3
    <3>. QED BY <1>26, <3>1, <3>2, <3>3 DEF RunZeroes
  <2>. QED BY <2>1, <2>3, <2>4 DEF Promised, Comes, OpMoves, RunMoves
<1>27. ASSUME RunRelease PROVE Promised'
  <2>1. UNCHANGED <<due, level, pending, emergency, op>> /\ run.phase = "ended"
    BY <1>27 DEF RunRelease, RunKeeps
  <2>. QED BY <2>1, Kept DEF Comes, RunMoves, OpMoves
<1>28. ASSUME ShutdownWaits PROVE Promised'
  <2>1. UNCHANGED <<due, level, run>>
    BY <1>28 DEF ShutdownWaits
  <2>2. CASE ServePending /\ op' = op
    BY <2>1, <2>2, KeptByServing
  <2>3. CASE UNCHANGED <<emergency, pending>> /\ (op' = op \/ op.kind = "none")
    BY <2>1, <2>3, Kept DEF Comes, RunMoves, OpMoves
  <2>4. op' = op \/ op.kind = "none"
    BY <1>28, <1>3 DEF ShutdownWaits, ShutdownStep, Turns
  <2>5. (ServePending /\ op' = op) \/ UNCHANGED <<emergency, pending>>
    <3>1. CASE FinishManual /\ op' = op
      BY <3>1, Finishing
    <3>2. CASE FinishRead /\ op' = op
      BY <3>2 DEF FinishRead
    <3>3. CASE FinishProtect /\ op' = op
      BY <3>3 DEF FinishProtect
    <3>. QED BY <1>28, <3>1, <3>2, <3>3 DEF ShutdownWaits, ShutdownStep
  <2>. QED BY <2>2, <2>3, <2>4, <2>5
<1>29. ASSUME ShutdownEnds PROVE Promised'
  <2>1. UNCHANGED <<due, level, pending, run>> /\ op.left = <<>>
    BY <1>29 DEF ShutdownEnds, history
  <2>2. UNCHANGED <<emergency.phase, emergency.left, emergency.cur>>
    BY <1>29, <1>4 DEF ShutdownEnds, Closes, EmergencyRecords
  <2>. QED BY <2>1, <2>2, Kept DEF Comes, RunMoves, OpMoves
<1>30. ASSUME \/ (\E g \in Gates : ApplyProtection(g))
              \/ (\E g \in Gates : EditProfile(g))
              \/ Read
              \/ ManualStart
              \/ ManualSettle
              \/ TimerRead
              \/ QueuedRead
              \/ ReaderReads
              \/ ProtectorRuns
              \/ Shutdown
              \/ UNCHANGED vars
      PROVE Promised'
  <2>. UNCHANGED <<level, op, emergency, run, pending, due>>
    BY <1>30, Zenon DEF ApplyProtection, EditProfile, threads, Read, Idle, history, ManualStart,
       ManualKeeps, ManualSettle, TimerRead, QueuedRead, ReaderReads, ProtectorRuns, Shutdown,
       vars, requests
  <2>. QED BY <1>1, <1>2, <1>3, <1>4, <1>5 DEF Promised, Comes, RunMoves, OpMoves
<1>. QED BY <1>6, <1>7, <1>8, <1>9, <1>10, <1>11, <1>12, <1>13, <1>14, <1>15, <1>16, <1>17,
        <1>18, <1>19, <1>20, <1>21, <1>22, <1>23, <1>24, <1>25, <1>26, <1>27, <1>28, <1>29,
        <1>30 DEF Next

\* What is verified stays so while the connection makes no step of its own and
\* whoever moves a gate is the emergency ramp.
LEMMA VerifiedKept ==
    ASSUME Verified, op' = op, Manual => Manual',
           \A g \in Gates : Reachable(g)' => Reachable(g),
           \A g \in Gates :
               /\ Reachable(g)' /\ op.kind \in {"disconnect", "shutdown"}
               /\ level[g] = 0 \/ answer[g] = "failed" \/ Comes(g)
               => level'[g] = 0 \/ answer'[g] = "failed" \/ Comes(g)'
    PROVE  Verified'
BY DEF Verified

\* A disconnection or the shutdown has the sources for itself, but for the
\* emergency ramp beside a disconnection.
LEMMA Alone ==
    ASSUME Types, Turns, op.kind \in {"disconnect", "shutdown"}
    PROVE  /\ ~InUse /\ ~Reads
           /\ op.kind = "disconnect" => ~Manual /\ ~Protects
           /\ op.kind = "shutdown" => closing = "zero" /\ emergency.phase # "run"
           /\ closing \in {"open", "zero"}
           /\ closing = "open" => op.kind = "disconnect"
BY DEF Turns, Operates, Late

\* A gate that a disconnection has left at zero stays there.
LEMMA VerifiedStep ==
    ASSUME Types, Turns, LostSessions, Verified, Next
    PROVE  Verified'
<1>1. Types /\ Turns /\ LostSessions /\ Verified
  OBVIOUS
<1>2. LevelTypes /\ HistoryTypes
  BY DEF Types
<1>3. op \in OpRecords
  BY DEF Types, OpTypes
<1>4. manual \in ManualRecords
  BY DEF Types, ManualTypes
<1>5. emergency \in EmergencyRecords
  BY DEF Types, EmergencyTypes
<1>6. ASSUME NEW g \in Gates, NEW t \in Levels, RampGate(g, t) PROVE Verified'
  <2>1. op' = op /\ op.kind \notin {"disconnect", "shutdown"}
    BY <1>6 DEF RampGate, CanAcceptGateTarget
  <2>. QED BY <2>1 DEF Verified
<1>7. ASSUME NEW g \in Gates, NEW d \in {-1, 1}, StepGate(g, d) PROVE Verified'
  <2>1. op' = op /\ op.kind \notin {"disconnect", "shutdown"}
    BY <1>7 DEF StepGate, CanAcceptGateTarget
  <2>. QED BY <2>1 DEF Verified
<1>8. ASSUME NEW t \in {0, Top}, RampDaq(t) PROVE Verified'
  <2>1. op' = op /\ op.kind \notin {"disconnect", "shutdown"}
    BY <1>8 DEF RampDaq, IsBusy
  <2>. QED BY <2>1 DEF Verified
<1>9. ASSUME NEW g \in Gates, EditAddress(g) PROVE Verified'
  <2>1. op' = op /\ manual' = manual
    BY <1>9 DEF EditAddress, threads
  <2>2. CASE op.kind = "none"
    BY <2>1, <2>2 DEF Verified
  <2>3. CASE UNCHANGED <<level, session, answer, emergency>>
    BY <2>1, <2>3 DEF Verified, Comes, Reachable, Manual
  <2>. QED BY <1>9, <2>2, <2>3 DEF EditAddress, IsBusy, threads
<1>10. ASSUME NEW k \in {"connect", "disconnect"}, StartOperation(k) PROVE Verified'
  <2>1. op'.kind = "connect" \/ op'.left = GateOrder
    BY <1>10 DEF StartOperation, NoOp
  <2>. QED BY <2>1, OrderFacts DEF Verified
<1>11. ASSUME EmergencyStop PROVE Verified'
  <2>1. UNCHANGED <<op, level, session, answer>> /\ manual'.phase = manual.phase
    BY <1>11, <1>4 DEF EmergencyStop, ManualRecords
  <2>2. emergency' = emergency \/ StartEmergency
    BY <1>11 DEF EmergencyStop
  <2>3. \A g \in Gates : Comes(g) => Comes(g)'
    BY <2>2, ComesToAll, GateFacts DEF Comes
  <2>. QED BY <2>1, <2>3, VerifiedKept DEF Reachable, Manual
<1>12. ASSUME RunStart PROVE Verified'
  <2>1. op' = op /\ op.kind \notin {"disconnect", "shutdown"}
    BY <1>12 DEF RunStart, RunKeeps, IsBusy
  <2>. QED BY <2>1 DEF Verified
<1>13. ASSUME ManualStart PROVE Verified'
  <2>1. manual'.phase # "none"
    BY <1>13, <1>4 DEF ManualStart, Ends, ManualRecords
  <2>. QED BY <2>1 DEF Verified, Manual
<1>14. ASSUME ManualLoop PROVE Verified'
  <2>1. manual'.phase # "none"
    BY <1>14, <1>4 DEF ManualLoop, Ends, ManualRecords
  <2>. QED BY <2>1 DEF Verified, Manual
<1>15. ASSUME ManualSettle PROVE Verified'
  <2>1. manual'.phase # "none"
    BY <1>15, <1>4 DEF ManualSettle, Ends, ManualRecords
  <2>. QED BY <2>1 DEF Verified, Manual
<1>16. ASSUME OnManualFinished PROVE Verified'
  <2>1. op' = op /\ op.kind \notin {"disconnect", "shutdown"}
    BY <1>16, <1>1, Alone DEF OnManualFinished, FinishManual, GuiFree, Manual
  <2>. QED BY <2>1 DEF Verified
<1>17. ASSUME OnReadFinished PROVE Verified'
  <2>1. op' = op /\ op.kind \notin {"disconnect", "shutdown"}
    BY <1>17, <1>1, Alone DEF OnReadFinished, FinishRead, GuiFree, Reads
  <2>. QED BY <2>1 DEF Verified
<1>18. ASSUME OnProtectionFinished PROVE Verified'
  <2>1. op' = op /\ op.kind \notin {"disconnect", "shutdown"}
    BY <1>18, <1>1, Alone DEF OnProtectionFinished, FinishProtect, GuiFree, Protects
  <2>. QED BY <2>1 DEF Verified
<1>19. ASSUME DisconnectZero PROVE Verified'
  <2>1. /\ op.kind \in {"disconnect", "shutdown"} /\ op.left # <<>>
        /\ UNCHANGED <<manual, answer, emergency>>
    BY <1>19, Zenon DEF DisconnectZero, OpKeeps
  <2>2. op.left \in Seq(Gates)
    BY <2>1 DEF Types, OpTypes
  <2>3. Head(op.left) \in Gates /\ In(op.left) = {Head(op.left)} \cup In(Tail(op.left))
    BY <2>1, <2>2, TailIn
  <2>4. CASE op'.bad
    BY <2>4 DEF Verified
  <2>5. CASE /\ op' = Next1 /\ UNCHANGED <<level, session>>
             /\ session[Head(op.left)] = "none" \/ level[Head(op.left)] = 0
    <3>1. op'.left = Tail(op.left) /\ op'.kind = op.kind /\ op'.bad = op.bad
      BY <2>5, <1>3 DEF Next1, OpRecords
    <3>. QED BY <2>1, <2>3, <2>5, <3>1 DEF Verified, Comes, Reachable, Manual
  <2>6. CASE /\ op'.left = op.left /\ op'.kind = op.kind /\ op'.bad = op.bad /\ session' = session
             /\ \A g \in Gates : g # Head(op.left) => level'[g] = level[g]
    BY <2>1, <2>3, <2>6 DEF Verified, Comes, Reachable, Manual
  <2>7. CASE op' = [op EXCEPT !.phase = "zero", !.cur = level[Head(op.left)]] /\ UNCHANGED <<level, session>>
    BY <2>6, <2>7, <1>3 DEF OpRecords
  <2>8. CASE /\ op' = [op EXCEPT !.cur = Toward(@, 0)] /\ session' = session
             /\ level' = [level EXCEPT ![Head(op.left)] = Toward(op.cur, 0)]
    <3>1. \A g \in Gates : g # Head(op.left) => level'[g] = level[g]
      BY <2>8, <1>2, GateFacts DEF LevelTypes
    <3>. QED BY <2>6, <2>8, <3>1, <1>3 DEF OpRecords
  <2>9. CASE op' = [Next1 EXCEPT !.bad = TRUE]
    <3>1. op'.bad
      BY <2>9, <1>3 DEF Next1, OpRecords
    <3>. QED BY <2>4, <3>1
  <2>. QED BY <1>19, <2>5, <2>7, <2>8, <2>9 DEF DisconnectZero
<1>20. ASSUME DisconnectClose PROVE Verified'
  <2>1. op'.bad = op.bad
    BY <1>20, <1>3 DEF DisconnectClose, OpRecords
  <2>2. CASE op.bad
    BY <2>1, <2>2 DEF Verified
  <2>3. CASE \A g \in Gates : session'[g] = "none"
    BY <2>3 DEF Verified, Reachable
  <2>. QED BY <1>20, <2>2, <2>3, GateFacts DEF DisconnectClose, MayClose
<1>21. ASSUME ConnectGate PROVE Verified'
  <2>1. op'.kind = "connect"
    BY <1>21, <1>3 DEF ConnectGate, GiveUp, Next1, OpRecords
  <2>. QED BY <2>1 DEF Verified
<1>22. ASSUME ConnectDaq PROVE Verified'
  <2>1. op'.kind = "connect"
    BY <1>22, <1>3 DEF ConnectDaq, Next1, OpRecords
  <2>. QED BY <2>1 DEF Verified
<1>23. ASSUME OnOperationFinished PROVE Verified'
  <2>1. op'.kind = "none"
    BY <1>23 DEF OnOperationFinished, NoOp
  <2>. QED BY <2>1 DEF Verified
<1>24. ASSUME EmergencyRamps PROVE Verified'
  <2>1. /\ UNCHANGED <<op, session, manual>> /\ emergency.phase = "run"
    BY <1>24 DEF EmergencyRamps
  <2>2. op.kind \in {"disconnect", "shutdown"} => \A g \in emergency.lost : session[g] = "none"
    BY <1>1, <2>1, Alone DEF LostSessions
  <2>3. SUFFICES ASSUME NEW g \in Gates, Reachable(g), op.kind \in {"disconnect", "shutdown"},
                        level[g] = 0 \/ answer[g] = "failed" \/ Comes(g)
                 PROVE  level'[g] = 0 \/ answer'[g] = "failed" \/ Comes(g)'
    BY <2>1, <2>3, VerifiedKept DEF Reachable, Manual
  <2>4. g \in Outputs /\ level \in [Outputs -> Levels] /\ answer \in [Outputs -> {"none", "ok", "failed"}]
    BY <1>2, GateFacts DEF LevelTypes, HistoryTypes
  <2>5. g \notin emergency.lost
    BY <2>2, <2>3 DEF Reachable
  <2>6. CASE emergency.left = <<>> /\ UNCHANGED <<level, answer>>
    BY <2>3, <2>6 DEF Comes
  <2>7. CASE emergency.left # <<>>
    <3> DEFINE h == Head(emergency.left)
    <3>1. CASE emergency' = Leaves(h) /\ level' = level
               /\ (\/ h \in emergency.lost /\ answer' = answer
                   \/ emergency.cur = 0 /\ answer' = answer
                   \/ answer' = [answer EXCEPT ![h] = "failed"])
      <4>1. \A o \in In(Tail(emergency.left)) : Comes(o)'
        BY <2>1, <2>7, <3>1, ComesOn
      <4>2. CASE g \in In(Tail(emergency.left))
        BY <4>1, <4>2
      <4>3. CASE g \notin In(Tail(emergency.left))
        <5>1. Comes(g) => g = h /\ emergency.cur # 0
          BY <4>3 DEF Comes
        <5>2. answer[g] = "failed" => answer'[g] = "failed"
          BY <2>4, <3>1
        <5>3. Comes(g) => answer'[g] = "failed"
          BY <2>4, <2>5, <3>1, <5>1
        <5>. QED BY <2>3, <3>1, <5>2, <5>3
      <4>. QED BY <4>2, <4>3
    <3>2. CASE emergency' = [emergency EXCEPT !.cur = level[h]] /\ UNCHANGED <<level, answer>>
      <4>1. emergency'.phase = "run" /\ emergency'.left = emergency.left /\ emergency'.cur = level[h]
        BY <2>1, <3>2, <1>5 DEF EmergencyRecords
      <4>. QED BY <2>3, <3>2, <4>1 DEF Comes
    <3>3. CASE /\ emergency' = [emergency EXCEPT !.cur = Toward(@, 0)]
               /\ level' = [level EXCEPT ![h] = Toward(emergency.cur, 0)]
               /\ answer' = [answer EXCEPT ![h] = "none"]
      <4>1. /\ emergency'.phase = "run" /\ emergency'.left = emergency.left
            /\ emergency'.cur = Toward(emergency.cur, 0)
        BY <2>1, <3>3, <1>5 DEF EmergencyRecords
      <4>2. CASE g = h
        <5>1. level'[g] = emergency'.cur
          BY <2>4, <3>3, <4>1, <4>2
        <5>. QED BY <2>7, <4>1, <4>2, <5>1 DEF Comes
      <4>3. CASE g # h
        <5>1. level'[g] = level[g] /\ answer'[g] = answer[g]
          BY <2>4, <3>3, <4>3
        <5>. QED BY <2>3, <4>1, <4>3, <5>1 DEF Comes
      <4>. QED BY <4>2, <4>3
    <3>. QED BY <1>24, <2>7, <3>1, <3>2, <3>3 DEF EmergencyRamps
  <2>. QED BY <1>24, <2>6, <2>7 DEF EmergencyRamps
<1>25. ASSUME OnEmergencyFinished PROVE Verified'
  <2>1. UNCHANGED <<op, level, session, manual, answer>> /\ emergency.phase = "ended"
    BY <1>25 DEF OnEmergencyFinished, history
  <2>. QED BY <2>1, VerifiedKept DEF Comes, Reachable, Manual
<1>26. ASSUME RunSweeps PROVE Verified'
  <2>1. op' = op /\ op.kind \notin {"disconnect", "shutdown"}
    BY <1>26, <1>1, Alone DEF RunSweeps, RunKeeps, InUse
  <2>. QED BY <2>1 DEF Verified
<1>27. ASSUME RunZeroes PROVE Verified'
  <2>1. op' = op /\ op.kind \notin {"disconnect", "shutdown"}
    BY <1>27, <1>1, Alone DEF RunZeroes, RunKeeps, InUse
  <2>. QED BY <2>1 DEF Verified
<1>28. ASSUME Shutdown PROVE Verified'
  <2>1. op' = op /\ op.kind \notin {"disconnect", "shutdown"}
    BY <1>28, <1>1, Alone DEF Shutdown
  <2>. QED BY <2>1 DEF Verified
<1>29. ASSUME ShutdownWaits PROVE Verified'
  <2>1. CASE op'.left = GateOrder
    BY <2>1, OrderFacts DEF Verified
  <2>2. CASE op' = op /\ closing \notin {"open", "zero"}
    BY <1>1, <2>2 DEF Turns, Verified
  <2>. QED BY <1>29, <2>1, <2>2 DEF ShutdownWaits, ShutdownStep, NoOp
<1>30. ASSUME ShutdownEnds PROVE Verified'
  <2>1. op'.kind = "none"
    BY <1>30 DEF ShutdownEnds, NoOp
  <2>. QED BY <2>1 DEF Verified
<1>31. ASSUME \/ (\E g \in Gates : ApplyProtection(g))
              \/ (\E g \in Gates : EditProfile(g))
              \/ Read
              \/ RequestClose
              \/ TimerRead
              \/ QueuedRead
              \/ ReaderReads
              \/ ProtectorRuns
              \/ RunRelease
              \/ UNCHANGED vars
      PROVE Verified'
  <2>. UNCHANGED <<level, session, op, manual, emergency, answer>>
    BY <1>31, Zenon DEF ApplyProtection, EditProfile, threads, Read, Idle, history,
       RequestClose, TimerRead, QueuedRead, ReaderReads, ProtectorRuns, RunRelease, RunKeeps,
       vars, requests
  <2>. QED BY <1>1, <1>2, <1>3, <1>4, <1>5 DEF Verified, Manual, Comes, Reachable
<1>. QED BY <1>6, <1>7, <1>8, <1>9, <1>10, <1>11, <1>12, <1>13, <1>14, <1>15, <1>16, <1>17,
        <1>18, <1>19, <1>20, <1>21, <1>22, <1>23, <1>24, <1>25, <1>26, <1>27, <1>28, <1>29,
        <1>30, <1>31 DEF Next

\* At the start nobody works, nothing was told and nothing promised.
LEMMA InitHolds == Init => IInv
<1>. SUFFICES ASSUME Init PROVE IInv
  OBVIOUS
<1>1. /\ op.kind = "none" /\ manual.phase = "none" /\ reader = "none" /\ protector.phase = "none"
      /\ emergency.phase = "none" /\ run.phase = "none" /\ ~pending /\ closing = "open" /\ due = {}
  BY DEF Init, NoOp, NoManual, NoProtector, NoEmergency, NoRun
<1>2. \A g \in Gates : answer[g] = "none"
  BY GateFacts DEF Init
<1>3. Turns
  BY <1>1 DEF Turns, Manual, Reads, Protects, Stopping, Operates, Late, InUse
<1>4. Told
  BY <1>1, <1>2 DEF Told, Manual, Operates, InUse
<1>5. Promised /\ Spared /\ Paced /\ Verified /\ LostSessions
  BY <1>1 DEF Promised, Spared, Paced, Verified, LostSessions, Manual
<1>. QED BY <1>3, <1>4, <1>5 DEF IInv

\* No step breaks the invariant, nor does a stutter.
LEMMA StepHolds == Holds /\ [Next]_vars => Holds'
<1>1. ASSUME Holds, Next PROVE Holds'
  <2>1. Types /\ Turns /\ Told /\ Promised /\ Spared /\ Paced /\ Verified /\ LostSessions
    BY <1>1 DEF Holds, IInv
  <2>2. Types'
    BY <1>1, TypesStep DEF Holds
  <2>3. Turns' /\ Told'
    BY <1>1, <2>1, TurnsStep, ToldStep
  <2>4. Promised' /\ Spared'
    BY <1>1, <2>1, PromisedStep, SparedStep
  <2>5. Paced' /\ Verified' /\ LostSessions'
    BY <1>1, <2>1, PacedStep, VerifiedStep, LostStep
  <2>. QED BY <2>2, <2>3, <2>4, <2>5 DEF Holds, IInv
<1>2. ASSUME Holds, UNCHANGED vars PROVE Holds'
  <2>. UNCHANGED <<level, session, moved, applied, op, manual, reader, protector, emergency, run>>
    BY <1>2 DEF vars, threads
  <2>. UNCHANGED <<pending, timer, queued, closing, used, goal, answer, due, dropped>>
    BY <1>2 DEF vars, requests, history
  <2>1. Types'
    BY <1>2 DEF Holds, Types, LevelTypes, SessionTypes, OpTypes, ManualTypes, WorkerTypes,
       EmergencyTypes, FlagTypes, UsedTypes, HistoryTypes
  <2>2. (Turns /\ Told)'
    BY <1>2 DEF Holds, IInv, Turns, Told, Manual, Reads, Protects, Stopping, Operates, Late, InUse
  <2>3. (Promised /\ Spared /\ Paced)'
    BY <1>2 DEF Holds, IInv, Promised, Comes, RunMoves, OpMoves, Spared, Manual, Paced, Reachable
  <2>4. (Verified /\ LostSessions)'
    BY <1>2 DEF Holds, IInv, Verified, LostSessions, Comes, Manual, Reachable
  <2>. QED BY <2>1, <2>2, <2>3, <2>4 DEF Holds, IInv
<1>. QED BY <1>1, <1>2

\* The inductive invariant holds in every reachable state.
THEOREM InvariantHolds == Spec => []Holds
<1>1. Init => Holds
  BY TypesInit, InitHolds DEF Holds
<1>. QED BY <1>1, StepHolds, PTL DEF Spec

\* The turns leave one owner.
LEMMA TurnsOne ==
    ASSUME Types, Turns PROVE OneOwner
<1> DEFINE Left == Owners \ (IF {"op", "run"} \cap Owners # {} THEN {"emergency"} ELSE {})
<1>1. /\ Manual => ~Reads /\ ~Protects /\ ~Stopping /\ ~Operates /\ ~InUse
      /\ Reads => ~Protects /\ ~Stopping /\ ~Operates /\ ~InUse
      /\ Protects => ~Stopping /\ ~Operates /\ ~InUse
      /\ Operates => ~InUse
  BY DEF Turns
<1>2. /\ "op" \in Owners <=> Operates
      /\ "manual" \in Owners <=> Manual
      /\ "reader" \in Owners <=> Reads
      /\ "protector" \in Owners <=> Protects
      /\ "emergency" \in Owners <=> Stopping
      /\ "run" \in Owners <=> InUse
      /\ Owners \subseteq {"op", "manual", "reader", "protector", "emergency", "run"}
  BY DEF Owners, Operates, Manual, Reads, Protects, Stopping
<1>. HIDE DEF Left
<1>3. \A x, y \in Left : x = y
  <2>1. \A x \in Left : x \in Owners /\ (x = "emergency" => "op" \notin Owners /\ "run" \notin Owners)
    BY DEF Left
  <2>. QED BY <1>1, <1>2, <2>1
<1>4. \E x : Left \subseteq {x}
  BY <1>3
<1>5. PICK x : Left \subseteq {x}
  BY <1>4
<1>6. IsFiniteSet({x}) /\ Cardinality({x}) = 1
  BY FS_Singleton
<1>7. Cardinality(Left) <= 1
  BY <1>5, <1>6, FS_Subset
<1>. QED BY <1>7 DEF OneOwner, Left

\* The sources have one owner at a time: no thread works at them beside another, an
\* emergency stop is served by whoever holds them and its promise is kept, the
\* shutdown finds nobody else there, and a command reported as done has left its
\* gate where the last accepted command sends it (DeviceManager's ownership flags).
THEOREM OneOwnerAtATime == Spec => []Owned
<1>1. Holds => Owned
  <2>. SUFFICES ASSUME Holds PROVE Owned
    OBVIOUS
  <2>1. Types /\ Turns /\ Told /\ Promised
    BY DEF Holds, IInv
  <2>2. TypeOK /\ OneOwner
    BY <2>1, TypesImply, TurnsOne
  <2>3. pending => Owners \cap {"manual", "reader", "protector"} # {}
    <3>1. pending => Manual \/ Reads \/ Protects
      BY <2>1 DEF Turns
    <3>2. /\ Manual => "manual" \in Owners
          /\ Reads => "reader" \in Owners
          /\ Protects => "protector" \in Owners
      BY DEF Owners, Manual, Reads, Protects
    <3>. QED BY <3>1, <3>2
  <2>4. ~IsBusy /\ ~InUse => \A o \in due : level[o] = 0
    BY <2>1 DEF Promised, IsBusy, InUse, Comes, RunMoves, OpMoves
  <2>5. ShutdownQuiet
    <3>1. CASE closing \in {"zero", "closed"}
      <4>1. /\ pending => Manual \/ Reads \/ Protects
            /\ Late /\ Manual => ~pending
            /\ Late /\ closing # "reader" => ~Reads
            /\ closing \in {"emergency", "zero", "closed"} => ~Protects
            /\ emergency.phase # "run" /\ Late
        BY <2>1, <3>1 DEF Turns, Late
      <4>2. ~pending /\ ~Reads /\ ~Protects /\ emergency.phase # "run"
        BY <3>1, <4>1
      <4>. QED BY <4>2 DEF ShutdownQuiet, Reads, Protects
    <3>. QED BY <3>1 DEF ShutdownQuiet
  <2>6. LastTargetWins
    BY <2>1 DEF Told, LastTargetWins
  <2>. QED BY <2>2, <2>3, <2>4, <2>5, <2>6 DEF Owned, EmergencyServed
<1>. QED BY <1>1, InvariantHolds, PTL

\* Under the invariant no step closes a session of a gate that is not at zero.
LEMMA ClosesAtZero == Holds /\ [Next]_vars => [ClosedAtZero]_vars
<1>. SUFFICES ASSUME Holds, Next PROVE ClosedAtZero
  OBVIOUS
<1>. SUFFICES ASSUME NEW x \in Gates, Reachable(x), session'[x] = "none", x \notin dropped',
                     answer[x] # "failed", emergency.phase # "run", manual.phase = "none"
              PROVE  level'[x] = 0
  BY DEF ClosedAtZero
<1>1. /\ Types /\ Verified /\ x \in Outputs
      /\ level \in [Outputs -> Levels] /\ session \in [Outputs -> {"none", "ok", "err"}]
  BY GateFacts DEF Holds, IInv, Types, LevelTypes, SessionTypes
<1>2. session[x] # "none" /\ session' # session
  BY DEF Reachable
<1>3. op.kind \in {"disconnect", "shutdown"} /\ op.left = <<>> /\ ~op.bad => level[x] = 0
  BY <1>1, InFacts DEF Verified, Comes, Manual
<1>4. ASSUME NEW h \in Gates, EditAddress(h) PROVE level'[x] = 0
  <2>1. session' = [session EXCEPT ![h] = "none"] /\ level' = [level EXCEPT ![h] = 0]
    BY <1>1, <1>2, <1>4 DEF EditAddress
  <2>. QED BY <1>1, <1>2, <2>1
<1>5. ASSUME DisconnectZero PROVE level'[x] = 0
  <2>1. session' = [session EXCEPT ![Head(op.left)] = "err"]
    BY <1>2, <1>5 DEF DisconnectZero
  <2>. QED BY <1>1, <1>2, <2>1
<1>6. ASSUME DisconnectClose \/ ShutdownEnds PROVE level'[x] = 0
  <2>1. level' = level /\ op.left = <<>> /\ ~op.bad
    BY <1>2, <1>6 DEF DisconnectClose, ShutdownEnds, MayClose
  <2>2. CASE op.kind \in {"disconnect", "shutdown"}
    BY <1>3, <2>1, <2>2
  <2>3. CASE closing = "zero"
    BY <2>2, <2>3 DEF Holds, IInv, Turns
  <2>. QED BY <1>6, <2>2, <2>3 DEF DisconnectClose, ShutdownEnds
<1>7. ASSUME ConnectGate PROVE level'[x] = 0
  <2> DEFINE h == Head(op.left)
  <2>1. CASE \E s \in {"ok", "err"} : session' = [session EXCEPT ![h] = s]
    BY <1>1, <1>2, <2>1
  <2>2. CASE session' = [session EXCEPT ![h] = "none"] /\ level' = level /\ level[h] = 0
    BY <1>1, <1>2, <2>2
  <2>3. CASE session' = [session EXCEPT ![h] = "none"] /\ level' = level
             /\ dropped' = IF level[h] # 0 THEN dropped \cup {h} ELSE dropped
    BY <1>1, <1>2, <2>3
  <2>. QED BY <1>2, <1>7, <2>1, <2>2, <2>3 DEF ConnectGate, GiveUp
<1>8. ASSUME ConnectDaq PROVE level'[x] = 0
  <2>1. session' = [session EXCEPT !["daq"] = "ok"]
    BY <1>2, <1>8 DEF ConnectDaq
  <2>. QED BY <1>1, <1>2, <2>1

<1>9. ASSUME \/ (\E g \in Gates, t \in Levels : RampGate(g, t))
              \/ (\E g \in Gates, d \in {-1, 1} : StepGate(g, d))
              \/ (\E t \in {0, Top} : RampDaq(t))
              \/ (\E g \in Gates : ApplyProtection(g))
              \/ (\E g \in Gates : EditProfile(g))
              \/ (\E k \in {"connect", "disconnect"} : StartOperation(k))
              \/ Read
              \/ EmergencyStop
              \/ RunStart
              \/ RequestClose
              \/ ManualStart
              \/ ManualLoop
              \/ ManualSettle
              \/ OnManualFinished
              \/ TimerRead
              \/ QueuedRead
              \/ ReaderReads
              \/ OnReadFinished
              \/ ProtectorRuns
              \/ OnProtectionFinished
              \/ OnOperationFinished
              \/ EmergencyRamps
              \/ OnEmergencyFinished
              \/ RunSweeps
              \/ RunZeroes
              \/ RunRelease
              \/ Shutdown
              \/ ShutdownWaits
              \/ UNCHANGED vars
      PROVE FALSE
  <2>1. session' = session
    BY <1>9, Zenon DEF RampGate, StepGate, RampDaq, ApplyProtection, EditProfile, threads,
       StartOperation, Read, Idle, history, EmergencyStop, RunStart, RunKeeps, RequestClose,
       ManualStart, ManualKeeps, ManualLoop, ManualSettle, OnManualFinished, TimerRead,
       QueuedRead, ReaderReads, OnReadFinished, ProtectorRuns, OnProtectionFinished,
       OnOperationFinished, EmergencyRamps, OnEmergencyFinished, RunSweeps, RunZeroes,
       RunRelease, Shutdown, ShutdownWaits, vars
  <2>. QED BY <1>2, <2>1
<1>. QED BY <1>4, <1>5, <1>6, <1>7, <1>8, <1>9 DEF Next

\* A gate's session is closed only at zero (_safe_zero_keithley_before_close in
\* disconnect_all, the reconnection, sync_addresses and the shutdown).
THEOREM SessionsClosedAtZero == Spec => CloseVerified
BY InvariantHolds, ClosesAtZero, PTL DEF Spec, CloseVerified

-----------------------------------------------------------------------------
(* The voltage outputs.  The properties of VoltageSources are not          *)
(* inductive: that a stop ends at zero (StopZeroes) needs to know which    *)
(* ramp is still to bring the output there (SourceZeroing), that ramps do  *)
(* not make each other fail needs the DAQ's lock (SourceExcluding) and the *)
(* limit between two writes of a gate (SourceBounded).  One lemma per      *)
(* action shows that SourceInv is kept, one step per conjunct.             *)

\* The types: what is true or false, and the rest.
SourceFlags ==
    /\ stopped \in BOOLEAN
    /\ errors \in BOOLEAN
    /\ overlapped \in BOOLEAN
    /\ jumped \in BOOLEAN
    /\ failed \in BOOLEAN
    /\ partial \in BOOLEAN
    /\ fault \in BOOLEAN

SourceShapes ==
    /\ kind \in {"ao", "gate"} /\ output \in Sources!Levels /\ held \in Sources!Levels
    /\ lock \in Sources!Rampers \cup {"none"} /\ worker \in {"none", "sweep", "cleanup"}
    /\ r \in [Sources!Rampers -> [pc : {"idle", "start", "read", "write"}, cur : Sources!Levels,
       goal : Sources!Levels, checked : BOOLEAN]]
    /\ p \in [pc : {"ready", "level", "comp", "range", "verify", "on"}, goal : Sources!Profiles,
              why : {"connect", "profile", "fallback", "user"}, old : Sources!Profiles]
    /\ inst \in [comp : Sources!Profiles, range : Sources!Profiles, on : BOOLEAN]
    /\ soft \in [comp : Sources!Profiles, limit : Sources!Profiles]
       /\ {asked, believed} \subseteq Sources!Profiles
    /\ ramps \in 0 .. MaxRamps /\ mishaps \in 0 .. MaxMishaps

\* The worker ramps within a measurement only; a cleanup and an emergency stop ramp to
\* zero and do not look for a stop.
SourceRuns ==
    /\ worker = "none" => ~Sources!Working("run")
    /\ worker = "cleanup" => Sources!Working("run") /\ r["run"].goal = 0 /\ ~r["run"].checked
    /\ Sources!Working("emergency") => r["emergency"].goal = 0 /\ ~r["emergency"].checked

\* A connection is alone with its gate, and a profile is applied at zero and outside a
\* measurement; an emergency ramp that runs meanwhile stays at zero.
SourcePreparing ==
    /\ p.pc # "ready" =>
        /\ kind = "gate" /\ worker = "none"
        /\ p.why = "connect" => Sources!Alone /\ ~stopped
        /\ p.pc # "level" => output = 0 /\ (r["emergency"].pc = "write" => r["emergency"].cur = 0)
    /\ p.pc \in {"level", "on"} => p.why = "connect"

\* The DAQ: whoever ramps holds the lock, knows where the output is and so does the
\* driver.
SourceExcluding ==
    kind = "ao" =>
        /\ p.pc = "ready"
        /\ \A a \in Sources!Rampers : r[a].pc \in {"read", "write"} => lock = a
        /\ \A a \in Sources!Rampers : r[a].pc = "write" => r[a].cur = output /\ held = output

\* A gate whose ramps have not overlapped: whoever ramps it knows where it is.
SourceApart ==
    (kind = "gate" /\ ~overlapped) =>
        /\ ~\A a \in Sources!Rampers : Sources!Working(a)
        /\ \A a \in Sources!Rampers : r[a].pc = "write" => r[a].cur = output

\* A gate: ramps aim within the limit in force; a ramp that two have disturbed is at most a
\* step beyond it, and so is the gate.
SourceBounded ==
    kind = "gate" => \A a \in Sources!Rampers :
        /\ Sources!Working(a) => Sources!Abs(r[a].goal) <= Clamp[soft.limit]
        /\ r[a].pc = "write" => r[a].cur = output
           \/ (Sources!Abs(r[a].cur) <= Clamp[soft.limit] + 1 /\ Sources!Abs(output) <= Clamp[soft.limit] + 1)

\* After a stop the output is at zero, or the worker is still to clean up, or a ramp to
\* zero is on its way.
SourceZeroing ==
    (stopped /\ ~failed) =>
        \/ output = 0 \/ worker = "sweep"
        \/ \E a \in Sources!Rampers : r[a].goal = 0
           /\ (r[a].pc \in {"start", "read"} \/ (r[a].pc = "write" /\ r[a].cur # 0))

\* The protection, at each step of its application: what the driver holds, and what the
\* instrument has been told and has confirmed.
SourceProtecting ==
    kind = "gate" =>
        /\ p.pc = "ready" =>
             /\ inst.on /\ soft = [comp |-> believed, limit |-> believed]
             /\ ~partial => inst.comp = believed /\ Clamp[inst.range] >= Clamp[believed]
        /\ p.pc \in {"comp", "range", "verify"} =>
             /\ soft.comp = IF p.pc = "comp" THEN p.old ELSE p.goal
             /\ soft.limit = IF p.pc = "verify" THEN p.goal ELSE p.old
             /\ p.why = "connect" => p.goal = 0 /\ p.old = 0
             /\ p.why # "connect" => inst.on /\ p.old = believed
        /\ p.pc = "level" => p = Sources!Connecting
        /\ p.pc = "on" => soft = [comp |-> 0, limit |-> 0] /\ inst.comp = 0 /\ Clamp[inst.range] >= Clamp[0]

\* The inductive invariant of the voltage outputs.
SourceInv == SourceFlags /\ SourceShapes /\ Sources!Gentle /\ Sources!NoOwnFault /\ SourceRuns
    /\ SourcePreparing /\ SourceExcluding /\ SourceApart /\ SourceBounded /\ SourceZeroing /\ SourceProtecting

\* The types of the invariant are those of the module.
LEMMA SourceTypesAre == Sources!TypeOK <=> SourceFlags /\ SourceShapes
  BY DEF Sources!TypeOK, SourceFlags, SourceShapes

\* A measurement begins a ramp.
LEMMA SourceRampStep == ASSUME SourceInv, Sources!Ramp PROVE SourceInv'
<1>1. SourceFlags'
  BY DEF SourceInv, SourceFlags, Sources!Ramp, Sources!Starts, Sources!Protected, Sources!Stay, Sources!Put,
     Sources!Watch, Sources!user, Sources!gate
<1>2. SourceShapes'
  BY SourcesAssumption DEF SourceInv, Sources!Ramp, Sources!Starts, Sources!Levels, Sources!Rampers,
     Sources!Fine, Sources!Stay, Sources!gate, Sources!user, SourceShapes
<1>3. Sources!Gentle'
  BY DEF SourceInv, Sources!Ramp, Sources!Stay, Sources!Gentle
<1>4. Sources!NoOwnFault'
  BY DEF SourceInv, Sources!Ramp, Sources!NoOwnFault
<1>5. SourceRuns'
  BY DEF SourceInv, Sources!Ramp, Sources!Starts, Sources!Working, SourceRuns
<1>6. SourcePreparing'
  BY DEF Sources!Ramp, Sources!gate, SourcePreparing
<1>7. SourceExcluding'
  BY DEF SourceInv, Sources!Ramp, Sources!Starts, Sources!Stay, Sources!gate, Sources!user, SourceExcluding
<1>8. SourceApart'
  <2>1. kind' = kind /\ output' = output
    BY DEF Sources!Ramp, Sources!Stay, Sources!user
  <2>2. ~overlapped' => ~overlapped /\ (kind' = "gate" => ~\A a \in Sources!Rampers : r'[a].pc # "idle")
    BY <2>1 DEF Sources!Ramp, Sources!Starts, Sources!Watch
  <2>3. \A a \in Sources!Rampers : r'[a].pc = "write" => r[a].pc = "write" /\ r'[a].cur = r[a].cur
    BY DEF Sources!Ramp, Sources!Starts, SourceInv, SourceShapes, Sources!Rampers
  <2> QED
    BY <2>1, <2>2, <2>3 DEF SourceInv, SourceApart, Sources!Working
<1>9. SourceBounded'
  BY SourcesAssumption DEF SourceInv, Sources!Ramp, Sources!Starts, Sources!Abs, Sources!Working,
     Sources!Stay, Sources!gate, Sources!user, SourceBounded, SourceProtecting, SourceShapes
<1>10. SourceZeroing'
  BY DEF Sources!Ramp, SourceZeroing
<1>11. SourceProtecting'
  BY DEF SourceInv, Sources!Ramp, Sources!gate, Sources!user, SourceProtecting
<1>. QED BY <1>1, <1>2, <1>3, <1>4, <1>5, <1>6, <1>7, <1>8, <1>9, <1>10, <1>11 DEF SourceInv

\* The worker begins to zero the output.
LEMMA SourceCleanupStep == ASSUME SourceInv, Sources!Cleanup PROVE SourceInv'
<1>1. SourceFlags'
  BY DEF SourceInv, SourceFlags, Sources!Cleanup, Sources!Starts, Sources!Stay, Sources!Put, Sources!Watch,
     Sources!user, Sources!gate
<1>2. SourceShapes'
  BY SourcesAssumption DEF SourceInv, Sources!Cleanup, Sources!Starts, Sources!Levels, Sources!Rampers,
     Sources!Fine, Sources!Stay, Sources!gate, Sources!user, SourceShapes
<1>3. Sources!Gentle'
  BY DEF SourceInv, Sources!Cleanup, Sources!Stay, Sources!Gentle
<1>4. Sources!NoOwnFault'
  BY DEF SourceInv, Sources!Cleanup, Sources!NoOwnFault
<1>5. SourceRuns'
  BY DEF SourceInv, Sources!Cleanup, Sources!Starts, Sources!Rampers, Sources!Working, SourceRuns, SourceShapes
<1>6. SourcePreparing'
  BY DEF SourceInv, Sources!Cleanup, Sources!gate, SourcePreparing
<1>7. SourceExcluding'
  BY DEF SourceInv, Sources!Cleanup, Sources!Starts, Sources!Stay, Sources!gate, Sources!user, SourceExcluding
<1>8. SourceApart'
  <2>1. kind' = kind /\ output' = output
    BY DEF Sources!Cleanup, Sources!Stay, Sources!user
  <2>2. ~overlapped' => ~overlapped /\ (kind' = "gate" => ~\A a \in Sources!Rampers : r'[a].pc # "idle")
    BY <2>1 DEF Sources!Cleanup, Sources!Starts, Sources!Watch
  <2>3. \A a \in Sources!Rampers : r'[a].pc = "write" => r[a].pc = "write" /\ r'[a].cur = r[a].cur
    BY DEF Sources!Cleanup, Sources!Starts, SourceInv, SourceShapes, Sources!Rampers
  <2> QED
    BY <2>1, <2>2, <2>3 DEF SourceInv, SourceApart, Sources!Working
<1>9. SourceBounded'
  BY SourcesAssumption DEF SourceInv, Sources!Cleanup, Sources!Starts, Sources!Abs, Sources!Working,
     Sources!Stay, Sources!gate, Sources!user, SourceBounded, SourceShapes
<1>10. SourceZeroing'
  BY DEF SourceInv, Sources!Cleanup, Sources!Starts, Sources!Rampers, SourceShapes, SourceZeroing
<1>11. SourceProtecting'
  BY DEF SourceInv, Sources!Cleanup, Sources!gate, Sources!user, SourceProtecting
<1>. QED BY <1>1, <1>2, <1>3, <1>4, <1>5, <1>6, <1>7, <1>8, <1>9, <1>10, <1>11 DEF SourceInv

\* The stop button: a ramp to zero begins.
LEMMA SourceEmergencyStopStep == ASSUME SourceInv, Sources!EmergencyStop PROVE SourceInv'
<1>1. SourceFlags'
  BY DEF SourceInv, SourceFlags, Sources!EmergencyStop, Sources!Starts, Sources!Stay, Sources!Put,
     Sources!Watch, Sources!user, Sources!gate
<1>2. SourceShapes'
  BY SourcesAssumption DEF SourceInv, Sources!EmergencyStop, Sources!Starts, Sources!Levels,
     Sources!Rampers, Sources!Fine, Sources!Stay, Sources!gate, SourceShapes
<1>3. Sources!Gentle'
  BY DEF SourceInv, Sources!EmergencyStop, Sources!Stay, Sources!Gentle
<1>4. Sources!NoOwnFault'
  BY DEF SourceInv, Sources!EmergencyStop, Sources!NoOwnFault
<1>5. SourceRuns'
  BY DEF SourceInv, Sources!EmergencyStop, Sources!Starts, Sources!Working, SourceRuns
<1>6. SourcePreparing'
  BY DEF SourceInv, Sources!EmergencyStop, Sources!Starts, Sources!Stay, Sources!gate, SourcePreparing
<1>7. SourceExcluding'
  BY DEF SourceInv, Sources!EmergencyStop, Sources!Starts, Sources!Stay, Sources!gate, SourceExcluding
<1>8. SourceApart'
  <2>1. kind' = kind /\ output' = output
    BY DEF Sources!EmergencyStop, Sources!Stay, Sources!user
  <2>2. ~overlapped' => ~overlapped /\ (kind' = "gate" => ~\A a \in Sources!Rampers : r'[a].pc # "idle")
    BY <2>1 DEF Sources!EmergencyStop, Sources!Starts, Sources!Watch
  <2>3. \A a \in Sources!Rampers : r'[a].pc = "write" => r[a].pc = "write" /\ r'[a].cur = r[a].cur
    BY DEF Sources!EmergencyStop, Sources!Starts, SourceInv, SourceShapes, Sources!Rampers
  <2> QED
    BY <2>1, <2>2, <2>3 DEF SourceInv, SourceApart, Sources!Working
<1>9. SourceBounded'
  BY SourcesAssumption DEF SourceInv, Sources!EmergencyStop, Sources!Starts, Sources!Abs, Sources!Working,
     Sources!Stay, Sources!gate, SourceBounded, SourceShapes
<1>10. SourceZeroing'
  BY DEF SourceInv, Sources!EmergencyStop, Sources!Starts, Sources!Rampers, SourceShapes, SourceZeroing
<1>11. SourceProtecting'
  BY DEF SourceInv, Sources!EmergencyStop, Sources!gate, SourceProtecting
<1>. QED BY <1>1, <1>2, <1>3, <1>4, <1>5, <1>6, <1>7, <1>8, <1>9, <1>10, <1>11 DEF SourceInv

\* A ramp takes the lock, if there is one.
LEMMA SourceEnterStep == ASSUME NEW a \in Sources!Rampers, SourceInv, Sources!Enter(a) PROVE SourceInv'
<1>1. SourceFlags'
  BY DEF SourceInv, SourceFlags, Sources!Enter, Sources!Goes, Sources!Excluded, Sources!Ends, Sources!Stay,
     Sources!Put, Sources!Watch, Sources!user, Sources!gate
<1>2. SourceShapes'
  BY DEF SourceInv, Sources!Enter, Sources!Goes, Sources!Rampers, Sources!Fine, Sources!Stay, Sources!gate,
     Sources!user, SourceShapes
<1>3. Sources!Gentle'
  BY DEF SourceInv, Sources!Enter, Sources!Stay, Sources!Gentle
<1>4. Sources!NoOwnFault'
  BY DEF SourceInv, Sources!Enter, Sources!NoOwnFault
<1>5. SourceRuns'
  BY DEF SourceInv, Sources!Enter, Sources!Goes, Sources!Rampers, Sources!Working, SourceRuns, SourceShapes
<1>6. SourcePreparing'
  BY DEF SourceInv, Sources!Enter, Sources!Goes, Sources!Rampers, Sources!Working, Sources!Alone,
     Sources!Stay, Sources!gate, Sources!user, SourcePreparing, SourceShapes
<1>7. SourceExcluding'
  BY DEF SourceInv, Sources!Enter, Sources!Goes, Sources!Excluded, Sources!Rampers, Sources!gate,
     Sources!user, SourceExcluding, SourceShapes
<1>8. SourceApart'
  BY DEF SourceInv, Sources!Enter, Sources!Goes, Sources!Working, Sources!Stay, Sources!Watch, Sources!user,
     SourceApart, SourceFlags, SourceShapes
<1>9. SourceBounded'
  BY DEF SourceInv, Sources!Enter, Sources!Goes, Sources!Working, Sources!Stay, Sources!gate, Sources!user,
     SourceBounded, SourceShapes
<1>10. SourceZeroing'
  BY DEF SourceInv, Sources!Enter, Sources!Goes, Sources!Stay, Sources!user, SourceShapes, SourceZeroing
<1>11. SourceProtecting'
  BY DEF SourceInv, Sources!Enter, Sources!Goes, Sources!gate, Sources!user, SourceProtecting
<1>. QED BY <1>1, <1>2, <1>3, <1>4, <1>5, <1>6, <1>7, <1>8, <1>9, <1>10, <1>11 DEF SourceInv

\* A ramp reads where it starts: an error ends it, and then it fails to reach zero or was
\* not to.
LEMMA SourceReadStartStep == ASSUME NEW a \in Sources!Rampers, SourceInv, Sources!ReadStart(a) PROVE SourceInv'
<1>a. r[a].pc = "read" /\ UNCHANGED <<Sources!user, Sources!gate, ramps, output, jumped, fault>>
  BY DEF Sources!ReadStart, Sources!Goes, Sources!Ends, Sources!Stay
<1>b. \/ /\ r' = [r EXCEPT ![a].pc = "write", ![a].cur = output] /\ UNCHANGED <<worker, failed, lock, mishaps>>
         /\ held' \in {held, output}
      \/ Sources!Trouble /\ Sources!Ends(a, TRUE) /\ held' = held
  BY DEF Sources!ReadStart, Sources!Goes, Sources!StartLevel, Sources!Fine
<1>c. Sources!Ends(a, TRUE) => (~failed' => ~failed /\ r[a].goal # 0)
  BY DEF Sources!Ends
<1>1. SourceFlags'
  BY DEF SourceInv, SourceFlags, Sources!ReadStart, Sources!Goes, Sources!Ends, Sources!StartLevel,
     Sources!Stay, Sources!Put, Sources!Watch, Sources!user, Sources!gate
<1>2. SourceShapes'
  <2>1. r' \in [Sources!Rampers -> [pc : {"idle", "start", "read", "write"}, cur : Sources!Levels,
        goal : Sources!Levels, checked : BOOLEAN]]
    <3> DEFINE State == [pc : {"idle", "start", "read", "write"}, cur : Sources!Levels,
                   goal : Sources!Levels, checked : BOOLEAN]
               next == [r[a] EXCEPT !.pc = "write", !.cur = output]
    <3>1. r \in [Sources!Rampers -> State] /\ output \in Sources!Levels
      BY <1>a DEF SourceInv, SourceShapes
    <3>2. next \in State
      BY <3>1
    <3>3. Sources!Idle \in State
      BY SourcesAssumption DEF Sources!Idle, Sources!Levels
    <3>4. r' = [r EXCEPT ![a] = next] \/ r' = [r EXCEPT ![a] = Sources!Idle]
      BY <1>b, <3>1 DEF Sources!Ends
    <3> HIDE DEF State, next
    <3>5. r' \in [Sources!Rampers -> State]
      BY <3>1, <3>2, <3>3, <3>4
    <3> QED
      BY <3>5 DEF State
  <2>2. /\ lock' \in Sources!Rampers \cup {"none"} /\ worker' \in {"none", "sweep", "cleanup"}
        /\ held' \in Sources!Levels /\ mishaps' \in 0 .. MaxMishaps
    BY <1>b, SourcesAssumption DEF SourceInv, SourceShapes, Sources!Ends, Sources!Trouble
  <2> QED
    BY <1>a, <2>1, <2>2 DEF SourceInv, SourceShapes, Sources!user, Sources!gate
<1>3. Sources!Gentle'
  BY DEF SourceInv, Sources!ReadStart, Sources!Stay, Sources!Gentle
<1>4. Sources!NoOwnFault'
  BY DEF SourceInv, Sources!ReadStart, Sources!NoOwnFault
<1>5. SourceRuns'
  BY DEF SourceInv, Sources!ReadStart, Sources!Goes, Sources!Ends, Sources!Rampers, Sources!Working,
     Sources!Idle, SourceRuns, SourceShapes
<1>6. SourcePreparing'
  BY DEF SourceInv, Sources!ReadStart, Sources!Goes, Sources!Ends, Sources!StartLevel, Sources!Rampers,
     Sources!Working, Sources!Alone, Sources!Stay, Sources!Idle, Sources!gate, Sources!user,
     SourcePreparing, SourceShapes
<1>7. SourceExcluding'
  BY DEF SourceInv, Sources!ReadStart, Sources!Goes, Sources!Ends, Sources!StartLevel, Sources!Stay,
     Sources!Idle, Sources!gate, Sources!user, SourceExcluding, SourceShapes
<1>8. SourceApart'
  BY DEF SourceInv, Sources!ReadStart, Sources!Goes, Sources!Ends, Sources!StartLevel, Sources!Working,
     Sources!Stay, Sources!Watch, Sources!Idle, Sources!user, SourceApart, SourceFlags, SourceShapes
<1>9. SourceBounded'
  BY DEF SourceInv, Sources!ReadStart, Sources!Goes, Sources!Ends, Sources!StartLevel, Sources!Working,
     Sources!Stay, Sources!Idle, Sources!gate, Sources!user, SourceBounded, SourceShapes
<1>10. SourceZeroing'
  <2>1. CASE r' = [r EXCEPT ![a].pc = "write", ![a].cur = output] /\ UNCHANGED <<worker, failed>>
    BY <1>a, <2>1 DEF SourceInv, SourceShapes, SourceZeroing, Sources!user, Sources!Rampers
  <2>2. CASE Sources!Ends(a, TRUE)
    BY <1>a, <1>c, <2>2 DEF SourceInv, SourceShapes, SourceRuns, SourceZeroing, Sources!Ends, Sources!Idle,
       Sources!Working, Sources!user, Sources!Rampers
  <2> QED
    BY <1>b, <2>1, <2>2
<1>11. SourceProtecting'
  BY DEF SourceInv, Sources!ReadStart, Sources!Goes, Sources!Ends, Sources!gate, Sources!user, SourceProtecting
<1>. QED BY <1>1, <1>2, <1>3, <1>4, <1>5, <1>6, <1>7, <1>8, <1>9, <1>10, <1>11 DEF SourceInv

\* A step of a ramp: written, failed before or after its effect, or refused.  A refusal
\* means that the output already was beyond the limit.
LEMMA SourceWriteStep == ASSUME NEW a \in Sources!Rampers, SourceInv, Sources!Write(a) PROVE SourceInv'
<1> DEFINE v == Sources!Toward(r[a].cur, r[a].goal)
<1>a. r[a].pc = "write" /\ r[a].cur # r[a].goal /\ UNCHANGED <<Sources!user, Sources!gate, ramps>>
  BY DEF Sources!Write, Sources!Goes, Sources!Ends
<1>v. v \in Sources!Levels /\ Sources!Abs(v) <= Highest
  BY <1>a, SourcesAssumption DEF SourceInv, SourceShapes, Sources!Toward, Sources!Levels, Sources!Rampers,
     Sources!Abs
<1>b. \/ /\ ~Sources!Refused(v) /\ Sources!Put(v) /\ held' = v
            /\ UNCHANGED <<lock, fault, mishaps, worker, failed>>
         /\ r' = [r EXCEPT ![a].pc = "write", ![a].cur = v]
      \/ /\ ~Sources!Refused(v) /\ Sources!Trouble /\ Sources!Ends(a, TRUE) /\ UNCHANGED fault
         /\ Sources!Stay \/ Sources!Put(v)
         /\ held' \in {held, v}
      \/ /\ Sources!Refused(v) /\ Sources!Stay /\ Sources!Fine /\ Sources!Ends(a, TRUE) /\ held' \in {held, v}
  BY Zenon DEF Sources!Write, Sources!Goes, Sources!Fine
<1>c. Sources!Ends(a, TRUE) => (~failed' => ~failed /\ r[a].goal # 0)
  BY DEF Sources!Ends
<1>d. /\ Sources!Put(v) => output' = v
      /\ Sources!Stay => output' = output
  BY DEF Sources!Put, Sources!Stay
<1>1. SourceFlags'
  BY DEF SourceInv, SourceFlags, Sources!Write, Sources!Goes, Sources!Ends, Sources!Refused,
     Sources!Aborted, Sources!Stay, Sources!Put, Sources!Watch, Sources!user, Sources!gate
<1>2. SourceShapes'
  <2> HIDE DEF v
  <2>1. output' \in {output, v} /\ held' \in {held, v} /\ (mishaps' = mishaps \/ Sources!Trouble)
    BY <1>b, <1>d DEF Sources!Fine
  <2>2. \/ r' = [r EXCEPT ![a].pc = "write", ![a].cur = v] /\ UNCHANGED <<lock, worker>>
        \/ Sources!Ends(a, TRUE)
    BY <1>b
  <2>3. r' \in [Sources!Rampers -> [pc : {"idle", "start", "read", "write"}, cur : Sources!Levels,
        goal : Sources!Levels, checked : BOOLEAN]]
    <3> DEFINE State == [pc : {"idle", "start", "read", "write"}, cur : Sources!Levels,
                   goal : Sources!Levels, checked : BOOLEAN]
               next == [r[a] EXCEPT !.pc = "write", !.cur = v]
    <3>1. r \in [Sources!Rampers -> State] /\ v \in Sources!Levels
      BY <1>v DEF SourceInv, SourceShapes
    <3>2. next \in State
      BY <3>1
    <3>3. Sources!Idle \in State
      BY SourcesAssumption DEF Sources!Idle, Sources!Levels
    <3>4. r' = [r EXCEPT ![a] = next] \/ r' = [r EXCEPT ![a] = Sources!Idle]
      BY <2>2, <3>1 DEF Sources!Ends
    <3> HIDE DEF State, next
    <3>5. r' \in [Sources!Rampers -> State]
      BY <3>1, <3>2, <3>3, <3>4
    <3> QED
      BY <3>5 DEF State
  <2>4. /\ lock' \in Sources!Rampers \cup {"none"} /\ worker' \in {"none", "sweep", "cleanup"}
        /\ output' \in Sources!Levels /\ held' \in Sources!Levels /\ mishaps' \in 0 .. MaxMishaps
    BY <1>v, <2>1, <2>2, SourcesAssumption DEF SourceInv, SourceShapes, Sources!Ends, Sources!Trouble
  <2> QED
    BY <1>a, <2>3, <2>4 DEF SourceInv, SourceShapes, Sources!user, Sources!gate
<1>3. Sources!Gentle'
  BY DEF SourceInv, Sources!Write, Sources!Ends, Sources!Levels, Sources!Abs, Sources!Toward, Sources!Put,
     Sources!Stay, SourceApart, SourceExcluding, SourceFlags, Sources!Gentle, SourceShapes
<1>4. Sources!NoOwnFault'
  <2>1. CASE UNCHANGED fault
    BY <2>1 DEF SourceInv, Sources!NoOwnFault
  <2>2. CASE Sources!Refused(v) /\ Sources!Stay
    <3>1. fault' = (fault \/ Sources!Abs(output) <= Clamp[soft.limit]) \/ UNCHANGED fault
      BY DEF Sources!Write
    <3>2. kind = "gate" /\ soft.limit \in Sources!Profiles /\ Clamp[soft.limit] \in 0 .. Highest
      BY <1>a, <2>2, SourcesAssumption DEF SourceInv, SourceShapes, SourceExcluding, Sources!Refused,
         Sources!Abs, Sources!Toward, Sources!Levels, Sources!Rampers
    <3>3. ~(Sources!Abs(output) <= Clamp[soft.limit])
      BY <1>a, <2>2, <3>2, SourcesAssumption DEF SourceInv, SourceShapes, SourceBounded, Sources!Working,
         Sources!Refused, Sources!Abs, Sources!Toward, Sources!Levels, Sources!Rampers
    <3> QED
      BY <3>1, <3>3 DEF SourceInv, Sources!NoOwnFault
  <2> QED
    BY <1>b, <2>1, <2>2
<1>5. SourceRuns'
  BY DEF SourceInv, Sources!Write, Sources!Goes, Sources!Ends, Sources!Rampers, Sources!Working,
     Sources!Idle, SourceRuns, SourceShapes
<1>6. SourcePreparing'
  BY DEF SourceInv, Sources!Write, Sources!Goes, Sources!Ends, Sources!Rampers, Sources!Working,
     Sources!Alone, Sources!gate, SourcePreparing, SourceRuns
<1>7. SourceExcluding'
  BY DEF SourceInv, Sources!Write, Sources!Goes, Sources!Ends, Sources!Put, Sources!Idle, Sources!gate,
     Sources!user, SourceExcluding, SourceShapes
<1>8. SourceApart'
  BY DEF SourceInv, Sources!Write, Sources!Goes, Sources!Ends, Sources!Rampers, Sources!Working,
     Sources!Put, Sources!Watch, Sources!Idle, Sources!user, SourceApart, SourceFlags, SourceShapes
<1>9. SourceBounded'
  BY SourcesAssumption DEF SourceInv, Sources!Write, Sources!Goes, Sources!Ends, Sources!Refused,
     Sources!Levels, Sources!Abs, Sources!Toward, Sources!Working, Sources!Put, Sources!Stay, Sources!Idle,
     Sources!gate, Sources!user, SourceBounded, SourceShapes
<1>10. SourceZeroing'
  <2>1. CASE r' = [r EXCEPT ![a].pc = "write", ![a].cur = v] /\ Sources!Put(v) /\ UNCHANGED <<worker, failed>>
    <3>1. r'[a].pc = "write" /\ r'[a].cur = v /\ r'[a].goal = r[a].goal /\ output' = v
      BY <2>1, <1>d DEF SourceInv, SourceShapes
    <3>2. r[a].goal = 0 \/ worker' = "sweep"
      BY <1>a, <2>1 DEF SourceInv, SourceShapes, SourceRuns, Sources!Working, Sources!Rampers
    <3> QED
      BY <3>1, <3>2 DEF SourceZeroing
  <2>2. CASE Sources!Ends(a, TRUE)
    <3>1. ~failed' => worker' = "sweep"
      BY <1>a, <1>c, <2>2 DEF SourceInv, SourceShapes, SourceRuns, Sources!Ends, Sources!Working,
         Sources!Rampers
    <3> QED
      BY <3>1 DEF SourceZeroing
  <2> QED
    BY <1>b, <2>1, <2>2
<1>11. SourceProtecting'
  BY DEF SourceInv, Sources!Write, Sources!Goes, Sources!Ends, Sources!gate, Sources!user, SourceProtecting
<1>. QED BY <1>1, <1>2, <1>3, <1>4, <1>5, <1>6, <1>7, <1>8, <1>9, <1>10, <1>11 DEF SourceInv

\* A ramp ends at its goal, or at a stop if it looks for one.
LEMMA SourceRampDoneStep == ASSUME NEW a \in Sources!Rampers, SourceInv, Sources!RampDone(a) PROVE SourceInv'
<1>1. SourceFlags'
  BY DEF SourceInv, SourceFlags, Sources!RampDone, Sources!Ends, Sources!Aborted, Sources!Stay, Sources!Put,
     Sources!Watch, Sources!user, Sources!gate
<1>2. SourceShapes'
  BY SourcesAssumption DEF SourceInv, Sources!RampDone, Sources!Ends, Sources!Levels, Sources!Fine,
     Sources!Stay, Sources!Idle, Sources!gate, Sources!user, SourceShapes
<1>3. Sources!Gentle'
  BY DEF SourceInv, Sources!RampDone, Sources!Stay, Sources!Gentle
<1>4. Sources!NoOwnFault'
  BY DEF SourceInv, Sources!RampDone, Sources!NoOwnFault
<1>5. SourceRuns'
  BY DEF SourceInv, Sources!RampDone, Sources!Ends, Sources!Working, Sources!Idle, SourceRuns, SourceShapes
<1>6. SourcePreparing'
  BY DEF SourceInv, Sources!RampDone, Sources!Ends, Sources!Working, Sources!Alone, Sources!Stay,
     Sources!Idle, Sources!gate, Sources!user, SourcePreparing
<1>7. SourceExcluding'
  BY DEF SourceInv, Sources!RampDone, Sources!Ends, Sources!Idle, Sources!gate, Sources!user,
     SourceExcluding, SourceShapes
<1>8. SourceApart'
  BY DEF SourceInv, Sources!RampDone, Sources!Ends, Sources!Working, Sources!Stay, Sources!Watch,
     Sources!Idle, Sources!user, SourceApart, SourceFlags
<1>9. SourceBounded'
  BY DEF SourceInv, Sources!RampDone, Sources!Ends, Sources!Working, Sources!Stay, Sources!Idle,
     Sources!gate, Sources!user, SourceBounded
<1>10. SourceZeroing'
  BY DEF SourceInv, Sources!RampDone, Sources!Ends, Sources!Aborted, Sources!Rampers, Sources!Working,
     Sources!Stay, Sources!user, SourceFlags, SourceRuns, SourceShapes, SourceZeroing
<1>11. SourceProtecting'
  BY DEF SourceInv, Sources!RampDone, Sources!Ends, Sources!gate, Sources!user, SourceProtecting
<1>. QED BY <1>1, <1>2, <1>3, <1>4, <1>5, <1>6, <1>7, <1>8, <1>9, <1>10, <1>11 DEF SourceInv

\* The connection brings the output to zero first.
LEMMA SourceConnectZeroStep == ASSUME SourceInv, Sources!ConnectZero PROVE SourceInv'
<1>1. SourceFlags'
  BY DEF SourceInv, SourceFlags, Sources!ConnectZero, Sources!Keeps, Sources!At, Sources!GiveUp,
     Sources!Stay, Sources!Put, Sources!Watch, Sources!user, Sources!gate
<1>2. SourceShapes'
  BY SourcesAssumption DEF SourceInv, Sources!ConnectZero, Sources!Keeps, Sources!At, Sources!GiveUp,
     Sources!Levels, Sources!Fine, Sources!Trouble, Sources!Toward, Sources!Put, Sources!Stay,
     Sources!Connecting, Sources!gate, Sources!user, SourceShapes
<1>3. Sources!Gentle'
  BY DEF SourceInv, Sources!ConnectZero, Sources!Levels, Sources!Abs, Sources!Toward, Sources!Put,
     Sources!Stay, SourceFlags, Sources!Gentle, SourceShapes
<1>4. Sources!NoOwnFault'
  BY DEF SourceInv, Sources!ConnectZero, Sources!Keeps, Sources!NoOwnFault
<1>5. SourceRuns'
  BY DEF SourceInv, Sources!ConnectZero, Sources!Keeps, Sources!Working, SourceRuns
<1>6. SourcePreparing'
  BY DEF SourceInv, Sources!ConnectZero, Sources!Keeps, Sources!At, Sources!GiveUp, Sources!Rampers,
     Sources!Working, Sources!Alone, Sources!Stay, Sources!Connecting, Sources!gate, Sources!user,
     SourcePreparing, SourceShapes
<1>7. SourceExcluding'
  BY DEF SourceInv, Sources!ConnectZero, Sources!Keeps, Sources!user, SourceExcluding
<1>8. SourceApart'
  BY DEF SourceInv, Sources!ConnectZero, Sources!Keeps, Sources!Working, Sources!Alone, SourceApart,
     SourcePreparing
<1>9. SourceBounded'
  BY DEF SourceInv, Sources!ConnectZero, Sources!Keeps, Sources!Working, Sources!Alone, SourceBounded,
     SourcePreparing
<1>10. SourceZeroing'
  BY DEF SourceInv, Sources!ConnectZero, Sources!Keeps, Sources!user, SourcePreparing, SourceZeroing
<1>11. SourceProtecting'
  <2>1. p.why = "connect" /\ kind' = kind
    BY DEF SourceInv, SourcePreparing, Sources!ConnectZero, Sources!Keeps, Sources!user
  <2>2. \/ p' \in {p, Sources!Connecting}
        \/ p' = [p EXCEPT !.pc = "comp"] /\ soft' = [comp |-> 0, limit |-> 0]
    BY DEF Sources!ConnectZero, Sources!At, Sources!GiveUp, Sources!gate
  <2>3. CASE p' \in {p, Sources!Connecting}
    <3>1. p'.pc = "level" /\ p' = Sources!Connecting
      BY <2>3 DEF SourceInv, SourceProtecting, SourcePreparing, Sources!ConnectZero, Sources!Connecting
    <3> QED
      BY <3>1 DEF SourceProtecting
  <2>4. CASE p' = [p EXCEPT !.pc = "comp"] /\ soft' = [comp |-> 0, limit |-> 0]
    <3>1. p = Sources!Connecting
      BY DEF SourceInv, SourcePreparing, SourceProtecting, Sources!ConnectZero
    <3>2. p'.pc = "comp" /\ p'.goal = 0 /\ p'.old = 0 /\ p'.why = "connect"
      BY <2>4, <3>1 DEF Sources!Connecting
    <3> QED
      BY <2>4, <3>2 DEF SourceProtecting
  <2> QED
    BY <2>2, <2>3, <2>4
<1>. QED BY <1>1, <1>2, <1>3, <1>4, <1>5, <1>6, <1>7, <1>8, <1>9, <1>10, <1>11 DEF SourceInv

\* The compliance is programmed, or queued an error, or the link failed.
LEMMA SourceSetComplianceStep == ASSUME SourceInv, Sources!SetCompliance PROVE SourceInv'
<1>a. /\ p.pc = "comp"
         /\ UNCHANGED <<Sources!user, lock, r, worker, ramps, overlapped, failed, fault, output, jumped,
         believed, held>>
      /\ mishaps' = mishaps \/ Sources!Trouble
      /\ inst' \in {inst, [inst EXCEPT !.comp = p.goal]}
  BY DEF Sources!SetCompliance, Sources!Keeps, Sources!At, Sources!Stay, Sources!ApplyFails, Sources!Fine
<1>b. \/ p' = [p EXCEPT !.pc = "range"] /\ soft' = [soft EXCEPT !.comp = p.goal] /\ partial' = partial
      \/ Sources!ApplyFails
  BY DEF Sources!SetCompliance, Sources!At
<1>1. SourceFlags'
  BY DEF SourceInv, SourceFlags, Sources!SetCompliance, Sources!Keeps, Sources!At, Sources!ApplyFails,
     Sources!Stay, Sources!Put, Sources!Watch, Sources!user, Sources!gate
<1>2. SourceShapes'
  BY <1>a, <1>b, SourcesAssumption DEF SourceInv, Sources!ApplyFails, Sources!Trouble, Sources!Ready,
     Sources!Connecting, Sources!user, SourceShapes
<1>3. Sources!Gentle'
  BY <1>a DEF SourceInv, Sources!Gentle
<1>4. Sources!NoOwnFault'
  BY <1>a DEF SourceInv, Sources!NoOwnFault
<1>5. SourceRuns'
  BY <1>a DEF SourceInv, Sources!Working, SourceRuns
<1>6. SourcePreparing'
  BY <1>a, <1>b DEF SourceInv, Sources!ApplyFails, Sources!Working, Sources!Alone, Sources!Ready,
     Sources!Connecting, Sources!user, SourcePreparing, SourceShapes
<1>7. SourceExcluding'
  BY <1>a DEF SourceInv, Sources!user, SourceExcluding
<1>8. SourceApart'
  BY <1>a DEF SourceInv, Sources!Working, Sources!user, SourceApart
<1>9. SourceBounded'
  BY <1>a, <1>b DEF SourceInv, Sources!ApplyFails, Sources!Working, SourceBounded, SourcePreparing,
     SourceProtecting, SourceShapes
<1>10. SourceZeroing'
  BY <1>a DEF SourceInv, SourcePreparing, SourceZeroing
<1>11. SourceProtecting'
  BY <1>a, <1>b DEF SourceInv, Sources!ApplyFails, Sources!Ready, Sources!Connecting, SourcePreparing,
     SourceProtecting, SourceShapes
<1>. QED BY <1>1, <1>2, <1>3, <1>4, <1>5, <1>6, <1>7, <1>8, <1>9, <1>10, <1>11 DEF SourceInv

\* The range is programmed.
LEMMA SourceSetRangeStep == ASSUME SourceInv, Sources!SetRange PROVE SourceInv'
<1>1. SourceFlags'
  BY DEF SourceInv, SourceFlags, Sources!SetRange, Sources!Keeps, Sources!At, Sources!ApplyFails,
     Sources!Stay, Sources!Put, Sources!Watch, Sources!user, Sources!gate
<1>2. SourceShapes'
  BY SourcesAssumption DEF SourceInv, Sources!SetRange, Sources!Keeps, Sources!At, Sources!ApplyFails,
     Sources!Fine, Sources!Trouble, Sources!Stay, Sources!Ready, Sources!Connecting, Sources!user,
     SourcePreparing, SourceShapes
<1>3. Sources!Gentle'
  BY DEF SourceInv, Sources!SetRange, Sources!ApplyFails, Sources!Stay, Sources!Gentle
<1>4. Sources!NoOwnFault'
  BY DEF SourceInv, Sources!SetRange, Sources!Keeps, Sources!NoOwnFault
<1>5. SourceRuns'
  BY DEF SourceInv, Sources!SetRange, Sources!Keeps, Sources!Working, SourceRuns
<1>6. SourcePreparing'
  BY DEF SourceInv, Sources!SetRange, Sources!Keeps, Sources!At, Sources!ApplyFails, Sources!Working,
     Sources!Alone, Sources!Stay, Sources!Ready, Sources!Connecting, Sources!user, SourcePreparing, SourceShapes
<1>7. SourceExcluding'
  BY DEF SourceInv, Sources!SetRange, Sources!Keeps, Sources!user, SourceExcluding
<1>8. SourceApart'
  BY DEF SourceInv, Sources!SetRange, Sources!Keeps, Sources!ApplyFails, Sources!Working, Sources!Stay,
     Sources!user, SourceApart
<1>9. SourceBounded'
  BY SourcesAssumption DEF SourceInv, Sources!SetRange, Sources!Keeps, Sources!ApplyFails, Sources!Rampers,
     Sources!Abs, Sources!Working, Sources!Stay, SourceBounded, SourcePreparing, SourceRuns, SourceShapes
<1>10. SourceZeroing'
  BY DEF SourceInv, Sources!SetRange, Sources!ApplyFails, Sources!Stay, SourcePreparing, SourceZeroing
<1>11. SourceProtecting'
  BY DEF SourceInv, Sources!SetRange, Sources!At, Sources!ApplyFails, Sources!Ready, Sources!Connecting,
     SourcePreparing, SourceProtecting, SourceShapes
<1>. QED BY <1>1, <1>2, <1>3, <1>4, <1>5, <1>6, <1>7, <1>8, <1>9, <1>10, <1>11 DEF SourceInv

\* The error queue and both settings are read back.
LEMMA SourceVerifyStep == ASSUME SourceInv, Sources!Verify PROVE SourceInv'
<1>1. SourceFlags'
  BY DEF SourceInv, SourceFlags, Sources!Verify, Sources!Keeps, Sources!At, Sources!ApplyFails,
     Sources!Verified, Sources!Stay, Sources!Put, Sources!Watch, Sources!user, Sources!gate
<1>2. SourceShapes'
  BY SourcesAssumption DEF SourceInv, Sources!Verify, Sources!Keeps, Sources!At, Sources!ApplyFails,
     Sources!Fine, Sources!Trouble, Sources!Stay, Sources!Ready, Sources!Connecting, Sources!user, SourceShapes
<1>3. Sources!Gentle'
  BY DEF SourceInv, Sources!Verify, Sources!ApplyFails, Sources!Stay, Sources!Gentle
<1>4. Sources!NoOwnFault'
  BY DEF SourceInv, Sources!Verify, Sources!Keeps, Sources!NoOwnFault
<1>5. SourceRuns'
  BY DEF SourceInv, Sources!Verify, Sources!Keeps, Sources!Working, SourceRuns
<1>6. SourcePreparing'
  BY DEF SourceInv, Sources!Verify, Sources!Keeps, Sources!At, Sources!ApplyFails, Sources!Working,
     Sources!Alone, Sources!Stay, Sources!Ready, Sources!Connecting, Sources!user, SourcePreparing, SourceShapes
<1>7. SourceExcluding'
  BY DEF SourceInv, Sources!Verify, Sources!Keeps, Sources!user, SourceExcluding
<1>8. SourceApart'
  BY DEF SourceInv, Sources!Verify, Sources!Keeps, Sources!ApplyFails, Sources!Working, Sources!Stay,
     Sources!user, SourceApart
<1>9. SourceBounded'
  BY SourcesAssumption DEF SourceInv, Sources!Verify, Sources!Keeps, Sources!ApplyFails, Sources!Rampers,
     Sources!Abs, Sources!Working, Sources!Stay, SourceBounded, SourcePreparing, SourceRuns, SourceShapes
<1>10. SourceZeroing'
  BY DEF SourceInv, Sources!Verify, Sources!ApplyFails, Sources!Stay, SourcePreparing, SourceZeroing
<1>11. SourceProtecting'
  BY DEF SourceInv, Sources!Verify, Sources!At, Sources!ApplyFails, Sources!Verified, Sources!Ready,
     Sources!Connecting, SourcePreparing, SourceProtecting, SourceShapes
<1>. QED BY <1>1, <1>2, <1>3, <1>4, <1>5, <1>6, <1>7, <1>8, <1>9, <1>10, <1>11 DEF SourceInv

\* The connected gate is switched on, and its own profile follows.
LEMMA SourceSwitchOnStep == ASSUME SourceInv, Sources!SwitchOn PROVE SourceInv'
<1>1. SourceFlags'
  BY DEF SourceInv, SourceFlags, Sources!SwitchOn, Sources!Keeps, Sources!Stay, Sources!Put, Sources!Watch,
     Sources!user, Sources!gate
<1>2. SourceShapes'
  <2>1. UNCHANGED <<Sources!user, lock, r, worker, ramps, output, held, soft>>
    BY DEF Sources!SwitchOn, Sources!Keeps, Sources!Stay
  <2>2. mishaps' = mishaps \/ Sources!Trouble
    BY DEF Sources!SwitchOn, Sources!Fine
  <2>3. /\ p' \in {Sources!Connecting, [pc |-> "comp", goal |-> asked, why |-> "profile", old |-> 0]}
        /\ inst' \in {inst, [inst EXCEPT !.on = TRUE]} /\ believed' \in {0, believed}
    BY DEF Sources!SwitchOn
  <2>4. p' \in [pc : {"ready", "level", "comp", "range", "verify", "on"}, goal : Sources!Profiles,
               why : {"connect", "profile", "fallback", "user"}, old : Sources!Profiles]
    BY <2>3, SourcesAssumption DEF SourceInv, SourceShapes, Sources!Connecting
  <2>5. inst' \in [comp : Sources!Profiles, range : Sources!Profiles, on : BOOLEAN]
    BY <2>3 DEF SourceInv, SourceShapes
  <2>6. {asked, believed}' \subseteq Sources!Profiles /\ mishaps' \in 0 .. MaxMishaps
    BY <2>1, <2>2, <2>3, SourcesAssumption DEF SourceInv, SourceShapes, Sources!Trouble, Sources!user
  <2> QED
    BY <2>1, <2>4, <2>5, <2>6 DEF SourceInv, SourceShapes, Sources!user
<1>3. Sources!Gentle'
  BY DEF SourceInv, Sources!SwitchOn, Sources!Stay, Sources!Gentle
<1>4. Sources!NoOwnFault'
  BY DEF SourceInv, Sources!SwitchOn, Sources!Keeps, Sources!NoOwnFault
<1>5. SourceRuns'
  BY DEF SourceInv, Sources!SwitchOn, Sources!Keeps, Sources!Working, SourceRuns
<1>6. SourcePreparing'
  BY DEF SourceInv, Sources!SwitchOn, Sources!Keeps, Sources!Working, Sources!Alone, Sources!Stay,
     Sources!Connecting, Sources!user, SourcePreparing
<1>7. SourceExcluding'
  BY DEF SourceInv, Sources!SwitchOn, Sources!Keeps, Sources!user, SourceExcluding
<1>8. SourceApart'
  BY DEF SourceInv, Sources!SwitchOn, Sources!Keeps, Sources!Working, Sources!Alone, SourceApart,
     SourcePreparing
<1>9. SourceBounded'
  BY DEF SourceInv, Sources!SwitchOn, Sources!Keeps, Sources!Working, Sources!Alone, SourceBounded,
     SourcePreparing
<1>10. SourceZeroing'
  BY DEF SourceInv, Sources!SwitchOn, Sources!Keeps, Sources!user, SourcePreparing, SourceZeroing
<1>11. SourceProtecting'
  BY DEF SourceInv, Sources!SwitchOn, Sources!Connecting, SourcePreparing, SourceProtecting, SourceShapes
<1>. QED BY <1>1, <1>2, <1>3, <1>4, <1>5, <1>6, <1>7, <1>8, <1>9, <1>10, <1>11 DEF SourceInv

\* The user applies a profile.
LEMMA SourceApplyStep == ASSUME SourceInv, Sources!Apply PROVE SourceInv'
<1>1. SourceFlags'
  BY DEF SourceInv, SourceFlags, Sources!Apply, Sources!Keeps, Sources!Stay, Sources!Put, Sources!Watch,
     Sources!user, Sources!gate
<1>2. SourceShapes'
  BY DEF SourceInv, Sources!Apply, Sources!Keeps, Sources!Fine, Sources!Stay, Sources!user, SourceShapes
<1>3. Sources!Gentle'
  BY DEF SourceInv, Sources!Apply, Sources!Stay, Sources!Gentle
<1>4. Sources!NoOwnFault'
  BY DEF SourceInv, Sources!Apply, Sources!Keeps, Sources!NoOwnFault
<1>5. SourceRuns'
  BY DEF SourceInv, Sources!Apply, Sources!Keeps, Sources!Working, SourceRuns
<1>6. SourcePreparing'
  BY DEF Sources!Apply, Sources!Keeps, Sources!Rampers, Sources!Working, Sources!Alone, Sources!Stay,
     Sources!user, SourcePreparing
<1>7. SourceExcluding'
  BY DEF Sources!Apply, Sources!Keeps, Sources!user, SourceExcluding
<1>8. SourceApart'
  BY DEF SourceInv, Sources!Apply, Sources!Keeps, Sources!Working, Sources!Alone, SourceApart
<1>9. SourceBounded'
  BY DEF Sources!Apply, Sources!Keeps, Sources!Working, Sources!Alone, SourceBounded
<1>10. SourceZeroing'
  BY DEF Sources!Apply, Sources!Stay, SourceZeroing
<1>11. SourceProtecting'
  BY DEF SourceInv, Sources!Apply, SourceProtecting
<1>. QED BY <1>1, <1>2, <1>3, <1>4, <1>5, <1>6, <1>7, <1>8, <1>9, <1>10, <1>11 DEF SourceInv

\* The user edits a profile.
LEMMA SourceEditProfileStep == ASSUME SourceInv, Sources!EditProfile PROVE SourceInv'
<1>1. SourceFlags'
  BY DEF SourceInv, SourceFlags, Sources!EditProfile, Sources!Stay, Sources!Put, Sources!Watch,
     Sources!user, Sources!gate
<1>2. SourceShapes'
  BY SourcesAssumption DEF SourceInv, Sources!EditProfile, Sources!Trouble, Sources!gate, SourceShapes
<1>3. Sources!Gentle'
  BY DEF SourceInv, Sources!EditProfile, Sources!Gentle
<1>4. Sources!NoOwnFault'
  BY DEF SourceInv, Sources!EditProfile, Sources!NoOwnFault
<1>5. SourceRuns'
  BY DEF SourceInv, Sources!EditProfile, Sources!Working, SourceRuns
<1>6. SourcePreparing'
  BY DEF SourceInv, Sources!EditProfile, Sources!Working, Sources!Alone, Sources!gate, SourcePreparing
<1>7. SourceExcluding'
  BY DEF Sources!EditProfile, SourceExcluding
<1>8. SourceApart'
  BY DEF SourceInv, Sources!EditProfile, Sources!Working, SourceApart
<1>9. SourceBounded'
  BY DEF Sources!EditProfile, Sources!Working, Sources!Alone, SourceBounded
<1>10. SourceZeroing'
  BY DEF SourceInv, Sources!EditProfile, SourceZeroing
<1>11. SourceProtecting'
  BY DEF SourceInv, Sources!EditProfile, Sources!gate, SourceProtecting
<1>. QED BY <1>1, <1>2, <1>3, <1>4, <1>5, <1>6, <1>7, <1>8, <1>9, <1>10, <1>11 DEF SourceInv

\* Somebody turns the knob.
LEMMA SourceFrontPanelStep == ASSUME SourceInv, Sources!FrontPanel PROVE SourceInv'
<1>1. SourceFlags'
  BY DEF SourceInv, SourceFlags, Sources!FrontPanel, Sources!Stay, Sources!Put, Sources!Watch, Sources!user,
     Sources!gate
<1>2. SourceShapes'
  BY SourcesAssumption DEF SourceInv, Sources!FrontPanel, Sources!Trouble, Sources!gate, SourceShapes
<1>3. Sources!Gentle'
  BY DEF SourceInv, Sources!FrontPanel, Sources!Gentle
<1>4. Sources!NoOwnFault'
  BY DEF SourceInv, Sources!FrontPanel, Sources!NoOwnFault
<1>5. SourceRuns'
  BY DEF SourceInv, Sources!FrontPanel, Sources!Working, SourceRuns
<1>6. SourcePreparing'
  BY DEF Sources!FrontPanel, Sources!gate, SourcePreparing
<1>7. SourceExcluding'
  BY DEF Sources!FrontPanel, Sources!Working, Sources!Alone, Sources!gate, SourceExcluding
<1>8. SourceApart'
  BY DEF Sources!FrontPanel, Sources!Rampers, Sources!Working, Sources!Alone, SourceApart
<1>9. SourceBounded'
  BY DEF Sources!FrontPanel, Sources!Working, Sources!Alone, SourceBounded
<1>10. SourceZeroing'
  BY DEF Sources!FrontPanel, SourceZeroing
<1>11. SourceProtecting'
  BY DEF SourceInv, Sources!FrontPanel, Sources!gate, SourceProtecting
<1>. QED BY <1>1, <1>2, <1>3, <1>4, <1>5, <1>6, <1>7, <1>8, <1>9, <1>10, <1>11 DEF SourceInv

\* Nothing happens.
LEMMA SourceRestStep == ASSUME SourceInv, Sources!Rest PROVE SourceInv'
<1>1. SourceFlags'
  BY DEF SourceInv, SourceFlags, Sources!Rest, Sources!vars, Sources!Stay, Sources!Put, Sources!Watch,
     Sources!user, Sources!gate
<1>2. SourceShapes'
  BY DEF SourceInv, Sources!Rest, Sources!vars, Sources!gate, Sources!user, SourceShapes
<1>3. Sources!Gentle'
  BY DEF SourceInv, Sources!Rest, Sources!vars, Sources!Gentle
<1>4. Sources!NoOwnFault'
  BY DEF SourceInv, Sources!Rest, Sources!vars, Sources!NoOwnFault
<1>5. SourceRuns'
  BY DEF SourceInv, Sources!Rest, Sources!vars, Sources!Working, SourceRuns
<1>6. SourcePreparing'
  BY DEF Sources!Rest, Sources!vars, Sources!gate, SourcePreparing
<1>7. SourceExcluding'
  BY DEF SourceInv, Sources!Rest, Sources!vars, Sources!gate, Sources!user, SourceExcluding
<1>8. SourceApart'
  BY DEF SourceInv, Sources!Rest, Sources!vars, Sources!Working, Sources!user, SourceApart
<1>9. SourceBounded'
  BY DEF Sources!Rest, Sources!vars, Sources!Working, Sources!Alone, SourceBounded
<1>10. SourceZeroing'
  BY DEF SourceInv, Sources!Rest, Sources!vars, Sources!user, SourceZeroing
<1>11. SourceProtecting'
  BY DEF SourceInv, Sources!Rest, Sources!vars, Sources!gate, Sources!user, SourceProtecting
<1>. QED BY <1>1, <1>2, <1>3, <1>4, <1>5, <1>6, <1>7, <1>8, <1>9, <1>10, <1>11 DEF SourceInv

\* The invariant holds when a DAQ is connected or a gate is about to be.
LEMMA SourceInitSound == ASSUME Sources!Init PROVE SourceInv
<1>1. SourceFlags
  BY DEF Sources!Init, SourceFlags
<1>2. SourceShapes
  <2>1. 0 \in Sources!Levels /\ 0 \in Sources!Profiles /\ 0 \in 0 .. MaxRamps /\ 0 \in 0 .. MaxMishaps
    BY SourcesAssumption DEF Sources!Levels
  <2>2. kind \in {"ao", "gate"} /\ output \in Sources!Levels /\ held \in Sources!Levels
    BY <2>1 DEF Sources!Init
  <2>3. /\ lock = "none" /\ worker = "none" /\ soft = [comp |-> 0, limit |-> 0]
        /\ asked \in Sources!Profiles /\ believed = 0 /\ ramps = 0 /\ mishaps = 0
    BY DEF Sources!Init
  <2>4. r \in [Sources!Rampers -> [pc : {"idle", "start", "read", "write"}, cur : Sources!Levels,
        goal : Sources!Levels, checked : BOOLEAN]]
    BY <2>1 DEF Sources!Init, Sources!Idle
  <2>5. p \in [pc : {"ready", "level", "comp", "range", "verify", "on"}, goal : Sources!Profiles,
               why : {"connect", "profile", "fallback", "user"}, old : Sources!Profiles]
    BY <2>1 DEF Sources!Init, Sources!Ready, Sources!Connecting
  <2>6. inst \in [comp : Sources!Profiles, range : Sources!Profiles, on : BOOLEAN]
    BY DEF Sources!Init
  <2> QED
    BY <2>1, <2>2, <2>3, <2>4, <2>5, <2>6 DEF SourceShapes
<1>3. Sources!Gentle /\ Sources!NoOwnFault
  BY DEF Sources!Init, Sources!Gentle, Sources!NoOwnFault
<1>4. SourceRuns
  BY DEF Sources!Init, SourceRuns, Sources!Working, Sources!Rampers, Sources!Idle
<1>5. SourcePreparing
  BY DEF Sources!Init, SourcePreparing, Sources!Alone, Sources!Working, Sources!Rampers, Sources!Idle,
     Sources!Ready, Sources!Connecting
<1>6. SourceExcluding /\ SourceApart /\ SourceBounded
  BY DEF Sources!Init, SourceExcluding, SourceApart, SourceBounded, Sources!Working, Sources!Rampers,
     Sources!Idle, Sources!Ready, Sources!Connecting
<1>7. SourceZeroing
  BY DEF Sources!Init, SourceZeroing
<1>8. SourceProtecting
  BY DEF Sources!Init, SourceProtecting, Sources!Ready, Sources!Connecting
<1>. QED BY <1>1, <1>2, <1>3, <1>4, <1>5, <1>6, <1>7, <1>8 DEF SourceInv

\* A step that changes nothing keeps it.
LEMMA SourceStutterKeeps == ASSUME SourceInv, UNCHANGED Sources!vars PROVE SourceInv'
  BY DEF SourceInv, Sources!vars, Sources!user, Sources!gate, SourceFlags, SourceShapes, Sources!Gentle,
     Sources!NoOwnFault, SourceRuns, SourcePreparing, SourceExcluding, SourceApart, SourceBounded,
     SourceZeroing, SourceProtecting, Sources!Working, Sources!Alone

\* Every step keeps it.
LEMMA SourceNextKeeps == ASSUME SourceInv, Sources!Next PROVE SourceInv'
  BY SourceRampStep, SourceCleanupStep, SourceEmergencyStopStep, SourceEnterStep, SourceReadStartStep,
     SourceWriteStep, SourceRampDoneStep, SourceConnectZeroStep,
     SourceSetComplianceStep, SourceSetRangeStep, SourceVerifyStep, SourceSwitchOnStep, SourceApplyStep,
     SourceEditProfileStep, SourceFrontPanelStep, SourceRestStep DEF Sources!Next

\* The invariant says what is wanted.
LEMMA SourceInvariantSound == SourceInv => Sources!SourcesSound
<1> SUFFICES ASSUME SourceInv PROVE Sources!SourcesSound
  OBVIOUS
<1>1. Sources!TypeOK
  BY SourceTypesAre DEF SourceInv
<1>2. Sources!Gentle /\ Sources!NoOwnFault
  BY DEF SourceInv
<1>3. Sources!StopZeroes
  <2> SUFFICES ASSUME stopped, ~failed, Sources!Alone, worker = "none" PROVE output = 0
    BY DEF Sources!StopZeroes
  <2> QED
    BY DEF SourceInv, SourceZeroing, Sources!Alone, Sources!Working
<1>4. Sources!ProtectionHonest
  BY DEF SourceInv, SourceProtecting, Sources!ProtectionHonest
<1>. QED BY <1>1, <1>2, <1>3, <1>4 DEF Sources!SourcesSound

\* The invariant, wherever the part of the sources is at work.
SourceTurn == part = "sources" => SourceInv

\* Ramps move an output by single steps from where it really is and do not make each
\* other fail, a stop ends at zero, and a gate has the protection it is believed to have
\* (instruments/DaqCard.py, instruments/Keithley.py): for every limit, every profile and
\* every number of ramps and mishaps.
THEOREM SourcesAreSound == SpecPart => []SourcesSound
<1>1. InitPart => SourceTurn
  BY SourceInitSound DEF InitPart, SourceTurn
<1>2. SourceTurn /\ [NextPart]_<<part, vars, sourceVars, setupVars, plan>> => SourceTurn'
  <2> SUFFICES ASSUME SourceTurn, [NextPart]_<<part, vars, sourceVars, setupVars, plan>>, part' = "sources"
               PROVE  SourceInv'
    BY DEF SourceTurn
  <2>1. CASE NextPart
    <3>1. part = "sources" /\ Sources!Next
      BY <2>1 DEF NextPart
    <3> QED
      BY <3>1, SourceNextKeeps DEF SourceTurn
  <2>2. CASE UNCHANGED <<part, vars, sourceVars, setupVars, plan>>
    <3>1. SourceInv /\ UNCHANGED sourceVars
      BY <2>2 DEF SourceTurn
    <3>2. UNCHANGED Sources!vars
      BY <3>1 DEF sourceVars, Sources!vars, Sources!user, Sources!gate
    <3> QED
      BY <3>1, <3>2, SourceStutterKeeps
  <2> QED
    BY <2>1, <2>2
<1>3. SourceTurn => SourcesSound
  BY SourceInvariantSound DEF SourceTurn, SourcesSound
<1>. QED
  BY <1>1, <1>2, <1>3, PTL DEF SpecPart

-----------------------------------------------------------------------------
(* The setup of a field sweep.  What the properties of TransportSetup say  *)
(* of the end of an operation is gathered on the way: which limits are     *)
(* still to be written (SetupWriting), what has been captured, programmed  *)
(* and put back so far (SetupCapturing, SetupProgramming, SetupRestoring), *)
(* who is to blame for a failure (SetupBlaming), and how far the records   *)
(* of the runner go (SetupRecording).  Again one lemma per action.         *)

\* What a record may be.
SetupReadings == [condition : 1 .. Setup!Plan.conditions, leg : 1 .. Len(Setup!Legs), field : Setup!Fields]

\* Where an operation, and where only the runner, may be.
SetupPlaces == {"start", "limitsRead", "remote", "pause", "rates", "limits", "direct", "backRates",
    "backLimits", "close",
           "files", "move", "apply", "first", "leg", "aim", "sweeping", "arrived", "tail", "over"}
SetupRunPlaces == {"files", "move", "apply", "first", "leg", "aim", "sweeping", "arrived", "tail"}

\* The types: the supply,
SetupSupply ==
    /\ scene \in Scenes /\ rate \in Setup!RateTables /\ low \in Setup!Fields /\ high \in Setup!Fields
       /\ low <= high /\ field \in Setup!Fields
    /\ sweep \in {"none", "up", "down"} /\ trouble \in 0 .. scene.trouble

\* the flags,
SetupSwitches == heater \in BOOLEAN /\ started \in BOOLEAN /\ persistent \in BOOLEAN /\ raised \in BOOLEAN
    /\ unpaused \in BOOLEAN

\* the operation and its counters,
SetupSteps ==
    /\ work \in {"configure", "restore", "run"} /\ pc \in SetupPlaces /\ turn \in Int
    /\ outcome \in {"none", "done", "failed"} /\ targets \in 0 .. MaxTargets
    /\ status \in {"stopped", "failed", "finished", "cleanup_failed"}
    /\ failures \subseteq {"rates", "limits", "readback", "persistent", "files"}

\* what was captured,
SetupKept ==
    captured \in [rates : {<<>>} \cup Setup!RateTables, limits : {<<>>} \cup (Setup!Fields \X Setup!Fields)]

\* and the records.
SetupLog ==
    /\ at \in (1 .. Setup!Plan.conditions) \X (1 .. Len(Setup!Legs))
    /\ records \in Seq(SetupReadings)

\* Who may be where: the worker never runs legs, the runner never asks for remote control;
\* an operation is over when it has answered, unless the controller starts a sweep.
SetupRoles ==
    /\ work = scene.op \/ (work = "restore" /\ scene.op = "configure")
    /\ pc \in SetupRunPlaces => work = "run"
    /\ pc \in {"remote", "pause", "direct"} => work = "configure"
    /\ work = "restore" => pc \in {"backRates", "backLimits", "close", "over"}
    /\ pc = "over" <=> (outcome # "none" /\ pc # "direct")
    /\ pc = "direct" => outcome = "done" /\ targets > 0
    /\ work = "run" => targets = 0
\* The limits in todo can be written one after the other, and end at l and h.
SetupPending(l, h) ==
    \/ todo = <<>> /\ low = l /\ high = h
    \/ todo = <<<<"low", l>>>> /\ high = h /\ l <= h
    \/ todo = <<<<"high", h>>>> /\ low = l /\ l <= h
    \/ todo = <<<<"low", l>>, <<"high", h>>>> /\ l <= high /\ l <= h
    \/ todo = <<<<"high", h>>, <<"low", l>>>> /\ low <= h /\ l <= h

\* The limits of the envelope, those captured or those of a direction are on their way.
SetupWriting ==
    /\ pc = "limits" => IF turn = 1 THEN todo = <<>> ELSE turn = 2 /\ SetupPending(-Envelope, Envelope)
    /\ pc = "backLimits" => IF turn = 1 THEN todo = <<>> ELSE turn = 2
       /\ SetupPending(captured.limits[1], captured.limits[2])
    /\ pc \in {"direct", "aim"} => \E l, h \in Setup!Fields : SetupPending(l, h)
    /\ pc \notin {"limits", "backLimits", "direct", "aim"} => todo = <<>>

\* Nothing is programmed before both the rates and the limits have been read, and until
\* then they are as they were.
SetupCapturing ==
    /\ pc = "start" => captured.rates = <<>>
    /\ captured.rates = <<>> => captured.limits = <<>>
    /\ pc \in {"start", "limitsRead"} => captured.limits = <<>>
    /\ pc \in {"limitsRead", "remote", "pause"} => rate = captured.rates
    /\ pc \in {"remote", "pause"} => Setup!limits = captured.limits
    /\ pc \notin {"start", "tail", "close", "over"} => captured.rates # <<>>
    /\ pc \notin {"start", "limitsRead", "backRates", "tail", "close", "over"} => captured.limits # <<>>
    /\ pc = "over" /\ work = "configure" /\ outcome = "done" => captured.rates # <<>> /\ captured.limits # <<>>

\* How many ranges have the asked rate, and that limits are programmed after all of them.
SetupProgramming ==
    /\ pc = "rates" => turn \in Setup!Programmed(Envelope) /\ \A i \in Setup!Ranges : i < turn
       => rate[i] = Setup!Asked
    /\ pc = "limits" \/ (pc \in {"over", "direct"} /\ work = "configure" /\ outcome = "done") =>
         \A i \in Setup!Programmed(Envelope) : rate[i] = Setup!Asked
    /\ pc = "over" /\ work = "configure" /\ outcome = "done" /\ targets = 0
       => Setup!limits = <<-Envelope, Envelope>>

\* The rates, and the limits, are back, or named as not put back.
SetupRatesBack == "rates" \in failures \/ captured.rates = <<>> \/ rate = captured.rates
SetupLimitsBack == "limits" \in failures \/ captured.limits = <<>> \/ Setup!limits = captured.limits

\* How far putting back has come.
SetupRestoring ==
    /\ pc = "backRates" => turn \in Setup!Ranges /\ \A i \in Setup!Ranges : i < turn
       => rate[i] = captured.rates[i]
    /\ pc \in {"backLimits", "close"} => SetupRatesBack
    /\ pc = "close" => SetupLimitsBack
    /\ pc = "over" /\ (work = "restore" \/ outcome = "failed") /\ ~unpaused => SetupRatesBack /\ SetupLimitsBack

\* Something went wrong, or was asked for that the supply refuses, or was found that it
\* would not accept.
SetupBlame == trouble > 0 \/ Setup!Asked > MaxRate \/ ~Setup!Restorable

\* Nothing fails without a reason.
SetupBlaming ==
    /\ (failures # {} \/ raised \/ unpaused) => SetupBlame
    /\ work = "configure" /\ pc \in {"backRates", "backLimits", "close"} => SetupBlame
    /\ outcome = "failed" => SetupBlame

\* The runner's status at each place; a failure after it has begun to move asks for
\* persistent mode.
SetupRunning ==
    work = "run" =>
        /\ pc \notin {"tail", "backRates", "backLimits", "close", "over"} => status = "stopped" /\ ~raised
        /\ pc \in {"tail", "backRates", "backLimits", "close"}
           => status = IF raised THEN "failed" ELSE "finished"
        /\ pc = "over" /\ outcome = "done" => ~raised
        /\ pc \in {"backRates", "backLimits", "close", "over"} /\ started /\ raised /\ ~unpaused => persistent
        /\ unpaused => pc = "over" /\ outcome = "failed"

\* A leg has a record at its goal.
SetupDone(c, l) == \E i \in DOMAIN records : records[i] = [condition |-> c, leg |-> l,
    field |-> Setup!Goal(c, l)]

\* The records are in order, and none is beyond the leg under way.
SetupSorted == \A i \in 1 .. Len(records) - 1 : Setup!Order(records[i], records[i + 1])
SetupBehind == records # <<>> => Setup!Order(records[Len(records)], [condition |-> at[1], leg |-> at[2]])

\* The legs before the one under way are done; all legs are.
SetupEarlier == \A c \in 1 .. Setup!Plan.conditions, l \in 1 .. Len(Setup!Legs) : c < at[1]
    \/ (c = at[1] /\ l < at[2]) => SetupDone(c, l)
SetupAllDone == \A c \in 1 .. Setup!Plan.conditions, l \in 1 .. Len(Setup!Legs) : SetupDone(c, l)

\* How far the records go, at each place; a leg begins where it should.
SetupRecording ==
    work = "run" =>
        /\ SetupSorted /\ SetupBehind
        /\ pc \in {"start", "limitsRead", "rates", "limits", "files", "move"} => at = <<1, 1>>
        /\ pc \in {"apply", "first"} => at[2] = 1 /\ field = Setup!Goal(at[1], 1)
        /\ pc \in {"leg", "aim", "sweeping", "arrived"} => at[2] >= 2
        /\ pc = "arrived" => field = Setup!Legs[at[2]][1]
        /\ pc \in {"apply", "first", "leg", "aim", "sweeping", "arrived"} => SetupEarlier
        /\ pc \in {"tail", "backRates", "backLimits", "close", "over"} /\ ~raised => SetupAllDone

\* What an exception does, without the operators it is put together from.
SetupRaised ==
    /\ todo' = <<>> /\ UNCHANGED <<failures, started, at, records, persistent, unpaused>>
    /\ \/ /\ work = "configure" /\ pc \in {"start", "limitsRead", "remote"}
          /\ pc' = "over" /\ outcome' = "failed" /\ turn' = turn /\ UNCHANGED <<status, raised>>
       \/ /\ work = "configure" /\ pc \in {"pause", "rates", "limits"}
          /\ pc' = "backRates" /\ outcome' = outcome /\ turn' = 1 /\ UNCHANGED <<status, raised>>
       \/ work = "run" /\ pc' = "tail" /\ outcome' = outcome /\ turn' = 1 /\ status' = "failed"
          /\ raised' = TRUE

\* The inductive invariant of the setup.
SetupInv == SetupSupply /\ SetupSwitches /\ SetupSteps /\ SetupKept /\ SetupLog /\ SetupRoles
    /\ SetupWriting /\ SetupCapturing /\ SetupProgramming /\ SetupRestoring /\ SetupBlaming /\ SetupRunning
    /\ SetupRecording

\* An exception does this.
LEMMA SetupRaiseMakes == Setup!Raise => SetupRaised
  BY DEF Setup!Raise, SetupRaised, Setup!Goto, Setup!Over, Setup!runner

\* And keeps the types of the counters.
LEMMA SetupRaisedSteps == ASSUME SetupSteps, SetupRaised, UNCHANGED <<work, targets>> PROVE SetupSteps'
<1>1. pc' \in SetupPlaces /\ turn' \in Int
  BY DEF SetupSteps, SetupRaised, SetupPlaces
<1>2. outcome' \in {"none", "done", "failed"}
  BY DEF SetupSteps, SetupRaised
<1>3. status' \in {"stopped", "failed", "finished", "cleanup_failed"}
  BY DEF SetupSteps, SetupRaised
<1>4. failures' = failures
  BY DEF SetupRaised
<1> QED
  BY <1>1, <1>2, <1>3, <1>4 DEF SetupSteps

\* Where no record is made the records stay as good as they were.
LEMMA SetupRecordsKept == ASSUME UNCHANGED <<scene, at, records>> PROVE (SetupSorted' <=> SetupSorted)
  /\ (SetupBehind' <=> SetupBehind) /\ (SetupEarlier' <=> SetupEarlier) /\ (SetupAllDone' <=> SetupAllDone)
  BY DEF SetupSorted, SetupBehind, SetupEarlier, SetupAllDone, SetupDone, Setup!Goal, Setup!Legs, Setup!Plan

\* The head and the tail of one limit, and of two.
LEMMA SetupOneLimit == ASSUME NEW c, todo = <<c>> PROVE todo # <<>> /\ Head(todo) = c /\ Tail(todo) = <<>>
  OBVIOUS
LEMMA SetupTwoLimits == ASSUME NEW c, NEW d, todo = <<c, d>> PROVE todo # <<>> /\ Head(todo) = c
  /\ Tail(todo) = <<d>>
  OBVIOUS

\* The next limit to write: it does not cross, and what is left after it.
LEMMA SetupPendingHead ==
  ASSUME NEW l \in Setup!Fields, NEW h \in Setup!Fields, SetupPending(l, h), low \in Setup!Fields,
         high \in Setup!Fields, low <= high, todo # <<>>
  PROVE  \/ /\ Head(todo) = <<"low", l>> /\ l <= high
            /\ \/ Tail(todo) = <<>> /\ high = h
               \/ Tail(todo) = <<<<"high", h>>>> /\ l <= h
         \/ /\ Head(todo) = <<"high", h>> /\ low <= h
            /\ \/ Tail(todo) = <<>> /\ low = l
               \/ Tail(todo) = <<<<"low", l>>>> /\ l <= h
<1>. low \in Int /\ high \in Int /\ l \in Int /\ h \in Int
  BY SetupAssumption DEF Setup!Fields
<1>1. CASE todo = <<<<"low", l>>>> /\ high = h /\ l <= h
  BY <1>1, SetupOneLimit
<1>2. CASE todo = <<<<"high", h>>>> /\ low = l /\ l <= h
  BY <1>2, SetupOneLimit
<1>3. CASE todo = <<<<"low", l>>, <<"high", h>>>> /\ l <= high /\ l <= h
  BY <1>3, SetupTwoLimits
<1>4. CASE todo = <<<<"high", h>>, <<"low", l>>>> /\ low <= h /\ l <= h
  BY <1>4, SetupTwoLimits
<1> QED
  BY <1>1, <1>2, <1>3, <1>4 DEF SetupPending

\* The supply never refuses a limit for its order (LimitOrder).
LEMMA SetupPendingFits ==
  ASSUME NEW l \in Setup!Fields, NEW h \in Setup!Fields, SetupPending(l, h), low \in Setup!Fields,
         high \in Setup!Fields, low <= high, todo # <<>>
  PROVE  ~Setup!Crosses(Head(todo))
<1>. low \in Int /\ high \in Int /\ l \in Int /\ h \in Int
  BY SetupAssumption DEF Setup!Fields
<1> QED
  BY SetupPendingHead DEF Setup!Crosses

\* Writing the next limit leaves the rest writable.
LEMMA SetupPendingWrite ==
  ASSUME NEW l \in Setup!Fields, NEW h \in Setup!Fields, SetupPending(l, h), low \in Setup!Fields,
         high \in Setup!Fields, low <= high, Setup!WriteLimit
  PROVE  SetupPending(l, h)' /\ low' \in Setup!Fields /\ high' \in Setup!Fields /\ low' <= high'
<1>. low \in Int /\ high \in Int /\ l \in Int /\ h \in Int
  BY SetupAssumption DEF Setup!Fields
<1>1. todo # <<>> /\ todo' = Tail(todo) /\ Setup!Limit(Head(todo))
  BY DEF Setup!WriteLimit
<1>2. CASE /\ Head(todo) = <<"low", l>> /\ l <= high
           /\ \/ Tail(todo) = <<>> /\ high = h
              \/ Tail(todo) = <<<<"high", h>>>> /\ l <= h
  BY <1>1, <1>2 DEF Setup!Limit, SetupPending
<1>3. CASE /\ Head(todo) = <<"high", h>> /\ low <= h
           /\ \/ Tail(todo) = <<>> /\ low = l
              \/ Tail(todo) = <<<<"low", l>>>> /\ l <= h
  BY <1>1, <1>3 DEF Setup!Limit, SetupPending
<1> QED
  BY <1>1, <1>2, <1>3, SetupPendingHead

\* Only the link can fail a write, and the limits stay in order.
LEMMA SetupPendingFails ==
  ASSUME NEW l \in Setup!Fields, NEW h \in Setup!Fields, SetupPending(l, h), low \in Setup!Fields,
         high \in Setup!Fields, low <= high, Setup!LimitFails
  PROVE  Setup!Trouble /\ low' \in Setup!Fields /\ high' \in Setup!Fields /\ low' <= high'
<1>. low \in Int /\ high \in Int /\ l \in Int /\ h \in Int
  BY SetupAssumption DEF Setup!Fields
<1>1. CASE UNCHANGED Setup!limits
  BY <1>1, SetupPendingFits DEF Setup!LimitFails, Setup!limits
<1>2. CASE todo # <<>> /\ Setup!Limit(Head(todo))
  BY <1>2, SetupPendingHead, SetupPendingFits DEF Setup!LimitFails, Setup!Limit
<1> QED
  BY <1>1, <1>2 DEF Setup!LimitFails

\* LimitOrder makes an order in which two limits can be written,
LEMMA SetupPendingOrder ==
  ASSUME NEW l \in Setup!Fields, NEW h \in Setup!Fields, l <= h, low \in Setup!Fields,
         high \in Setup!Fields, low <= high,
         todo' = Setup!LimitOrder(l, h), UNCHANGED Setup!limits
  PROVE  SetupPending(l, h)'
<1>. low \in Int /\ high \in Int /\ l \in Int /\ h \in Int
  BY SetupAssumption DEF Setup!Fields
<1> QED
  BY DEF Setup!LimitOrder, SetupPending, Setup!limits

\* and so does _set_directional_target.
LEMMA SetupPendingDirected ==
  ASSUME NEW t \in Setup!Fields, NEW current \in Setup!Fields, low \in Setup!Fields, high \in Setup!Fields,
         low <= high,
         todo' = Setup!Directed(t, current), UNCHANGED Setup!limits
  PROVE  \E l, h \in Setup!Fields : SetupPending(l, h)'
<1>. low \in Int /\ high \in Int /\ t \in Int /\ current \in Int
  BY SetupAssumption DEF Setup!Fields
<1>1. CASE Setup!Upward(t, current) /\ t < low
  <2>1. current <= t /\ todo' = Setup!LimitOrder(current, t)
    BY <1>1 DEF Setup!Upward, Setup!Directed
  <2> QED
    BY <2>1, SetupPendingOrder
<1>2. CASE Setup!Upward(t, current) /\ t >= low
  BY <1>2 DEF Setup!Upward, Setup!Directed, SetupPending, Setup!limits
<1>3. CASE ~Setup!Upward(t, current) /\ t > high
  <2>1. t <= current /\ todo' = Setup!LimitOrder(t, current)
    BY <1>3 DEF Setup!Upward, Setup!Directed
  <2> QED
    BY <2>1, SetupPendingOrder
<1>4. CASE ~Setup!Upward(t, current) /\ ~(t > high)
  BY <1>4 DEF Setup!Upward, Setup!Directed, SetupPending, Setup!limits
<1> QED
  BY <1>1, <1>2, <1>3, <1>4

\* A scene has legs, with targets the supply can reach.
LEMMA SetupLegsAre ==
  ASSUME SetupSupply
  PROVE  /\ Setup!Plan.conditions \in Nat \ {0} /\ Len(Setup!Legs) \in Nat /\ Len(Setup!Legs) >= 2
         /\ \A l \in 1 .. Len(Setup!Legs) : Setup!Legs[l][1] \in Setup!Fields
<1>1. /\ scene.plan.conditions \in Nat \ {0} /\ Len(scene.plan.legs) \in Nat /\ Len(scene.plan.legs) >= 2
      /\ \A l \in 1 .. Len(scene.plan.legs) : scene.plan.legs[l][1] \in -Envelope .. Envelope
  BY SetupAssumption DEF SetupSupply
<1>2. -Envelope .. Envelope \subseteq Setup!Fields
  BY SetupAssumption DEF Setup!Fields
<1> QED
  BY <1>1, <1>2 DEF Setup!Plan, Setup!Legs

\* A reading that is not before the last one can be appended in order.
LEMMA SetupAppendSorted ==
  ASSUME NEW S, NEW s \in Seq(S), NEW q \in S,
         \A i \in 1 .. Len(s) - 1 : Setup!Order(s[i], s[i + 1]),
         s # <<>> => Setup!Order(s[Len(s)], q)
  PROVE  /\ Append(s, q) \in Seq(S) /\ Append(s, q) # <<>> /\ Append(s, q)[Len(Append(s, q))] = q
         /\ \A i \in 1 .. Len(Append(s, q)) - 1 : Setup!Order(Append(s, q)[i], Append(s, q)[i + 1])
         /\ Len(Append(s, q)) \in DOMAIN Append(s, q)
         /\ \A i \in DOMAIN s : i \in DOMAIN Append(s, q) /\ Append(s, q)[i] = s[i]
<1> DEFINE t == Append(s, q)
<1>1. /\ t \in Seq(S) /\ Len(t) = Len(s) + 1 /\ t[Len(s) + 1] = q /\ Len(s) \in Nat
      /\ \A i \in 1 .. Len(s) : t[i] = s[i]
  BY AppendProperties, LenProperties
<1>2. ASSUME NEW i \in 1 .. Len(t) - 1 PROVE Setup!Order(t[i], t[i + 1])
  <2>1. CASE i = Len(s)
    <3>1. s # <<>> /\ t[i] = s[Len(s)] /\ t[i + 1] = q
      BY <1>1, <1>2, <2>1, EmptySeq
    <3> QED
      BY <3>1
  <2>2. CASE i # Len(s)
    <3>1. i \in 1 .. Len(s) - 1 /\ t[i] = s[i] /\ t[i + 1] = s[i + 1]
      BY <1>1, <1>2, <2>2
    <3> QED
      BY <3>1
  <2> QED
    BY <2>1, <2>2
<1>3. t # <<>> /\ DOMAIN t = 1 .. Len(t) /\ DOMAIN s = 1 .. Len(s)
  BY <1>1, LenProperties
<1>4. Len(t) \in DOMAIN t /\ \A i \in DOMAIN s : i \in DOMAIN t /\ t[i] = s[i]
  BY <1>1, <1>3
<1> QED
  BY <1>1, <1>2, <1>3, <1>4

\* So can one that is taken twice.
LEMMA SetupAppendTwice ==
  ASSUME NEW S, NEW s \in Seq(S), NEW q \in S, NEW t, t = Append(Append(s, q), q), Setup!Order(q, q),
         \A i \in 1 .. Len(s) - 1 : Setup!Order(s[i], s[i + 1]),
         s # <<>> => Setup!Order(s[Len(s)], q)
  PROVE  /\ t \in Seq(S) /\ t # <<>> /\ t[Len(t)] = q
         /\ \A i \in 1 .. Len(t) - 1 : Setup!Order(t[i], t[i + 1])
         /\ Len(t) \in DOMAIN t
         /\ \A i \in DOMAIN s : i \in DOMAIN t /\ t[i] = s[i]
<1> DEFINE u == Append(s, q)
<1>1. /\ u \in Seq(S) /\ u[Len(u)] = q
      /\ \A i \in 1 .. Len(u) - 1 : Setup!Order(u[i], u[i + 1])
      /\ \A i \in DOMAIN s : i \in DOMAIN u /\ u[i] = s[i]
  BY SetupAppendSorted
<1>2. t = Append(u, q)
  OBVIOUS
<1> HIDE DEF u
<1>3. /\ t \in Seq(S) /\ t # <<>> /\ t[Len(t)] = q
      /\ \A i \in 1 .. Len(t) - 1 : Setup!Order(t[i], t[i + 1])
      /\ Len(t) \in DOMAIN t
      /\ \A i \in DOMAIN u : i \in DOMAIN t /\ t[i] = u[i]
  <2>1. Setup!Order(u[Len(u)], q)
    BY <1>1
  <2> QED
    BY <1>1, <1>2, <2>1, SetupAppendSorted
<1> QED
  BY <1>1, <1>3

\* The order looks at the condition and the leg only.
LEMMA SetupOrderSame == ASSUME NEW a, NEW b, NEW c, NEW d, b.condition = d.condition, b.leg = d.leg, a = c
  PROVE Setup!Order(a, b) <=> Setup!Order(c, d)
  BY DEF Setup!Order

\* A reading belongs to the leg under way.
LEMMA SetupReadingMakes ==
  ASSUME SetupLog, NEW f \in Setup!Fields
  PROVE  /\ Setup!Reading(f) \in SetupReadings /\ Setup!Reading(f).condition = at[1]
            /\ Setup!Reading(f).leg = at[2] /\ Setup!Reading(f).field = f
         /\ at[1] \in 1 .. Setup!Plan.conditions /\ at[2] \in 1 .. Len(Setup!Legs) /\ at = <<at[1], at[2]>>
<1>1. at[1] \in 1 .. Setup!Plan.conditions /\ at[2] \in 1 .. Len(Setup!Legs) /\ at = <<at[1], at[2]>>
  BY DEF SetupLog
<1> QED
  BY <1>1 DEF Setup!Reading, SetupReadings

\* Recording keeps what is done, and does the leg when its goal is read.
LEMMA SetupRecordGrows ==
  ASSUME SetupLog, SetupSorted, SetupBehind, NEW f \in Setup!Fields, scene' = scene,
         \/ records' = Append(records, Setup!Reading(f))
         \/ records' = Append(Append(records, Setup!Reading(f)), Setup!Reading(f))
  PROVE  /\ records' \in Seq(SetupReadings) /\ SetupSorted' /\ records' # <<>>
            /\ records'[Len(records')] = Setup!Reading(f)
         /\ \A c \in 1 .. Setup!Plan.conditions, l \in 1 .. Len(Setup!Legs) : SetupDone(c, l)
            => SetupDone(c, l)'
         /\ \A c \in 1 .. Setup!Plan.conditions, l \in 1 .. Len(Setup!Legs) : c = at[1] /\ l = at[2]
            /\ f = Setup!Goal(c, l) => SetupDone(c, l)'
<1> DEFINE q == Setup!Reading(f)
<1>1. /\ q \in SetupReadings /\ q.condition = at[1] /\ q.leg = at[2] /\ q.field = f
      /\ q = [condition |-> at[1], leg |-> at[2], field |-> f]
  BY SetupReadingMakes DEF Setup!Reading
<1>2. records # <<>> => Setup!Order(records[Len(records)], q)
  BY <1>1 DEF SetupBehind, Setup!Order
<1>3. /\ records' \in Seq(SetupReadings) /\ records' # <<>> /\ records'[Len(records')] = q
      /\ \A i \in 1 .. Len(records') - 1 : Setup!Order(records'[i], records'[i + 1])
      /\ Len(records') \in DOMAIN records'
      /\ \A i \in DOMAIN records : i \in DOMAIN records' /\ records'[i] = records[i]
  <2>1. records \in Seq(SetupReadings)
        /\ \A i \in 1 .. Len(records) - 1 : Setup!Order(records[i], records[i + 1])
    BY DEF SetupLog, SetupSorted
  <2>2. q \in SetupReadings
    BY <1>1
  <2>3. Setup!Order(q, q)
    BY <1>1, SetupReadingMakes DEF Setup!Order
  <2>4. records' = Append(records, q) \/ records' = Append(Append(records, q), q)
    OBVIOUS
  <2> HIDE DEF q
  <2>5. CASE records' = Append(records, q)
    BY <1>2, <2>1, <2>2, <2>5, SetupAppendSorted
  <2>6. CASE records' = Append(Append(records, q), q)
    BY <1>2, <2>1, <2>2, <2>3, <2>6, SetupAppendTwice
  <2> QED
    BY <2>4, <2>5, <2>6
<1>4. SetupSorted'
  BY <1>3 DEF SetupSorted
<1>5. ASSUME NEW c \in 1 .. Setup!Plan.conditions, NEW l \in 1 .. Len(Setup!Legs), SetupDone(c, l)
             PROVE SetupDone(c, l)'
  BY <1>3, <1>5 DEF SetupDone, Setup!Goal, Setup!Legs, Setup!Plan
<1>6. ASSUME NEW c \in 1 .. Setup!Plan.conditions, NEW l \in 1 .. Len(Setup!Legs), c = at[1], l = at[2],
             f = Setup!Goal(c, l) PROVE SetupDone(c, l)'
  BY <1>1, <1>3, <1>6 DEF SetupDone, Setup!Goal, Setup!Legs, Setup!Plan
<1> QED
  BY <1>1, <1>3, <1>4, <1>5, <1>6

\* The rates are read.
LEMMA SetupCaptureStep == ASSUME SetupInv, Setup!Capture PROVE SetupInv'
<1>a. /\ UNCHANGED <<scene, Setup!supply, work, targets>>
         /\ UNCHANGED <<started, at, records, persistent, unpaused>>
      /\ raised' = raised \/ raised' = TRUE
  BY SetupRaiseMakes DEF Setup!Capture, SetupRaised, Setup!Steady, Setup!runner
<1>b. captured.rates \in {<<>>} \cup Setup!RateTables
      /\ captured.limits \in {<<>>} \cup (Setup!Fields \X Setup!Fields)
  BY DEF SetupInv, SetupKept
<1>c. \/ /\ captured'.rates = rate /\ captured'.limits = captured.limits /\ pc' # pc
            /\ pc' \in {"limitsRead", "rates", "remote"}
         /\ UNCHANGED <<outcome, todo, failures, status, raised, trouble>> /\ turn' = 1
         /\ pc' = (IF pc = "start" THEN "limitsRead" ELSE IF work = "run" THEN "rates" ELSE "remote")
      \/ captured' = captured /\ SetupRaised
  BY SetupRaiseMakes DEF SetupInv, SetupKept, Setup!Capture, Setup!Goto, Setup!Fine, Setup!runner
<1>1. SetupSupply'
  BY SetupRaiseMakes, SetupAssumption, SMTT(30) DEF SetupInv, Setup!Capture, SetupRaised, Setup!Fine,
     Setup!Trouble, Setup!Goto, Setup!Over, Setup!Steady, Setup!supply, Setup!limits, Setup!kept,
     Setup!runner, SetupPlaces, SetupRunPlaces, Setup!Fields, Setup!RateTables, SetupKept, SetupSteps,
     SetupSupply
<1>2. SetupSwitches'
  BY <1>a DEF SetupInv, SetupSwitches, Setup!supply
<1>3. SetupSteps'
  BY SetupRaiseMakes DEF SetupInv, Setup!Capture, SetupRaised, Setup!Goto, Setup!Steady, Setup!runner,
     SetupPlaces, SetupSteps
<1>4. SetupKept'
  BY DEF SetupInv, Setup!Capture, SetupKept, SetupSupply
<1>5. SetupLog'
  BY SetupRaiseMakes DEF SetupInv, Setup!Capture, SetupRaised, Setup!Steady, Setup!runner, SetupReadings,
     Setup!Plan, Setup!Legs, SetupLog
<1>6. SetupRoles'
  BY SetupRaiseMakes DEF SetupInv, Setup!Capture, SetupRaised, Setup!Goto, Setup!Steady, SetupRunPlaces,
     SetupRoles
<1>7. SetupWriting'
  BY SetupRaiseMakes DEF SetupInv, Setup!Capture, SetupRaised, Setup!Goto, SetupWriting
<1>8. SetupCapturing'
  <2>1. CASE captured' = captured /\ SetupRaised
    BY <1>a, <2>1 DEF Setup!Capture, SetupInv, SetupCapturing, SetupRaised, SetupRoles, Setup!supply,
       Setup!limits
  <2>2. CASE pc' \in {"limitsRead", "rates", "remote"} /\ captured'.rates = rate
             /\ captured'.limits = captured.limits
    <3>1. rate # <<>> /\ Setup!limits # <<>>
      BY SetupAssumption DEF SetupInv, SetupSupply, Setup!RateTables, Setup!Ranges, Setup!limits
    <3> QED
      BY <1>a, <1>c, <2>2, <3>1 DEF Setup!Capture, SetupInv, SetupCapturing, SetupRaised, SetupRoles,
         Setup!supply, Setup!limits
  <2> QED
    BY <1>c, <2>1, <2>2
<1>9. SetupProgramming'
  BY SetupRaiseMakes DEF Setup!Capture, SetupRaised, Setup!Goto, SetupProgramming
<1>10. SetupRestoring'
  BY SetupRaiseMakes DEF SetupInv, Setup!Capture, SetupRaised, Setup!Goto, SetupRatesBack, SetupLimitsBack,
     SetupCapturing, SetupRestoring
<1>11. SetupBlaming'
  BY DEF SetupInv, Setup!Capture, Setup!Fine, Setup!Trouble, Setup!Goto, Setup!Steady, Setup!runner,
     SetupBlame, Setup!Restorable, Setup!Asked, SetupBlaming, SetupKept, SetupSupply
<1>12. SetupRunning'
  BY SetupRaiseMakes DEF SetupInv, Setup!Capture, SetupRaised, Setup!Goto, Setup!Steady, Setup!runner,
     SetupRunning
<1>13. SetupRecording'
  BY SetupRaiseMakes, SetupRecordsKept, SetupAssumption, SMTT(30) DEF SetupInv, Setup!Capture, SetupRaised,
     Setup!Fine, Setup!Trouble, Setup!Goto, Setup!Over, Setup!Steady, Setup!supply, Setup!limits,
     Setup!kept, Setup!runner, SetupPlaces, SetupRunPlaces, Setup!Plan, Setup!Legs, Setup!Goal, SetupLog,
     SetupRecording, SetupRoles, SetupRunning, SetupSteps, SetupSupply
<1>. QED BY <1>1, <1>2, <1>3, <1>4, <1>5, <1>6, <1>7, <1>8, <1>9, <1>10, <1>11, <1>12, <1>13 DEF SetupInv

\* The limits are read.
LEMMA SetupCaptureLimitsStep == ASSUME SetupInv, Setup!CaptureLimits PROVE SetupInv'
<1>a. /\ UNCHANGED <<scene, Setup!supply, work, targets>>
         /\ UNCHANGED <<started, at, records, persistent, unpaused>>
      /\ raised' = raised \/ raised' = TRUE
  BY SetupRaiseMakes DEF Setup!CaptureLimits, SetupRaised, Setup!Steady, Setup!runner
<1>b. captured.rates \in {<<>>} \cup Setup!RateTables
      /\ captured.limits \in {<<>>} \cup (Setup!Fields \X Setup!Fields)
  BY DEF SetupInv, SetupKept
<1>c. \/ /\ captured'.limits = Setup!limits /\ captured'.rates = captured.rates /\ pc' # pc
            /\ pc' \in {"limitsRead", "rates", "remote"}
         /\ UNCHANGED <<outcome, todo, failures, status, raised, trouble>> /\ turn' = 1
         /\ pc' = (IF pc = "start" THEN "limitsRead" ELSE IF work = "run" THEN "rates" ELSE "remote")
      \/ captured' = captured /\ SetupRaised
  BY SetupRaiseMakes DEF SetupInv, SetupKept, Setup!CaptureLimits, Setup!Goto, Setup!Fine, Setup!runner
<1>1. SetupSupply'
  BY SetupRaiseMakes, SetupAssumption, SMTT(30) DEF SetupInv, Setup!CaptureLimits, SetupRaised, Setup!Fine,
     Setup!Trouble, Setup!Goto, Setup!Over, Setup!Steady, Setup!supply, Setup!limits, Setup!kept,
     Setup!runner, SetupPlaces, SetupRunPlaces, Setup!Fields, Setup!RateTables, SetupKept, SetupSteps,
     SetupSupply
<1>2. SetupSwitches'
  BY <1>a DEF SetupInv, SetupSwitches, Setup!supply
<1>3. SetupSteps'
  BY SetupRaiseMakes DEF SetupInv, Setup!CaptureLimits, SetupRaised, Setup!Goto, Setup!Steady, Setup!runner,
     SetupPlaces, SetupSteps
<1>4. SetupKept'
  BY DEF SetupInv, Setup!CaptureLimits, Setup!limits, SetupKept, SetupSupply
<1>5. SetupLog'
  BY SetupRaiseMakes DEF SetupInv, Setup!CaptureLimits, SetupRaised, Setup!Steady, Setup!runner,
     SetupReadings, Setup!Plan, Setup!Legs, SetupLog
<1>6. SetupRoles'
  BY SetupRaiseMakes DEF SetupInv, Setup!CaptureLimits, SetupRaised, Setup!Goto, Setup!Steady,
     SetupRunPlaces, SetupRoles, SetupSteps
<1>7. SetupWriting'
  BY SetupRaiseMakes DEF SetupInv, Setup!CaptureLimits, SetupRaised, Setup!Goto, SetupWriting
<1>8. SetupCapturing'
  <2>1. CASE captured' = captured /\ SetupRaised
    BY <1>a, <2>1 DEF Setup!CaptureLimits, SetupInv, SetupCapturing, SetupRaised, SetupRoles, Setup!supply,
       Setup!limits
  <2>2. CASE pc' \in {"limitsRead", "rates", "remote"} /\ captured'.limits = Setup!limits
             /\ captured'.rates = captured.rates
    <3>1. rate # <<>> /\ Setup!limits # <<>>
      BY SetupAssumption DEF SetupInv, SetupSupply, Setup!RateTables, Setup!Ranges, Setup!limits
    <3> QED
      BY <1>a, <1>c, <2>2, <3>1 DEF Setup!CaptureLimits, SetupInv, SetupCapturing, SetupRaised, SetupRoles,
         Setup!supply, Setup!limits
  <2> QED
    BY <1>c, <2>1, <2>2
<1>9. SetupProgramming'
  <2>1. 1 \in Setup!Programmed(Envelope) /\ (\A i \in Setup!Ranges : i < 1 => FALSE)
    BY SetupAssumption DEF Setup!Programmed, Setup!Ranges
  <2> QED
    BY <1>a, <1>c, <2>1 DEF Setup!CaptureLimits, SetupInv, SetupSteps, SetupProgramming, SetupRaised,
       SetupRoles, Setup!supply, Setup!Programmed
<1>10. SetupRestoring'
  BY SetupRaiseMakes DEF SetupInv, Setup!CaptureLimits, SetupRaised, Setup!Goto, Setup!Steady, Setup!supply,
     SetupRatesBack, SetupLimitsBack, SetupCapturing, SetupRestoring
<1>11. SetupBlaming'
  BY DEF SetupInv, Setup!CaptureLimits, Setup!Fine, Setup!Trouble, Setup!Goto, Setup!Steady, Setup!runner,
     SetupBlame, Setup!Restorable, Setup!Asked, SetupBlaming, SetupCapturing, SetupSupply
<1>12. SetupRunning'
  BY SetupRaiseMakes DEF SetupInv, Setup!CaptureLimits, SetupRaised, Setup!Goto, Setup!Steady, Setup!runner,
     SetupRunning
<1>13. SetupRecording'
  BY SetupRaiseMakes, SetupRecordsKept, SetupAssumption, SMTT(30) DEF SetupInv, Setup!CaptureLimits,
     SetupRaised, Setup!Fine, Setup!Trouble, Setup!Goto, Setup!Over, Setup!Steady, Setup!supply,
     Setup!limits, Setup!kept, Setup!runner, SetupPlaces, SetupRunPlaces, Setup!Plan, Setup!Legs,
     Setup!Goal, SetupLog, SetupRecording, SetupRoles, SetupRunning, SetupSteps, SetupSupply
<1>. QED BY <1>1, <1>2, <1>3, <1>4, <1>5, <1>6, <1>7, <1>8, <1>9, <1>10, <1>11, <1>12, <1>13 DEF SetupInv

\* The worker takes remote control.
LEMMA SetupTakeRemoteStep == ASSUME SetupInv, Setup!TakeRemote PROVE SetupInv'
<1>a. /\ UNCHANGED <<scene, Setup!supply, work, targets, captured>>
         /\ UNCHANGED <<started, at, records, persistent, unpaused>>
      /\ raised' = raised \/ raised' = TRUE
  BY SetupRaiseMakes DEF Setup!TakeRemote, SetupRaised, Setup!Steady, Setup!runner
<1>b. \/ pc' = "pause" /\ turn' = 1 /\ UNCHANGED <<outcome, todo, failures, status, raised, trouble>>
      \/ SetupRaised
  BY SetupRaiseMakes DEF Setup!TakeRemote, Setup!Goto, Setup!Fine, Setup!runner
<1>1. SetupSupply'
  BY SetupAssumption DEF SetupInv, Setup!TakeRemote, Setup!Fine, Setup!Trouble, Setup!Steady, Setup!supply,
     SetupSupply
<1>2. SetupSwitches'
  BY <1>a DEF SetupInv, SetupSwitches, Setup!supply
<1>3. SetupSteps'
  <2>1. CASE SetupRaised
    BY <1>a, <2>1, SetupRaisedSteps DEF SetupInv
  <2>2. CASE pc' = "pause" /\ turn' = 1 /\ UNCHANGED <<outcome, failures, status>>
    BY <1>a, <2>2 DEF SetupInv, SetupSteps, SetupPlaces
  <2> QED
    BY <1>b, <2>1, <2>2
<1>4. SetupKept'
  BY DEF SetupInv, Setup!TakeRemote, SetupKept
<1>5. SetupLog'
  BY SetupRaiseMakes DEF SetupInv, Setup!TakeRemote, SetupRaised, Setup!Steady, Setup!runner, SetupReadings,
     Setup!Plan, Setup!Legs, SetupLog
<1>6. SetupRoles'
  BY SetupRaiseMakes DEF SetupInv, Setup!TakeRemote, SetupRaised, Setup!Goto, Setup!Steady, SetupRunPlaces,
     SetupRoles
<1>7. SetupWriting'
  BY SetupRaiseMakes DEF SetupInv, Setup!TakeRemote, SetupRaised, Setup!Goto, SetupWriting
<1>8. SetupCapturing'
  BY SetupRaiseMakes DEF SetupInv, Setup!TakeRemote, SetupRaised, Setup!Goto, Setup!Steady, Setup!supply,
     Setup!limits, SetupCapturing
<1>9. SetupProgramming'
  BY SetupRaiseMakes DEF Setup!TakeRemote, SetupRaised, Setup!Goto, SetupProgramming
<1>10. SetupRestoring'
  BY SetupRaiseMakes DEF SetupInv, Setup!TakeRemote, SetupRaised, Setup!Goto, Setup!Steady, Setup!supply,
     Setup!limits, SetupRatesBack, SetupLimitsBack, SetupCapturing, SetupRestoring
<1>11. SetupBlaming'
  BY DEF SetupInv, Setup!TakeRemote, Setup!Fine, Setup!Trouble, Setup!Goto, Setup!Steady, Setup!runner,
     SetupBlame, Setup!Restorable, Setup!Asked, SetupBlaming, SetupSupply
<1>12. SetupRunning'
  BY DEF SetupInv, Setup!TakeRemote, Setup!Steady, SetupRoles, SetupRunning
<1>13. SetupRecording'
  BY DEF SetupInv, Setup!TakeRemote, Setup!Steady, SetupRecording, SetupRoles
<1>. QED BY <1>1, <1>2, <1>3, <1>4, <1>5, <1>6, <1>7, <1>8, <1>9, <1>10, <1>11, <1>12, <1>13 DEF SetupInv

\* The worker pauses a sweep it finds under way.
LEMMA SetupPauseSweepStep == ASSUME SetupInv, Setup!PauseSweep PROVE SetupInv'
<1>a. /\ UNCHANGED <<scene, rate, low, high, field, heater, work, targets, captured>>
      /\ UNCHANGED <<started, at, records, persistent, unpaused>> /\ (raised' = raised \/ raised' = TRUE)
  BY SetupRaiseMakes DEF Setup!PauseSweep, SetupRaised, Setup!runner
<1>b. \/ pc' = "rates" /\ turn' = 1 /\ UNCHANGED <<outcome, todo, failures, status, raised, trouble>>
      \/ SetupRaised
  BY SetupRaiseMakes DEF Setup!PauseSweep, Setup!Goto, Setup!Fine, Setup!runner
<1>d. 1 \in Setup!Programmed(Envelope) /\ 1 \in Setup!Ranges /\ \A i \in Setup!Ranges : ~(i < 1)
  BY SetupAssumption DEF Setup!Programmed, Setup!Ranges
<1>e. pc = "pause"
  BY DEF Setup!PauseSweep
<1>1. SetupSupply'
  BY SetupAssumption DEF SetupInv, Setup!PauseSweep, Setup!Fine, Setup!Trouble, SetupSupply
<1>2. SetupSwitches'
  BY <1>a DEF SetupInv, SetupSwitches
<1>3. SetupSteps'
  <2>1. CASE SetupRaised
    BY <1>a, <2>1, SetupRaisedSteps DEF SetupInv
  <2>2. CASE pc' = "rates" /\ turn' = 1 /\ UNCHANGED <<outcome, failures, status>>
    BY <1>a, <2>2 DEF SetupInv, SetupSteps, SetupPlaces
  <2> QED
    BY <1>b, <2>1, <2>2
<1>4. SetupKept'
  BY DEF SetupInv, Setup!PauseSweep, SetupKept
<1>5. SetupLog'
  BY SetupRaiseMakes DEF SetupInv, Setup!PauseSweep, SetupRaised, Setup!runner, SetupReadings, Setup!Plan,
     Setup!Legs, SetupLog
<1>6. SetupRoles'
  BY SetupRaiseMakes DEF SetupInv, Setup!PauseSweep, SetupRaised, Setup!Goto, SetupRunPlaces, SetupRoles
<1>7. SetupWriting'
  BY SetupRaiseMakes DEF SetupInv, Setup!PauseSweep, SetupRaised, Setup!Goto, SetupWriting
<1>8. SetupCapturing'
  BY SetupRaiseMakes DEF SetupInv, Setup!PauseSweep, SetupRaised, Setup!Goto, SetupCapturing
<1>9. SetupProgramming'
  BY <1>a, <1>b, <1>d, <1>e DEF SetupInv, SetupSteps, SetupProgramming, SetupRaised, SetupRoles,
     Setup!Programmed
<1>10. SetupRestoring'
  BY <1>a, <1>b, <1>d, <1>e DEF SetupInv, SetupSteps, SetupRestoring, SetupRaised, SetupRoles,
     SetupRatesBack, SetupLimitsBack
<1>11. SetupBlaming'
  BY DEF SetupInv, Setup!PauseSweep, Setup!Fine, Setup!Trouble, Setup!Goto, Setup!runner, SetupBlame,
     Setup!Restorable, Setup!Asked, SetupBlaming, SetupSupply
<1>12. SetupRunning'
  BY DEF SetupInv, Setup!PauseSweep, SetupRoles, SetupRunning
<1>13. SetupRecording'
  BY DEF SetupInv, Setup!PauseSweep, SetupRecording, SetupRoles
<1>. QED BY <1>1, <1>2, <1>3, <1>4, <1>5, <1>6, <1>7, <1>8, <1>9, <1>10, <1>11, <1>12, <1>13 DEF SetupInv

\* One range is programmed with the asked rate.
LEMMA SetupRatesStep == ASSUME SetupInv, Setup!Rates PROVE SetupInv'
<1>r. /\ Setup!Ranges = 1 .. Len(Boundary) /\ Len(Boundary) \in Nat \ {0} /\ rate \in Setup!RateTables
         /\ Setup!Asked \in 0 .. MaxRate + 1
      /\ captured.rates \in {<<>>} \cup Setup!RateTables /\ turn \in Int /\ trouble \in 0 .. scene.trouble
         /\ scene.trouble \in Nat
  BY SetupAssumption DEF SetupInv, SetupSupply, SetupKept, SetupSteps, Setup!Ranges, Setup!Asked
<1>p. /\ \A i \in Setup!Programmed(Envelope) : i \in Setup!Ranges /\ i >= 1
      /\ \A i \in Setup!Programmed(Envelope), j \in Setup!Ranges : j <= i => j \in Setup!Programmed(Envelope)
  <2>1. ASSUME NEW i \in Setup!Programmed(Envelope), NEW j \in Setup!Ranges, j <= i, j # 1
               PROVE Boundary[j - 1] <= Envelope
    <3>1. i - 1 \in Setup!Ranges /\ j - 1 \in Setup!Ranges /\ j - 1 <= i - 1 /\ Boundary[i - 1] <= Envelope
      BY <1>r, <2>1 DEF Setup!Programmed
    <3>2. Boundary[j - 1] <= Boundary[i - 1] /\ Boundary[i - 1] \in Int /\ Boundary[j - 1] \in Int
      BY <1>r, <3>1, SetupAssumption, SMTT(30)
    <3> QED
      BY <3>1, <3>2, SetupAssumption
  <2> QED
    BY <1>r, <2>1 DEF Setup!Programmed
<1>a. /\ pc = "rates" /\ Setup!Asked <= MaxRate /\ turn \in Setup!Ranges
      /\ UNCHANGED <<scene, low, high, sweep, field, heater, work, todo, captured, failures, targets,
         Setup!runner, outcome, trouble>>
  BY DEF Setup!Rates, Setup!WriteRate, Setup!Fine, Setup!Goto, SetupInv, SetupProgramming, Setup!Programmed
<1>b. rate' = [rate EXCEPT ![turn] = Setup!Asked] /\ rate' \in Setup!RateTables
  BY <1>r, <1>a DEF Setup!Rates, Setup!WriteRate, Setup!Told, Setup!RateTables
<1>c. IF turn + 1 \in Setup!Programmed(Envelope) THEN turn' = turn + 1 /\ pc' = pc ELSE pc' = "limits"
                                                      /\ turn' = 1
  BY DEF Setup!Rates, Setup!WriteRate, Setup!Goto
<1>1. SetupSupply'
  BY <1>a, <1>b DEF SetupInv, SetupSupply
<1>2. SetupSwitches'
  BY DEF SetupInv, Setup!Rates, Setup!WriteRate, Setup!runner, SetupSwitches
<1>3. SetupSteps'
  BY DEF SetupInv, Setup!Rates, Setup!WriteRate, Setup!Goto, Setup!runner, SetupPlaces, SetupSteps
<1>4. SetupKept'
  BY DEF SetupInv, Setup!Rates, Setup!WriteRate, SetupKept
<1>5. SetupLog'
  BY DEF SetupInv, Setup!Rates, Setup!WriteRate, Setup!runner, SetupReadings, Setup!Plan, Setup!Legs, SetupLog
<1>6. SetupRoles'
  BY DEF SetupInv, Setup!Rates, Setup!WriteRate, Setup!Goto, SetupRunPlaces, SetupRoles
<1>7. SetupWriting'
  BY DEF SetupInv, Setup!Rates, Setup!WriteRate, Setup!Goto, SetupWriting
<1>8. SetupCapturing'
  BY DEF SetupInv, Setup!Rates, Setup!WriteRate, Setup!Goto, SetupCapturing
<1>9. SetupProgramming'
  <2>1. \A i \in Setup!Ranges : i <= turn => rate'[i] = Setup!Asked
    BY <1>r, <1>a, <1>b DEF SetupInv, SetupProgramming, Setup!RateTables
  <2>2. Setup!Asked' = Setup!Asked
    BY <1>a DEF Setup!Asked
  <2>3. CASE turn + 1 \in Setup!Programmed(Envelope)
    BY <1>a, <1>c, <1>r, <1>p, <2>1, <2>2, <2>3 DEF SetupProgramming
  <2>4. CASE turn + 1 \notin Setup!Programmed(Envelope)
    <3>1. \A i \in Setup!Programmed(Envelope) : i <= turn
      BY <1>r, <1>p, <1>a, <2>4
    <3>2. \A i \in Setup!Programmed(Envelope) : rate'[i] = Setup!Asked
      BY <2>1, <3>1, <1>p
    <3> QED
      BY <1>a, <1>c, <2>2, <2>4, <3>2 DEF SetupProgramming
  <2> QED
    BY <2>3, <2>4
<1>10. SetupRestoring'
  BY DEF Setup!Rates, Setup!WriteRate, Setup!Goto, SetupRestoring
<1>11. SetupBlaming'
  BY DEF SetupInv, Setup!Rates, Setup!WriteRate, Setup!Fine, Setup!Goto, Setup!runner, SetupBlame,
     Setup!Restorable, Setup!Asked, SetupBlaming
<1>12. SetupRunning'
  BY DEF SetupInv, Setup!Rates, Setup!WriteRate, Setup!Goto, Setup!runner, SetupRunning
<1>13. SetupRecording'
  BY SetupRaiseMakes, SetupRecordsKept, SetupAssumption, SMTT(30) DEF SetupInv, Setup!Rates,
     Setup!WriteRate, Setup!Told, Setup!Fine, Setup!Trouble, Setup!Goto, Setup!Over, Setup!Steady,
     Setup!supply, Setup!limits, Setup!kept, Setup!runner, SetupPlaces, SetupRunPlaces, Setup!Plan,
     Setup!Legs, Setup!Goal, SetupLog, SetupRecording, SetupRoles, SetupRunning, SetupSteps, SetupSupply
<1>. QED BY <1>1, <1>2, <1>3, <1>4, <1>5, <1>6, <1>7, <1>8, <1>9, <1>10, <1>11, <1>12, <1>13 DEF SetupInv

\* The rate is refused, or the link fails before or after its effect.
LEMMA SetupRatesFailStep == ASSUME SetupInv, Setup!RatesFail PROVE SetupInv'
<1>r. /\ Setup!Ranges = 1 .. Len(Boundary) /\ Len(Boundary) \in Nat \ {0} /\ rate \in Setup!RateTables
         /\ Setup!Asked \in 0 .. MaxRate + 1
      /\ captured.rates \in {<<>>} \cup Setup!RateTables /\ turn \in Int /\ trouble \in 0 .. scene.trouble
         /\ scene.trouble \in Nat
  BY SetupAssumption DEF SetupInv, SetupSupply, SetupKept, SetupSteps, Setup!Ranges, Setup!Asked
<1>a. /\ pc = "rates" /\ UNCHANGED <<scene, low, high, sweep, field, heater, work, targets, captured>>
         /\ SetupRaised
  BY SetupRaiseMakes DEF Setup!RatesFail
<1>b. rate' \in Setup!RateTables /\ (Setup!Trouble \/ (trouble' = trouble /\ Setup!Asked > MaxRate))
  BY <1>r DEF Setup!RatesFail, Setup!RateFails, Setup!Told, Setup!RateTables, Setup!Fine
<1>d. 1 \in Setup!Ranges /\ \A i \in Setup!Ranges : ~(i < 1)
  BY <1>r
<1>1. SetupSupply'
  BY <1>a, <1>b, <1>r DEF SetupInv, SetupSupply, Setup!Trouble
<1>2. SetupSwitches'
  BY <1>a DEF SetupInv, SetupSwitches, SetupRaised
<1>3. SetupSteps'
  BY <1>a, SetupRaisedSteps DEF SetupInv
<1>4. SetupKept'
  BY DEF SetupInv, Setup!RatesFail, SetupKept
<1>5. SetupLog'
  BY SetupRaiseMakes DEF SetupInv, Setup!RatesFail, SetupRaised, SetupReadings, Setup!Plan, Setup!Legs, SetupLog
<1>6. SetupRoles'
  BY SetupRaiseMakes DEF SetupInv, Setup!RatesFail, SetupRaised, SetupRunPlaces, SetupRoles
<1>7. SetupWriting'
  BY SetupRaiseMakes DEF Setup!RatesFail, SetupRaised, SetupWriting
<1>8. SetupCapturing'
  BY SetupRaiseMakes DEF SetupInv, Setup!RatesFail, SetupRaised, SetupCapturing
<1>9. SetupProgramming'
  BY SetupRaiseMakes DEF Setup!RatesFail, SetupRaised, SetupProgramming
<1>10. SetupRestoring'
  BY <1>a, <1>b, <1>d DEF SetupInv, SetupRestoring, SetupRaised, SetupRoles
<1>11. SetupBlaming'
  BY DEF SetupInv, Setup!RatesFail, Setup!RateFails, Setup!Trouble, SetupBlame, Setup!Asked, SetupBlaming,
     SetupSupply
<1>12. SetupRunning'
  BY SetupRaiseMakes DEF SetupInv, Setup!RatesFail, SetupRaised, SetupRunning
<1>13. SetupRecording'
  BY SetupRaiseMakes, SetupRecordsKept DEF SetupInv, Setup!RatesFail, SetupRaised, SetupRecording
<1>. QED BY <1>1, <1>2, <1>3, <1>4, <1>5, <1>6, <1>7, <1>8, <1>9, <1>10, <1>11, <1>12, <1>13 DEF SetupInv

\* The envelope is programmed, one limit after the other.
LEMMA SetupLimitsStep == ASSUME SetupInv, Setup!Limits PROVE SetupInv'
<1>i. /\ low \in Setup!Fields /\ high \in Setup!Fields /\ field \in Setup!Fields /\ low <= high
         /\ Setup!Fields \subseteq Int
  BY SetupAssumption DEF SetupInv, SetupSupply, Setup!Fields
<1>n. -Envelope \in Setup!Fields /\ Envelope \in Setup!Fields /\ -Envelope < Envelope
  BY SetupAssumption DEF Setup!Fields
<1>a. pc = "limits" /\ UNCHANGED <<scene, rate, sweep, field, heater, work, captured, targets>>
  BY DEF Setup!Limits, Setup!SetLimits, Setup!Steady, Setup!supply, Setup!kept
<1>b. \/ /\ turn = 1 /\ turn' = 2 /\ todo' = Setup!LimitOrder(-Envelope, Envelope)
         /\ UNCHANGED <<Setup!limits, pc, failures, outcome, Setup!runner, trouble>>
      \/ turn = 2 /\ Setup!WriteLimit /\ UNCHANGED <<pc, turn, failures, outcome, Setup!runner, trouble>>
      \/ /\ turn = 2 /\ todo = <<>> /\ UNCHANGED <<Setup!limits, todo, failures, Setup!runner, trouble>>
         /\ \/ work = "run" /\ pc' = "files" /\ turn' = 1 /\ outcome' = outcome
            \/ work # "run" /\ pc' = "over" /\ outcome' = "done" /\ turn' = turn
      \/ turn = 2 /\ Setup!LimitFails /\ SetupRaised
  BY SetupRaiseMakes DEF Setup!Limits, Setup!SetLimits, Setup!WriteLimit, Setup!Steady, Setup!supply,
     Setup!kept, Setup!limits, Setup!Goto, Setup!Over, Setup!Fine
<1>c. turn = 2 => SetupPending(-Envelope, Envelope)
  BY <1>a DEF SetupInv, SetupWriting
<1>d. turn = 2 /\ Setup!LimitFails => Setup!Trouble /\ low' \in Setup!Fields /\ high' \in Setup!Fields
      /\ low' <= high'
  BY <1>i, <1>n, <1>c, SetupPendingFails
<1>e. turn = 2 /\ Setup!WriteLimit => SetupPending(-Envelope, Envelope)' /\ low' \in Setup!Fields
      /\ high' \in Setup!Fields /\ low' <= high'
  BY <1>i, <1>n, <1>c, SetupPendingWrite
<1>f. turn = 1 /\ UNCHANGED Setup!limits /\ todo' = Setup!LimitOrder(-Envelope, Envelope)
      => SetupPending(-Envelope, Envelope)'
  BY <1>i, <1>n, SetupPendingOrder
<1>g. UNCHANGED <<started, at, records, persistent, unpaused>> /\ raised' \in {raised, TRUE}
  BY <1>b DEF SetupRaised, Setup!runner
<1>h. todo = <<>> /\ turn = 2 => Setup!limits = <<-Envelope, Envelope>>
  BY <1>c DEF SetupPending, Setup!limits
<1>1. SetupSupply'
  BY <1>a, <1>b, <1>d, <1>e, <1>i, SetupAssumption, SMTT(30) DEF SetupInv, SetupSupply, Setup!Trouble,
     Setup!limits
<1>2. SetupSwitches'
  BY <1>a, <1>g DEF SetupInv, SetupSwitches
<1>3. SetupSteps'
  <2>1. CASE SetupRaised
    BY <1>a, <2>1, SetupRaisedSteps DEF SetupInv
  <2>2. CASE UNCHANGED <<failures, Setup!runner>> /\ pc' \in {pc, "files", "over"}
             /\ outcome' \in {outcome, "done"} /\ turn' \in {turn, 1, 2}
    BY <1>a, <2>2 DEF SetupInv, SetupSteps, SetupPlaces, Setup!runner
  <2> QED
    BY <1>b, <2>1, <2>2
<1>4. SetupKept'
  BY DEF SetupInv, Setup!Limits, Setup!SetLimits, Setup!kept, SetupKept
<1>5. SetupLog'
  BY <1>a, <1>g DEF SetupInv, SetupLog, SetupReadings, Setup!Plan, Setup!Legs, Setup!Fields
<1>6. SetupRoles'
  BY SetupRaiseMakes DEF SetupInv, Setup!Limits, Setup!SetLimits, SetupRaised, Setup!Goto, Setup!Over,
     Setup!Steady, SetupRunPlaces, SetupRoles
<1>7. SetupWriting'
  <2>1. CASE pc' = "limits"
    BY <1>a, <1>b, <1>e, <1>f, <2>1 DEF SetupWriting, SetupRaised
  <2>2. CASE pc' # "limits"
    BY <1>a, <1>b, <2>2 DEF SetupWriting, SetupRaised
  <2> QED
    BY <2>1, <2>2
<1>8. SetupCapturing'
  BY SetupRaiseMakes DEF SetupInv, Setup!Limits, Setup!SetLimits, SetupRaised, Setup!Goto, Setup!Over,
     Setup!kept, SetupCapturing
<1>9. SetupProgramming'
  BY <1>a, <1>b, <1>h DEF SetupInv, SetupProgramming, Setup!Programmed, Setup!Asked, SetupRaised,
     SetupRoles, Setup!limits
<1>10. SetupRestoring'
  <2>1. 1 \in Setup!Ranges /\ \A i \in Setup!Ranges : ~(i < 1)
    BY SetupAssumption DEF Setup!Ranges
  <2> QED
    BY <1>a, <1>b, <1>g, <2>1 DEF SetupInv, SetupRestoring, SetupRaised, SetupRoles
<1>11. SetupBlaming'
  <2>1. CASE Setup!LimitFails /\ turn = 2
    <3>1. SetupBlame'
      BY <1>d, <2>1, SetupAssumption DEF SetupBlame, Setup!Trouble, SetupInv, SetupSupply
    <3> QED
      BY <3>1 DEF SetupBlaming
  <2>2. CASE UNCHANGED <<failures, Setup!runner, trouble>> /\ pc' \in {pc, "files", "over"}
             /\ outcome' \in {outcome, "done"}
    BY <1>a, <2>2 DEF SetupInv, SetupBlaming, SetupBlame, Setup!Asked, Setup!Restorable, Setup!runner
  <2> QED
    BY <1>b, <2>1, <2>2
<1>12. SetupRunning'
  BY SetupRaiseMakes DEF SetupInv, Setup!Limits, Setup!SetLimits, SetupRaised, Setup!Goto, Setup!Steady,
     Setup!runner, SetupRunning
<1>13. SetupRecording'
  BY SetupRaiseMakes, SetupRecordsKept DEF SetupInv, Setup!Limits, Setup!SetLimits, SetupRaised, Setup!Goto,
     Setup!Steady, Setup!runner, SetupRecording
<1>. QED BY <1>1, <1>2, <1>3, <1>4, <1>5, <1>6, <1>7, <1>8, <1>9, <1>10, <1>11, <1>12, <1>13 DEF SetupInv

\* The controller starts a sweep,
LEMMA SetupStartSweepStep == ASSUME NEW t \in -Envelope .. Envelope, SetupInv, Setup!StartSweep(t)
  PROVE SetupInv'
<1>i. /\ low \in Setup!Fields /\ high \in Setup!Fields /\ field \in Setup!Fields /\ low <= high
         /\ Setup!Fields \subseteq Int
  BY SetupAssumption DEF SetupInv, SetupSupply, Setup!Fields
<1>n. -Envelope \in Setup!Fields /\ Envelope \in Setup!Fields /\ -Envelope < Envelope
  BY SetupAssumption DEF Setup!Fields
<1>a. /\ work = "configure" /\ outcome = "done" /\ pc = "over" /\ pc' = "direct"
         /\ todo' = Setup!Directed(t, field)
      /\ UNCHANGED <<low, high, field, rate, work, captured>>
  BY DEF Setup!StartSweep, Setup!kept
<1>b. \E l, h \in Setup!Fields : SetupPending(l, h)'
  <2>1. t \in Setup!Fields /\ UNCHANGED Setup!limits
    BY <1>a, SetupAssumption DEF Setup!Fields, Setup!limits
  <2> QED
    BY <1>a, <1>i, <2>1, SetupPendingDirected
<1>1. SetupSupply'
  BY DEF SetupInv, Setup!StartSweep, SetupSupply
<1>2. SetupSwitches'
  BY DEF SetupInv, Setup!StartSweep, Setup!runner, SetupSwitches
<1>3. SetupSteps'
  BY SetupAssumption DEF SetupInv, Setup!StartSweep, Setup!kept, Setup!runner, SetupPlaces, SetupSteps
<1>4. SetupKept'
  BY DEF SetupInv, Setup!StartSweep, Setup!kept, SetupKept
<1>5. SetupLog'
  BY DEF SetupInv, Setup!StartSweep, Setup!runner, SetupReadings, Setup!Plan, Setup!Legs, SetupLog
<1>6. SetupRoles'
  BY DEF SetupInv, Setup!StartSweep, SetupRunPlaces, SetupRoles, SetupSteps
<1>7. SetupWriting'
  BY <1>a, <1>b DEF SetupWriting
<1>8. SetupCapturing'
  BY <1>a DEF SetupInv, SetupCapturing, SetupRoles
<1>9. SetupProgramming'
  BY DEF SetupInv, Setup!StartSweep, Setup!Asked, SetupProgramming
<1>10. SetupRestoring'
  BY DEF Setup!StartSweep, SetupRestoring
<1>11. SetupBlaming'
  BY DEF SetupInv, Setup!StartSweep, Setup!kept, Setup!runner, SetupBlame, Setup!Restorable, Setup!Asked,
     SetupBlaming
<1>12. SetupRunning'
  BY DEF Setup!StartSweep, SetupRunning
<1>13. SetupRecording'
  BY DEF Setup!StartSweep, SetupRecording
<1>. QED BY <1>1, <1>2, <1>3, <1>4, <1>5, <1>6, <1>7, <1>8, <1>9, <1>10, <1>11, <1>12, <1>13 DEF SetupInv

\* whose limit is written before the supply is told the direction.
LEMMA SetupDirectStep == ASSUME SetupInv, Setup!Direct PROVE SetupInv'
<1>i. /\ low \in Setup!Fields /\ high \in Setup!Fields /\ field \in Setup!Fields /\ low <= high
         /\ Setup!Fields \subseteq Int
  BY SetupAssumption DEF SetupInv, SetupSupply, Setup!Fields
<1>a. /\ pc = "direct"
         /\ UNCHANGED <<scene, rate, field, heater, work, captured, failures, outcome, targets, Setup!runner>>
  BY DEF Setup!Direct, Setup!kept
<1>c. \E l, h \in Setup!Fields : SetupPending(l, h)
  BY <1>a DEF SetupInv, SetupWriting
<1>d. Setup!LimitFails => Setup!Trouble /\ low' \in Setup!Fields /\ high' \in Setup!Fields /\ low' <= high'
  BY <1>i, <1>c, SetupPendingFails
<1>e. Setup!WriteLimit => (\E l, h \in Setup!Fields : SetupPending(l, h)') /\ low' \in Setup!Fields
      /\ high' \in Setup!Fields /\ low' <= high'
  BY <1>i, <1>c, SetupPendingWrite
<1>b. \/ Setup!WriteLimit /\ UNCHANGED <<pc, turn, sweep, trouble>>
      \/ todo' = <<>> /\ pc' = "over" /\ turn' = turn /\ sweep' \in {"up", "down"}
         /\ UNCHANGED <<Setup!limits, trouble>>
      \/ Setup!LimitFails /\ todo' = <<>> /\ pc' = "over" /\ UNCHANGED <<turn, sweep>>
  BY DEF Setup!Direct, Setup!WriteLimit, Setup!Fine
<1>1. SetupSupply'
  <2>1. low' \in Setup!Fields /\ high' \in Setup!Fields /\ low' <= high'
    BY <1>b, <1>d, <1>e, <1>i DEF Setup!limits
  <2>2. trouble' \in 0 .. scene.trouble /\ sweep' \in {"none", "up", "down"}
    BY <1>b, <1>d, SetupAssumption DEF SetupInv, SetupSupply, Setup!Trouble
  <2> QED
    BY <1>a, <2>1, <2>2 DEF SetupInv, SetupSupply
<1>2. SetupSwitches'
  BY DEF SetupInv, Setup!Direct, Setup!runner, SetupSwitches
<1>3. SetupSteps'
  BY DEF SetupInv, Setup!Direct, Setup!kept, Setup!runner, SetupPlaces, SetupSteps
<1>4. SetupKept'
  BY DEF SetupInv, Setup!Direct, Setup!kept, SetupKept
<1>5. SetupLog'
  BY DEF SetupInv, Setup!Direct, Setup!runner, SetupReadings, Setup!Plan, Setup!Legs, SetupLog
<1>6. SetupRoles'
  BY DEF SetupInv, Setup!Direct, SetupRunPlaces, SetupRoles
<1>7. SetupWriting'
  BY <1>a, <1>b, <1>e DEF SetupWriting
<1>8. SetupCapturing'
  BY <1>a, <1>b DEF SetupInv, SetupCapturing, SetupRoles
<1>9. SetupProgramming'
  BY DEF SetupInv, Setup!Direct, Setup!Asked, SetupProgramming, SetupRoles
<1>10. SetupRestoring'
  BY SetupRaiseMakes, SetupAssumption, SMTT(30) DEF SetupInv, Setup!Direct, Setup!WriteLimit,
     Setup!LimitFails, Setup!Limit, Setup!Crosses, Setup!Fine, Setup!Trouble, Setup!Goto, Setup!Over,
     Setup!Steady, Setup!supply, Setup!limits, Setup!kept, Setup!runner, SetupPlaces, SetupRunPlaces,
     SetupRatesBack, SetupLimitsBack, Setup!BackTo, SetupPending, Setup!RateTables, SetupCapturing,
     SetupKept, SetupRestoring, SetupRoles, SetupSteps, SetupSupply, SetupWriting
<1>11. SetupBlaming'
  BY SetupRaiseMakes, SetupAssumption, SMTT(30) DEF SetupInv, Setup!Direct, Setup!WriteLimit,
     Setup!LimitFails, Setup!Limit, Setup!Crosses, Setup!Fine, Setup!Trouble, Setup!Goto, Setup!Over,
     Setup!Steady, Setup!supply, Setup!limits, Setup!kept, Setup!runner, SetupPlaces, SetupRunPlaces,
     SetupBlame, Setup!Restorable, Setup!Asked, SetupBlaming, SetupCapturing, SetupKept, SetupRestoring,
     SetupRoles, SetupSteps, SetupSupply, SetupSwitches, SetupWriting
<1>12. SetupRunning'
  BY DEF SetupInv, Setup!Direct, SetupRoles, SetupRunning
<1>13. SetupRecording'
  BY DEF SetupInv, Setup!Direct, SetupRecording, SetupRoles
<1>. QED BY <1>1, <1>2, <1>3, <1>4, <1>5, <1>6, <1>7, <1>8, <1>9, <1>10, <1>11, <1>12, <1>13 DEF SetupInv

\* The supply moves the field.
LEMMA SetupRampStep == ASSUME SetupInv, Setup!Ramp PROVE SetupInv'
<1>1. SetupSupply'
  BY SetupRaiseMakes, SetupAssumption DEF SetupInv, Setup!Ramp, Setup!Fields, SetupSupply
<1>2. SetupSwitches'
  BY DEF SetupInv, Setup!Ramp, Setup!runner, SetupSwitches
<1>3. SetupSteps'
  BY DEF SetupInv, Setup!Ramp, Setup!kept, Setup!runner, SetupSteps
<1>4. SetupKept'
  BY DEF SetupInv, Setup!Ramp, Setup!kept, SetupKept
<1>5. SetupLog'
  BY DEF SetupInv, Setup!Ramp, Setup!runner, SetupReadings, Setup!Plan, Setup!Legs, SetupLog
<1>6. SetupRoles'
  BY DEF SetupInv, Setup!Ramp, SetupRoles
<1>7. SetupWriting'
  BY DEF SetupInv, Setup!Ramp, SetupWriting
<1>8. SetupCapturing'
  BY DEF SetupInv, Setup!Ramp, Setup!kept, SetupCapturing
<1>9. SetupProgramming'
  BY DEF SetupInv, Setup!Ramp, Setup!limits, Setup!Asked, SetupProgramming
<1>10. SetupRestoring'
  BY DEF SetupInv, Setup!Ramp, Setup!limits, Setup!kept, Setup!runner, SetupRatesBack, SetupLimitsBack,
     SetupRestoring
<1>11. SetupBlaming'
  BY DEF SetupInv, Setup!Ramp, Setup!kept, Setup!runner, SetupBlame, Setup!Restorable, Setup!Asked, SetupBlaming
<1>12. SetupRunning'
  BY DEF SetupInv, Setup!Ramp, Setup!runner, SetupRunning
<1>13. SetupRecording'
  BY SetupRecordsKept DEF SetupInv, Setup!Ramp, Setup!runner, SetupRecording
<1>. QED BY <1>1, <1>2, <1>3, <1>4, <1>5, <1>6, <1>7, <1>8, <1>9, <1>10, <1>11, <1>12, <1>13 DEF SetupInv

\* The controller begins to put back.
LEMMA SetupBeginRestoreStep == ASSUME SetupInv, Setup!BeginRestore PROVE SetupInv'
<1>a. /\ work = "configure" /\ outcome = "done" /\ pc = "over" /\ work' = "restore" /\ pc' = "backRates"
         /\ turn' = 1 /\ outcome' = "none"
      /\ UNCHANGED <<rate, low, high, captured, failures, unpaused>>
  BY DEF Setup!BeginRestore, Setup!kept, Setup!runner
<1>d. 1 \in Setup!Ranges /\ \A i \in Setup!Ranges : ~(i < 1)
  BY SetupAssumption DEF Setup!Ranges
<1>1. SetupSupply'
  BY DEF SetupInv, Setup!BeginRestore, SetupSupply
<1>2. SetupSwitches'
  BY DEF SetupInv, Setup!BeginRestore, Setup!runner, SetupSwitches
<1>3. SetupSteps'
  BY DEF SetupInv, Setup!BeginRestore, Setup!kept, Setup!runner, SetupPlaces, SetupSteps
<1>4. SetupKept'
  BY DEF SetupInv, Setup!BeginRestore, Setup!kept, SetupKept
<1>5. SetupLog'
  BY DEF SetupInv, Setup!BeginRestore, Setup!runner, SetupReadings, Setup!Plan, Setup!Legs, SetupLog
<1>6. SetupRoles'
  BY DEF SetupInv, Setup!BeginRestore, SetupRunPlaces, SetupRoles
<1>7. SetupWriting'
  BY DEF SetupInv, Setup!BeginRestore, SetupWriting
<1>8. SetupCapturing'
  BY <1>a DEF SetupInv, SetupCapturing
<1>9. SetupProgramming'
  BY DEF Setup!BeginRestore, SetupProgramming
<1>10. SetupRestoring'
  BY <1>a, <1>d DEF SetupRestoring
<1>11. SetupBlaming'
  BY DEF SetupInv, Setup!BeginRestore, Setup!kept, Setup!runner, SetupBlame, Setup!Restorable, Setup!Asked,
     SetupBlaming
<1>12. SetupRunning'
  BY DEF Setup!BeginRestore, SetupRunning
<1>13. SetupRecording'
  BY DEF Setup!BeginRestore, SetupRecording
<1>. QED BY <1>1, <1>2, <1>3, <1>4, <1>5, <1>6, <1>7, <1>8, <1>9, <1>10, <1>11, <1>12, <1>13 DEF SetupInv

\* One range is put back, or missed and named.
LEMMA SetupBackRatesStep == ASSUME SetupInv, Setup!BackRates PROVE SetupInv'
<1>r. /\ Setup!Ranges = 1 .. Len(Boundary) /\ Len(Boundary) \in Nat \ {0} /\ rate \in Setup!RateTables
         /\ Setup!Asked \in 0 .. MaxRate + 1
      /\ captured.rates \in {<<>>} \cup Setup!RateTables /\ turn \in Int /\ trouble \in 0 .. scene.trouble
         /\ scene.trouble \in Nat
  BY SetupAssumption DEF SetupInv, SetupSupply, SetupKept, SetupSteps, Setup!Ranges, Setup!Asked
<1>a. /\ pc = "backRates" /\ turn \in Setup!Ranges /\ captured.rates \in Setup!RateTables
      /\ UNCHANGED <<scene, low, high, sweep, field, heater, work, captured, targets, Setup!runner, outcome>>
  BY <1>r DEF Setup!BackRates, Setup!WriteRate, Setup!Missed, Setup!Goto, SetupInv, SetupRestoring,
     SetupCapturing
<1>b. /\ rate' \in Setup!RateTables
      /\ rate' = [rate EXCEPT ![turn] = captured.rates[turn]] \/ rate' = rate
  BY <1>r, <1>a DEF Setup!BackRates, Setup!WriteRate, Setup!RateFails, Setup!Told, Setup!RateTables
<1>c. \/ /\ rate' = [rate EXCEPT ![turn] = captured.rates[turn]] /\ UNCHANGED <<todo, failures, trouble>>
         /\ IF turn + 1 \in Setup!Ranges THEN turn' = turn + 1 /\ pc' = pc
            ELSE turn' = 1 /\ pc' = (IF captured.limits # <<>> THEN "backLimits" ELSE "close")
      \/ /\ Setup!Trouble /\ failures' = failures \cup {"rates"} /\ todo' = <<>> /\ turn' = 1
         /\ pc' = (IF captured.limits # <<>> THEN "backLimits" ELSE "close")
  BY DEF Setup!BackRates, Setup!WriteRate, Setup!RateFails, Setup!Told, Setup!Missed, Setup!Goto, Setup!Fine
<1>1. SetupSupply'
  <2>1. trouble' \in 0 .. scene.trouble
    BY <1>r, <1>c DEF Setup!Trouble
  <2> QED
    BY <1>a, <1>b, <2>1 DEF SetupInv, SetupSupply
<1>2. SetupSwitches'
  BY DEF SetupInv, Setup!BackRates, Setup!WriteRate, Setup!Missed, Setup!runner, SetupSwitches
<1>3. SetupSteps'
  <2>1. failures' \in {failures, failures \cup {"rates"}}
    BY <1>a, <1>c, <1>r
  <2>2. pc' \in SetupPlaces /\ turn' \in Int
    BY <1>a, <1>c, <1>r DEF SetupPlaces, SetupInv, SetupSteps
  <2> QED
    BY <1>a, <2>1, <2>2 DEF SetupInv, SetupSteps, Setup!runner
<1>4. SetupKept'
  BY DEF SetupInv, Setup!BackRates, Setup!WriteRate, SetupKept
<1>5. SetupLog'
  BY <1>a DEF SetupInv, SetupLog, SetupReadings, Setup!Plan, Setup!Legs, Setup!runner
<1>6. SetupRoles'
  BY DEF SetupInv, Setup!BackRates, Setup!WriteRate, Setup!Missed, Setup!Goto, SetupRunPlaces, SetupRoles
<1>7. SetupWriting'
  BY DEF SetupInv, Setup!BackRates, Setup!WriteRate, Setup!Missed, Setup!Goto, SetupWriting
<1>8. SetupCapturing'
  BY DEF SetupInv, Setup!BackRates, Setup!WriteRate, Setup!Missed, Setup!Goto, SetupCapturing
<1>9. SetupProgramming'
  BY DEF Setup!BackRates, Setup!WriteRate, Setup!Missed, Setup!Goto, SetupProgramming
<1>10. SetupRestoring'
  <2>1. CASE failures' = failures \cup {"rates"} /\ turn' = 1 /\ pc' \in {"backLimits", "close"}
             /\ (pc' = "close" => captured.limits = <<>>)
    BY <1>a, <2>1 DEF SetupRestoring, SetupRatesBack, SetupLimitsBack
  <2>2. CASE rate' = [rate EXCEPT ![turn] = captured.rates[turn]]
    <3>1. \A i \in Setup!Ranges : i <= turn => rate'[i] = captured.rates[i]
      BY <1>r, <1>a, <2>2 DEF SetupInv, SetupRestoring, Setup!RateTables
    <3>2. ASSUME turn + 1 \notin Setup!Ranges PROVE rate' = captured.rates
      <4>1. \A i \in Setup!Ranges : i <= turn
        BY <1>r, <1>a, <3>2
      <4>2. \A i \in Setup!Ranges : rate'[i] = captured.rates[i]
        BY <3>1, <4>1
      <4> QED
        BY <1>a, <1>b, <4>2 DEF Setup!RateTables
    <3> QED
      BY <1>r, <1>a, <1>c, <3>1, <3>2 DEF SetupRestoring, SetupRatesBack, SetupLimitsBack
  <2> QED
    BY <1>c, <2>1, <2>2
<1>11. SetupBlaming'
  BY DEF SetupInv, Setup!BackRates, Setup!WriteRate, Setup!RateFails, Setup!Fine, Setup!Trouble, Setup!Goto,
     Setup!runner, SetupBlame, Setup!Restorable, Setup!Asked, SetupBlaming, SetupSupply
<1>12. SetupRunning'
  BY DEF SetupInv, Setup!BackRates, Setup!WriteRate, Setup!Missed, Setup!Goto, Setup!runner, SetupRunning
<1>13. SetupRecording'
  BY SetupRaiseMakes, SetupRecordsKept, SetupAssumption, SMTT(30) DEF SetupInv, Setup!BackRates,
     Setup!WriteRate, Setup!Told, Setup!RateFails, Setup!Missed, Setup!Fine, Setup!Trouble, Setup!Goto,
     Setup!Over, Setup!Steady, Setup!supply, Setup!limits, Setup!kept, Setup!runner, SetupPlaces,
     SetupRunPlaces, Setup!Plan, Setup!Legs, Setup!Goal, SetupLog, SetupRecording, SetupRoles, SetupRunning,
     SetupSteps, SetupSupply
<1>. QED BY <1>1, <1>2, <1>3, <1>4, <1>5, <1>6, <1>7, <1>8, <1>9, <1>10, <1>11, <1>12, <1>13 DEF SetupInv

\* The limits are put back, or missed and named.
LEMMA SetupBackLimitsStep == ASSUME SetupInv, Setup!BackLimits PROVE SetupInv'
<1>i. /\ low \in Setup!Fields /\ high \in Setup!Fields /\ field \in Setup!Fields /\ low <= high
         /\ Setup!Fields \subseteq Int
  BY SetupAssumption DEF SetupInv, SetupSupply, Setup!Fields
<1>n. /\ captured.limits \in Setup!Fields \X Setup!Fields /\ captured.limits[1] \in Setup!Fields
         /\ captured.limits[2] \in Setup!Fields
      /\ captured.limits = <<captured.limits[1], captured.limits[2]>>
  BY DEF SetupInv, SetupKept, SetupCapturing, Setup!BackLimits
<1>a. pc = "backLimits"
      /\ UNCHANGED <<scene, rate, sweep, field, heater, work, captured, targets, outcome, Setup!runner>>
  BY DEF Setup!BackLimits, Setup!SetLimits, Setup!Steady, Setup!supply, Setup!kept, Setup!Missed, Setup!Goto
<1>b. \/ /\ turn = 1 /\ turn' = 2 /\ todo' = Setup!LimitOrder(captured.limits[1], captured.limits[2])
            /\ captured.limits[1] < captured.limits[2]
         /\ UNCHANGED <<Setup!limits, pc, failures, trouble>>
      \/ turn = 2 /\ Setup!WriteLimit /\ UNCHANGED <<pc, turn, failures, trouble>>
      \/ turn = 2 /\ todo = <<>> /\ UNCHANGED <<Setup!limits, todo, failures, trouble>> /\ pc' = "close"
         /\ turn' = 1
      \/ /\ \/ turn = 2 /\ Setup!LimitFails
            \/ turn # 2 /\ ~Setup!Settable(captured.limits[1], captured.limits[2])
               /\ UNCHANGED <<Setup!limits, trouble>>
         /\ failures' = failures \cup {"limits"} /\ todo' = <<>> /\ pc' = "close" /\ turn' = 1
  BY DEF Setup!BackLimits, Setup!SetLimits, Setup!Settable, Setup!WriteLimit, Setup!Missed, Setup!Steady,
     Setup!supply, Setup!kept, Setup!limits, Setup!Goto, Setup!Fine
<1>c. turn = 2 => SetupPending(captured.limits[1], captured.limits[2])
  BY <1>a DEF SetupInv, SetupWriting
<1>d. turn = 2 /\ Setup!LimitFails => Setup!Trouble /\ low' \in Setup!Fields /\ high' \in Setup!Fields
      /\ low' <= high'
  BY <1>i, <1>n, <1>c, SetupPendingFails
<1>e. turn = 2 /\ Setup!WriteLimit => SetupPending(captured.limits[1], captured.limits[2])'
      /\ low' \in Setup!Fields /\ high' \in Setup!Fields /\ low' <= high'
  <2>1. turn = 2 /\ Setup!WriteLimit
        => (\E l, h \in Setup!Fields : l = captured.limits[1] /\ h = captured.limits[2]
        /\ SetupPending(l, h)' /\ low' \in Setup!Fields /\ high' \in Setup!Fields /\ low' <= high')
    BY <1>i, <1>n, <1>c, SetupPendingWrite
  <2> QED
    BY <1>a, <2>1 DEF SetupPending
<1>f. turn = 1 /\ UNCHANGED Setup!limits /\ todo' = Setup!LimitOrder(captured.limits[1], captured.limits[2])
      /\ captured.limits[1] < captured.limits[2] => SetupPending(captured.limits[1], captured.limits[2])'
  <2> SUFFICES ASSUME turn = 1, UNCHANGED Setup!limits,
                      todo' = Setup!LimitOrder(captured.limits[1], captured.limits[2]),
                      captured.limits[1] < captured.limits[2]
               PROVE  SetupPending(captured.limits[1], captured.limits[2])'
    OBVIOUS
  <2>1. ASSUME NEW l \in Setup!Fields, NEW h \in Setup!Fields, l = captured.limits[1],
               h = captured.limits[2] PROVE SetupPending(l, h)'
    <3>1. l \in Int /\ h \in Int /\ l < h
      BY <1>i, <2>1
    <3>2. todo' = Setup!LimitOrder(l, h)
      BY <2>1
    <3>3. l <= h
      BY <3>1
    <3> QED
      BY <1>i, <3>2, <3>3, SetupPendingOrder
  <2>2. SetupPending(captured.limits[1], captured.limits[2])' <=> (\E l,
        h \in Setup!Fields : l = captured.limits[1] /\ h = captured.limits[2] /\ SetupPending(l, h)')
    BY <1>a, <1>n DEF SetupPending
  <2> QED
    BY <1>n, <2>1, <2>2
<1>h. todo = <<>> /\ turn = 2 => Setup!limits = captured.limits
  BY <1>c, <1>n DEF SetupPending, Setup!limits
<1>1. SetupSupply'
  <2>1. low' \in Setup!Fields /\ high' \in Setup!Fields /\ low' <= high'
    BY <1>b, <1>d, <1>e, <1>i DEF Setup!limits
  <2>2. trouble' \in 0 .. scene.trouble
    BY <1>b, <1>d, SetupAssumption DEF SetupInv, SetupSupply, Setup!Trouble
  <2> QED
    BY <1>a, <2>1, <2>2 DEF SetupInv, SetupSupply
<1>2. SetupSwitches'
  BY DEF SetupInv, Setup!BackLimits, Setup!SetLimits, Setup!Missed, Setup!Steady, Setup!supply,
     Setup!runner, SetupSwitches
<1>3. SetupSteps'
  <2>1. failures' \in {failures, failures \cup {"limits"}}
    BY <1>a, <1>b
  <2>2. pc' \in SetupPlaces /\ turn' \in Int
    BY <1>a, <1>b DEF SetupPlaces, SetupInv, SetupSteps
  <2> QED
    BY <1>a, <2>1, <2>2 DEF SetupInv, SetupSteps, Setup!runner
<1>4. SetupKept'
  BY DEF SetupInv, Setup!BackLimits, Setup!SetLimits, Setup!kept, SetupKept
<1>5. SetupLog'
  BY <1>a DEF SetupInv, SetupLog, SetupReadings, Setup!Plan, Setup!Legs, Setup!runner
<1>6. SetupRoles'
  BY SetupRaiseMakes, SetupAssumption, SMTT(30) DEF SetupInv, Setup!BackLimits, Setup!SetLimits,
     Setup!WriteLimit, Setup!LimitFails, Setup!Limit, Setup!Crosses, Setup!LimitOrder, Setup!Settable,
     Setup!Missed, Setup!Fine, Setup!Trouble, Setup!Goto, Setup!Over, Setup!Steady, Setup!supply,
     Setup!limits, Setup!kept, Setup!runner, SetupPlaces, SetupRunPlaces, SetupKept, SetupRoles, SetupSteps,
     SetupSupply
<1>7. SetupWriting'
  BY <1>a, <1>b, <1>e, <1>f DEF SetupWriting, SetupPending
<1>8. SetupCapturing'
  BY DEF SetupInv, Setup!BackLimits, Setup!SetLimits, Setup!Missed, Setup!Goto, Setup!kept, SetupCapturing
<1>9. SetupProgramming'
  BY DEF Setup!BackLimits, Setup!SetLimits, Setup!Missed, Setup!Goto, SetupProgramming
<1>10. SetupRestoring'
  <2>1. SetupRatesBack'
    BY <1>a, <1>b DEF SetupInv, SetupRestoring, SetupRatesBack
  <2>2. pc' = "close" => SetupLimitsBack'
    BY <1>a, <1>b, <1>h DEF SetupLimitsBack, Setup!limits
  <2> QED
    BY <1>a, <1>b, <2>1, <2>2 DEF SetupRestoring, SetupInv, SetupRoles
<1>11. SetupBlaming'
  <2>1. CASE Setup!LimitFails /\ turn = 2
    <3>1. SetupBlame'
      BY <1>d, <2>1, SetupAssumption DEF SetupBlame, Setup!Trouble, SetupInv, SetupSupply
    <3> QED
      BY <3>1 DEF SetupBlaming
  <2>2. CASE ~Setup!Settable(captured.limits[1], captured.limits[2])
    <3>1. SetupBlame'
      BY <1>a, <1>n, <2>2 DEF SetupBlame, Setup!Restorable
    <3> QED
      BY <3>1 DEF SetupBlaming
  <2>3. CASE UNCHANGED <<failures, trouble>> /\ pc' \in {pc, "close"}
    BY <1>a, <2>3 DEF SetupInv, SetupBlaming, SetupBlame, Setup!Asked, Setup!Restorable, Setup!runner
  <2> QED
    BY <1>b, <2>1, <2>2, <2>3
<1>12. SetupRunning'
  BY DEF SetupInv, Setup!BackLimits, Setup!SetLimits, Setup!Missed, Setup!Goto, Setup!Steady, Setup!runner,
     SetupRunning
<1>13. SetupRecording'
  BY SetupRaiseMakes, SetupRecordsKept, SetupAssumption, SMTT(30) DEF SetupInv, Setup!BackLimits,
     Setup!SetLimits, Setup!WriteLimit, Setup!LimitFails, Setup!Limit, Setup!Crosses, Setup!LimitOrder,
     Setup!Settable, Setup!Missed, Setup!Fine, Setup!Trouble, Setup!Goto, Setup!Over, Setup!Steady,
     Setup!supply, Setup!limits, Setup!kept, Setup!runner, SetupPlaces, SetupRunPlaces, Setup!Plan,
     Setup!Legs, Setup!Goal, SetupLog, SetupRecording, SetupRoles, SetupRunning, SetupSteps, SetupSupply
<1>. QED BY <1>1, <1>2, <1>3, <1>4, <1>5, <1>6, <1>7, <1>8, <1>9, <1>10, <1>11, <1>12, <1>13 DEF SetupInv

\* The worker answers.
LEMMA SetupCloseStep == ASSUME SetupInv, Setup!Close PROVE SetupInv'
<1>1. SetupSupply'
  BY SetupAssumption DEF SetupInv, Setup!Close, Setup!Fine, Setup!Trouble, Setup!Steady, Setup!supply,
     SetupSupply
<1>2. SetupSwitches'
  BY DEF SetupInv, Setup!Close, Setup!Steady, Setup!supply, Setup!runner, SetupSwitches
<1>3. SetupSteps'
  <2>1. UNCHANGED <<work, targets, Setup!runner, turn>> /\ pc' = "over" /\ outcome' \in {"done", "failed"}
    BY DEF Setup!Close, Setup!Steady, Setup!Over
  <2>2. failures' \in {failures, failures \cup {"readback"}}
    BY DEF Setup!Close
  <2> QED
    BY <2>1, <2>2 DEF SetupInv, SetupSteps, SetupPlaces, Setup!runner
<1>4. SetupKept'
  BY DEF SetupInv, Setup!Close, SetupKept
<1>5. SetupLog'
  BY DEF SetupInv, Setup!Close, Setup!Steady, Setup!runner, SetupReadings, Setup!Plan, Setup!Legs, SetupLog
<1>6. SetupRoles'
  BY DEF SetupInv, Setup!Close, Setup!Over, Setup!Steady, SetupRunPlaces, SetupRoles
<1>7. SetupWriting'
  BY DEF SetupInv, Setup!Close, Setup!Over, SetupWriting
<1>8. SetupCapturing'
  BY DEF SetupInv, Setup!Close, Setup!Over, Setup!Steady, SetupCapturing
<1>9. SetupProgramming'
  BY DEF Setup!Close, Setup!Over, Setup!Steady, SetupProgramming
<1>10. SetupRestoring'
  BY DEF SetupInv, Setup!Close, Setup!Over, Setup!Steady, Setup!supply, Setup!limits, SetupRatesBack,
     SetupLimitsBack, SetupRestoring
<1>11. SetupBlaming'
  BY DEF SetupInv, Setup!Close, Setup!Fine, Setup!Trouble, Setup!Over, Setup!Steady, Setup!runner,
     SetupBlame, Setup!Restorable, Setup!Asked, SetupBlaming, SetupSteps, SetupSupply
<1>12. SetupRunning'
  BY DEF Setup!Close, Setup!Steady, SetupRunning
<1>13. SetupRecording'
  BY DEF Setup!Close, Setup!Steady, SetupRecording
<1>. QED BY <1>1, <1>2, <1>3, <1>4, <1>5, <1>6, <1>7, <1>8, <1>9, <1>10, <1>11, <1>12, <1>13 DEF SetupInv

\* The runner opens its files.
LEMMA SetupOpenFilesStep == ASSUME SetupInv, Setup!OpenFiles PROVE SetupInv'
<1>1. SetupSupply'
  BY DEF SetupInv, Setup!OpenFiles, Setup!Working, Setup!Fine, SetupSupply
<1>2. SetupSwitches'
  BY DEF SetupInv, Setup!OpenFiles, Setup!runner, SetupSwitches
<1>3. SetupSteps'
  BY DEF SetupInv, Setup!OpenFiles, Setup!Working, Setup!Goto, Setup!runner, SetupPlaces, SetupSteps
<1>4. SetupKept'
  BY DEF SetupInv, Setup!OpenFiles, Setup!Working, SetupKept
<1>5. SetupLog'
  BY DEF SetupInv, Setup!OpenFiles, Setup!Working, Setup!runner, SetupReadings, Setup!Plan, Setup!Legs, SetupLog
<1>6. SetupRoles'
  BY DEF SetupInv, Setup!OpenFiles, Setup!Working, Setup!Goto, SetupRunPlaces, SetupRoles
<1>7. SetupWriting'
  BY DEF SetupInv, Setup!OpenFiles, Setup!Goto, SetupWriting
<1>8. SetupCapturing'
  BY DEF SetupInv, Setup!OpenFiles, Setup!Working, Setup!Goto, SetupCapturing
<1>9. SetupProgramming'
  BY DEF Setup!OpenFiles, Setup!Goto, SetupProgramming
<1>10. SetupRestoring'
  BY DEF Setup!OpenFiles, Setup!Goto, SetupRestoring
<1>11. SetupBlaming'
  BY DEF SetupInv, Setup!OpenFiles, Setup!Working, Setup!Fine, Setup!Goto, Setup!runner, SetupBlame,
     Setup!Restorable, Setup!Asked, SetupBlaming
<1>12. SetupRunning'
  BY DEF SetupInv, Setup!OpenFiles, Setup!Goto, Setup!runner, SetupRunPlaces, SetupRoles, SetupRunning
<1>13. SetupRecording'
  BY SetupRecordsKept DEF SetupInv, Setup!OpenFiles, Setup!Working, Setup!Goto, Setup!runner, SetupRecording
<1>. QED BY <1>1, <1>2, <1>3, <1>4, <1>5, <1>6, <1>7, <1>8, <1>9, <1>10, <1>11, <1>12, <1>13 DEF SetupInv

\* The runner moves to the first target; it counts as started even if that fails.
LEMMA SetupMoveToStartStep == ASSUME SetupInv, Setup!MoveToStart PROVE SetupInv'
<1>i. /\ low \in Setup!Fields /\ high \in Setup!Fields /\ field \in Setup!Fields /\ low <= high
         /\ Setup!Fields \subseteq Int
  BY SetupAssumption DEF SetupInv, SetupSupply, Setup!Fields
<1>l. /\ SetupSupply /\ SetupLog /\ Setup!Plan.conditions \in Nat \ {0} /\ Len(Setup!Legs) \in Nat
         /\ Len(Setup!Legs) >= 2
      /\ \A j \in 1 .. Len(Setup!Legs) : Setup!Legs[j][1] \in Setup!Fields
      /\ at[1] \in 1 .. Setup!Plan.conditions /\ at[2] \in 1 .. Len(Setup!Legs) /\ at = <<at[1], at[2]>>
  BY SetupLegsAre DEF SetupInv, SetupLog
<1>a. /\ pc = "move" /\ started' = TRUE
      /\ UNCHANGED <<scene, rate, low, high, sweep, work, captured, targets, at, records, persistent,
         unpaused, failures, outcome>>
  BY DEF Setup!MoveToStart, Setup!Working, Setup!Goto
<1>b. \/ /\ field' = Setup!Legs[1][1] /\ heater' = TRUE /\ pc' = "apply" /\ turn' = 1
            /\ UNCHANGED <<status, raised, trouble>>
      \/ /\ heater' \in BOOLEAN /\ Setup!Trouble /\ pc' = "tail" /\ turn' = 1 /\ status' = "failed"
            /\ raised' = TRUE /\ field' = field
  BY DEF Setup!MoveToStart, Setup!Working, Setup!Goto, Setup!Fine
<1>1. SetupSupply'
  <2>1. field' \in Setup!Fields
    BY <1>b, <1>i, <1>l
  <2>2. trouble' \in 0 .. scene.trouble
    BY <1>b, SetupAssumption DEF SetupInv, SetupSupply, Setup!Trouble
  <2> QED
    BY <1>a, <2>1, <2>2 DEF SetupInv, SetupSupply
<1>2. SetupSwitches'
  <2>1. heater' \in BOOLEAN
    BY <1>b
  <2>2. raised' \in BOOLEAN
    BY <1>b DEF SetupInv, SetupSwitches
  <2>3. persistent' \in BOOLEAN
    BY <1>a DEF SetupInv, SetupSwitches
  <2>4. unpaused' \in BOOLEAN
    BY <1>a DEF SetupInv, SetupSwitches
  <2> QED
    BY <1>a, <2>1, <2>2, <2>3, <2>4 DEF SetupSwitches
<1>3. SetupSteps'
  BY <1>a, <1>b DEF SetupInv, SetupSteps, SetupPlaces
<1>4. SetupKept'
  BY DEF SetupInv, Setup!MoveToStart, Setup!Working, SetupKept
<1>5. SetupLog'
  BY DEF SetupInv, Setup!MoveToStart, Setup!Working, Setup!Legs, Setup!Plan, SetupReadings, SetupLog
<1>6. SetupRoles'
  BY DEF SetupInv, Setup!MoveToStart, Setup!Working, Setup!Goto, SetupRunPlaces, SetupRoles
<1>7. SetupWriting'
  BY DEF SetupInv, Setup!MoveToStart, Setup!Goto, SetupWriting
<1>8. SetupCapturing'
  BY DEF SetupInv, Setup!MoveToStart, Setup!Working, Setup!Goto, SetupCapturing
<1>9. SetupProgramming'
  BY DEF Setup!MoveToStart, Setup!Goto, SetupProgramming
<1>10. SetupRestoring'
  BY DEF Setup!MoveToStart, Setup!Goto, SetupRestoring
<1>11. SetupBlaming'
  BY DEF SetupInv, Setup!MoveToStart, Setup!Working, Setup!Fine, Setup!Trouble, Setup!Goto, SetupBlame,
     Setup!Restorable, Setup!Asked, SetupBlaming, SetupSupply
<1>12. SetupRunning'
  BY DEF SetupInv, Setup!MoveToStart, Setup!Goto, SetupRunPlaces, SetupRoles, SetupRunning
<1>13. SetupRecording'
  <2>1. at = <<1, 1>> /\ SetupSorted /\ SetupBehind /\ work = "run"
    BY <1>a DEF SetupInv, SetupRecording, SetupRoles, SetupRunPlaces
  <2>2. SetupEarlier
    BY <2>1, <1>l DEF SetupEarlier
  <2>3. SetupSorted' /\ SetupBehind' /\ SetupEarlier' /\ Setup!Legs' = Setup!Legs
        /\ Setup!Plan' = Setup!Plan /\ Setup!Goal(1, 1)' = Setup!Legs[1][1]
    BY <1>a, <2>1, <2>2, SetupRecordsKept DEF Setup!Goal, Setup!Legs, Setup!Plan
  <2> QED
    BY <1>a, <1>b, <2>1, <2>3 DEF SetupRecording
<1>. QED BY <1>1, <1>2, <1>3, <1>4, <1>5, <1>6, <1>7, <1>8, <1>9, <1>10, <1>11, <1>12, <1>13 DEF SetupInv

\* A condition is applied.
LEMMA SetupApplyStep == ASSUME SetupInv, Setup!Apply PROVE SetupInv'
<1>1. SetupSupply'
  BY DEF SetupInv, Setup!Apply, Setup!Working, Setup!Fine, SetupSupply
<1>2. SetupSwitches'
  BY DEF SetupInv, Setup!Apply, Setup!runner, SetupSwitches
<1>3. SetupSteps'
  BY DEF SetupInv, Setup!Apply, Setup!Working, Setup!Goto, Setup!runner, SetupPlaces, SetupSteps
<1>4. SetupKept'
  BY DEF SetupInv, Setup!Apply, Setup!Working, SetupKept
<1>5. SetupLog'
  BY DEF SetupInv, Setup!Apply, Setup!Working, Setup!runner, SetupReadings, Setup!Plan, Setup!Legs, SetupLog
<1>6. SetupRoles'
  BY DEF SetupInv, Setup!Apply, Setup!Working, Setup!Goto, SetupRunPlaces, SetupRoles
<1>7. SetupWriting'
  BY DEF SetupInv, Setup!Apply, Setup!Goto, SetupWriting
<1>8. SetupCapturing'
  BY DEF SetupInv, Setup!Apply, Setup!Working, Setup!Goto, SetupCapturing
<1>9. SetupProgramming'
  BY DEF Setup!Apply, Setup!Goto, SetupProgramming
<1>10. SetupRestoring'
  BY DEF Setup!Apply, Setup!Goto, SetupRestoring
<1>11. SetupBlaming'
  BY DEF SetupInv, Setup!Apply, Setup!Working, Setup!Fine, Setup!Goto, Setup!runner, SetupBlame,
     Setup!Restorable, Setup!Asked, SetupBlaming
<1>12. SetupRunning'
  BY DEF SetupInv, Setup!Apply, Setup!Goto, Setup!runner, SetupRunPlaces, SetupRoles, SetupRunning
<1>13. SetupRecording'
  BY SetupRecordsKept DEF SetupInv, Setup!Apply, Setup!Working, Setup!Goto, Setup!runner, Setup!Plan,
     Setup!Legs, Setup!Goal, SetupRecording
<1>. QED BY <1>1, <1>2, <1>3, <1>4, <1>5, <1>6, <1>7, <1>8, <1>9, <1>10, <1>11, <1>12, <1>13 DEF SetupInv

\* The first leg is read at the start: the reading is in order, and does the leg.
LEMMA SetupFirstLegStep == ASSUME SetupInv, Setup!FirstLeg PROVE SetupInv'
<1>i. /\ low \in Setup!Fields /\ high \in Setup!Fields /\ field \in Setup!Fields /\ low <= high
         /\ Setup!Fields \subseteq Int
  BY SetupAssumption DEF SetupInv, SetupSupply, Setup!Fields
<1>l. /\ SetupSupply /\ SetupLog /\ Setup!Plan.conditions \in Nat \ {0} /\ Len(Setup!Legs) \in Nat
         /\ Len(Setup!Legs) >= 2
      /\ \A j \in 1 .. Len(Setup!Legs) : Setup!Legs[j][1] \in Setup!Fields
      /\ at[1] \in 1 .. Setup!Plan.conditions /\ at[2] \in 1 .. Len(Setup!Legs) /\ at = <<at[1], at[2]>>
  BY SetupLegsAre DEF SetupInv, SetupLog
<1>a. /\ pc = "first" /\ pc' = "leg" /\ at[2] = 1 /\ field = Setup!Goal(at[1], at[2]) /\ work = "run"
         /\ SetupSorted /\ SetupBehind /\ SetupEarlier
      /\ UNCHANGED <<scene, field, work, low, high, raised>> /\ at' = <<at[1], 2>>
  BY <1>l DEF Setup!FirstLeg, Setup!Goto, Setup!Working, SetupInv, SetupRecording, SetupRoles, SetupRunPlaces
<1>b. \/ records' = Append(records, Setup!Reading(field))
      \/ records' = Append(Append(records, Setup!Reading(field)), Setup!Reading(field))
  <2>1. records \in Seq(SetupReadings) /\ Setup!Reading(field) \in SetupReadings
    BY <1>i, <1>l, SetupReadingMakes DEF SetupLog
  <2>2. records' \in {records \o <<Setup!Reading(field)>>,
        records \o <<Setup!Reading(field), Setup!Reading(field)>>}
    BY DEF Setup!FirstLeg
  <2> DEFINE q == Setup!Reading(field)
  <2>3. records \o <<q>> = Append(records, q) /\ records \o <<q, q>> = Append(Append(records, q), q)
    <3> HIDE DEF q
    <3> QED
      BY <2>1
  <2> QED
    BY <2>2, <2>3
<1>c. /\ records' \in Seq(SetupReadings) /\ SetupSorted' /\ records' # <<>>
         /\ records'[Len(records')] = Setup!Reading(field)
      /\ \A c \in 1 .. Setup!Plan.conditions, j \in 1 .. Len(Setup!Legs) : SetupDone(c, j) => SetupDone(c, j)'
      /\ \A c \in 1 .. Setup!Plan.conditions, j \in 1 .. Len(Setup!Legs) : c = at[1] /\ j = at[2]
         => SetupDone(c, j)'
  BY <1>i, <1>l, <1>a, <1>b, SetupRecordGrows
<1>d. Setup!Legs' = Setup!Legs /\ Setup!Plan' = Setup!Plan
  BY <1>a DEF Setup!Legs, Setup!Plan
<1>1. SetupSupply'
  BY DEF SetupInv, Setup!FirstLeg, Setup!Working, Setup!Fine, SetupSupply
<1>2. SetupSwitches'
  BY DEF SetupInv, Setup!FirstLeg, SetupSwitches
<1>3. SetupSteps'
  BY DEF SetupInv, Setup!FirstLeg, Setup!Working, Setup!Goto, SetupPlaces, SetupSteps
<1>4. SetupKept'
  BY DEF SetupInv, Setup!FirstLeg, Setup!Working, SetupKept
<1>5. SetupLog'
  <2>1. at' \in (1 .. Setup!Plan.conditions) \X (1 .. Len(Setup!Legs))
    BY <1>a, <1>l
  <2> QED
    BY <1>c, <1>d, <2>1 DEF SetupLog, SetupReadings
<1>6. SetupRoles'
  BY DEF SetupInv, Setup!FirstLeg, Setup!Working, Setup!Goto, SetupRunPlaces, SetupRoles
<1>7. SetupWriting'
  BY DEF SetupInv, Setup!FirstLeg, Setup!Goto, SetupWriting
<1>8. SetupCapturing'
  BY DEF SetupInv, Setup!FirstLeg, Setup!Working, Setup!Goto, SetupCapturing
<1>9. SetupProgramming'
  BY DEF Setup!FirstLeg, Setup!Goto, SetupProgramming
<1>10. SetupRestoring'
  BY DEF Setup!FirstLeg, Setup!Goto, SetupRestoring
<1>11. SetupBlaming'
  BY DEF SetupInv, Setup!FirstLeg, Setup!Working, Setup!Fine, Setup!Goto, SetupBlame, Setup!Restorable,
     Setup!Asked, SetupBlaming
<1>12. SetupRunning'
  BY DEF SetupInv, Setup!FirstLeg, Setup!Goto, SetupRunPlaces, SetupRoles, SetupRunning
<1>13. SetupRecording'
  <2>1. SetupBehind'
    <3>1. /\ Setup!Reading(field).condition = at[1] /\ Setup!Reading(field).leg = 1 /\ at'[1] = at[1]
             /\ at'[2] = 2
      BY <1>a, <1>i, <1>l, SetupReadingMakes
    <3>2. Setup!Order(Setup!Reading(field), [condition |-> at'[1], leg |-> at'[2]])
      BY <3>1, <1>l DEF Setup!Order
    <3> QED
      BY <1>c, <3>2 DEF SetupBehind
  <2>2. SetupEarlier'
    <3>1. ASSUME NEW c \in 1 .. Setup!Plan.conditions, NEW j \in 1 .. Len(Setup!Legs), c < at'[1]
                 \/ (c = at'[1] /\ j < at'[2])
          PROVE  SetupDone(c, j)'
      <4>1. CASE c < at[1]
        BY <1>a, <1>c, <4>1 DEF SetupEarlier
      <4>2. CASE c = at[1] /\ j = 1
        BY <1>a, <1>c, <4>2
      <4> QED
        BY <1>a, <1>l, <3>1, <4>1, <4>2
    <3> QED
      BY <1>d, <3>1 DEF SetupEarlier
  <2> QED
    BY <1>a, <1>c, <2>1, <2>2 DEF SetupRecording
<1>. QED BY <1>1, <1>2, <1>3, <1>4, <1>5, <1>6, <1>7, <1>8, <1>9, <1>10, <1>11, <1>12, <1>13 DEF SetupInv

\* A leg begins: the limits for its direction are put in order,
LEMMA SetupBeginLegStep == ASSUME SetupInv, Setup!BeginLeg PROVE SetupInv'
<1>i. /\ low \in Setup!Fields /\ high \in Setup!Fields /\ field \in Setup!Fields /\ low <= high
         /\ Setup!Fields \subseteq Int
  BY SetupAssumption DEF SetupInv, SetupSupply, Setup!Fields
<1>l. /\ SetupSupply /\ SetupLog /\ Setup!Plan.conditions \in Nat \ {0} /\ Len(Setup!Legs) \in Nat
         /\ Len(Setup!Legs) >= 2
      /\ \A j \in 1 .. Len(Setup!Legs) : Setup!Legs[j][1] \in Setup!Fields
      /\ at[1] \in 1 .. Setup!Plan.conditions /\ at[2] \in 1 .. Len(Setup!Legs) /\ at = <<at[1], at[2]>>
  BY SetupLegsAre DEF SetupInv, SetupLog
<1>a. /\ pc = "leg" /\ pc' = "aim" /\ todo' = Setup!Directed(Setup!Legs[at[2]][1], field)
         /\ UNCHANGED Setup!limits
  BY DEF Setup!BeginLeg, Setup!Working, Setup!limits
<1>b. \E l, h \in Setup!Fields : SetupPending(l, h)'
  <2>1. Setup!Legs[at[2]][1] \in Setup!Fields
    BY <1>l
  <2> QED
    BY <1>a, <1>i, <2>1, SetupPendingDirected
<1>1. SetupSupply'
  BY DEF SetupInv, Setup!BeginLeg, Setup!Working, Setup!Fine, SetupSupply
<1>2. SetupSwitches'
  BY DEF SetupInv, Setup!BeginLeg, Setup!runner, SetupSwitches
<1>3. SetupSteps'
  BY DEF SetupInv, Setup!BeginLeg, Setup!Working, Setup!runner, SetupPlaces, SetupSteps
<1>4. SetupKept'
  BY DEF SetupInv, Setup!BeginLeg, Setup!Working, SetupKept
<1>5. SetupLog'
  BY DEF SetupInv, Setup!BeginLeg, Setup!Working, Setup!runner, SetupReadings, Setup!Plan, Setup!Legs, SetupLog
<1>6. SetupRoles'
  BY DEF SetupInv, Setup!BeginLeg, Setup!Working, SetupRunPlaces, SetupRoles
<1>7. SetupWriting'
  BY <1>a, <1>b DEF SetupWriting
<1>8. SetupCapturing'
  BY DEF SetupInv, Setup!BeginLeg, Setup!Working, SetupCapturing
<1>9. SetupProgramming'
  BY DEF Setup!BeginLeg, SetupProgramming
<1>10. SetupRestoring'
  BY DEF Setup!BeginLeg, SetupRestoring
<1>11. SetupBlaming'
  BY DEF SetupInv, Setup!BeginLeg, Setup!Working, Setup!Fine, Setup!runner, SetupBlame, Setup!Restorable,
     Setup!Asked, SetupBlaming
<1>12. SetupRunning'
  BY DEF SetupInv, Setup!BeginLeg, Setup!runner, SetupRunPlaces, SetupRoles, SetupRunning
<1>13. SetupRecording'
  BY SetupRecordsKept DEF SetupInv, Setup!BeginLeg, Setup!Working, Setup!runner, SetupRecording
<1>. QED BY <1>1, <1>2, <1>3, <1>4, <1>5, <1>6, <1>7, <1>8, <1>9, <1>10, <1>11, <1>12, <1>13 DEF SetupInv

\* and written, and the supply is told the direction.
LEMMA SetupAimStep == ASSUME SetupInv, Setup!Aim PROVE SetupInv'
<1>i. /\ low \in Setup!Fields /\ high \in Setup!Fields /\ field \in Setup!Fields /\ low <= high
         /\ Setup!Fields \subseteq Int
  BY SetupAssumption DEF SetupInv, SetupSupply, Setup!Fields
<1>a. pc = "aim" /\ UNCHANGED <<scene, rate, work, captured, targets, field, heater>>
  BY DEF Setup!Aim, Setup!Working
<1>c. \E l, h \in Setup!Fields : SetupPending(l, h)
  BY <1>a DEF SetupInv, SetupWriting
<1>d. Setup!LimitFails => Setup!Trouble /\ low' \in Setup!Fields /\ high' \in Setup!Fields /\ low' <= high'
  BY <1>i, <1>c, SetupPendingFails
<1>e. Setup!WriteLimit => (\E l, h \in Setup!Fields : SetupPending(l, h)') /\ low' \in Setup!Fields
      /\ high' \in Setup!Fields /\ low' <= high'
  BY <1>i, <1>c, SetupPendingWrite
<1>b. \/ Setup!WriteLimit /\ UNCHANGED <<pc, turn, outcome, sweep, failures, Setup!runner, trouble>>
      \/ todo' = <<>> /\ pc' = "sweeping" /\ turn' = 1 /\ sweep' \in {"up", "down"}
         /\ UNCHANGED <<Setup!limits, outcome, failures, Setup!runner, trouble>>
      \/ Setup!LimitFails /\ SetupRaised /\ sweep' = sweep
  BY SetupRaiseMakes DEF Setup!Aim, Setup!WriteLimit, Setup!Fine, Setup!Goto
<1>g. UNCHANGED <<started, at, records, persistent, unpaused>> /\ raised' \in {raised, TRUE}
  BY <1>b DEF SetupRaised, Setup!runner
<1>1. SetupSupply'
  <2>1. low' \in Setup!Fields /\ high' \in Setup!Fields /\ low' <= high'
    BY <1>b, <1>d, <1>e, <1>i DEF Setup!limits
  <2>2. trouble' \in 0 .. scene.trouble /\ sweep' \in {"none", "up", "down"}
    BY <1>b, <1>d, SetupAssumption DEF SetupInv, SetupSupply, Setup!Trouble
  <2> QED
    BY <1>a, <2>1, <2>2 DEF SetupInv, SetupSupply
<1>2. SetupSwitches'
  BY <1>a, <1>g DEF SetupInv, SetupSwitches
<1>3. SetupSteps'
  <2>1. CASE SetupRaised
    BY <1>a, <2>1, SetupRaisedSteps DEF SetupInv
  <2>2. CASE UNCHANGED <<failures, Setup!runner, outcome>> /\ pc' \in {pc, "sweeping"} /\ turn' \in {turn, 1}
    BY <1>a, <2>2 DEF SetupInv, SetupSteps, SetupPlaces, Setup!runner
  <2> QED
    BY <1>b, <2>1, <2>2
<1>4. SetupKept'
  BY DEF SetupInv, Setup!Aim, Setup!Working, SetupKept
<1>5. SetupLog'
  BY SetupRaiseMakes, SetupAssumption, SMTT(30) DEF SetupInv, Setup!Aim, Setup!Working, Setup!WriteLimit,
     Setup!LimitFails, Setup!Limit, Setup!Crosses, SetupRaised, Setup!Fine, Setup!Trouble, Setup!Goto,
     Setup!Over, Setup!Steady, Setup!supply, Setup!limits, Setup!kept, Setup!runner, SetupPlaces,
     SetupRunPlaces, SetupReadings, Setup!Plan, Setup!Legs, SetupLog, SetupSupply
<1>6. SetupRoles'
  BY SetupRaiseMakes DEF SetupInv, Setup!Aim, Setup!Working, SetupRaised, Setup!Goto, SetupRunPlaces, SetupRoles
<1>7. SetupWriting'
  <2>1. work = "run"
    BY <1>a DEF SetupInv, SetupRoles, SetupRunPlaces
  <2> QED
    BY <1>a, <1>b, <1>e, <2>1 DEF SetupWriting, SetupRaised
<1>8. SetupCapturing'
  BY SetupRaiseMakes DEF SetupInv, Setup!Aim, Setup!Working, SetupRaised, Setup!Goto, SetupCapturing
<1>9. SetupProgramming'
  BY SetupRaiseMakes DEF Setup!Aim, SetupRaised, Setup!Goto, SetupProgramming
<1>10. SetupRestoring'
  BY SetupRaiseMakes DEF Setup!Aim, SetupRaised, Setup!Goto, SetupRestoring
<1>11. SetupBlaming'
  <2>1. CASE Setup!LimitFails
    <3>1. SetupBlame'
      BY <1>d, <2>1, SetupAssumption DEF SetupBlame, Setup!Trouble, SetupInv, SetupSupply
    <3> QED
      BY <3>1 DEF SetupBlaming
  <2>2. CASE UNCHANGED <<failures, Setup!runner, trouble, outcome>> /\ pc' \in {pc, "sweeping"}
    BY <1>a, <2>2 DEF SetupInv, SetupBlaming, SetupBlame, Setup!Asked, Setup!Restorable, Setup!runner
  <2> QED
    BY <1>b, <2>1, <2>2
<1>12. SetupRunning'
  BY SetupRaiseMakes DEF SetupInv, Setup!Aim, SetupRaised, Setup!Goto, Setup!runner, SetupRunPlaces,
     SetupRoles, SetupRunning
<1>13. SetupRecording'
  <2>1. Setup!Legs' = Setup!Legs /\ Setup!Plan' = Setup!Plan
    BY <1>a DEF Setup!Legs, Setup!Plan
  <2>2. (SetupSorted' <=> SetupSorted) /\ (SetupBehind' <=> SetupBehind) /\ (SetupEarlier' <=> SetupEarlier)
    BY <1>a, <1>g, SetupRecordsKept
  <2> QED
    BY <1>a, <1>b, <1>g, <2>1, <2>2 DEF SetupInv, SetupRecording, SetupRaised, SetupRoles, SetupRunPlaces,
       SetupRunning
<1>. QED BY <1>1, <1>2, <1>3, <1>4, <1>5, <1>6, <1>7, <1>8, <1>9, <1>10, <1>11, <1>12, <1>13 DEF SetupInv

\* A turn of the wait: the field has moved on and is recorded.
LEMMA SetupSweepingStep == ASSUME SetupInv, Setup!Sweeping PROVE SetupInv'
<1>i. /\ low \in Setup!Fields /\ high \in Setup!Fields /\ field \in Setup!Fields /\ low <= high
         /\ Setup!Fields \subseteq Int
  BY SetupAssumption DEF SetupInv, SetupSupply, Setup!Fields
<1>l. /\ SetupSupply /\ SetupLog /\ Setup!Plan.conditions \in Nat \ {0} /\ Len(Setup!Legs) \in Nat
         /\ Len(Setup!Legs) >= 2
      /\ \A j \in 1 .. Len(Setup!Legs) : Setup!Legs[j][1] \in Setup!Fields
      /\ at[1] \in 1 .. Setup!Plan.conditions /\ at[2] \in 1 .. Len(Setup!Legs) /\ at = <<at[1], at[2]>>
  BY SetupLegsAre DEF SetupInv, SetupLog
<1>a. /\ pc = "sweeping" /\ work = "run" /\ SetupSorted /\ SetupBehind /\ SetupEarlier /\ at[2] >= 2 /\ ~raised
      /\ UNCHANGED <<scene, rate, work, captured, targets, low, high, failures, started, status, at,
         persistent, raised, unpaused, trouble>>
  BY DEF Setup!Sweeping, Setup!Working, Setup!Fine, SetupInv, SetupRecording, SetupRoles, SetupRunPlaces,
     SetupRunning
<1>f. field' \in Setup!Fields
  <2>1. Setup!Legs[at[2]][1] \in Setup!Fields
    BY <1>l
  <2>2. field' = Setup!Nearer(Setup!Legs[at[2]][1])
    BY DEF Setup!Sweeping
  <2> QED
    BY <1>i, <2>1, <2>2, SetupAssumption DEF Setup!Nearer, Setup!Fields
<1>b. records' = Append(records, Setup!Reading(field'))
  BY DEF Setup!Sweeping, Setup!Record
<1>d. \/ pc' = "arrived" /\ sweep' = "none" /\ field' = Setup!Legs[at[2]][1]
      \/ UNCHANGED <<pc, sweep>>
  BY DEF Setup!Sweeping, Setup!Goto
<1>c. /\ records' \in Seq(SetupReadings) /\ SetupSorted' /\ records' # <<>>
         /\ records'[Len(records')] = Setup!Reading(field')
      /\ \A c \in 1 .. Setup!Plan.conditions, j \in 1 .. Len(Setup!Legs) : SetupDone(c, j) => SetupDone(c, j)'
  BY <1>a, <1>b, <1>f, <1>l, SetupRecordGrows
<1>e. Setup!Legs' = Setup!Legs /\ Setup!Plan' = Setup!Plan
  BY <1>a DEF Setup!Legs, Setup!Plan
<1>1. SetupSupply'
  BY <1>a, <1>d, <1>f DEF SetupInv, SetupSupply
<1>2. SetupSwitches'
  BY DEF SetupInv, Setup!Sweeping, SetupSwitches
<1>3. SetupSteps'
  BY DEF SetupInv, Setup!Sweeping, Setup!Working, Setup!Goto, SetupPlaces, SetupSteps
<1>4. SetupKept'
  BY DEF SetupInv, Setup!Sweeping, Setup!Working, SetupKept
<1>5. SetupLog'
  BY <1>a, <1>c, <1>e, <1>l DEF SetupLog, SetupReadings
<1>6. SetupRoles'
  BY DEF SetupInv, Setup!Sweeping, Setup!Working, Setup!Goto, SetupRunPlaces, SetupRoles
<1>7. SetupWriting'
  BY DEF SetupInv, Setup!Sweeping, Setup!Goto, SetupWriting
<1>8. SetupCapturing'
  BY DEF SetupInv, Setup!Sweeping, Setup!Working, Setup!Goto, SetupCapturing
<1>9. SetupProgramming'
  BY DEF Setup!Sweeping, Setup!Goto, SetupProgramming
<1>10. SetupRestoring'
  BY DEF Setup!Sweeping, Setup!Goto, SetupRestoring
<1>11. SetupBlaming'
  BY DEF SetupInv, Setup!Sweeping, Setup!Working, Setup!Fine, Setup!Goto, SetupBlame, Setup!Restorable,
     Setup!Asked, SetupBlaming
<1>12. SetupRunning'
  BY DEF SetupInv, Setup!Sweeping, Setup!Goto, SetupRunPlaces, SetupRoles, SetupRunning
<1>13. SetupRecording'
  <2>1. SetupBehind'
    <3>1. Setup!Reading(field').condition = at[1] /\ Setup!Reading(field').leg = at[2]
      BY <1>f, <1>l, SetupReadingMakes
    <3>2. Setup!Order(Setup!Reading(field'), [condition |-> at[1], leg |-> at[2]])
      BY <3>1, <1>l DEF Setup!Order
    <3> QED
      BY <1>a, <1>c, <3>2 DEF SetupBehind
  <2>2. SetupEarlier'
    BY <1>a, <1>c, <1>e DEF SetupEarlier
  <2> QED
    BY <1>a, <1>c, <1>d, <1>e, <2>1, <2>2 DEF SetupRecording
<1>. QED BY <1>1, <1>2, <1>3, <1>4, <1>5, <1>6, <1>7, <1>8, <1>9, <1>10, <1>11, <1>12, <1>13 DEF SetupInv

\* The target is recorded unless it is there already; the next leg or condition, or the
\* end, follows.  Either way the leg under way is done.
LEMMA SetupArrivedStep == ASSUME SetupInv, Setup!Arrived PROVE SetupInv'
<1>i. /\ low \in Setup!Fields /\ high \in Setup!Fields /\ field \in Setup!Fields /\ low <= high
         /\ Setup!Fields \subseteq Int
  BY SetupAssumption DEF SetupInv, SetupSupply, Setup!Fields
<1>l. /\ SetupSupply /\ SetupLog /\ Setup!Plan.conditions \in Nat \ {0} /\ Len(Setup!Legs) \in Nat
         /\ Len(Setup!Legs) >= 2
      /\ \A j \in 1 .. Len(Setup!Legs) : Setup!Legs[j][1] \in Setup!Fields
      /\ at[1] \in 1 .. Setup!Plan.conditions /\ at[2] \in 1 .. Len(Setup!Legs) /\ at = <<at[1], at[2]>>
  BY SetupLegsAre DEF SetupInv, SetupLog
<1>a. /\ pc = "arrived" /\ work = "run" /\ SetupSorted /\ SetupBehind /\ SetupEarlier /\ at[2] >= 2
         /\ ~raised /\ field = Setup!Legs[at[2]][1]
      /\ UNCHANGED <<scene, rate, work, captured, targets, low, high, sweep, field, heater, failures,
         started, persistent, raised, unpaused, trouble>>
  BY DEF Setup!Arrived, Setup!Working, Setup!Fine, SetupInv, SetupRecording, SetupRoles, SetupRunPlaces,
     SetupRunning
<1>b. \/ records' = records /\ Setup!Recorded(field)
      \/ records' = Append(records, Setup!Reading(field))
  BY DEF Setup!Arrived, Setup!Endpoint, Setup!Record
<1>c. /\ records' \in Seq(SetupReadings) /\ SetupSorted' /\ records' # <<>>
         /\ records'[Len(records')] = Setup!Reading(field)
      /\ \A c \in 1 .. Setup!Plan.conditions, j \in 1 .. Len(Setup!Legs) : SetupDone(c, j) => SetupDone(c, j)'
      /\ \A c \in 1 .. Setup!Plan.conditions, j \in 1 .. Len(Setup!Legs) : c = at[1] /\ j = at[2]
         => SetupDone(c, j)'
  <2>1. CASE records' = Append(records, Setup!Reading(field))
    <3>1. \A c \in 1 .. Setup!Plan.conditions, j \in 1 .. Len(Setup!Legs) : j = at[2]
          => field = Setup!Goal(c, j)
      BY <1>a, <1>l DEF Setup!Goal
    <3> QED
      BY <1>a, <1>i, <1>l, <2>1, <3>1, SetupRecordGrows
  <2>2. CASE records' = records /\ Setup!Recorded(field)
    <3>1. records \in Seq(SetupReadings) /\ records # <<>> /\ records[Len(records)] = Setup!Reading(field)
      BY <1>l, <2>2 DEF Setup!Recorded, Setup!Last, SetupLog
    <3>2. Len(records) \in DOMAIN records
      BY <3>1, LenProperties, EmptySeq
    <3>3. SetupSorted' /\ \A c \in 1 .. Setup!Plan.conditions, j \in 1 .. Len(Setup!Legs) : SetupDone(c, j)
          => SetupDone(c, j)'
      BY <1>a, <2>2 DEF SetupSorted, SetupDone, Setup!Goal, Setup!Legs, Setup!Plan
    <3>4. \A c \in 1 .. Setup!Plan.conditions, j \in 1 .. Len(Setup!Legs) : c = at[1] /\ j = at[2]
          => SetupDone(c, j)'
      BY <1>a, <2>2, <3>1, <3>2 DEF SetupDone, Setup!Goal, Setup!Legs, Setup!Plan, Setup!Reading
    <3> QED
      BY <2>2, <3>1, <3>3, <3>4
  <2> QED
    BY <1>b, <2>1, <2>2
<1>d. \/ at[2] < Len(Setup!Legs) /\ at' = <<at[1], at[2] + 1>> /\ pc' = "leg" /\ status' = status
      \/ at[2] = Len(Setup!Legs) /\ at[1] < Setup!Plan.conditions /\ at' = <<at[1] + 1, 1>> /\ pc' = "apply"
         /\ status' = status
      \/ at[2] = Len(Setup!Legs) /\ at[1] = Setup!Plan.conditions /\ at' = at /\ pc' = "tail"
         /\ status' = "finished"
  BY <1>l DEF Setup!Arrived, Setup!Goto
<1>e. Setup!Legs' = Setup!Legs /\ Setup!Plan' = Setup!Plan
  BY <1>a DEF Setup!Legs, Setup!Plan
<1>1. SetupSupply'
  BY DEF SetupInv, Setup!Arrived, Setup!Working, Setup!Fine, SetupSupply
<1>2. SetupSwitches'
  BY DEF SetupInv, Setup!Arrived, SetupSwitches
<1>3. SetupSteps'
  BY DEF SetupInv, Setup!Arrived, Setup!Working, Setup!Goto, SetupPlaces, SetupSteps
<1>4. SetupKept'
  BY DEF SetupInv, Setup!Arrived, Setup!Working, SetupKept
<1>5. SetupLog'
  <2>1. at' \in (1 .. Setup!Plan.conditions) \X (1 .. Len(Setup!Legs))
    BY <1>d, <1>l
  <2> QED
    BY <1>c, <1>e, <2>1 DEF SetupLog, SetupReadings
<1>6. SetupRoles'
  BY DEF SetupInv, Setup!Arrived, Setup!Working, Setup!Goto, SetupRunPlaces, SetupRoles
<1>7. SetupWriting'
  BY DEF SetupInv, Setup!Arrived, Setup!Goto, SetupWriting
<1>8. SetupCapturing'
  BY DEF SetupInv, Setup!Arrived, Setup!Working, Setup!Goto, SetupCapturing
<1>9. SetupProgramming'
  BY DEF Setup!Arrived, Setup!Goto, SetupProgramming
<1>10. SetupRestoring'
  BY DEF Setup!Arrived, Setup!Goto, SetupRestoring
<1>11. SetupBlaming'
  BY DEF SetupInv, Setup!Arrived, Setup!Working, Setup!Fine, Setup!Goto, SetupBlame, Setup!Restorable,
     Setup!Asked, SetupBlaming
<1>12. SetupRunning'
  BY DEF SetupInv, Setup!Arrived, Setup!Goto, SetupRunPlaces, SetupRoles, SetupRunning
<1>13. SetupRecording'
  <2>1. SetupBehind'
    <3>1. Setup!Reading(field).condition = at[1] /\ Setup!Reading(field).leg = at[2]
      BY <1>i, <1>l, SetupReadingMakes
    <3>2. \/ at'[1] = at[1] /\ at'[2] \in {at[2], at[2] + 1}
          \/ at'[1] = at[1] + 1
      BY <1>d
    <3>3. Setup!Order(Setup!Reading(field), [condition |-> at'[1], leg |-> at'[2]])
      BY <3>1, <3>2, <1>l DEF Setup!Order
    <3> QED
      BY <1>c, <3>3 DEF SetupBehind
  <2>0. ASSUME NEW c \in 1 .. Setup!Plan.conditions, NEW j \in 1 .. Len(Setup!Legs), c < at[1]
               \/ (c = at[1] /\ j <= at[2])
        PROVE  SetupDone(c, j)'
    <3>1. CASE c < at[1] \/ (c = at[1] /\ j < at[2])
      BY <1>a, <1>c, <3>1 DEF SetupEarlier
    <3>2. CASE c = at[1] /\ j = at[2]
      BY <1>c, <3>2
    <3> QED
      BY <1>l, <2>0, <3>1, <3>2
  <2>2. CASE at[2] < Len(Setup!Legs) /\ at' = <<at[1], at[2] + 1>> /\ pc' = "leg"
    <3>1. SetupEarlier'
      <4>1. ASSUME NEW c \in 1 .. Setup!Plan.conditions, NEW j \in 1 .. Len(Setup!Legs), c < at'[1]
                   \/ (c = at'[1] /\ j < at'[2])
            PROVE  SetupDone(c, j)'
        BY <1>l, <2>0, <2>2, <4>1
      <4> QED
        BY <1>e, <4>1 DEF SetupEarlier
    <3>2. at'[2] >= 2
      BY <1>l, <2>2
    <3> QED
      BY <1>a, <1>c, <2>1, <2>2, <3>1, <3>2 DEF SetupRecording
  <2>3. CASE at[2] = Len(Setup!Legs) /\ at[1] < Setup!Plan.conditions /\ at' = <<at[1] + 1, 1>> /\ pc' = "apply"
    <3>1. SetupEarlier'
      <4>1. ASSUME NEW c \in 1 .. Setup!Plan.conditions, NEW j \in 1 .. Len(Setup!Legs), c < at'[1]
                   \/ (c = at'[1] /\ j < at'[2])
            PROVE  SetupDone(c, j)'
        BY <1>l, <2>0, <2>3, <4>1
      <4> QED
        BY <1>e, <4>1 DEF SetupEarlier
    <3>3. at'[2] = 1 /\ field' = Setup!Goal(at[1], 1)'
      BY <1>a, <1>e, <1>l, <2>3 DEF Setup!Goal
    <3> QED
      BY <1>a, <1>c, <2>1, <2>3, <3>1, <3>3 DEF SetupRecording
  <2>4. CASE at[2] = Len(Setup!Legs) /\ at[1] = Setup!Plan.conditions /\ pc' = "tail"
    <3>1. SetupAllDone'
      <4>1. ASSUME NEW c \in 1 .. Setup!Plan.conditions, NEW j \in 1 .. Len(Setup!Legs) PROVE SetupDone(c, j)'
        BY <1>l, <2>0, <2>4
      <4> QED
        BY <1>e, <4>1 DEF SetupAllDone
    <3> QED
      BY <1>a, <1>c, <2>1, <2>4, <3>1 DEF SetupRecording
  <2> QED
    BY <1>d, <2>2, <2>3, <2>4
<1>. QED BY <1>1, <1>2, <1>3, <1>4, <1>5, <1>6, <1>7, <1>8, <1>9, <1>10, <1>11, <1>12, <1>13 DEF SetupInv

\* The runner fails anywhere else.
LEMMA SetupRunnerFailsStep == ASSUME SetupInv, Setup!RunnerFails PROVE SetupInv'
<1>1. SetupSupply'
  BY SetupAssumption DEF SetupInv, Setup!RunnerFails, Setup!Fails, Setup!Working, Setup!Trouble, SetupSupply
<1>2. SetupSwitches'
  BY SetupRaiseMakes DEF SetupInv, Setup!RunnerFails, Setup!Fails, SetupRaised, SetupSwitches
<1>3. SetupSteps'
  <2>1. SetupRaised /\ UNCHANGED <<work, targets>>
    BY SetupRaiseMakes DEF Setup!RunnerFails, Setup!Fails, Setup!Working
  <2> QED
    BY <2>1, SetupRaisedSteps DEF SetupInv
<1>4. SetupKept'
  BY DEF SetupInv, Setup!RunnerFails, Setup!Fails, Setup!Working, SetupKept
<1>5. SetupLog'
  BY SetupRaiseMakes DEF SetupInv, Setup!RunnerFails, Setup!Fails, Setup!Working, SetupRaised,
     SetupReadings, Setup!Plan, Setup!Legs, SetupLog
<1>6. SetupRoles'
  BY SetupRaiseMakes DEF SetupInv, Setup!RunnerFails, Setup!Fails, Setup!Working, SetupRaised, SetupRoles
<1>7. SetupWriting'
  BY SetupRaiseMakes DEF Setup!RunnerFails, Setup!Fails, SetupRaised, SetupWriting
<1>8. SetupCapturing'
  BY SetupRaiseMakes DEF SetupInv, Setup!RunnerFails, Setup!Fails, Setup!Working, SetupRaised, SetupCapturing
<1>9. SetupProgramming'
  BY SetupRaiseMakes DEF Setup!RunnerFails, Setup!Fails, SetupRaised, SetupProgramming
<1>10. SetupRestoring'
  BY SetupRaiseMakes DEF Setup!RunnerFails, Setup!Fails, SetupRaised, SetupRestoring
<1>11. SetupBlaming'
  BY DEF SetupInv, Setup!RunnerFails, Setup!Fails, Setup!Trouble, SetupBlame, SetupBlaming, SetupSupply
<1>12. SetupRunning'
  BY SetupRaiseMakes DEF SetupInv, Setup!RunnerFails, Setup!Fails, SetupRaised, SetupRunning
<1>13. SetupRecording'
  BY SetupRaiseMakes, SetupRecordsKept DEF SetupInv, Setup!RunnerFails, Setup!Fails, Setup!Working,
     SetupRaised, SetupRecording
<1>. QED BY <1>1, <1>2, <1>3, <1>4, <1>5, <1>6, <1>7, <1>8, <1>9, <1>10, <1>11, <1>12, <1>13 DEF SetupInv

\* The finally: the pause, and persistent mode unless the run has finished.
LEMMA SetupEndedStep == ASSUME SetupInv, Setup!Ended PROVE SetupInv'
<1>a. /\ pc = "tail" /\ work = "run" /\ todo' = todo
      /\ UNCHANGED <<scene, rate, low, high, field, work, captured, targets, at, records, started, status,
         raised>>
  BY DEF Setup!Ended, SetupInv, SetupRoles, SetupRunPlaces
<1>b. \/ /\ started => status = "finished"
         /\ pc' = Setup!BackTo /\ turn' = 1
            /\ UNCHANGED <<outcome, trouble, heater, failures, persistent, unpaused>>
      \/ /\ started /\ status # "finished" /\ persistent' = TRUE /\ pc' = Setup!BackTo /\ turn' = 1
            /\ UNCHANGED <<outcome, unpaused>>
         /\ \/ heater' = FALSE /\ UNCHANGED <<failures, trouble>>
            \/ Setup!Trouble /\ failures' = failures \cup {"persistent"} /\ heater' = heater
      \/ /\ started /\ Setup!Trouble /\ unpaused' = TRUE /\ pc' = "over" /\ outcome' = "failed"
         /\ UNCHANGED <<turn, heater, failures, persistent>>
  BY DEF Setup!Ended, Setup!Goto, Setup!Over, Setup!Fine
<1>c. Setup!BackTo \in {"backRates", "backLimits", "close"}
  BY DEF Setup!BackTo
<1>d. 1 \in Setup!Ranges /\ \A i \in Setup!Ranges : ~(i < 1)
  BY SetupAssumption DEF Setup!Ranges
<1>1. SetupSupply'
  BY SetupRaiseMakes, SetupAssumption DEF SetupInv, Setup!Ended, Setup!BackTo, Setup!Fine, Setup!Trouble,
     Setup!Goto, Setup!Over, Setup!Steady, Setup!supply, Setup!limits, Setup!kept, Setup!runner,
     SetupPlaces, SetupRunPlaces, Setup!Fields, Setup!RateTables, SetupKept, SetupSteps, SetupSupply
<1>2. SetupSwitches'
  <2>1. heater' \in BOOLEAN
    BY <1>b DEF SetupInv, SetupSwitches
  <2>2. persistent' \in BOOLEAN
    BY <1>b DEF SetupInv, SetupSwitches
  <2>3. unpaused' \in BOOLEAN
    BY <1>b DEF SetupInv, SetupSwitches
  <2>4. started' \in BOOLEAN
    BY <1>a DEF SetupInv, SetupSwitches
  <2>5. raised' \in BOOLEAN
    BY <1>a DEF SetupInv, SetupSwitches
  <2> QED
    BY <2>1, <2>2, <2>3, <2>4, <2>5 DEF SetupSwitches
<1>3. SetupSteps'
  <2>1. failures' \in {failures, failures \cup {"persistent"}}
    BY <1>b
  <2>2. pc' \in SetupPlaces /\ turn' \in Int /\ outcome' \in {"none", "done", "failed"}
    BY <1>b, <1>c DEF SetupInv, SetupSteps, SetupPlaces
  <2> QED
    BY <1>a, <2>1, <2>2 DEF SetupInv, SetupSteps
<1>4. SetupKept'
  BY DEF SetupInv, Setup!Ended, SetupKept
<1>5. SetupLog'
  BY DEF SetupInv, Setup!Ended, SetupReadings, Setup!Plan, Setup!Legs, SetupLog
<1>6. SetupRoles'
  BY DEF SetupInv, Setup!Ended, Setup!BackTo, Setup!Goto, Setup!Over, SetupRunPlaces, SetupRoles
<1>7. SetupWriting'
  BY DEF SetupInv, Setup!Ended, Setup!BackTo, Setup!Goto, Setup!Over, SetupWriting
<1>8. SetupCapturing'
  <2>1. CASE pc' = "over" /\ unpaused' /\ outcome' = "failed"
    BY <1>a, <2>1 DEF SetupInv, SetupCapturing
  <2>2. CASE pc' = Setup!BackTo
    BY <1>a, <1>c, <2>2 DEF SetupInv, SetupCapturing, Setup!BackTo
  <2> QED
    BY <1>b, <2>1, <2>2
<1>9. SetupProgramming'
  BY DEF Setup!Ended, Setup!BackTo, Setup!Goto, Setup!Over, SetupProgramming
<1>10. SetupRestoring'
  <2>1. CASE pc' = "over" /\ unpaused'
    BY <1>a, <2>1 DEF SetupInv, SetupRestoring
  <2>2. CASE pc' = Setup!BackTo /\ turn' = 1
    BY <1>a, <1>c, <1>d, <2>2 DEF SetupRestoring, Setup!BackTo, SetupRatesBack, SetupLimitsBack
  <2> QED
    BY <1>b, <2>1, <2>2
<1>11. SetupBlaming'
  BY DEF SetupInv, Setup!Ended, Setup!Fine, Setup!Trouble, Setup!Goto, SetupRunPlaces, SetupBlame,
     Setup!Restorable, Setup!Asked, SetupBlaming, SetupRoles, SetupSupply
<1>12. SetupRunning'
  BY DEF SetupInv, Setup!Ended, Setup!BackTo, Setup!Goto, Setup!Over, SetupRunning
<1>13. SetupRecording'
  BY SetupRaiseMakes, SetupRecordsKept, SetupAssumption, SMTT(30) DEF SetupInv, Setup!Ended, Setup!BackTo,
     Setup!Fine, Setup!Trouble, Setup!Goto, Setup!Over, Setup!Steady, Setup!supply, Setup!limits,
     Setup!kept, Setup!runner, SetupPlaces, SetupRunPlaces, Setup!Plan, Setup!Legs, Setup!Goal, SetupLog,
     SetupRecording, SetupRoles, SetupRunning, SetupSteps, SetupSupply
<1>. QED BY <1>1, <1>2, <1>3, <1>4, <1>5, <1>6, <1>7, <1>8, <1>9, <1>10, <1>11, <1>12, <1>13 DEF SetupInv

\* The files are closed, and the run returns or raises.
LEMMA SetupCloseRunStep == ASSUME SetupInv, Setup!CloseRun PROVE SetupInv'
<1>a. /\ pc = "close" /\ work = "run" /\ pc' = "over" /\ turn' = turn /\ outcome' \in {"done", "failed"}
      /\ UNCHANGED <<scene, Setup!supply, work, targets, todo, captured, started, at, records, persistent,
         raised, unpaused>>
  BY DEF Setup!CloseRun, Setup!Steady, Setup!Over
<1>b. \/ Setup!Trouble /\ failures' = failures \cup {"files"}
      \/ UNCHANGED <<trouble, failures>>
  BY DEF Setup!CloseRun, Setup!Fine
<1>c. /\ status' = (IF ~raised /\ failures' # {} THEN "cleanup_failed" ELSE status)
      /\ outcome' = (IF status' = "finished" THEN "done" ELSE "failed")
  BY DEF Setup!CloseRun, Setup!Over
<1>1. SetupSupply'
  BY SetupRaiseMakes, SetupAssumption DEF SetupInv, Setup!CloseRun, Setup!Fine, Setup!Trouble, Setup!Goto,
     Setup!Over, Setup!Steady, Setup!supply, Setup!limits, Setup!kept, Setup!runner, SetupPlaces,
     SetupRunPlaces, Setup!Fields, Setup!RateTables, SetupKept, SetupSteps, SetupSupply
<1>2. SetupSwitches'
  BY DEF SetupInv, Setup!CloseRun, Setup!Steady, Setup!supply, SetupSwitches
<1>3. SetupSteps'
  <2>1. failures' \in {failures, failures \cup {"files"}}
    BY <1>b
  <2>2. status' \in {"stopped", "failed", "finished", "cleanup_failed"}
    BY <1>c DEF SetupInv, SetupSteps
  <2> QED
    BY <1>a, <2>1, <2>2 DEF SetupInv, SetupSteps, SetupPlaces
<1>4. SetupKept'
  BY DEF SetupInv, Setup!CloseRun, SetupKept
<1>5. SetupLog'
  BY DEF SetupInv, Setup!CloseRun, Setup!Steady, SetupReadings, Setup!Plan, Setup!Legs, SetupLog
<1>6. SetupRoles'
  BY DEF SetupInv, Setup!CloseRun, Setup!Over, Setup!Steady, SetupRoles
<1>7. SetupWriting'
  BY DEF SetupInv, Setup!CloseRun, Setup!Over, SetupWriting
<1>8. SetupCapturing'
  BY DEF SetupInv, Setup!CloseRun, Setup!Over, Setup!Steady, SetupCapturing
<1>9. SetupProgramming'
  BY DEF Setup!CloseRun, Setup!Over, Setup!Steady, SetupProgramming
<1>10. SetupRestoring'
  BY DEF SetupInv, Setup!CloseRun, Setup!Over, Setup!Steady, Setup!supply, Setup!limits, SetupRatesBack,
     SetupLimitsBack, SetupRestoring
<1>11. SetupBlaming'
  <2>1. CASE Setup!Trouble
    <3>1. SetupBlame'
      BY <1>a, <2>1, SetupAssumption DEF SetupBlame, Setup!Trouble, SetupInv, SetupSupply
    <3> QED
      BY <3>1 DEF SetupBlaming
  <2>2. CASE UNCHANGED <<trouble, failures>>
    <3>1. SetupBlame' <=> SetupBlame
      BY <1>a, <2>2 DEF SetupBlame, Setup!Asked, Setup!Restorable
    <3>2. outcome' = "failed" => failures # {} \/ raised
      BY <1>a, <1>c, <2>2 DEF SetupInv, SetupRunning
    <3> QED
      BY <1>a, <2>2, <3>1, <3>2 DEF SetupInv, SetupBlaming
  <2> QED
    BY <1>b, <2>1, <2>2
<1>12. SetupRunning'
  BY DEF SetupInv, Setup!CloseRun, Setup!Over, SetupRunning
<1>13. SetupRecording'
  BY SetupRecordsKept DEF SetupInv, Setup!CloseRun, Setup!Over, Setup!Steady, SetupRecording
<1>. QED BY <1>1, <1>2, <1>3, <1>4, <1>5, <1>6, <1>7, <1>8, <1>9, <1>10, <1>11, <1>12, <1>13 DEF SetupInv

\* Nothing happens.
LEMMA SetupRestStep == ASSUME SetupInv, Setup!Rest PROVE SetupInv'
<1>1. SetupSupply'
  BY DEF SetupInv, Setup!Rest, Setup!vars, Setup!supply, SetupSupply
<1>2. SetupSwitches'
  BY DEF SetupInv, Setup!Rest, Setup!vars, Setup!supply, Setup!runner, SetupSwitches
<1>3. SetupSteps'
  BY DEF SetupInv, Setup!Rest, Setup!vars, Setup!kept, Setup!runner, SetupSteps
<1>4. SetupKept'
  BY DEF SetupInv, Setup!Rest, Setup!vars, Setup!kept, SetupKept
<1>5. SetupLog'
  BY DEF SetupInv, Setup!Rest, Setup!vars, Setup!runner, SetupReadings, Setup!Plan, Setup!Legs, SetupLog
<1>6. SetupRoles'
  BY DEF SetupInv, Setup!Rest, Setup!vars, SetupRoles
<1>7. SetupWriting'
  BY DEF SetupInv, Setup!Rest, Setup!vars, SetupWriting
<1>8. SetupCapturing'
  BY DEF SetupInv, Setup!Rest, Setup!vars, Setup!kept, SetupCapturing
<1>9. SetupProgramming'
  BY DEF Setup!Rest, Setup!vars, SetupProgramming
<1>10. SetupRestoring'
  BY DEF SetupInv, Setup!Rest, Setup!vars, Setup!supply, Setup!limits, Setup!kept, Setup!runner,
     SetupRatesBack, SetupLimitsBack, SetupRestoring
<1>11. SetupBlaming'
  BY DEF SetupInv, Setup!Rest, Setup!vars, Setup!kept, Setup!runner, SetupBlame, Setup!Restorable,
     Setup!Asked, SetupBlaming
<1>12. SetupRunning'
  BY DEF SetupInv, Setup!Rest, Setup!vars, Setup!runner, SetupRunning
<1>13. SetupRecording'
  BY SetupRecordsKept DEF SetupInv, Setup!Rest, Setup!vars, Setup!runner, SetupRecording
<1>. QED BY <1>1, <1>2, <1>3, <1>4, <1>5, <1>6, <1>7, <1>8, <1>9, <1>10, <1>11, <1>12, <1>13 DEF SetupInv

\* The invariant holds in every scene.
LEMMA SetupInitSound == ASSUME Setup!Init PROVE SetupInv
<1>0. /\ scene \in Scenes /\ scene.op \in {"configure", "run"} /\ scene.rates \in Setup!RateTables
         /\ scene.heater \in BOOLEAN
      /\ scene.trouble \in Nat /\ scene.plan.conditions \in Nat \ {0} /\ Len(scene.plan.legs) \in Nat
         /\ Len(scene.plan.legs) >= 2
  BY SetupAssumption DEF Setup!Init
<1>1. SetupSupply
  BY <1>0, SetupAssumption DEF Setup!Init, SetupSupply, Setup!Fields
<1>2. SetupSwitches
  BY <1>0 DEF Setup!Init, SetupSwitches
<1>3. SetupSteps
  BY <1>0, SetupAssumption DEF Setup!Init, SetupSteps, SetupPlaces
<1>4. SetupKept
  BY DEF Setup!Init, SetupKept
<1>5. SetupLog
  BY <1>0 DEF Setup!Init, SetupLog, Setup!Plan, Setup!Legs
<1>6. SetupRoles
  BY <1>0 DEF Setup!Init, SetupRoles, SetupRunPlaces
<1>7. SetupWriting
  BY DEF Setup!Init, SetupWriting
<1>8. SetupCapturing
  BY DEF Setup!Init, SetupCapturing
<1>9. SetupProgramming
  BY DEF Setup!Init, SetupProgramming
<1>10. SetupRestoring
  BY DEF Setup!Init, SetupRestoring
<1>11. SetupBlaming
  BY DEF Setup!Init, SetupBlaming
<1>12. SetupRunning
  BY DEF Setup!Init, SetupRunning
<1>13. SetupRecording
  <2>1. Len(records) = 0 /\ records = <<>> /\ at = <<1, 1>> /\ pc = "start"
    BY DEF Setup!Init
  <2> QED
    BY <2>1 DEF SetupRecording, SetupSorted, SetupBehind
<1>. QED BY <1>1, <1>2, <1>3, <1>4, <1>5, <1>6, <1>7, <1>8, <1>9, <1>10, <1>11, <1>12, <1>13 DEF SetupInv

\* A step that changes nothing keeps it.
LEMMA SetupStutterKeeps == ASSUME SetupInv, UNCHANGED Setup!vars PROVE SetupInv'
<1>1. /\ UNCHANGED <<scene, rate, low, high, sweep, field, heater, work, pc, turn, todo, captured, failures,
         outcome, targets>>
      /\ UNCHANGED <<started, status, at, records, persistent, raised, unpaused, trouble>>
  BY DEF Setup!vars, Setup!supply, Setup!kept, Setup!runner
<1>2. SetupSupply' /\ SetupSwitches' /\ SetupSteps' /\ SetupKept' /\ SetupRoles' /\ SetupRunning'
  BY <1>1 DEF SetupInv, SetupSupply, SetupSwitches, SetupSteps, SetupKept, SetupRoles, SetupRunning
<1>3. SetupLog'
  BY <1>1 DEF SetupInv, SetupLog, Setup!Plan, Setup!Legs, SetupReadings
<1>4. SetupWriting' /\ SetupCapturing'
  BY <1>1 DEF SetupInv, SetupWriting, SetupCapturing, SetupPending, Setup!limits
<1>5. SetupProgramming' /\ SetupRestoring' /\ SetupBlaming'
  BY <1>1 DEF SetupInv, SetupProgramming, SetupRestoring, SetupBlaming, Setup!Asked, SetupRatesBack,
     SetupLimitsBack, SetupBlame, Setup!Restorable, Setup!limits
<1>6. SetupRecording'
  BY <1>1, SetupRecordsKept DEF SetupInv, SetupRecording, Setup!Goal, Setup!Legs, Setup!Plan
<1>. QED BY <1>2, <1>3, <1>4, <1>5, <1>6 DEF SetupInv

\* Every step keeps it.
LEMMA SetupNextKeeps == ASSUME SetupInv, Setup!Next PROVE SetupInv'
  BY SetupCaptureStep, SetupCaptureLimitsStep, SetupTakeRemoteStep, SetupPauseSweepStep, SetupRatesStep,
     SetupRatesFailStep, SetupLimitsStep, SetupStartSweepStep,
     SetupDirectStep, SetupRampStep, SetupBeginRestoreStep, SetupBackRatesStep, SetupBackLimitsStep,
     SetupCloseStep, SetupOpenFilesStep, SetupMoveToStartStep, SetupApplyStep,
     SetupFirstLegStep, SetupBeginLegStep, SetupAimStep, SetupSweepingStep, SetupArrivedStep,
     SetupRunnerFailsStep, SetupEndedStep, SetupCloseRunStep, SetupRestStep
     DEF Setup!Next, Setup!Worker, Setup!Runner

\* The invariant says what is wanted.
LEMMA SetupInvariantSound == SetupInv => Setup!SetupSound
<1> SUFFICES ASSUME SetupInv PROVE Setup!SetupSound
  OBVIOUS
<1>1. Setup!TypeOK
  BY DEF SetupInv, SetupSupply, SetupSwitches, Setup!TypeOK, Setup!RateTables, Setup!limits
<1>2. Setup!ConfiguredAsAsked
  BY DEF SetupInv, SetupProgramming, Setup!Programmed, Setup!ConfiguredAsAsked
<1>3. Setup!PutBack
  BY DEF SetupInv, SetupRestoring, SetupRatesBack, SetupLimitsBack, Setup!PutBack, Setup!AsCaptured
<1>4. Setup!NoOwnFault
  <2>1. ASSUME todo # <<>> PROVE ~Setup!Crosses(Head(todo))
    <3>1. PICK l \in Setup!Fields, h \in Setup!Fields : SetupPending(l, h)
      <4>1. -Envelope \in Setup!Fields /\ Envelope \in Setup!Fields
        BY SetupAssumption DEF Setup!Fields
      <4>2. pc = "backLimits" => captured.limits[1] \in Setup!Fields /\ captured.limits[2] \in Setup!Fields
        BY DEF SetupInv, SetupKept, SetupCapturing
      <4> QED
        BY <2>1, <4>1, <4>2 DEF SetupInv, SetupWriting
    <3>2. low \in Setup!Fields /\ high \in Setup!Fields /\ low <= high
      BY DEF SetupInv, SetupSupply
    <3> QED
      BY <2>1, <3>1, <3>2, SetupPendingFits
  <2>2. pc = "over" /\ outcome = "failed" => trouble > 0 \/ Setup!Asked > MaxRate \/ ~Setup!Restorable
    BY DEF SetupInv, SetupBlaming, SetupBlame
  <2> QED
    BY <2>1, <2>2 DEF Setup!NoOwnFault
<1>5. Setup!RunComplete
  <2> SUFFICES ASSUME work = "run", pc = "over" PROVE
        /\ \A i \in 1 .. Len(records) - 1 : Setup!Order(records[i], records[i + 1])
        /\ outcome = "done" => \A c \in 1 .. Setup!Plan.conditions, l \in 1 .. Len(Setup!Legs) :
              \E i \in DOMAIN records : records[i] = [condition |-> c, leg |-> l, field |-> Setup!Goal(c, l)]
        /\ started /\ raised /\ ~unpaused => persistent
    BY DEF Setup!RunComplete
  <2>1. SetupSorted /\ (~raised => SetupAllDone)
    BY DEF SetupInv, SetupRecording
  <2>2. (outcome = "done" => ~raised) /\ (started /\ raised /\ ~unpaused => persistent)
    BY DEF SetupInv, SetupRunning
  <2> QED
    BY <2>1, <2>2 DEF SetupSorted, SetupAllDone, SetupDone
<1>. QED BY <1>1, <1>2, <1>3, <1>4, <1>5 DEF Setup!SetupSound

\* The invariant, wherever the part of the transport setup is at work.
SetupTurn == part = "setup" => SetupInv

\* A sweep runs with the rates and limits asked for, and whatever fails they are put back
\* as they were found, or named as not put back; a run that returns has recorded every
\* leg of every condition (controllers/magnet_controller.py,
\* app/engine/bfield_transport_sweep.py): for every supply, every plan and every number
\* of failures.
THEOREM SetupIsSound == SpecPart => []SetupSound
<1>1. InitPart => SetupTurn
  BY SetupInitSound DEF InitPart, SetupTurn
<1>2. SetupTurn /\ [NextPart]_<<part, vars, sourceVars, setupVars, plan>> => SetupTurn'
  <2> SUFFICES ASSUME SetupTurn, [NextPart]_<<part, vars, sourceVars, setupVars, plan>>, part' = "setup"
               PROVE  SetupInv'
    BY DEF SetupTurn
  <2>1. CASE NextPart
    <3>1. part = "setup" /\ Setup!Next
      BY <2>1 DEF NextPart
    <3> QED
      BY <3>1, SetupNextKeeps DEF SetupTurn
  <2>2. CASE UNCHANGED <<part, vars, sourceVars, setupVars, plan>>
    <3>1. SetupInv /\ UNCHANGED setupVars
      BY <2>2 DEF SetupTurn
    <3>2. UNCHANGED Setup!vars
      BY <3>1 DEF setupVars, Setup!vars, Setup!supply, Setup!kept, Setup!runner
    <3> QED
      BY <3>1, <3>2, SetupStutterKeeps
  <2> QED
    BY <2>1, <2>2
<1>3. SetupTurn => SetupSound
  BY SetupInvariantSound DEF SetupTurn, SetupSound
<1>. QED
  BY <1>1, <1>2, <1>3, PTL DEF SpecPart

=============================================================================
