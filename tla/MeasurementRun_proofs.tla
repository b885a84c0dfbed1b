----------------------- MODULE MeasurementRun_proofs -----------------------
(***************************************************************************)
(* Proofs about MeasurementRun, for any set of modes and fields and any    *)
(* number of starts, edits, confirmations, runs of a batch and failures:   *)
(* the results tell the truth, a run starts as it was validated, and the   *)
(* service implements RunContract.                                         *)
(*                                                                         *)
(* The invariant follows a run through the four threads of control: who    *)
(* may be active together, what a preflight carries, how far the worker's  *)
(* program has come and what is known there of the outputs, the CSV file   *)
(* and the metadata, and what is still on its way to the GUI thread.       *)
(***************************************************************************)
EXTENDS MeasurementRun, TLAPS, FiniteSetTheorems

\* The types, with those of the records TypeOK says nothing of.
Results == {"finished", "stopped", "error"}
WorkerType == [pc : Nat, kind : Kinds \union {"none"}, stop : BOOLEAN,
               driven : SUBSET Outputs, result : Results, failed : BOOLEAN,
               terminal : Results \union {"none"}, unhandled : BOOLEAN]
PreflightType == [pc : {"none", "reading", "done"}, cancel : BOOLEAN, ok : BOOLEAN,
                  mode : Modes \union {"none"}, form : 0 .. MaxEdits]
GuiTypes ==
    /\ mode \in Modes /\ form \in 0 .. MaxEdits /\ invalid \subseteq Modes
    /\ asked \in [token : 0 .. MaxAsks, field : Fields \union {NoField}]
    /\ granted \in Fields \union {NoField}
    /\ dialogs \subseteq 1 .. MaxAsks
    /\ shown \in [field : Fields \union {NoField}, mode : Modes \union {"none"},
                  form : 0 .. MaxEdits]
LaneTypes ==
    /\ manager \in {"free", "busy", "claimed"}
    /\ preflight \in PreflightType
    /\ engine \in Engines \union {"none"}
    /\ validated \in [mode : Modes \union {"none"}, form : 0 .. MaxEdits]
WorkTypes ==
    /\ worker \in WorkerType
    /\ queue \in Seq({"finished", "stopped", "error", "warning", "ended"})
    /\ seen \in [terminal : Results \union {"none"}, warning : BOOLEAN]
    /\ hot \subseteq Outputs
    /\ files \in [kind : Kinds \union {"none"}, csv : {"none", "open"}, rows : Nat,
                  meta : Results \union {"none", "running"}, safe : BOOLEAN]
RestTypes ==
    /\ stored \in [field : Fields, off : BOOLEAN]
    /\ batch \in [left : 0 .. Repeats, end : {"none", "stopped", "error"}]
    /\ report \in Results \union {"none"}
    /\ used \in [starts : Nat, edits : 0 .. MaxEdits, asks : 0 .. MaxAsks,
                 changes : Nat, trouble : Nat]
    /\ form <= used.edits
Types == GuiTypes /\ LaneTypes /\ WorkTypes /\ RestTypes

\* Who may be active together, and what a preflight and a confirmation stand for.
Lanes ==
    /\ Asking => ~Working /\ ~Preparing /\ engine = "none"
    /\ Preparing => /\ ~Working /\ engine = "none" /\ manager = "claimed"
                    /\ validated = [mode |-> mode, form |-> form] /\ preflight.mode = mode
                    /\ stopped => preflight.cancel
    /\ engine = "transport" => ~Working /\ worker.driven = {} /\ validated.mode = "transport"
    /\ granted # NoField => shown = [field |-> granted, mode |-> mode, form |-> form]

\* Where the last part of a worker's program has its steps.
ZeroAt(k) == IF k \in ReportsLate THEN TailOf(k) ELSE TailOf(k) + 1
TerminalAt(k) == IF k \in ReportsLate THEN TailOf(k) + 3 ELSE TailOf(k)
CsvAt(k) == IF k = "map" THEN 2 ELSE 3
RowsBy(k, pc) == IF pc <= 4 THEN 0 ELSE IF pc < TailOf(k) THEN 1 ELSE 2

\* The signals of a run: its end is the last of them, and the warning of a
\* failed zeroing is on its way or has arrived.
Warned == seen.warning \/ \E i \in 1 .. Len(queue) : queue[i] = "warning"
Signals ==
    /\ ~Working => queue = <<>>
    /\ \A i \in 1 .. Len(queue) :
          queue[i] = "ended" => i = Len(queue) /\ worker.pc = TailOf(worker.kind) + 5
    /\ Working /\ worker.failed /\ worker.pc > ZeroAt(worker.kind) + 1 => Warned

\* How far the worker has come.
Progress ==
    Working =>
    /\ worker.pc \in 1 .. TailOf(worker.kind) + 5
    /\ files.kind = worker.kind
    /\ worker.pc < TailOf(worker.kind) =>
          /\ worker.result = "error"
          /\ files.rows = RowsBy(worker.kind, worker.pc)
          /\ worker.pc > CsvAt(worker.kind) => files.csv = "open"
    /\ worker.result = "finished" => files.csv = "open" /\ files.rows = 2
    /\ worker.pc > ZeroAt(worker.kind) /\ hot \intersect worker.driven # {} => worker.failed
    /\ worker.pc <= ZeroAt(worker.kind) => ~worker.failed
    /\ worker.failed /\ worker.kind \in ReportsLate /\ worker.pc > ZeroAt(worker.kind) + 1 =>
          worker.result = "error"
    /\ worker.pc <= ZeroAt(worker.kind) + 2 => ~files.safe /\ files.meta # "finished"
    /\ worker.pc > ZeroAt(worker.kind) + 2 /\ worker.result = "finished" /\ ~worker.unhandled =>
          files.meta = "finished" /\ files.safe = ~worker.failed
    /\ IF worker.pc > TerminalAt(worker.kind) THEN worker.terminal = worker.result
                                              ELSE worker.terminal = "none"

\* What is left after a run.
Left ==
    /\ files.meta = "finished" => files.kind \in Kinds /\ files.csv = "open" /\ files.rows = 2
    /\ files.safe => hot \intersect worker.driven = {}
    /\ report = "finished" /\ ~Working /\ ~Preparing /\ engine = "none"
       /\ validated.mode # "transport" =>
          files.meta = "finished" /\ files.safe
    /\ engine = "batch" /\ ~Working =>
          /\ hot \intersect worker.driven # {} => batch.end = "error"
          /\ batch.end = "none" /\ batch.left < Repeats => files.meta = "finished" /\ files.safe

IInv == Lanes /\ Signals /\ Progress /\ Left

-----------------------------------------------------------------------------
\* The programs of the four workers, written out.
LEMMA Plans ==
    ASSUME NEW k \in Kinds
    PROVE  /\ TailOf(k) = IF k = "photo" THEN 8 ELSE 6
           /\ Len(Program(k)) = TailOf(k) + 4
           /\ \A i \in 1 .. TailOf(k) + 4 :
                 Program(k)[i] = IF i < TailOf(k) THEN TryPart[k][i]
                                 ELSE (IF k \in ReportsLate THEN LateTail ELSE EarlyTail)[i - TailOf(k) + 1]
<1>1. CASE k = "dual"
  <2>1. TryPart[k] = DualGateTry /\ Program(k) = DualGateTry \o EarlyTail
    BY <1>1 DEF TryPart, Program, ReportsLate
  <2>2. TailOf(k) = 6 /\ Len(Program(k)) = 10
    BY <2>1 DEF TailOf, DualGateTry, EarlyTail
  <2>3. \A i \in 1 .. 5 : Program(k)[i] = TryPart[k][i]
    BY <2>1 DEF DualGateTry, EarlyTail
  <2>4. \A i \in 6 .. 10 : Program(k)[i] = EarlyTail[i - 5]
    BY <2>1 DEF DualGateTry, EarlyTail
  <2>5. (IF k \in ReportsLate THEN LateTail ELSE EarlyTail) = EarlyTail /\ (k = "photo" <=> FALSE)
    BY <1>1 DEF ReportsLate
  <2>6. \A i \in 1 .. 10 : i - 6 + 1 = i - 5 /\ (i \in 1 .. 5 \/ i \in 6 .. 10)
                          /\ (i \in 1 .. 5 <=> i < 6)
    OBVIOUS
  <2>7. \A i \in 1 .. 10 : Program(k)[i] = IF i < 6 THEN TryPart[k][i] ELSE EarlyTail[i - 6 + 1]
    BY <2>3, <2>4, <2>6
  <2>8. QED
    BY <2>2, <2>5, <2>7
<1>2. CASE k = "line"
  <2>1. TryPart[k] = LineSweepTry /\ Program(k) = LineSweepTry \o LateTail
    BY <1>2 DEF TryPart, Program, ReportsLate
  <2>2. TailOf(k) = 6 /\ Len(Program(k)) = 10
    BY <2>1 DEF TailOf, LineSweepTry, LateTail
  <2>3. \A i \in 1 .. 5 : Program(k)[i] = TryPart[k][i]
    BY <2>1 DEF LineSweepTry, LateTail
  <2>4. \A i \in 6 .. 10 : Program(k)[i] = LateTail[i - 5]
    BY <2>1 DEF LineSweepTry, LateTail
  <2>5. (IF k \in ReportsLate THEN LateTail ELSE EarlyTail) = LateTail /\ (k = "photo" <=> FALSE)
    BY <1>2 DEF ReportsLate
  <2>6. \A i \in 1 .. 10 : i - 6 + 1 = i - 5 /\ (i \in 1 .. 5 \/ i \in 6 .. 10)
                          /\ (i \in 1 .. 5 <=> i < 6)
    OBVIOUS
  <2>7. \A i \in 1 .. 10 : Program(k)[i] = IF i < 6 THEN TryPart[k][i] ELSE LateTail[i - 6 + 1]
    BY <2>3, <2>4, <2>6
  <2>8. QED
    BY <2>2, <2>5, <2>7
<1>3. CASE k = "map"
  <2>1. TryPart[k] = CoSweepTry /\ Program(k) = CoSweepTry \o EarlyTail
    BY <1>3 DEF TryPart, Program, ReportsLate
  <2>2. TailOf(k) = 6 /\ Len(Program(k)) = 10
    BY <2>1 DEF TailOf, CoSweepTry, EarlyTail
  <2>3. \A i \in 1 .. 5 : Program(k)[i] = TryPart[k][i]
    BY <2>1 DEF CoSweepTry, EarlyTail
  <2>4. \A i \in 6 .. 10 : Program(k)[i] = EarlyTail[i - 5]
    BY <2>1 DEF CoSweepTry, EarlyTail
  <2>5. (IF k \in ReportsLate THEN LateTail ELSE EarlyTail) = EarlyTail /\ (k = "photo" <=> FALSE)
    BY <1>3 DEF ReportsLate
  <2>6. \A i \in 1 .. 10 : i - 6 + 1 = i - 5 /\ (i \in 1 .. 5 \/ i \in 6 .. 10)
                          /\ (i \in 1 .. 5 <=> i < 6)
    OBVIOUS
  <2>7. \A i \in 1 .. 10 : Program(k)[i] = IF i < 6 THEN TryPart[k][i] ELSE EarlyTail[i - 6 + 1]
    BY <2>3, <2>4, <2>6
  <2>8. QED
    BY <2>2, <2>5, <2>7
<1>4. CASE k = "photo"
  <2>1. TryPart[k] = PhotocurrentTry /\ Program(k) = PhotocurrentTry \o EarlyTail
    BY <1>4 DEF TryPart, Program, ReportsLate
  <2>2. TailOf(k) = 8 /\ Len(Program(k)) = 12
    BY <2>1 DEF TailOf, PhotocurrentTry, EarlyTail
  <2>3. \A i \in 1 .. 7 : Program(k)[i] = TryPart[k][i]
    BY <2>1 DEF PhotocurrentTry, EarlyTail
  <2>4. \A i \in 8 .. 12 : Program(k)[i] = EarlyTail[i - 7]
    BY <2>1 DEF PhotocurrentTry, EarlyTail
  <2>5. (IF k \in ReportsLate THEN LateTail ELSE EarlyTail) = EarlyTail /\ (k = "photo" <=> TRUE)
    BY <1>4 DEF ReportsLate
  <2>6. \A i \in 1 .. 12 : i - 8 + 1 = i - 7 /\ (i \in 1 .. 7 \/ i \in 8 .. 12)
                          /\ (i \in 1 .. 7 <=> i < 8)
    OBVIOUS
  <2>7. \A i \in 1 .. 12 : Program(k)[i] = IF i < 8 THEN TryPart[k][i] ELSE EarlyTail[i - 8 + 1]
    BY <2>3, <2>4, <2>6
  <2>8. QED
    BY <2>2, <2>5, <2>7
<1>5. QED
  BY <1>1, <1>2, <1>3, <1>4 DEF Kinds

\* Where a worker can be when it is at a step.
LEMMA Where ==
    ASSUME NEW w, w.kind \in Kinds \union {"none"}, w.pc \in Nat, Step(w) # "none"
    PROVE  LET k == w.kind  s == Step(w) IN
           /\ k \in Kinds /\ w.pc \in 1 .. TailOf(k) + 4
           /\ s \in {"meta", "ramp", "csv", "point", "zero", "warn", "status", "terminal", "end"}
           /\ s = "meta" <=> w.pc = 1
           /\ s = "csv" => w.pc = CsvAt(k) \/ (w.pc = 6 /\ k = "photo")
           /\ s = "ramp" => w.pc \in {2, 3, 5} /\ w.pc # CsvAt(k) /\ (w.pc = 5 => k = "photo")
           /\ s = "point" <=> w.pc = 4 \/ w.pc = TailOf(k) - 1
           /\ s = "zero" <=> w.pc = ZeroAt(k)
           /\ s = "warn" <=> w.pc = ZeroAt(k) + 1
           /\ s = "status" <=> w.pc = ZeroAt(k) + 2
           /\ s = "terminal" <=> w.pc = TerminalAt(k)
           /\ s = "end" <=> w.pc = TailOf(k) + 4
<1> DEFINE k == w.kind
           l == IF k \in ReportsLate THEN LateTail ELSE EarlyTail
<1>1. k \in Kinds /\ w.pc # 0 /\ ~Returned(w) /\ Step(w) = Program(k)[w.pc]
  BY DEF Step, Kinds
<1>2. /\ TailOf(k) = IF k = "photo" THEN 8 ELSE 6
      /\ Len(Program(k)) = TailOf(k) + 4
      /\ \A i \in 1 .. TailOf(k) + 4 :
            Program(k)[i] = IF i < TailOf(k) THEN TryPart[k][i] ELSE l[i - TailOf(k) + 1]
  BY <1>1, Plans
<1>3. w.pc \in 1 .. TailOf(k) + 4
  BY <1>1, <1>2 DEF Returned, Kinds
<1>4. Step(w) = IF w.pc < TailOf(k) THEN TryPart[k][w.pc] ELSE l[w.pc - TailOf(k) + 1]
  BY <1>1, <1>2, <1>3
<1>5. CASE w.pc < TailOf(k)
  <2>1. CASE k = "photo"
    BY <1>2, <1>3, <1>4, <1>5, <2>1 DEF TryPart, PhotocurrentTry, ZeroAt, TerminalAt, CsvAt,
       ReportsLate, Kinds
  <2>2. CASE k = "map"
    BY <1>2, <1>3, <1>4, <1>5, <2>2 DEF TryPart, CoSweepTry, ZeroAt, TerminalAt, CsvAt,
       ReportsLate, Kinds
  <2>3. CASE k \in {"dual", "line"}
    BY <1>2, <1>3, <1>4, <1>5, <2>3, SMTT(40) DEF TryPart, DualGateTry, LineSweepTry, ZeroAt, TerminalAt,
       CsvAt, ReportsLate, Kinds
  <2>4. QED
    BY <1>1, <2>1, <2>2, <2>3 DEF Kinds
<1>6. CASE w.pc >= TailOf(k)
  <2>1. CASE k = "line"
    BY <1>2, <1>3, <1>4, <1>6, <2>1 DEF LateTail, ZeroAt, TerminalAt, CsvAt, ReportsLate, Kinds
  <2>2. CASE k = "photo"
    BY <1>2, <1>3, <1>4, <1>6, <2>2 DEF EarlyTail, ZeroAt, TerminalAt, CsvAt, ReportsLate, Kinds
  <2>3. CASE k \in {"dual", "map"}
    BY <1>2, <1>3, <1>4, <1>6, <2>3, SMTT(40) DEF EarlyTail, ZeroAt, TerminalAt, CsvAt, ReportsLate, Kinds
  <2>4. QED
    BY <1>1, <2>1, <2>2, <2>3 DEF Kinds
<1>7. QED
  BY <1>2, <1>3, <1>5, <1>6

\* Every program measures two points.
LEMMA TwoPoints == ASSUME NEW k \in Kinds PROVE Wanted(k) = 2
<1>1. {i \in 1 .. Len(TryPart[k]) : TryPart[k][i] = "point"} = {4, IF k = "photo" THEN 7 ELSE 5}
  <2>1. CASE k = "dual"
    BY <2>1 DEF TryPart, DualGateTry
  <2>2. CASE k = "line"
    BY <2>2 DEF TryPart, LineSweepTry
  <2>3. CASE k = "map"
    BY <2>3 DEF TryPart, CoSweepTry
  <2>4. CASE k = "photo"
    BY <2>4 DEF TryPart, PhotocurrentTry
  <2>5. QED
    BY <2>1, <2>2, <2>3, <2>4 DEF Kinds
<1>2. ASSUME NEW i \in {5, 7} PROVE Cardinality({4, i}) = 2
  <2>1. Cardinality({4}) = 1 /\ IsFiniteSet({4})
    BY FS_Singleton
  <2>2. {4, i} = {4} \union {i} /\ i \notin {4}
    OBVIOUS
  <2>3. QED
    BY <2>1, <2>2, FS_AddElement
<1>3. QED
  BY <1>1, <1>2 DEF Wanted

\* What the steps of a worker do to its record.
Kept(fields) == \A f \in fields : worker'[f] = worker[f]

LEMMA Advanced ==
    ASSUME worker \in WorkerType, Working, Advances
    PROVE  /\ worker' \in WorkerType
           /\ Kept({"kind", "stop", "driven", "failed", "terminal", "unhandled"})
           /\ worker'.pc = worker.pc + 1
           /\ worker'.result = IF worker.pc + 1 = TailOf(worker.kind) THEN "finished" ELSE worker.result
<1> DEFINE r == IF worker.pc + 1 = TailOf(worker.kind) THEN "finished" ELSE worker.result
<1>1. worker' = [worker EXCEPT !.pc = worker.pc + 1, !.result = r]
  BY DEF Advances
<1>2. r \in Results /\ worker.pc + 1 \in Nat
  BY DEF WorkerType, Results
<1> HIDE DEF r
<1>3. QED
  BY <1>1, <1>2 DEF WorkerType, Kept, r

LEMMA Gone ==
    ASSUME worker \in WorkerType, Working, NEW result \in Results, Leaves(result)
    PROVE  /\ worker' \in WorkerType
           /\ Kept({"kind", "stop", "driven", "failed", "terminal", "unhandled"})
           /\ worker'.pc = TailOf(worker.kind) /\ worker'.result = result
<1>1. worker.kind \in Kinds
  BY DEF WorkerType, Working
<1>2. TailOf(worker.kind) \in Nat
  BY <1>1, Plans
<1>3. QED
  BY <1>2 DEF WorkerType, Kept, Leaves

LEMMA Zeroed ==
    ASSUME worker \in WorkerType, hot \subseteq Outputs, WorkerZero
    PROVE  /\ worker' \in WorkerType
           /\ Kept({"kind", "stop", "result", "terminal", "unhandled"})
           /\ worker'.pc = worker.pc + 1
           /\ worker'.driven \subseteq worker.driven /\ hot' \subseteq hot
           /\ hot' \intersect worker'.driven # {} => worker'.failed
           /\ hot \intersect worker.driven = {} => hot' = hot
<1> DEFINE Tried(outs, bad) ==
             /\ hot' = hot \ (outs \ bad)
             /\ worker' = [worker EXCEPT !.pc = @ + 1, !.driven = outs, !.failed = bad # {}]
<1>0. PICK outs \in Zeroable : \E bad \in SUBSET outs : Tried(outs, bad)
  BY DEF WorkerZero
<1>1. PICK bad \in SUBSET outs : Tried(outs, bad)
  BY <1>0
<1> DEFINE b == bad # {}
<1>2. b \in BOOLEAN /\ (~b <=> bad = {})
  OBVIOUS
<1>3. worker' = [worker EXCEPT !.pc = worker.pc + 1, !.driven = outs, !.failed = b]
  BY <1>1
<1>4. outs \subseteq worker.driven /\ outs \in SUBSET Outputs /\ worker.pc + 1 \in Nat
  BY DEF Zeroable, WorkerType
<1> HIDE DEF b
<1>5. /\ worker' \in WorkerType
      /\ Kept({"kind", "stop", "result", "terminal", "unhandled"})
      /\ worker'.pc = worker.pc + 1 /\ worker'.driven = outs /\ worker'.failed = b
  BY <1>2, <1>3, <1>4 DEF WorkerType, Kept
<1>6. QED
  BY <1>1, <1>2, <1>4, <1>5

LEMMA WarnedOf ==
    ASSUME worker \in WorkerType, WorkerWarn
    PROVE  /\ worker' \in WorkerType
           /\ Kept({"kind", "stop", "driven", "failed", "terminal", "unhandled"})
           /\ worker'.pc = worker.pc + 1
           /\ worker'.result = IF worker.failed /\ worker.kind \in ReportsLate THEN "error"
                                                                              ELSE worker.result
<1> DEFINE r == IF worker.failed /\ worker.kind \in ReportsLate THEN "error" ELSE worker.result
<1>1. worker' = [worker EXCEPT !.pc = worker.pc + 1, !.result = r]
  BY DEF WorkerWarn
<1>2. r \in Results /\ worker.pc + 1 \in Nat
  BY DEF WorkerType, Results
<1> HIDE DEF r
<1>3. QED
  BY <1>1, <1>2 DEF WorkerType, Kept, r

LEMMA Recorded ==
    ASSUME worker \in WorkerType, WorkerStatus
    PROVE  /\ worker' \in WorkerType
           /\ Kept({"kind", "stop", "driven", "failed", "terminal"})
           /\ worker'.pc = worker.pc + 1
           /\ \/ /\ files' = [files EXCEPT !.meta = worker.result, !.safe = ~worker.failed]
                 /\ Kept({"result", "unhandled"})
              \/ /\ files' = files
                 /\ IF worker.kind \in ReportsLate
                    THEN worker'.result = "error" /\ Kept({"unhandled"})
                    ELSE worker'.unhandled = TRUE /\ Kept({"result"})
<1>1. worker.pc + 1 \in Nat /\ "error" \in Results /\ TRUE \in BOOLEAN
  BY DEF WorkerType, Results
<1>2. CASE /\ files' = [files EXCEPT !.meta = worker.result, !.safe = ~worker.failed]
           /\ worker' = [worker EXCEPT !.pc = @ + 1]
  BY <1>1, <1>2 DEF WorkerType, Kept
<1>3. CASE /\ files' = files /\ worker.kind \in ReportsLate
           /\ worker' = [worker EXCEPT !.pc = @ + 1, !.result = "error"]
  BY <1>1, <1>3 DEF WorkerType, Kept
<1>4. CASE /\ files' = files /\ worker.kind \notin ReportsLate
           /\ worker' = [worker EXCEPT !.pc = @ + 1, !.unhandled = TRUE]
  BY <1>1, <1>4 DEF WorkerType, Kept
<1>5. QED
  BY <1>2, <1>3, <1>4 DEF WorkerStatus

LEMMA Reported ==
    ASSUME worker \in WorkerType, WorkerTerminal
    PROVE  /\ worker' \in WorkerType
           /\ Kept({"kind", "stop", "driven", "failed", "result", "unhandled"})
           /\ worker'.pc = worker.pc + 1 /\ worker'.terminal = worker.result
<1>1. worker' = [worker EXCEPT !.pc = worker.pc + 1, !.terminal = worker.result]
  BY DEF WorkerTerminal
<1>2. worker.pc + 1 \in Nat /\ worker.result \in Results \union {"none"}
  BY DEF WorkerType
<1>3. QED
  BY <1>1, <1>2 DEF WorkerType, Kept

LEMMA Ended ==
    ASSUME worker \in WorkerType, WorkerEnd
    PROVE  /\ worker' \in WorkerType
           /\ Kept({"kind", "stop", "driven", "failed", "result", "terminal", "unhandled"})
           /\ worker'.pc = worker.pc + 1
  BY DEF WorkerType, WorkerEnd, Kept

\* A run that is launched begins with a fresh record and fresh files.
LEMMA Launched ==
    ASSUME NEW k \in Kinds, NEW driven \in SUBSET Outputs, Launch(k, driven)
    PROVE  /\ worker' = [pc |-> 1, kind |-> k, stop |-> FALSE, driven |-> driven, result |-> "error",
                         failed |-> FALSE, terminal |-> "none", unhandled |-> FALSE]
           /\ worker' \in WorkerType
           /\ seen' = NotSeen /\ UNCHANGED <<queue, hot>>
           /\ files' = [kind |-> k, csv |-> "none", rows |-> 0, meta |-> "none", safe |-> FALSE]
           /\ WorkTypes => WorkTypes'
<1>1. worker' = [pc |-> 1, kind |-> k, stop |-> FALSE, driven |-> driven, result |-> "error",
                 failed |-> FALSE, terminal |-> "none", unhandled |-> FALSE]
  BY DEF Launch, NoWorker
<1>2. worker' \in WorkerType
  BY <1>1 DEF WorkerType, Results
<1>3. files' = [kind |-> k, csv |-> "none", rows |-> 0, meta |-> "none", safe |-> FALSE]
  BY DEF Launch, NoFiles
<1>4. /\ files' \in [kind : Kinds \union {"none"}, csv : {"none", "open"}, rows : Nat,
                    meta : Results \union {"none", "running"}, safe : BOOLEAN]
      /\ NotSeen \in [terminal : Results \union {"none"}, warning : BOOLEAN]
  BY <1>3 DEF NotSeen
<1>5. QED
  BY <1>1, <1>2, <1>3, <1>4 DEF Launch, WorkTypes

LEMMA Driven == ASSUME NEW k \in Kinds PROVE DrivenBy[k] \subseteq SUBSET Outputs
  BY DEF DrivenBy, Outputs, Kinds

\* Between runs the record says nothing but what was driven.
LEMMA Fresh ==
    /\ NoWorker \in WorkerType /\ NoWorker.kind = "none" /\ NoWorker.driven = {}
    /\ \A d \in SUBSET Outputs : /\ [NoWorker EXCEPT !.driven = d] \in WorkerType
                                 /\ [NoWorker EXCEPT !.driven = d].kind = "none"
                                 /\ [NoWorker EXCEPT !.driven = d].driven = d
  BY DEF NoWorker, WorkerType, Results

\* A request to stop changes nothing else in it.
LEMMA AskedToStop ==
    ASSUME worker \in WorkerType, NEW b \in BOOLEAN, worker' = [worker EXCEPT !.stop = b]
    PROVE  /\ worker' \in WorkerType /\ worker'.pc = worker.pc
           /\ Kept({"kind", "driven", "failed", "result", "terminal", "unhandled"})
  BY DEF WorkerType, Kept

-----------------------------------------------------------------------------
\* Every step keeps the types.
LEMMA TypesStep == Types /\ [Next]_vars => Types'
<1>1. SUFFICES ASSUME Types, Next \/ UNCHANGED vars
      PROVE  Types'
  OBVIOUS
<1>2. /\ Repeats \in Nat /\ MaxStarts \in Nat /\ MaxEdits \in Nat /\ MaxAsks \in Nat
      /\ MaxChanges \in Nat /\ MaxTrouble \in Nat
  BY RunAssumption
<1>3. GuiTypes /\ LaneTypes /\ WorkTypes /\ RestTypes
  BY <1>1 DEF Types
<1>4. CASE SetMode
  <2>1. GuiTypes'
    BY <1>4, <1>2, <1>3 DEF SetMode, Editable, gui, GuiTypes, NoRequest, Trouble, gui, lanes,
       work, rest
  <2>2. RestTypes'
    BY <1>4, <1>2, <1>3 DEF SetMode, Editable, rest, RestTypes, Results, GuiTypes, Trouble,
       gui, lanes, work, rest
  <2>3. LaneTypes' /\ WorkTypes'
    BY <1>4, <1>3 DEF SetMode, Editable, gui, lanes, work, rest, LaneTypes, WorkTypes
  <2>4. QED
    BY <2>1, <2>2, <2>3 DEF Types
<1>5. CASE SetValue
  <2>1. GuiTypes'
    BY <1>5, <1>2, <1>3 DEF SetValue, Editing, Editable, Accepted, Refused, gui, GuiTypes,
       NoRequest, RestTypes, Trouble, gui, lanes, work, rest
  <2>2. RestTypes'
    BY <1>5, <1>2, <1>3 DEF SetValue, Editing, Editable, Accepted, Refused, rest, RestTypes,
       Results, GuiTypes, Trouble, gui, lanes, work, rest
  <2>3. LaneTypes' /\ WorkTypes'
    BY <1>5, <1>3 DEF SetValue, Editing, Editable, Accepted, Refused, gui, lanes, work, rest,
       LaneTypes, WorkTypes
  <2>4. QED
    BY <2>1, <2>2, <2>3 DEF Types
<1>6. CASE SetRecipeCell
  <2>1. GuiTypes'
    BY <1>6, <1>2, <1>3 DEF SetRecipeCell, Editing, Editable, Accepted, Refused, gui, GuiTypes,
       NoRequest, RestTypes, Trouble, gui, lanes, work, rest
  <2>2. RestTypes'
    BY <1>6, <1>2, <1>3 DEF SetRecipeCell, Editing, Editable, Accepted, Refused, rest,
       RestTypes, Results, GuiTypes, Trouble, gui, lanes, work, rest
  <2>3. LaneTypes' /\ WorkTypes'
    BY <1>6, <1>3 DEF SetRecipeCell, Editing, Editable, Accepted, Refused, gui, lanes, work,
       rest, LaneTypes, WorkTypes
  <2>4. QED
    BY <2>1, <2>2, <2>3 DEF Types
<1>7. CASE RecipeOperation
  <2>1. GuiTypes'
    BY <1>7, <1>2, <1>3 DEF RecipeOperation, Editing, Editable, Accepted, gui, GuiTypes,
       NoRequest, RestTypes, Trouble, gui, lanes, work, rest
  <2>2. RestTypes'
    BY <1>7, <1>2, <1>3 DEF RecipeOperation, Editing, Editable, Accepted, rest, RestTypes,
       Results, GuiTypes, Trouble, gui, lanes, work, rest
  <2>3. LaneTypes' /\ WorkTypes'
    BY <1>7, <1>3 DEF RecipeOperation, Editing, Editable, Accepted, gui, lanes, work, rest,
       LaneTypes, WorkTypes
  <2>4. QED
    BY <2>1, <2>2, <2>3 DEF Types
<1>8. CASE Start
  <2>1. GuiTypes' /\ RestTypes'
    BY <1>8, <1>2, <1>3 DEF Start, StartWith, AskConfirmation, BeginPreflight, Claim,
       NeedsConfirmation, gui, rest, GuiTypes, RestTypes, NoRequest, Trouble, lanes, work
  <2>2. \/ UNCHANGED <<preflight, validated>>
        \/ /\ preflight' = [pc |-> "reading", cancel |-> FALSE, ok |-> FALSE,
                             mode |-> mode, form |-> form]
           /\ validated' = [mode |-> mode, form |-> form]
    BY <1>8 DEF Start, StartWith, AskConfirmation, BeginPreflight, Claim, NeedsConfirmation, lanes
  <2>3. manager' \in {manager, "claimed"} /\ engine' = engine
    BY <1>8 DEF Start, StartWith, AskConfirmation, BeginPreflight, Claim, NeedsConfirmation, lanes
  <2>7. /\ [pc |-> "reading", cancel |-> FALSE, ok |-> FALSE, mode |-> mode, form |-> form] \in PreflightType
        /\ [mode |-> mode, form |-> form] \in [mode : Modes \union {"none"}, form : 0 .. MaxEdits]
    BY <1>3 DEF GuiTypes, PreflightType
  <2>4. LaneTypes'
    BY <1>3, <2>2, <2>3, <2>7 DEF LaneTypes
  <2>5. WorkTypes'
    BY <1>8, <1>3 DEF Start, StartWith, AskConfirmation, BeginPreflight, Claim,
       NeedsConfirmation, work, WorkTypes
  <2>6. QED
    BY <2>1, <2>4, <2>5 DEF Types
<1>9. CASE Stop
  <2>1. worker' = worker \/ \E b \in BOOLEAN : worker' = [worker EXCEPT !.stop = b]
    <3>1. Working \in BOOLEAN
      BY DEF Working
    <3>2. QED
      BY <1>9, <3>1 DEF Stop, StopPreflight, StopAsking, StopRun
  <2>2. worker' \in WorkerType /\ UNCHANGED <<queue, seen, hot, files>>
    BY <1>9, <1>3, <2>1, AskedToStop DEF Stop, WorkTypes
  <2>3. WorkTypes'
    BY <1>3, <2>2 DEF WorkTypes
  <2>4. preflight' = preflight \/ preflight' = [preflight EXCEPT !.cancel = TRUE]
    BY <1>9 DEF Stop, StopPreflight, StopAsking, StopRun
  <2>5. LaneTypes'
    BY <1>9, <1>3, <2>4 DEF Stop, LaneTypes, PreflightType
  <2>6. GuiTypes'
    <3>1. asked' \in {asked, NoRequest} /\ granted' \in {granted, NoField}
      BY <1>9 DEF Stop, StopPreflight, StopAsking, StopRun
    <3>2. UNCHANGED <<mode, form, invalid, dialogs, shown>>
      BY <1>9 DEF Stop
    <3>3. QED
      BY <1>2, <1>3, <3>1, <3>2 DEF GuiTypes, NoRequest
  <2>7. RestTypes'
    BY <1>9, <1>3 DEF Stop, StopPreflight, StopAsking, StopRun, RestTypes
  <2>8. QED
    BY <2>3, <2>5, <2>6, <2>7 DEF Types
<1>10. CASE ThermalFault
  <2>1. \E b \in BOOLEAN : worker' = [worker EXCEPT !.stop = b]
    <3> DEFINE b == worker.stop \/ (engine = "batch" /\ Working)
    <3>1. b \in BOOLEAN /\ worker' = [worker EXCEPT !.stop = b]
      BY <1>10, <1>3 DEF ThermalFault, WorkTypes, WorkerType
    <3> QED
      BY <3>1
  <2>2. worker' \in WorkerType /\ UNCHANGED <<queue, seen, hot, files>>
    BY <1>10, <1>3, <2>1, AskedToStop DEF ThermalFault, WorkTypes
  <2>3. WorkTypes'
    BY <1>3, <2>2 DEF WorkTypes
  <2>4. \E b \in BOOLEAN : preflight' = [preflight EXCEPT !.cancel = b]
    <3>1. Preparing \in BOOLEAN
      BY DEF Preparing
    <3> QED
      BY <1>10, <3>1 DEF ThermalFault
  <2>5. LaneTypes'
    BY <1>10, <1>3, <2>4 DEF ThermalFault, LaneTypes, PreflightType
  <2>6. GuiTypes' /\ RestTypes'
    BY <1>10, <1>3 DEF ThermalFault, gui, GuiTypes, RestTypes
  <2>7. QED
    BY <2>3, <2>5, <2>6 DEF Types
<1>11. ASSUME NEW token \in 1 .. MaxAsks, NEW accepted \in BOOLEAN,
            AnswerConfirmation(token, accepted)
      PROVE  Types'
  <2>1. GuiTypes' /\ RestTypes'
    BY <1>11, <1>2, <1>3 DEF AnswerConfirmation, Current, Declined, StartWith, AskConfirmation,
       BeginPreflight, Claim, NeedsConfirmation, gui, rest, GuiTypes, RestTypes, NoRequest,
       Trouble, lanes, work
  <2>2. \/ UNCHANGED <<preflight, validated>>
        \/ /\ preflight' = [pc |-> "reading", cancel |-> FALSE, ok |-> FALSE,
                             mode |-> mode, form |-> form]
           /\ validated' = [mode |-> mode, form |-> form]
    BY <1>11 DEF AnswerConfirmation, Current, Declined, StartWith, AskConfirmation,
       BeginPreflight, Claim, NeedsConfirmation, lanes
  <2>3. manager' \in {manager, "claimed"} /\ engine' = engine
    BY <1>11 DEF AnswerConfirmation, Current, Declined, StartWith, AskConfirmation,
       BeginPreflight, Claim, NeedsConfirmation, lanes
  <2>7. /\ [pc |-> "reading", cancel |-> FALSE, ok |-> FALSE, mode |-> mode, form |-> form] \in PreflightType
        /\ [mode |-> mode, form |-> form] \in [mode : Modes \union {"none"}, form : 0 .. MaxEdits]
    BY <1>3 DEF GuiTypes, PreflightType
  <2>4. LaneTypes'
    BY <1>3, <2>2, <2>3, <2>7 DEF LaneTypes
  <2>5. WorkTypes'
    BY <1>11, <1>3 DEF AnswerConfirmation, Current, Declined, StartWith, AskConfirmation,
       BeginPreflight, Claim, NeedsConfirmation, work, WorkTypes
  <2>6. QED
    BY <2>1, <2>4, <2>5 DEF Types
<1>12. CASE ByHand
  <2>1. LaneTypes'
    BY <1>12, <1>2, <1>3 DEF ByHand, lanes, LaneTypes, NoPreflight, PreflightType, Engines,
       Trouble, gui, lanes, work, rest
  <2>2. GuiTypes' /\ WorkTypes' /\ RestTypes'
    BY <1>12, <1>3 DEF ByHand, gui, lanes, work, rest, GuiTypes, WorkTypes, RestTypes
  <2>3. QED
    BY <2>1, <2>2 DEF Types
<1>13. CASE StoredChanges
  <2>1. RestTypes'
    BY <1>13, <1>2, <1>3 DEF StoredChanges, rest, RestTypes, Results, Trouble, gui, lanes,
       work, rest
  <2>2. GuiTypes' /\ LaneTypes' /\ WorkTypes'
    BY <1>13, <1>3 DEF StoredChanges, gui, lanes, work, rest, GuiTypes, LaneTypes, WorkTypes
  <2>3. QED
    BY <2>1, <2>2 DEF Types
<1>14. CASE PreflightRead
  <2>1. LaneTypes'
    BY <1>14, <1>2, <1>3 DEF PreflightRead, lanes, LaneTypes, NoPreflight, PreflightType,
       Engines, Trouble, gui, lanes, work, rest
  <2>2. RestTypes'
    BY <1>14, <1>2, <1>3 DEF PreflightRead, rest, RestTypes, Results, Trouble, gui, lanes,
       work, rest
  <2>3. GuiTypes' /\ WorkTypes'
    BY <1>14, <1>3 DEF PreflightRead, gui, lanes, work, rest, GuiTypes, WorkTypes
  <2>4. QED
    BY <2>1, <2>2, <2>3 DEF Types
<1>15. CASE PreflightFinished /\ GoOn
  <2>1. preflight' = NoPreflight /\ UNCHANGED <<manager, validated>> /\ NoPreflight.pc = "none"
    BY <1>15 DEF PreflightFinished, GoOn, NoPreflight
  <2>2. NoPreflight \in PreflightType
    BY <1>2 DEF NoPreflight, PreflightType
  <2>3. engine' = engine \/ engine' \in Engines \union {"none"}
    BY <1>15, <1>3, RunAssumption DEF GoOn, LaneTypes, PreflightType
  <2>4. LaneTypes'
    BY <1>15, <1>3, <2>1, <2>2, <2>3 DEF GoOn, LaneTypes
  <2>5. WorkTypes'
    <3>1. CASE preflight.mode \in Kinds
      <4>1. PICK driven \in DrivenBy[preflight.mode] : Launch(preflight.mode, driven)
        BY <1>15, <3>1 DEF GoOn
      <4>2. driven \in SUBSET Outputs
        BY <3>1, Driven
      <4>3. QED
        BY <1>3, <3>1, <4>1, <4>2, Launched
    <3>2. CASE preflight.mode \notin Kinds
      BY <1>15, <1>3, <3>2, Fresh DEF GoOn, WorkTypes
    <3>3. QED
      BY <3>1, <3>2
  <2>6. RestTypes' /\ GuiTypes'
    BY <1>15, <1>2, <1>3 DEF PreflightFinished, GoOn, RestTypes, GuiTypes
  <2>7. QED
    BY <2>4, <2>5, <2>6 DEF Types
<1>16. CASE PreflightFinished /\ Drop
  <2>1. GuiTypes'
    BY <1>16, <1>2, <1>3 DEF PreflightFinished, Drop, MustDrop, EngineRefuses, Cancelled, gui,
       GuiTypes, NoRequest, Trouble, gui, lanes, work, rest
  <2>2. LaneTypes'
    BY <1>16, <1>2, <1>3 DEF PreflightFinished, Drop, MustDrop, EngineRefuses, Cancelled,
       lanes, LaneTypes, NoPreflight, PreflightType, Engines, Trouble, gui, lanes, work, rest
  <2>3. RestTypes'
    BY <1>16, <1>2, <1>3 DEF PreflightFinished, Drop, MustDrop, EngineRefuses, Cancelled, rest,
       RestTypes, Results, Trouble, gui, lanes, work, rest
  <2>4. WorkTypes'
    BY <1>16, <1>3 DEF PreflightFinished, Drop, MustDrop, EngineRefuses, Cancelled, gui, lanes,
       work, rest, WorkTypes
  <2>5. QED
    BY <2>1, <2>2, <2>3, <2>4 DEF Types
<1>17. CASE WorkerMeta
  <2>1. worker \in WorkerType /\ hot \subseteq Outputs
    BY <1>3 DEF WorkTypes
  <2>2. Working /\ {"error", "stopped"} \subseteq Results
    BY <1>17 DEF WorkerMeta, Step, Working, Results
  <2>3. worker' \in WorkerType
    BY <1>17, <2>1, <2>2, Advanced, Gone DEF WorkerMeta, BreaksOff, Raises
  <2>4. WorkTypes'
    BY <1>17, <1>3, <2>1, <2>2, <2>3 DEF WorkerMeta, BreaksOff, Raises, WorkTypes, WorkerType,
       Outputs, Results
  <2>5. RestTypes'
    BY <1>17, <1>3 DEF WorkerMeta, BreaksOff, Raises, RestTypes, Trouble, gui, rest
  <2>6. GuiTypes' /\ LaneTypes'
    BY <1>17, <1>3 DEF WorkerMeta, gui, lanes, GuiTypes, LaneTypes
  <2>7. QED
    BY <2>4, <2>5, <2>6 DEF Types
<1>18. CASE WorkerCsv
  <2>1. worker \in WorkerType /\ hot \subseteq Outputs
    BY <1>3 DEF WorkTypes
  <2>2. Working /\ {"error", "stopped"} \subseteq Results
    BY <1>18 DEF WorkerCsv, Step, Working, Results
  <2>3. worker' \in WorkerType
    BY <1>18, <2>1, <2>2, Advanced, Gone DEF WorkerCsv, BreaksOff, Raises
  <2>4. WorkTypes'
    BY <1>18, <1>3, <2>1, <2>2, <2>3 DEF WorkerCsv, BreaksOff, Raises, WorkTypes, WorkerType,
       Outputs, Results
  <2>5. RestTypes'
    BY <1>18, <1>3 DEF WorkerCsv, BreaksOff, Raises, RestTypes, Trouble, gui, rest
  <2>6. GuiTypes' /\ LaneTypes'
    BY <1>18, <1>3 DEF WorkerCsv, gui, lanes, GuiTypes, LaneTypes
  <2>7. QED
    BY <2>4, <2>5, <2>6 DEF Types
<1>19. CASE WorkerRamp
  <2>1. worker \in WorkerType /\ hot \subseteq Outputs
    BY <1>3 DEF WorkTypes
  <2>2. Working /\ {"error", "stopped"} \subseteq Results
    BY <1>19 DEF WorkerRamp, Step, Working, Results
  <2>3. worker' \in WorkerType
    BY <1>19, <2>1, <2>2, Advanced, Gone DEF WorkerRamp, BreaksOff, Raises
  <2>4. WorkTypes'
    BY <1>19, <1>3, <2>1, <2>2, <2>3 DEF WorkerRamp, BreaksOff, Raises, WorkTypes, WorkerType,
       Outputs, Results
  <2>5. RestTypes'
    BY <1>19, <1>3 DEF WorkerRamp, BreaksOff, Raises, RestTypes, Trouble, gui, rest
  <2>6. GuiTypes' /\ LaneTypes'
    BY <1>19, <1>3 DEF WorkerRamp, gui, lanes, GuiTypes, LaneTypes
  <2>7. QED
    BY <2>4, <2>5, <2>6 DEF Types
<1>20. CASE WorkerPoint
  <2>1. worker \in WorkerType /\ hot \subseteq Outputs
    BY <1>3 DEF WorkTypes
  <2>2. Working /\ {"error", "stopped"} \subseteq Results
    BY <1>20 DEF WorkerPoint, Step, Working, Results
  <2>3. worker' \in WorkerType
    BY <1>20, <2>1, <2>2, Advanced, Gone DEF WorkerPoint, BreaksOff, Raises
  <2>4. WorkTypes'
    BY <1>20, <1>3, <2>1, <2>2, <2>3 DEF WorkerPoint, BreaksOff, Raises, WorkTypes, WorkerType,
       Outputs, Results
  <2>5. RestTypes'
    BY <1>20, <1>3 DEF WorkerPoint, BreaksOff, Raises, RestTypes, Trouble, gui, rest
  <2>6. GuiTypes' /\ LaneTypes'
    BY <1>20, <1>3 DEF WorkerPoint, gui, lanes, GuiTypes, LaneTypes
  <2>7. QED
    BY <2>4, <2>5, <2>6 DEF Types
<1>21. CASE WorkerZero
  <2>1. worker \in WorkerType /\ hot \subseteq Outputs
    BY <1>3 DEF WorkTypes
  <2>2. worker' \in WorkerType /\ hot' \subseteq Outputs
    BY <1>21, <2>1, Zeroed
  <2>3. worker.result \in Results /\ worker.failed \in BOOLEAN
    BY <2>1 DEF WorkerType
  <2>4. WorkTypes'
    BY <1>21, <1>3, <2>1, <2>2, <2>3 DEF WorkerZero, WorkTypes, Results
  <2>5. RestTypes'
    BY <1>21, <1>3 DEF WorkerZero, Zeroable, RestTypes, Trouble, gui, rest
  <2>6. GuiTypes' /\ LaneTypes'
    BY <1>21, <1>3 DEF WorkerZero, Zeroable, gui, lanes, GuiTypes, LaneTypes
  <2>7. QED
    BY <2>4, <2>5, <2>6 DEF Types
<1>22. CASE WorkerWarn
  <2>1. worker \in WorkerType /\ hot \subseteq Outputs
    BY <1>3 DEF WorkTypes
  <2>2. worker' \in WorkerType
    BY <1>22, <2>1, WarnedOf
  <2>3. worker.result \in Results /\ worker.failed \in BOOLEAN
    BY <2>1 DEF WorkerType
  <2>4. WorkTypes'
    BY <1>22, <1>3, <2>1, <2>2, <2>3 DEF WorkerWarn, WorkTypes, Results
  <2>5. RestTypes'
    BY <1>22, <1>3 DEF WorkerWarn, RestTypes, Trouble, gui, rest
  <2>6. GuiTypes' /\ LaneTypes'
    BY <1>22, <1>3 DEF WorkerWarn, gui, lanes, GuiTypes, LaneTypes
  <2>7. QED
    BY <2>4, <2>5, <2>6 DEF Types
<1>23. CASE WorkerStatus
  <2>1. worker \in WorkerType /\ hot \subseteq Outputs
    BY <1>3 DEF WorkTypes
  <2>2. worker' \in WorkerType
    BY <1>23, <2>1, Recorded
  <2>3. worker.result \in Results /\ worker.failed \in BOOLEAN
    BY <2>1 DEF WorkerType
  <2>4. WorkTypes'
    BY <1>23, <1>3, <2>1, <2>2, <2>3 DEF WorkerStatus, WorkTypes, Results
  <2>5. RestTypes'
    BY <1>23, <1>3 DEF WorkerStatus, RestTypes, Trouble, gui, rest
  <2>6. GuiTypes' /\ LaneTypes'
    BY <1>23, <1>3 DEF WorkerStatus, gui, lanes, GuiTypes, LaneTypes
  <2>7. QED
    BY <2>4, <2>5, <2>6 DEF Types
<1>24. CASE WorkerTerminal
  <2>1. worker \in WorkerType /\ hot \subseteq Outputs
    BY <1>3 DEF WorkTypes
  <2>2. worker' \in WorkerType
    BY <1>24, <2>1, Reported
  <2>3. worker.result \in Results /\ worker.failed \in BOOLEAN
    BY <2>1 DEF WorkerType
  <2>4. WorkTypes'
    BY <1>24, <1>3, <2>1, <2>2, <2>3 DEF WorkerTerminal, WorkTypes, Results
  <2>5. RestTypes'
    BY <1>24, <1>3 DEF WorkerTerminal, RestTypes, Trouble, gui, rest
  <2>6. GuiTypes' /\ LaneTypes'
    BY <1>24, <1>3 DEF WorkerTerminal, gui, lanes, GuiTypes, LaneTypes
  <2>7. QED
    BY <2>4, <2>5, <2>6 DEF Types
<1>25. CASE WorkerEnd
  <2>1. worker \in WorkerType /\ hot \subseteq Outputs
    BY <1>3 DEF WorkTypes
  <2>2. worker' \in WorkerType
    BY <1>25, <2>1, Ended
  <2>3. worker.result \in Results /\ worker.failed \in BOOLEAN
    BY <2>1 DEF WorkerType
  <2>4. WorkTypes'
    BY <1>25, <1>3, <2>1, <2>2, <2>3 DEF WorkerEnd, WorkTypes, Results
  <2>5. RestTypes'
    BY <1>25, <1>3 DEF WorkerEnd, RestTypes, Trouble, gui, rest
  <2>6. GuiTypes' /\ LaneTypes'
    BY <1>25, <1>3 DEF WorkerEnd, gui, lanes, GuiTypes, LaneTypes
  <2>7. QED
    BY <2>4, <2>5, <2>6 DEF Types
<1>26. CASE Deliver
  <2>1. /\ Head(queue) \in {"finished", "stopped", "error", "warning"}
        /\ Tail(queue) \in Seq({"finished", "stopped", "error", "warning", "ended"})
    BY <1>26, <1>3 DEF Deliver, WorkTypes
  <2>2. \/ seen' = [seen EXCEPT !.warning = TRUE]
        \/ Head(queue) # "warning" /\ seen' = [seen EXCEPT !.terminal = Head(queue)]
    BY <1>26 DEF Deliver
  <2>3. seen' \in [terminal : Results \union {"none"}, warning : BOOLEAN]
    BY <1>3, <2>1, <2>2 DEF WorkTypes, Results
  <2>4. WorkTypes'
    BY <1>26, <1>3, <2>1, <2>3 DEF Deliver, WorkTypes
  <2>5. GuiTypes' /\ LaneTypes' /\ RestTypes'
    BY <1>26, <1>3 DEF Deliver, gui, lanes, rest, GuiTypes, LaneTypes, RestTypes
  <2>6. QED
    BY <2>4, <2>5 DEF Types
<1>27. CASE ThreadFinished
  <2>1. worker' \in WorkerType
    BY <1>27, <1>3, Fresh DEF ThreadFinished, WorkTypes, WorkerType
  <2>2. WorkTypes'
    BY <1>27, <1>3, <2>1 DEF ThreadFinished, WorkTypes
  <2>3. FinalStatus \in Results
    BY <1>3 DEF FinalStatus, WorkTypes, WorkerType, Results
  <2>4. RestTypes'
    <3>1. report' \in {report, FinalStatus} /\ UNCHANGED <<stored, used, form>>
      BY <1>27 DEF ThreadFinished, gui
    <3>2. \/ batch' = batch
          \/ \E e \in {"none", "stopped", "error"} : batch' = [left |-> batch.left, end |-> e]
      BY <1>27, <1>3, <2>3 DEF ThreadFinished, RestTypes, Results
    <3>3. QED
      BY <1>3, <2>3, <3>1, <3>2 DEF RestTypes
  <2>5. GuiTypes' /\ LaneTypes'
    BY <1>27, <1>3 DEF ThreadFinished, gui, GuiTypes, LaneTypes
  <2>6. QED
    BY <2>2, <2>4, <2>5 DEF Types
<1>28. CASE BatchMeasure
  <2>1. Launch("line", Outputs) \/ UNCHANGED work
    BY <1>28 DEF BatchMeasure
  <2>2. WorkTypes'
    <3>1. CASE Launch("line", Outputs)
      BY <1>3, <3>1, Launched DEF Kinds
    <3>2. CASE UNCHANGED work
      BY <1>3, <3>2 DEF WorkTypes, work
    <3>3. QED
      BY <2>1, <3>1, <3>2
  <2>3. RestTypes'
    BY <1>28, <1>2, <1>3 DEF BatchMeasure, RestTypes, gui, Trouble
  <2>4. GuiTypes' /\ LaneTypes'
    BY <1>28, <1>3 DEF BatchMeasure, gui, lanes, GuiTypes, LaneTypes
  <2>5. QED
    BY <2>2, <2>3, <2>4 DEF Types
<1>29. CASE BatchFinish
  <2>1. GuiTypes'
    BY <1>29, <1>2, <1>3 DEF BatchFinish, BatchOver, gui, GuiTypes, NoRequest, Trouble, gui,
       lanes, work, rest
  <2>2. LaneTypes'
    BY <1>29, <1>2, <1>3 DEF BatchFinish, BatchOver, lanes, LaneTypes, NoPreflight,
       PreflightType, Engines, Trouble, gui, lanes, work, rest
  <2>3. RestTypes'
    BY <1>29, <1>2, <1>3 DEF BatchFinish, BatchOver, rest, RestTypes, Results, Trouble, gui,
       lanes, work, rest
  <2>4. WorkTypes'
    BY <1>29, <1>3 DEF BatchFinish, BatchOver, gui, lanes, work, rest, WorkTypes
  <2>5. QED
    BY <2>1, <2>2, <2>3, <2>4 DEF Types
<1>30. CASE TransportEnds
  <2>1. GuiTypes'
    BY <1>30, <1>2, <1>3 DEF TransportEnds, gui, GuiTypes, NoRequest, Trouble, gui, lanes,
       work, rest
  <2>2. LaneTypes'
    BY <1>30, <1>2, <1>3 DEF TransportEnds, lanes, LaneTypes, NoPreflight, PreflightType,
       Engines, Trouble, gui, lanes, work, rest
  <2>3. RestTypes'
    BY <1>30, <1>2, <1>3 DEF TransportEnds, rest, RestTypes, Results, Trouble, gui, lanes,
       work, rest
  <2>4. WorkTypes'
    BY <1>30, <1>3 DEF TransportEnds, gui, lanes, work, rest, WorkTypes
  <2>5. QED
    BY <2>1, <2>2, <2>3, <2>4 DEF Types
<1>31. CASE Idle
  BY <1>31, <1>3 DEF Idle, vars, gui, lanes, work, rest, Types, GuiTypes, LaneTypes, WorkTypes,
     RestTypes
<1>32. CASE UNCHANGED vars
  BY <1>32, <1>3 DEF vars, gui, lanes, work, rest, Types, GuiTypes, LaneTypes, WorkTypes,
     RestTypes
<1>33. PreflightFinished => GoOn \/ Drop
  BY DEF PreflightFinished
<1>34. QED
  BY <1>1, <1>4, <1>5, <1>6, <1>7, <1>8, <1>9, <1>10, <1>11, <1>12, <1>13, <1>14, <1>15, <1>16,
     <1>17, <1>18, <1>19, <1>20, <1>21, <1>22, <1>23, <1>24, <1>25, <1>26, <1>27, <1>28, <1>29,
     <1>30, <1>31, <1>32, <1>33 DEF Next, WorkerStep

\* A step of the worker: somebody is working, and goes on working.
LEMMA WorkerKeeps ==
    ASSUME Types, WorkerStep
    PROVE  /\ Working /\ worker'.kind = worker.kind /\ worker' \in WorkerType
           /\ UNCHANGED <<gui, lanes, seen, stored, batch, report>>
<1>1. worker \in WorkerType /\ hot \subseteq Outputs /\ {"error", "stopped"} \subseteq Results
  BY DEF Types, WorkTypes, Results
<1>2. Working
  BY DEF WorkerStep, WorkerMeta, WorkerCsv, WorkerRamp, WorkerPoint, WorkerZero, WorkerWarn,
         WorkerStatus, WorkerTerminal, WorkerEnd, Step, Working
<1>3. worker'.kind = worker.kind /\ worker' \in WorkerType
  <2>1. CASE WorkerMeta \/ WorkerCsv \/ WorkerRamp \/ WorkerPoint
    BY <1>1, <1>2, <2>1, Advanced, Gone DEF WorkerMeta, WorkerCsv, WorkerRamp, WorkerPoint,
       BreaksOff,
       Raises, Kept
  <2>2. QED
    BY <1>1, <2>1, Zeroed, WarnedOf, Recorded, Reported, Ended DEF WorkerStep, Kept
<1>4. QED
  BY <1>2, <1>3 DEF WorkerStep, WorkerMeta, WorkerCsv, WorkerRamp, WorkerPoint, WorkerZero,
     WorkerWarn,
     WorkerStatus, WorkerTerminal, WorkerEnd, rest

-----------------------------------------------------------------------------
\* Who may be active with whom, through every step.
LEMMA LanesStep == Types /\ Lanes /\ Signals /\ [Next]_vars => Lanes'
<1>1. SUFFICES ASSUME Types, Lanes, Signals, Next \/ UNCHANGED vars
      PROVE  Lanes'
  OBVIOUS
<1>2. CASE SetMode
  BY <1>2, <1>1 DEF SetMode, Editable, gui, lanes, work, rest, Lanes, Active, Working,
     Preparing, Asking, NoRequest, NoPreflight
<1>3. CASE SetValue
  BY <1>3, <1>1 DEF SetValue, Editing, Editable, Accepted, Refused, gui, lanes, work, rest,
     Lanes, Active, Working, Preparing, Asking, NoRequest, NoPreflight
<1>4. CASE SetRecipeCell
  BY <1>4, <1>1 DEF SetRecipeCell, Editing, Editable, Accepted, Refused, gui, lanes, work,
     rest, Lanes, Active, Working, Preparing, Asking, NoRequest, NoPreflight
<1>5. CASE RecipeOperation
  BY <1>5, <1>1 DEF RecipeOperation, Editing, Editable, Accepted, gui, lanes, work, rest,
     Lanes, Active, Working, Preparing, Asking, NoRequest, NoPreflight
<1>6. CASE Start
  BY <1>6, <1>1 DEF Start, StartWith, AskConfirmation, BeginPreflight, Claim,
     NeedsConfirmation, gui, lanes, work, rest, Lanes, Active, Working, Preparing, Asking,
     NoRequest, NoPreflight
<1>7. CASE Stop
  <2>1. CASE StopPreflight
    <3>1. preflight' = [preflight EXCEPT !.cancel = TRUE] /\ preflight \in PreflightType /\ Preparing
      BY <1>1, <2>1 DEF StopPreflight, Types, LaneTypes
    <3>2. preflight'.pc = preflight.pc /\ preflight'.mode = preflight.mode /\ preflight'.cancel = TRUE
      BY <3>1 DEF PreflightType
    <3>3. UNCHANGED <<mode, form, asked, granted, shown, engine, manager, validated, worker>>
      BY <1>7, <2>1 DEF Stop, StopPreflight
    <3>4. QED
      BY <1>1, <3>1, <3>2, <3>3 DEF Lanes, Asking, Preparing, Working
  <2>2. CASE StopAsking
    BY <1>7, <1>1, <2>2 DEF Stop, StopAsking, Lanes, Asking, Preparing, Working, NoRequest
  <2>3. CASE StopRun
    <3>1. worker'.kind = worker.kind /\ worker'.driven = worker.driven
      <4>1. Working \in BOOLEAN /\ worker \in WorkerType
        BY <1>1 DEF Working, Types, WorkTypes
      <4>2. QED
        BY <2>3, <4>1, AskedToStop DEF StopRun, Kept
    <3>2. UNCHANGED <<mode, form, asked, granted, shown, engine, manager, validated, preflight>>
      BY <1>7, <2>3 DEF Stop, StopRun
    <3>3. QED
      BY <1>1, <2>3, <3>1, <3>2 DEF StopRun, Lanes, Asking, Preparing, Working
  <2>4. QED
    BY <1>7, <2>1, <2>2, <2>3 DEF Stop
<1>8. CASE ThermalFault
  <2>1. worker'.kind = worker.kind /\ worker'.driven = worker.driven
    <3> DEFINE b == worker.stop \/ (engine = "batch" /\ Working)
    <3>1. b \in BOOLEAN /\ worker' = [worker EXCEPT !.stop = b] /\ worker \in WorkerType
      BY <1>8, <1>1 DEF ThermalFault, Types, WorkTypes, WorkerType
    <3>2. QED
      BY <3>1, AskedToStop DEF Kept
  <2>2. /\ preflight'.pc = preflight.pc /\ preflight'.mode = preflight.mode
        /\ Preparing => preflight'.cancel = TRUE
    <3>1. Preparing \in BOOLEAN /\ preflight \in PreflightType
      BY <1>1 DEF Preparing, Types, LaneTypes
    <3>2. preflight' = [preflight EXCEPT !.cancel = Preparing]
      BY <1>8 DEF ThermalFault
    <3>3. QED
      BY <3>1, <3>2 DEF PreflightType
  <2>3. UNCHANGED <<gui, engine, manager, validated, stopped>>
    BY <1>8 DEF ThermalFault
  <2>4. QED
    BY <1>1, <2>1, <2>2, <2>3 DEF Lanes, Asking, Preparing, Working, gui
<1>9. ASSUME NEW token \in 1 .. MaxAsks, NEW accepted \in BOOLEAN,
            AnswerConfirmation(token, accepted)
      PROVE  Lanes'
  BY <1>9, <1>1 DEF AnswerConfirmation, Current, Declined, StartWith, AskConfirmation,
     BeginPreflight, Claim, NeedsConfirmation, gui, lanes, work, rest, Lanes, Active, Working,
     Preparing, Asking, NoRequest, NoPreflight
<1>10. CASE ByHand
  BY <1>10, <1>1 DEF ByHand, gui, lanes, work, rest, Lanes, Active, Working, Preparing, Asking,
     NoRequest, NoPreflight
<1>11. CASE StoredChanges
  BY <1>11, <1>1 DEF StoredChanges, gui, lanes, work, rest, Lanes, Active, Working, Preparing,
     Asking, NoRequest, NoPreflight
<1>12. CASE PreflightRead
  BY <1>12, <1>1 DEF PreflightRead, gui, lanes, work, rest, Lanes, Active, Working, Preparing,
     Asking, NoRequest, NoPreflight
<1>13. CASE PreflightFinished /\ GoOn
  <2>1. /\ Preparing /\ preflight' = NoPreflight /\ NoPreflight.pc = "none"
        /\ UNCHANGED <<mode, form, asked, shown, granted, manager, validated, stopped>>
    BY <1>13 DEF PreflightFinished, GoOn, Preparing, NoPreflight
  <2>2. engine' = "transport" => worker' = NoWorker /\ preflight.mode = "transport"
    BY <1>13, <1>1, <2>1 DEF GoOn, Lanes, Kinds
  <2>3. QED
    BY <1>1, <2>1, <2>2, Fresh DEF Lanes, Asking, Preparing, Working
<1>14. CASE PreflightFinished /\ Drop
  BY <1>14, <1>1 DEF PreflightFinished, Drop, MustDrop, EngineRefuses, Cancelled, gui, lanes,
     work, rest, Lanes, Active, Working, Preparing, Asking, NoRequest, NoPreflight
<1>15. CASE Deliver
  BY <1>15, <1>1 DEF Deliver, gui, lanes, work, rest, Lanes, Active, Working, Preparing,
     Asking, NoRequest, NoPreflight, Signals
<1>16. CASE ThreadFinished
  <2>1. /\ Working /\ worker' = [NoWorker EXCEPT !.driven = worker.driven] /\ engine' = engine
        /\ UNCHANGED <<gui, preflight, validated>> /\ worker.driven \in SUBSET Outputs
    BY <1>16, <1>1 DEF ThreadFinished, Signals, Types, WorkTypes, WorkerType
  <2>2. QED
    BY <1>1, <2>1, Fresh DEF Lanes, Asking, Preparing, Working, gui
<1>17. CASE BatchMeasure
  BY <1>17, <1>1 DEF BatchMeasure, Launch, gui, lanes, work, rest, Lanes, Active, Working,
     Preparing, Asking, NoRequest, NoPreflight
<1>18. CASE BatchFinish
  BY <1>18, <1>1 DEF BatchFinish, BatchOver, gui, lanes, work, rest, Lanes, Active, Working,
     Preparing, Asking, NoRequest, NoPreflight
<1>19. CASE TransportEnds
  BY <1>19, <1>1 DEF TransportEnds, gui, lanes, work, rest, Lanes, Active, Working, Preparing,
     Asking, NoRequest, NoPreflight
<1>20. CASE Idle
  BY <1>20, <1>1 DEF Idle, vars, gui, lanes, work, rest, Lanes, Active, Working, Preparing,
     Asking, NoRequest, NoPreflight
<1>21. CASE WorkerStep
  <2>1. Working /\ worker'.kind = worker.kind /\ UNCHANGED <<gui, lanes>>
    BY <1>21, <1>1, WorkerKeeps
  <2>2. QED
    BY <1>1, <2>1 DEF Lanes, Working, Preparing, Asking, gui, lanes
<1>22. CASE UNCHANGED vars
  BY <1>22, <1>1 DEF vars, gui, lanes, work, rest, Lanes, Active, Working, Preparing, Asking,
     NoRequest, NoPreflight
<1>23. PreflightFinished => GoOn \/ Drop
  BY DEF PreflightFinished
<1>24. QED
  BY <1>1, <1>2, <1>3, <1>4, <1>5, <1>6, <1>7, <1>8, <1>9, <1>10, <1>11, <1>12, <1>13, <1>14,
     <1>15, <1>16, <1>17, <1>18, <1>19, <1>20, <1>21, <1>22, <1>23 DEF Next

-----------------------------------------------------------------------------
\* Where a worker is when it takes a step.
LEMMA Placed ==
    ASSUME Types
    PROVE  LET k == worker.kind IN
           /\ WorkerStep => /\ k \in Kinds /\ worker.pc \in 1 .. TailOf(k) + 4
                            /\ TailOf(k) = IF k = "photo" THEN 8 ELSE 6
           /\ WorkerMeta => worker.pc = 1
           /\ WorkerCsv => worker.pc = CsvAt(k) \/ (worker.pc = 6 /\ k = "photo")
           /\ WorkerRamp => /\ worker.pc \in {2, 3, 5} /\ worker.pc # CsvAt(k)
                            /\ worker.pc = 5 => k = "photo"
           /\ WorkerPoint => worker.pc = 4 \/ worker.pc = TailOf(k) - 1
           /\ WorkerZero => worker.pc = ZeroAt(k)
           /\ WorkerWarn => worker.pc = ZeroAt(k) + 1
           /\ WorkerStatus => worker.pc = ZeroAt(k) + 2
           /\ WorkerTerminal => worker.pc = TerminalAt(k)
           /\ WorkerEnd => worker.pc = TailOf(k) + 4
<1> DEFINE k == worker.kind  s == Step(worker)
<1>1. worker.kind \in Kinds \union {"none"} /\ worker.pc \in Nat
  BY DEF Types, WorkTypes, WorkerType
<1>2. /\ WorkerMeta => s = "meta"
      /\ WorkerCsv => s = "csv"
      /\ WorkerRamp => s = "ramp"
      /\ WorkerPoint => s = "point"
      /\ WorkerZero => s = "zero"
      /\ WorkerWarn => s = "warn"
      /\ WorkerStatus => s = "status"
      /\ WorkerTerminal => s = "terminal"
      /\ WorkerEnd => s = "end"
  BY DEF WorkerMeta, WorkerCsv, WorkerRamp, WorkerPoint, WorkerZero, WorkerWarn, WorkerStatus,
     WorkerTerminal, WorkerEnd
<1>3. s # "none" =>
           /\ k \in Kinds /\ worker.pc \in 1 .. TailOf(k) + 4
           /\ s = "meta" <=> worker.pc = 1
           /\ s = "csv" => worker.pc = CsvAt(k) \/ (worker.pc = 6 /\ k = "photo")
           /\ s = "ramp" => worker.pc \in {2, 3, 5} /\ worker.pc # CsvAt(k) /\ (worker.pc = 5 => k = "photo")
           /\ s = "point" <=> worker.pc = 4 \/ worker.pc = TailOf(k) - 1
           /\ s = "zero" <=> worker.pc = ZeroAt(k)
           /\ s = "warn" <=> worker.pc = ZeroAt(k) + 1
           /\ s = "status" <=> worker.pc = ZeroAt(k) + 2
           /\ s = "terminal" <=> worker.pc = TerminalAt(k)
           /\ s = "end" <=> worker.pc = TailOf(k) + 4
  BY <1>1, Where
<1>4. k \in Kinds => TailOf(k) = IF k = "photo" THEN 8 ELSE 6
  BY Plans
<1> HIDE DEF k, s
<1>5. WorkerStep => s # "none"
  BY <1>2 DEF WorkerStep
<1>6. QED
  BY <1>2, <1>3, <1>4, <1>5 DEF WorkerStep, k

\* The signals of a run depend on nothing but these.
LEMMA SameSignals ==
    ASSUME Signals, UNCHANGED <<queue, seen>>,
           worker'.kind = worker.kind, worker'.pc = worker.pc, worker'.failed = worker.failed
    PROVE  Signals'
  BY DEF Signals, Working, Warned

\* A run that begins, and no run at all.
LEMMA NoSignals ==
    ASSUME queue' = <<>>, worker'.kind = "none" \/ ~worker'.failed
    PROVE  Signals'
  BY DEF Signals, Working, Warned

-----------------------------------------------------------------------------
\* The signals, through every step.
LEMMA SignalsStep == Types /\ Lanes /\ Signals /\ Progress /\ [Next]_vars => Signals'
<1>1. SUFFICES ASSUME Types, Lanes, Signals, Progress, Next \/ UNCHANGED vars
      PROVE  Signals'
  OBVIOUS
<1>2. /\ worker \in WorkerType /\ hot \subseteq Outputs
      /\ queue \in Seq({"finished", "stopped", "error", "warning", "ended"})
      /\ worker.kind \in Kinds \union {"none"} /\ worker.pc \in Nat /\ worker.result \in Results
      /\ {"error", "stopped"} \subseteq Results
  BY <1>1 DEF Types, WorkTypes, WorkerType, Results
<1>3. CASE UNCHANGED work
  BY <1>1, <1>3, SameSignals DEF work
<1>4. CASE Stop \/ ThermalFault
  <2>1. \/ worker' = worker
        \/ \E b \in BOOLEAN : worker' = [worker EXCEPT !.stop = b]
    <3> DEFINE b == worker.stop \/ (engine = "batch" /\ Working)
    <3>1. Working \in BOOLEAN /\ b \in BOOLEAN
      BY <1>2 DEF Working, WorkerType
    <3>2. ThermalFault => worker' = [worker EXCEPT !.stop = b]
      BY DEF ThermalFault
    <3>3. QED
      BY <1>4, <3>1, <3>2 DEF Stop, StopPreflight, StopAsking, StopRun
  <2>2. UNCHANGED <<queue, seen>>
    BY <1>4 DEF Stop, ThermalFault
  <2>3. worker'.kind = worker.kind /\ worker'.pc = worker.pc /\ worker'.failed = worker.failed
    BY <1>2, <2>1, AskedToStop DEF Kept
  <2>4. QED
    BY <1>1, <2>2, <2>3, SameSignals
<1>5. ASSUME NEW k \in Kinds, NEW driven \in SUBSET Outputs, Launch(k, driven), ~Working
      PROVE  Signals'
  <2>1. queue' = <<>> /\ worker'.failed = FALSE
    BY <1>1, <1>5, Launched DEF Signals
  <2>2. QED
    BY <2>1, NoSignals
<1>6. CASE PreflightFinished
  <2>1. ~Working
    BY <1>1, <1>6 DEF PreflightFinished, Lanes, Preparing
  <2>2. CASE GoOn /\ preflight.mode \in Kinds
    <3>1. PICK driven \in DrivenBy[preflight.mode] : Launch(preflight.mode, driven)
      BY <2>2 DEF GoOn
    <3>2. driven \in SUBSET Outputs
      BY <2>2, Driven
    <3>3. QED
      BY <1>5, <2>1, <2>2, <3>1, <3>2
  <2>3. CASE GoOn /\ preflight.mode \notin Kinds
    BY <1>1, <2>1, <2>3, Fresh, NoSignals DEF GoOn, Signals
  <2>4. CASE Drop
    BY <1>3, <2>4 DEF Drop
  <2>5. QED
    BY <1>6, <2>2, <2>3, <2>4 DEF PreflightFinished
<1>7. CASE BatchMeasure
  <2>1. Launch("line", Outputs) \/ UNCHANGED work
    BY <1>7 DEF BatchMeasure
  <2>2. QED
    BY <1>3, <1>5, <1>7, <2>1 DEF BatchMeasure, Kinds
<1>8. CASE WorkerStep
  <2> DEFINE k == worker.kind
  <2>1. /\ Working /\ worker'.kind = k /\ k \in Kinds /\ worker.pc \in 1 .. TailOf(k) + 4
        /\ TailOf(k) = IF k = "photo" THEN 8 ELSE 6
        /\ seen' = seen
    BY <1>1, <1>8, WorkerKeeps, Placed
  <2>2. ZeroAt(k) \in {TailOf(k), TailOf(k) + 1}
    BY DEF ZeroAt
  <2>3. \A i \in 1 .. Len(queue) : queue[i] # "ended"
    BY <1>1, <2>1 DEF Signals
  <2>4. CASE WorkerMeta \/ WorkerCsv \/ WorkerRamp \/ WorkerPoint
    <3>1. queue' = queue /\ worker'.failed = worker.failed /\ worker.pc < TailOf(k)
      <4>1. worker.pc < TailOf(k)
        BY <1>1, <2>1, <2>4, Placed DEF CsvAt
      <4>2. worker'.failed = worker.failed
        BY <1>2, <2>1, <2>4, Advanced, Gone DEF WorkerMeta, WorkerCsv, WorkerRamp, WorkerPoint,
           BreaksOff,
           Raises, Kept
      <4>3. QED
        BY <2>4, <4>1, <4>2 DEF WorkerMeta, WorkerCsv, WorkerRamp, WorkerPoint
    <3>2. ~worker.failed
      BY <1>1, <2>1, <2>2, <3>1 DEF Progress
    <3>3. QED
      BY <2>1, <2>3, <3>1, <3>2 DEF Signals, Working, Kinds
  <2>5. CASE WorkerZero
    <3>1. worker'.pc = ZeroAt(k) + 1 /\ queue' = queue
      BY <1>1, <1>2, <2>5, Placed, Zeroed DEF WorkerZero
    <3>2. QED
      BY <2>1, <2>2, <2>3, <3>1 DEF Signals, Working, Kinds
  <2>6. CASE WorkerWarn
    <3>1. worker'.failed = worker.failed /\ worker'.pc = worker.pc + 1
      BY <1>2, <2>6, WarnedOf DEF Kept
    <3>2. CASE worker.failed
      <4>1. queue' = Append(queue, "warning")
        BY <2>6, <3>2 DEF WorkerWarn
      <4>2. Len(queue') = Len(queue) + 1 /\ queue'[Len(queue')] = "warning"
            /\ \A i \in 1 .. Len(queue) : queue'[i] = queue[i]
        BY <1>2, <4>1
      <4>3. Len(queue) \in Nat
        BY <1>2
      <4>4. Warned' /\ \A i \in 1 .. Len(queue') : queue'[i] # "ended"
        BY <2>3, <4>2, <4>3 DEF Warned
      <4>5. QED
        BY <2>1, <4>4 DEF Signals, Working, Kinds
    <3>3. CASE ~worker.failed
      BY <2>1, <2>3, <2>6, <3>1, <3>3 DEF WorkerWarn, Signals, Working, Kinds
    <3>4. QED
      BY <3>2, <3>3
  <2>7. CASE WorkerStatus
    <3>1. /\ worker'.failed = worker.failed /\ worker'.pc = worker.pc + 1 /\ queue' = queue
          /\ worker.pc = ZeroAt(k) + 2
      BY <1>1, <1>2, <2>7, Recorded, Placed DEF WorkerStatus, Kept
    <3>2. QED
      BY <1>1, <2>1, <2>2, <2>3, <3>1 DEF Signals, Working, Kinds, Warned
  <2>8. CASE WorkerTerminal
    <3>1. /\ worker'.failed = worker.failed /\ worker'.pc = worker.pc + 1
          /\ queue' = Append(queue, worker.result) /\ worker.pc = TerminalAt(k)
      BY <1>1, <1>2, <2>8, Reported, Placed DEF WorkerTerminal, Kept
    <3>2. worker.result # "ended" /\ worker.result \in {"finished", "stopped", "error", "warning", "ended"}
      BY <1>2 DEF Results
    <3>3. Len(queue) \in Nat /\ Len(queue') = Len(queue) + 1 /\ queue'[Len(queue')] = worker.result
          /\ \A i \in 1 .. Len(queue) : queue'[i] = queue[i]
      BY <1>2, <3>1, <3>2
    <3>4. (Warned => Warned') /\ \A i \in 1 .. Len(queue') : queue'[i] # "ended"
      BY <2>1, <2>3, <3>2, <3>3 DEF Warned
    <3>5. worker.pc <= ZeroAt(k) - 1 \/ worker.pc > ZeroAt(k) + 1
      BY <2>1, <3>1 DEF TerminalAt, ZeroAt
    <3>6. QED
      BY <1>1, <2>1, <2>2, <3>1, <3>4, <3>5 DEF Signals, Working, Kinds
  <2>9. CASE WorkerEnd
    <3>1. /\ worker'.failed = worker.failed /\ worker'.pc = worker.pc + 1
          /\ queue' = Append(queue, "ended") /\ worker.pc = TailOf(k) + 4
      BY <1>1, <1>2, <2>9, Ended, Placed DEF WorkerEnd, Kept
    <3>2. Len(queue) \in Nat /\ Len(queue') = Len(queue) + 1 /\ queue'[Len(queue')] = "ended"
          /\ \A i \in 1 .. Len(queue) : queue'[i] = queue[i]
      BY <1>2, <3>1
    <3>3. /\ Warned => Warned'
          /\ \A i \in 1 .. Len(queue') : queue'[i] = "ended" => i = Len(queue')
      BY <2>1, <2>3, <3>2 DEF Warned
    <3>4. worker'.pc = TailOf(k) + 5
      BY <2>1, <3>1
    <3>5. QED
      BY <1>1, <2>1, <2>2, <3>1, <3>3, <3>4 DEF Signals, Working, Kinds
  <2>10. QED
    BY <1>8, <2>4, <2>5, <2>6, <2>7, <2>8, <2>9 DEF WorkerStep
<1>9. CASE Deliver
  <2>1. queue # <<>> /\ queue' = Tail(queue) /\ worker' = worker
    BY <1>9 DEF Deliver
  <2>2. Len(queue) \in Nat /\ Len(queue') = Len(queue) - 1
        /\ \A i \in 1 .. Len(queue') : queue'[i] = queue[i + 1] /\ i + 1 \in 1 .. Len(queue)
    BY <1>2, <2>1
  <2>3. Warned => Warned'
    <3>1. CASE seen.warning
      <4>1. seen \in [terminal : Results \union {"none"}, warning : BOOLEAN]
        BY <1>1 DEF Types, WorkTypes
      <4>2. QED
        BY <1>9, <3>1, <4>1 DEF Deliver, Warned
    <3>2. ASSUME NEW i \in 1 .. Len(queue), queue[i] = "warning" PROVE Warned'
      <4>1. CASE i = 1
        <5>1. Head(queue) = "warning"
          BY <3>2, <4>1, <1>2, <2>1
        <5>2. seen' = [seen EXCEPT !.warning = TRUE] /\ seen \in [terminal : Results \union {"none"}, warning : BOOLEAN]
          BY <1>1, <1>9, <5>1 DEF Deliver, Types, WorkTypes
        <5>3. QED
          BY <5>2 DEF Warned
      <4>2. CASE i # 1
        <5>1. i - 1 \in 1 .. Len(queue') /\ queue'[i - 1] = "warning"
          BY <2>2, <3>2, <4>2
        <5>2. QED
          BY <5>1 DEF Warned
      <4>3. QED
        BY <4>1, <4>2
    <3>3. QED
      BY <3>1, <3>2 DEF Warned
  <2>4. \A i \in 1 .. Len(queue') : queue'[i] = "ended" => i = Len(queue') /\ worker.pc = TailOf(worker.kind) + 5
    BY <1>1, <2>2 DEF Signals
  <2>5. Working
    BY <1>1, <2>1 DEF Signals
  <2>6. QED
    BY <1>1, <2>1, <2>3, <2>4, <2>5 DEF Signals, Working
<1>10. CASE ThreadFinished
  <2>1. Len(queue) = 1
    <3>1. 1 \in 1 .. Len(queue) /\ queue[1] = "ended"
      BY <1>2, <1>10 DEF ThreadFinished
    <3>2. QED
      BY <1>1, <3>1 DEF Signals
  <2>2. queue' = <<>>
    BY <1>2, <1>10, <2>1 DEF ThreadFinished
  <2>3. worker'.kind = "none"
    BY <1>2, <1>10, Fresh DEF ThreadFinished, WorkerType
  <2>4. QED
    BY <2>2, <2>3, NoSignals
<1>11. UNCHANGED vars => UNCHANGED work
  BY DEF vars
<1>12. SetMode \/ SetValue \/ SetRecipeCell \/ RecipeOperation \/ Start \/ ByHand \/ StoredChanges
       \/ PreflightRead \/ BatchFinish \/ TransportEnds \/ Idle => UNCHANGED work
  BY <1>11 DEF SetMode, SetValue, SetRecipeCell, RecipeOperation, Editing, Start, ByHand,
     StoredChanges,
     PreflightRead, BatchFinish, TransportEnds, Idle
<1>13. \A token \in 1 .. MaxAsks, accepted \in BOOLEAN :
          AnswerConfirmation(token, accepted) => UNCHANGED work
  BY DEF AnswerConfirmation
<1>14. QED
  BY <1>1, <1>3, <1>4, <1>6, <1>7, <1>8, <1>9, <1>10, <1>11, <1>12, <1>13 DEF Next

-----------------------------------------------------------------------------
\* How far the worker has come depends on nothing but these.
LEMMA SameProgress ==
    ASSUME Progress, UNCHANGED <<hot, files>>, worker'.pc = worker.pc,
           Kept({"kind", "driven", "failed", "result", "terminal", "unhandled"})
    PROVE  Progress'
  BY DEF Progress, Working, Kept

LEMMA Begun ==
    ASSUME NEW k \in Kinds, NEW driven \in SUBSET Outputs, Launch(k, driven)
    PROVE  Progress'
<1>1. /\ worker'.pc = 1 /\ worker'.kind = k /\ worker'.result = "error" /\ worker'.failed = FALSE
      /\ worker'.terminal = "none"
      /\ files'.kind = k /\ files'.rows = 0 /\ files'.safe = FALSE /\ files'.meta = "none"
  BY Launched
<1>2. TailOf(k) = IF k = "photo" THEN 8 ELSE 6
  BY Plans
<1>3. /\ ZeroAt(k) \in {TailOf(k), TailOf(k) + 1} /\ TerminalAt(k) \in {TailOf(k), TailOf(k) + 3}
      /\ CsvAt(k) \in {2, 3} /\ RowsBy(k, 1) = 0
  BY DEF ZeroAt, TerminalAt, CsvAt, RowsBy
<1>4. QED
  BY <1>1, <1>2, <1>3 DEF Progress, Working

\* Out of the try part, into the cleanup.
LEMMA Broken ==
    ASSUME Types, Progress, Working, worker.pc < TailOf(worker.kind), files' = files,
           NEW r \in {"error", "stopped"}, Leaves(r)
    PROVE  Progress'
<1> DEFINE k == worker.kind
<1>1. worker \in WorkerType /\ k \in Kinds /\ r \in Results
  BY DEF Types, WorkTypes, WorkerType, Working, Results
<1>2. /\ worker'.pc = TailOf(k) /\ worker'.result = r
      /\ Kept({"kind", "stop", "driven", "failed", "terminal", "unhandled"})
  BY <1>1, Gone
<1>3. TailOf(k) \in {6, 8} /\ worker.pc \in Nat
  BY <1>1, Plans DEF WorkerType
<1>4. ZeroAt(k) \in {TailOf(k), TailOf(k) + 1} /\ TerminalAt(k) \in {TailOf(k), TailOf(k) + 3}
  BY DEF ZeroAt, TerminalAt
<1>5. worker'.kind = k /\ worker'.failed = worker.failed /\ worker'.terminal = worker.terminal
  BY <1>2 DEF Kept
<1>6. /\ ~worker.failed /\ worker.terminal = "none" /\ files.kind = k
      /\ ~files.safe /\ files.meta # "finished"
  BY <1>3, <1>4 DEF Progress
<1>7. QED
  BY <1>2, <1>3, <1>4, <1>5, <1>6 DEF Progress, Working

\* On to the next step of the try part, with the files as they should be there.
LEMMA WentOn ==
    ASSUME Types, Progress, Working, worker.pc < TailOf(worker.kind), Advances,
           files'.kind = files.kind, ~files'.safe, files'.meta # "finished",
           files'.rows = RowsBy(worker.kind, worker.pc + 1),
           worker.pc + 1 > CsvAt(worker.kind) => files'.csv = "open"
    PROVE  Progress'
<1> DEFINE k == worker.kind
<1>1. worker \in WorkerType /\ k \in Kinds
  BY DEF Types, WorkTypes, WorkerType, Working
<1>2. /\ worker'.pc = worker.pc + 1
      /\ worker'.result = IF worker.pc + 1 = TailOf(k) THEN "finished" ELSE worker.result
      /\ Kept({"kind", "stop", "driven", "failed", "terminal", "unhandled"})
  BY <1>1, Advanced
<1>3. TailOf(k) \in {6, 8} /\ worker.pc \in Nat
  BY <1>1, Plans DEF WorkerType
<1>4. /\ ZeroAt(k) \in {TailOf(k), TailOf(k) + 1} /\ TerminalAt(k) \in {TailOf(k), TailOf(k) + 3}
      /\ CsvAt(k) \in {2, 3}
  BY DEF ZeroAt, TerminalAt, CsvAt
<1>5. worker'.kind = k /\ worker'.failed = worker.failed /\ worker'.terminal = worker.terminal
  BY <1>2 DEF Kept
<1>6. /\ ~worker.failed /\ worker.terminal = "none" /\ files.kind = k /\ worker.result = "error"
      /\ worker.pc \in 1 .. TailOf(k) + 5
  BY <1>3, <1>4 DEF Progress
<1>7. worker.pc + 1 = TailOf(k) => files'.rows = 2 /\ files'.csv = "open"
  BY <1>3, <1>4 DEF RowsBy
<1>8. QED
  BY <1>2, <1>3, <1>4, <1>5, <1>6, <1>7 DEF Progress, Working

\* How far the worker has come, through every step.
LEMMA ProgressStep == Types /\ Lanes /\ Progress /\ [Next]_vars => Progress'
<1>1. SUFFICES ASSUME Types, Lanes, Progress, Next \/ UNCHANGED vars
      PROVE  Progress'
  OBVIOUS
<1>2. /\ worker \in WorkerType /\ hot \subseteq Outputs
      /\ files \in [kind : Kinds \union {"none"}, csv : {"none", "open"}, rows : Nat,
                    meta : Results \union {"none", "running"}, safe : BOOLEAN]
      /\ worker.kind \in Kinds \union {"none"} /\ worker.pc \in Nat /\ worker.result \in Results
  BY <1>1 DEF Types, WorkTypes, WorkerType
<1>3. CASE UNCHANGED work
  BY <1>1, <1>3, SameProgress DEF work, Kept
<1>4. CASE Stop \/ ThermalFault
  <2>1. \/ worker' = worker
        \/ \E b \in BOOLEAN : worker' = [worker EXCEPT !.stop = b]
    <3> DEFINE b == worker.stop \/ (engine = "batch" /\ Working)
    <3>1. Working \in BOOLEAN /\ b \in BOOLEAN
      BY <1>2 DEF Working, WorkerType
    <3>2. ThermalFault => worker' = [worker EXCEPT !.stop = b]
      BY DEF ThermalFault
    <3>3. QED
      BY <1>4, <3>1, <3>2 DEF Stop, StopPreflight, StopAsking, StopRun
  <2>2. UNCHANGED <<hot, files>>
    BY <1>4 DEF Stop, ThermalFault
  <2>3. worker'.pc = worker.pc /\ Kept({"kind", "driven", "failed", "result", "terminal", "unhandled"})
    BY <1>2, <2>1, AskedToStop DEF Kept
  <2>4. QED
    BY <1>1, <2>2, <2>3, SameProgress
<1>5. CASE PreflightFinished
  <2>1. CASE GoOn /\ preflight.mode \in Kinds
    <3>1. PICK driven \in DrivenBy[preflight.mode] : Launch(preflight.mode, driven)
      BY <2>1 DEF GoOn
    <3>2. driven \in SUBSET Outputs
      BY <2>1, Driven
    <3>3. QED
      BY <2>1, <3>1, <3>2, Begun
  <2>2. CASE GoOn /\ preflight.mode \notin Kinds
    BY <2>2, Fresh DEF GoOn, Progress, Working
  <2>3. CASE Drop
    BY <1>3, <2>3 DEF Drop
  <2>4. QED
    BY <1>5, <2>1, <2>2, <2>3 DEF PreflightFinished
<1>6. CASE BatchMeasure
  <2>1. Launch("line", Outputs) \/ UNCHANGED work
    BY <1>6 DEF BatchMeasure
  <2>2. QED
    BY <1>3, <2>1, Begun DEF Kinds
<1>7. CASE Deliver
  BY <1>1, <1>7, SameProgress DEF Deliver, Kept
<1>8. CASE ThreadFinished
  BY <1>2, <1>8, Fresh DEF ThreadFinished, Progress, Working, WorkerType
<1>9. CASE WorkerStep
  <2> DEFINE k == worker.kind
  <2>1. /\ Working /\ worker'.kind = k /\ k \in Kinds /\ worker.pc \in 1 .. TailOf(k) + 4
        /\ TailOf(k) = IF k = "photo" THEN 8 ELSE 6
    BY <1>1, <1>9, WorkerKeeps, Placed
  <2>2. /\ ZeroAt(k) = IF k = "line" THEN TailOf(k) ELSE TailOf(k) + 1
        /\ TerminalAt(k) = IF k = "line" THEN TailOf(k) + 3 ELSE TailOf(k)
        /\ CsvAt(k) = IF k = "map" THEN 2 ELSE 3
        /\ k \in ReportsLate <=> k = "line"
    BY DEF ZeroAt, TerminalAt, CsvAt, ReportsLate
  <2>3. CASE WorkerMeta \/ WorkerCsv \/ WorkerRamp \/ WorkerPoint
    <3>1. worker.pc < TailOf(k)
      BY <1>1, <2>1, <2>2, <2>3, Placed
    <3>2. /\ files.kind = k /\ files.rows = RowsBy(k, worker.pc) /\ ~files.safe /\ files.meta # "finished"
          /\ worker.pc > CsvAt(k) => files.csv = "open"
      BY <1>1, <2>1, <2>2, <3>1 DEF Progress
    <3>3. CASE \E r \in {"error", "stopped"} : Leaves(r) /\ files' = files
      BY <1>1, <2>1, <3>1, <3>3, Broken
    <3>4. CASE WorkerMeta /\ Advances /\ files' = [files EXCEPT !.meta = "running"]
      <4>1. worker.pc = 1
        BY <1>1, <3>4, Placed
      <4>2. /\ files'.kind = files.kind /\ files'.safe = files.safe /\ files'.meta = "running"
            /\ files'.rows = files.rows /\ files'.csv = files.csv
        BY <1>2, <3>4
      <4>3. RowsBy(k, worker.pc) = RowsBy(k, worker.pc + 1)
        BY <4>1 DEF RowsBy
      <4>4. QED
        BY <1>1, <2>1, <2>2, <3>1, <3>2, <3>4, <4>1, <4>2, <4>3, WentOn
    <3>5. CASE WorkerCsv /\ Advances /\ files' = [files EXCEPT !.csv = "open"]
      <4>1. worker.pc \in {2, 3, 6} /\ (worker.pc = 6 => k = "photo")
        BY <1>1, <2>2, <3>5, Placed
      <4>2. /\ files'.kind = files.kind /\ files'.safe = files.safe /\ files'.meta = files.meta
            /\ files'.rows = files.rows /\ files'.csv = "open"
        BY <1>2, <3>5
      <4>3. RowsBy(k, worker.pc) = RowsBy(k, worker.pc + 1)
        BY <2>1, <4>1 DEF RowsBy
      <4>4. QED
        BY <1>1, <2>1, <2>2, <3>1, <3>2, <3>5, <4>2, <4>3, WentOn
    <3>6. CASE WorkerRamp /\ Advances /\ files' = files
      <4>1. /\ worker.pc \in {2, 3, 5} /\ worker.pc # CsvAt(k) /\ (worker.pc = 5 => k = "photo")
        BY <1>1, <3>6, Placed
      <4>2. RowsBy(k, worker.pc) = RowsBy(k, worker.pc + 1)
        BY <2>1, <4>1 DEF RowsBy
      <4>3. worker.pc + 1 > CsvAt(k) => worker.pc > CsvAt(k)
        BY <2>2, <4>1
      <4>4. QED
        BY <1>1, <2>1, <3>1, <3>2, <3>6, <4>2, <4>3, WentOn
    <3>7. CASE WorkerPoint /\ Advances /\ files' = [files EXCEPT !.rows = @ + 1]
      <4>1. worker.pc = 4 \/ worker.pc = TailOf(k) - 1
        BY <1>1, <3>7, Placed
      <4>2. /\ files'.kind = files.kind /\ files'.safe = files.safe /\ files'.meta = files.meta
            /\ files'.rows = files.rows + 1 /\ files'.csv = files.csv
        BY <1>2, <3>7
      <4>3. RowsBy(k, worker.pc) + 1 = RowsBy(k, worker.pc + 1)
        BY <2>1, <4>1 DEF RowsBy
      <4>4. worker.pc > CsvAt(k)
        BY <2>1, <2>2, <4>1
      <4>5. QED
        BY <1>1, <2>1, <3>1, <3>2, <3>7, <4>2, <4>3, <4>4, WentOn
    <3>8. QED
      BY <2>3, <3>3, <3>4, <3>5, <3>6, <3>7 DEF WorkerMeta, WorkerCsv, WorkerRamp, WorkerPoint,
         BreaksOff, Raises
  <2>4. /\ files.kind = k
        /\ worker.result = "finished" /\ worker.pc >= TailOf(k) => files.csv = "open" /\ files.rows = 2
    BY <1>1, <2>1 DEF Progress
  <2>5. CASE WorkerZero
    <3>1. /\ worker.pc = ZeroAt(k) /\ worker'.pc = ZeroAt(k) + 1 /\ files' = files
          /\ worker'.result = worker.result /\ worker'.terminal = worker.terminal
          /\ worker'.unhandled = worker.unhandled
          /\ hot' \intersect worker'.driven # {} => worker'.failed
      BY <1>1, <1>2, <2>5, Placed, Zeroed DEF WorkerZero, Kept
    <3>2. QED
      BY <1>1, <2>1, <2>2, <3>1 DEF Progress, Working
  <2>6. CASE WorkerWarn
    <3>0. worker.pc = ZeroAt(k) + 1
      BY <1>1, <2>6, Placed
    <3>1. /\ worker.pc = ZeroAt(k) + 1 /\ worker'.pc = ZeroAt(k) + 2 /\ files' = files /\ hot' = hot
          /\ worker'.result = IF worker.failed /\ k = "line" THEN "error" ELSE worker.result
          /\ worker'.terminal = worker.terminal /\ worker'.failed = worker.failed
          /\ worker'.unhandled = worker.unhandled /\ worker'.driven = worker.driven
      BY <1>2, <2>1, <2>2, <2>6, <3>0, WarnedOf DEF WorkerWarn, Kept
    <3>2. QED
      BY <1>1, <2>1, <2>2, <3>1 DEF Progress, Working
  <2>7. CASE WorkerStatus
    <3>0. worker.pc = ZeroAt(k) + 2
      BY <1>1, <2>7, Placed
    <3>1. /\ worker.pc = ZeroAt(k) + 2 /\ worker'.pc = ZeroAt(k) + 3
          /\ worker'.terminal = worker.terminal /\ worker'.failed = worker.failed
          /\ worker'.driven = worker.driven
      BY <1>2, <2>1, <2>2, <2>7, <3>0, Recorded DEF Kept
    <3>9. hot' = hot
      BY <2>7 DEF WorkerStatus
    <3>2. CASE /\ files' = [files EXCEPT !.meta = worker.result, !.safe = ~worker.failed]
               /\ Kept({"result", "unhandled"})
      <4>1. /\ files'.kind = files.kind /\ files'.rows = files.rows /\ files'.csv = files.csv
            /\ files'.meta = worker.result /\ files'.safe = ~worker.failed
        BY <1>2, <3>2
      <4>2. worker'.result = worker.result /\ worker'.unhandled = worker.unhandled
        BY <3>2 DEF Kept
      <4>3. QED
        BY <1>1, <2>1, <2>2, <3>1, <3>9, <4>1, <4>2 DEF Progress, Working
    <3>3. CASE files' = files /\ k = "line" /\ worker'.result = "error" /\ Kept({"unhandled"})
      BY <1>1, <2>1, <2>2, <3>1, <3>9, <3>3 DEF Progress, Working
    <3>4. CASE files' = files /\ k # "line" /\ worker'.unhandled = TRUE /\ Kept({"result"})
      <4>1. worker'.result = worker.result
        BY <3>4 DEF Kept
      <4>2. QED
        BY <1>1, <2>1, <2>2, <3>1, <3>9, <3>4, <4>1 DEF Progress, Working
    <3>5. QED
      BY <1>2, <2>2, <2>7, <3>2, <3>3, <3>4, Recorded
  <2>8. CASE WorkerTerminal
    <3>0. worker.pc = TerminalAt(k)
      BY <1>1, <2>8, Placed
    <3>1. /\ worker.pc = TerminalAt(k) /\ worker'.pc = TerminalAt(k) + 1 /\ files' = files /\ hot' = hot
          /\ worker'.result = worker.result /\ worker'.terminal = worker.result
          /\ worker'.failed = worker.failed
          /\ worker'.unhandled = worker.unhandled /\ worker'.driven = worker.driven
      BY <1>2, <2>8, <3>0, Reported DEF WorkerTerminal, Kept
    <3>2. QED
      BY <1>1, <2>1, <2>2, <3>1 DEF Progress, Working
  <2>9. CASE WorkerEnd
    <3>0. worker.pc = TailOf(k) + 4
      BY <1>1, <2>9, Placed
    <3>1. /\ worker.pc = TailOf(k) + 4 /\ worker'.pc = TailOf(k) + 5 /\ files' = files /\ hot' = hot
          /\ worker'.result = worker.result /\ worker'.terminal = worker.terminal
          /\ worker'.failed = worker.failed
          /\ worker'.unhandled = worker.unhandled /\ worker'.driven = worker.driven
      BY <1>2, <2>1, <2>2, <2>9, <3>0, Ended DEF WorkerEnd, Kept
    <3>2. QED
      BY <1>1, <2>1, <2>2, <3>1 DEF Progress, Working
  <2>10. QED
    BY <1>9, <2>3, <2>5, <2>6, <2>7, <2>8, <2>9 DEF WorkerStep
<1>10. UNCHANGED vars => UNCHANGED work
  BY DEF vars
<1>11. SetMode \/ SetValue \/ SetRecipeCell \/ RecipeOperation \/ Start \/ ByHand \/ StoredChanges
       \/ PreflightRead \/ BatchFinish \/ TransportEnds \/ Idle => UNCHANGED work
  BY <1>10 DEF SetMode, SetValue, SetRecipeCell, RecipeOperation, Editing, Start, ByHand,
     StoredChanges,
     PreflightRead, BatchFinish, TransportEnds, Idle
<1>12. \A token \in 1 .. MaxAsks, accepted \in BOOLEAN :
          AnswerConfirmation(token, accepted) => UNCHANGED work
  BY DEF AnswerConfirmation
<1>13. QED
  BY <1>1, <1>3, <1>4, <1>5, <1>6, <1>7, <1>8, <1>9, <1>10, <1>11, <1>12 DEF Next

-----------------------------------------------------------------------------
\* What the thread's end is reported as: finished only if everything is there,
\* and an error if an output could not be brought back to zero.
LEMMA Outcome ==
    ASSUME Types, Signals, Progress, ThreadFinished
    PROVE  /\ Working /\ FinalStatus \in Results
           /\ worker'.kind = "none" /\ worker'.driven = worker.driven
           /\ FinalStatus = "finished" => files.meta = "finished" /\ files.safe
           /\ hot \intersect worker.driven # {} => FinalStatus = "error"
<1> DEFINE k == worker.kind
<1>1. /\ worker \in WorkerType /\ seen \in [terminal : Results \union {"none"}, warning : BOOLEAN]
      /\ queue \in Seq({"finished", "stopped", "error", "warning", "ended"})
  BY DEF Types, WorkTypes
<1>2. 1 \in 1 .. Len(queue) /\ queue[1] = "ended"
  BY <1>1 DEF ThreadFinished
<1>3. Working /\ Len(queue) = 1 /\ worker.pc = TailOf(k) + 5
  BY <1>2 DEF Signals, ThreadFinished
<1>4. k \in Kinds
  BY <1>1, <1>3 DEF WorkerType, Working
<1>5. TailOf(k) \in {6, 8} /\ ZeroAt(k) \in {TailOf(k), TailOf(k) + 1}
      /\ TerminalAt(k) \in {TailOf(k), TailOf(k) + 3}
  BY <1>4, Plans DEF ZeroAt, TerminalAt
<1>6. worker.failed => seen.warning
  BY <1>2, <1>3, <1>5 DEF Signals, Warned
<1>7. worker.terminal = worker.result /\ worker.result \in Results
  BY <1>1, <1>3, <1>5 DEF Progress, WorkerType
<1>8. worker.result # "none"
  BY <1>7 DEF Results
<1>9. FinalStatus = IF worker.unhandled \/ seen.warning THEN "error" ELSE worker.result
  BY <1>7, <1>8 DEF FinalStatus
<1>10. hot \intersect worker.driven # {} => worker.failed
  BY <1>3, <1>5 DEF Progress
<1>11. ~worker.unhandled /\ worker.result = "finished" => files.meta = "finished" /\ files.safe = ~worker.failed
  BY <1>3, <1>5 DEF Progress
<1>12. worker'.kind = "none" /\ worker'.driven = worker.driven
  BY <1>1, Fresh DEF ThreadFinished, WorkerType
<1>13. QED
  BY <1>3, <1>6, <1>7, <1>9, <1>10, <1>11, <1>12 DEF Results

\* What is left depends on nothing but these.
LEMMA SameLeft ==
    ASSUME Left, UNCHANGED <<hot, files, engine, batch, report, validated>>,
           worker'.kind = worker.kind, worker'.driven = worker.driven, preflight'.pc = preflight.pc
    PROVE  Left'
  BY DEF Left, Working, Preparing

\* A preflight has nothing to leave.
LEMMA LeftBefore ==
    ASSUME Left, Lanes, Lanes', Preparing', UNCHANGED <<hot, files>>, worker'.driven = worker.driven
    PROVE  Left'
  BY DEF Left, Lanes, Working, Preparing

\* Neither has a run that has just begun.
LEMMA LeftAtFirst ==
    ASSUME NEW k \in Kinds, NEW driven \in SUBSET Outputs, Launch(k, driven)
    PROVE  Left'
<1>1. worker'.kind = k /\ files'.meta = "none" /\ files'.safe = FALSE /\ k # "none"
  BY Launched DEF Kinds
<1>2. QED
  BY <1>1 DEF Left, Working

\* What is left after a run, through every step.
LEMMA LeftStep == Types /\ IInv /\ Lanes' /\ [Next]_vars => Left'
<1>1. SUFFICES ASSUME Types, Lanes, Signals, Progress, Left, Lanes', Next \/ UNCHANGED vars
      PROVE  Left'
  BY DEF IInv
<1>2. /\ worker \in WorkerType /\ hot \subseteq Outputs /\ preflight \in PreflightType
      /\ files \in [kind : Kinds \union {"none"}, csv : {"none", "open"}, rows : Nat,
                    meta : Results \union {"none", "running"}, safe : BOOLEAN]
      /\ worker.kind \in Kinds \union {"none"} /\ worker.pc \in Nat /\ worker.result \in Results
      /\ batch \in [left : 0 .. Repeats, end : {"none", "stopped", "error"}]
      /\ Repeats \in Nat \ {0}
  BY <1>1, RunAssumption DEF Types, WorkTypes, WorkerType, LaneTypes, RestTypes
<1>3. CASE UNCHANGED <<work, preflight, engine, batch, report, validated>>
  BY <1>1, <1>3, SameLeft DEF work
<1>4. CASE UNCHANGED <<work, batch, report, engine>> /\ Preparing'
  BY <1>1, <1>4, LeftBefore DEF work
<1>5. SetMode \/ SetValue \/ SetRecipeCell \/ RecipeOperation \/ ByHand \/ StoredChanges \/ Idle
      \/ UNCHANGED vars => UNCHANGED <<work, preflight, engine, batch, report, validated>>
  BY DEF SetMode, SetValue, SetRecipeCell, RecipeOperation, Editing, ByHand, StoredChanges, Idle,
     vars, lanes, rest
<1>6. ASSUME NEW g, NEW open, StartWith(g, open), UNCHANGED <<work, batch, report>>
      PROVE  Left'
  <2>1. CASE UNCHANGED lanes
    BY <1>3, <1>6, <2>1 DEF lanes
  <2>2. CASE BeginPreflight(open)
    <3>1. preflight'.pc = "reading" /\ engine' = engine
      BY <2>2 DEF BeginPreflight
    <3>2. QED
      BY <1>4, <1>6, <3>1 DEF Preparing
  <2>3. QED
    BY <1>6, <2>1, <2>2 DEF StartWith, AskConfirmation
<1>7. CASE Start
  BY <1>6, <1>7 DEF Start
<1>8. ASSUME NEW token \in 1 .. MaxAsks, NEW accepted \in BOOLEAN,
             AnswerConfirmation(token, accepted)
      PROVE  Left'
  <2>1. UNCHANGED <<work, batch, report>>
    BY <1>8 DEF AnswerConfirmation
  <2>2. UNCHANGED lanes \/ StartWith(asked.field, dialogs \ {token})
    BY <1>8 DEF AnswerConfirmation, Declined
  <2>3. QED
    BY <1>3, <1>6, <2>1, <2>2 DEF lanes
<1>9. CASE PreflightRead
  <2>1. preflight'.pc = "done" /\ UNCHANGED <<work, batch, report, engine>>
    BY <1>2, <1>9 DEF PreflightRead, PreflightType
  <2>2. QED
    BY <1>4, <2>1 DEF Preparing
<1>10. CASE Stop
  <2>1. UNCHANGED <<hot, files, engine, report, validated>>
    BY <1>10 DEF Stop
  <2>2. worker'.kind = worker.kind /\ worker'.driven = worker.driven
    <3>1. Working \in BOOLEAN
      BY DEF Working
    <3>2. \/ worker' = worker
          \/ \E b \in BOOLEAN : worker' = [worker EXCEPT !.stop = b]
      BY <1>10, <3>1 DEF Stop, StopPreflight, StopAsking, StopRun
    <3>3. QED
      BY <1>2, <3>2, AskedToStop DEF Kept
  <2>3. preflight'.pc = preflight.pc
    BY <1>2, <1>10 DEF Stop, StopPreflight, StopAsking, StopRun, PreflightType
  <2>4. CASE batch' = batch
    BY <1>1, <2>1, <2>2, <2>3, <2>4, SameLeft
  <2>5. CASE engine = "batch" /\ batch.end = "none" /\ batch' = [batch EXCEPT !.end = "stopped"]
    <3>1. batch'.end = "stopped"
      BY <1>2, <2>5
    <3>2. QED
      BY <1>1, <2>1, <2>2, <2>3, <2>5, <3>1 DEF Left, Working, Preparing
  <2>6. QED
    BY <1>10, <2>4, <2>5 DEF Stop, StopPreflight, StopAsking, StopRun
<1>11. CASE ThermalFault
  <2>1. UNCHANGED <<hot, files, engine, report, validated>>
    BY <1>11 DEF ThermalFault
  <2>2. worker'.kind = worker.kind /\ worker'.driven = worker.driven
    <3> DEFINE b == worker.stop \/ (engine = "batch" /\ Working)
    <3>1. b \in BOOLEAN /\ worker' = [worker EXCEPT !.stop = b]
      BY <1>2, <1>11 DEF ThermalFault, WorkerType
    <3>2. QED
      BY <1>2, <3>1, AskedToStop DEF Kept
  <2>3. preflight'.pc = preflight.pc
    BY <1>2, <1>11 DEF ThermalFault, PreflightType
  <2>4. CASE batch' = batch
    BY <1>1, <2>1, <2>2, <2>3, <2>4, SameLeft
  <2>5. CASE engine = "batch" /\ batch' = [batch EXCEPT !.end = "error"]
    <3>1. batch'.end = "error"
      BY <1>2, <2>5
    <3>2. QED
      BY <1>1, <2>1, <2>2, <2>3, <2>5, <3>1 DEF Left, Working, Preparing
  <2>6. QED
    BY <1>11, <2>4, <2>5 DEF ThermalFault
<1>12. CASE PreflightFinished
  <2>1. Preparing /\ ~Working /\ engine = "none" /\ preflight' = NoPreflight
    BY <1>1, <1>12 DEF PreflightFinished, Lanes, Preparing
  <2>2. CASE GoOn /\ preflight.mode \in Kinds
    <3>1. PICK driven \in DrivenBy[preflight.mode] : Launch(preflight.mode, driven)
      BY <2>2 DEF GoOn
    <3>2. driven \in SUBSET Outputs
      BY <2>2, Driven
    <3>3. QED
      BY <2>2, <3>1, <3>2, LeftAtFirst
  <2>3. CASE GoOn /\ preflight.mode \notin Kinds
    <3>1. preflight.mode \in Engines
      BY <1>1, <2>1, <2>3, RunAssumption DEF Lanes, Types, GuiTypes
    <3>2. /\ worker' = NoWorker /\ UNCHANGED <<hot, files>> /\ engine' \in Engines
          /\ engine' = "batch" => batch'.left = Repeats
      BY <2>3, <3>1 DEF GoOn
    <3>3. QED
      BY <1>1, <1>2, <3>2, Fresh DEF Left, Working, Engines
  <2>4. CASE Drop
    <3>1. report' # "finished" /\ engine' = "none" /\ UNCHANGED work
      BY <2>1, <2>4 DEF Drop
    <3>2. QED
      BY <1>1, <3>1 DEF Left, work
  <2>5. QED
    BY <1>12, <2>2, <2>3, <2>4 DEF PreflightFinished
<1>13. CASE WorkerStep
  <2> DEFINE k == worker.kind
  <2>1. /\ Working /\ worker'.kind = k /\ k \in Kinds /\ worker.pc \in 1 .. TailOf(k) + 4
        /\ TailOf(k) = IF k = "photo" THEN 8 ELSE 6
    BY <1>1, <1>13, WorkerKeeps, Placed
  <2>2. ZeroAt(k) \in {TailOf(k), TailOf(k) + 1} /\ CsvAt(k) \in {2, 3}
    BY DEF ZeroAt, CsvAt
  <2>3. /\ files.kind = k
        /\ worker.result = "finished" => files.csv = "open" /\ files.rows = 2
        /\ worker.pc <= ZeroAt(k) + 2 => ~files.safe /\ files.meta # "finished"
    BY <1>1, <2>1 DEF Progress
  <2>4. SUFFICES /\ files'.meta = "finished" => files'.kind \in Kinds /\ files'.csv = "open" /\ files'.rows = 2
                 /\ files'.safe => hot' \intersect worker'.driven = {}
    BY <2>1 DEF Left, Working
  <2>5. CASE WorkerMeta \/ WorkerCsv \/ WorkerRamp \/ WorkerPoint
    <3>1. worker.pc < TailOf(k)
      BY <1>1, <2>1, <2>2, <2>5, Placed
    <3>2. ~files.safe /\ files.meta # "finished"
      BY <2>1, <2>2, <2>3, <3>1
    <3>3. \/ files' = files \/ files' = [files EXCEPT !.meta = "running"]
          \/ files' = [files EXCEPT !.csv = "open"] \/ files' = [files EXCEPT !.rows = @ + 1]
      BY <2>5 DEF WorkerMeta, WorkerCsv, WorkerRamp, WorkerPoint, BreaksOff
    <3>4. ~files'.safe /\ files'.meta # "finished"
      BY <1>2, <3>2, <3>3
    <3>5. QED
      BY <3>4
  <2>6. CASE WorkerZero
    <3>1. worker.pc = ZeroAt(k)
      BY <1>1, <2>6, Placed
    <3>2. ~files.safe /\ files.meta # "finished" /\ files' = files
      BY <2>1, <2>2, <2>3, <2>6, <3>1 DEF WorkerZero
    <3>3. QED
      BY <3>2
  <2>7. CASE WorkerStatus
    <3>1. worker.pc = ZeroAt(k) + 2
      BY <1>1, <2>7, Placed
    <3>2. worker'.driven = worker.driven /\ hot' = hot
      BY <1>2, <2>7, Recorded DEF WorkerStatus, Kept
    <3>3. hot \intersect worker.driven # {} => worker.failed
      BY <1>1, <2>1, <2>2, <3>1 DEF Progress
    <3>4. \/ files' = files
          \/ /\ files'.kind = files.kind /\ files'.csv = files.csv /\ files'.rows = files.rows
             /\ files'.meta = worker.result /\ files'.safe = ~worker.failed
      BY <1>2, <2>7, Recorded
    <3>5. QED
      BY <1>1, <2>1, <2>3, <3>2, <3>3, <3>4 DEF Left
  <2>8. CASE WorkerWarn \/ WorkerTerminal \/ WorkerEnd
    <3>1. UNCHANGED <<hot, files>> /\ worker'.driven = worker.driven
      BY <1>2, <2>8, WarnedOf, Reported, Ended DEF WorkerWarn, WorkerTerminal, WorkerEnd, Kept
    <3>2. QED
      BY <1>1, <3>1 DEF Left
  <2>9. QED
    BY <1>13, <2>5, <2>6, <2>7, <2>8 DEF WorkerStep
<1>14. CASE Deliver
  BY <1>1, <1>14, SameLeft DEF Deliver, lanes, rest
<1>15. CASE ThreadFinished
  <2>1. /\ Working /\ worker'.kind = "none" /\ worker'.driven = worker.driven
        /\ FinalStatus = "finished" => files.meta = "finished" /\ files.safe
        /\ hot \intersect worker.driven # {} => FinalStatus = "error"
        /\ UNCHANGED <<hot, files, engine, preflight, validated>>
    BY <1>1, <1>15, Outcome DEF ThreadFinished
  <2>2. CASE engine = "batch"
    <3>1. /\ batch'.left = batch.left
          /\ batch'.end = IF batch.end = "none" /\ FinalStatus # "finished" THEN FinalStatus
                          ELSE IF FinalStatus = "error" THEN "error" ELSE batch.end
      BY <1>15, <2>2 DEF ThreadFinished
    <3>2. /\ FinalStatus = "error" => batch'.end = "error"
          /\ batch'.end = "none" => FinalStatus = "finished"
      BY <1>1, <1>15, <3>1, Outcome DEF Results
    <3>3. QED
      BY <1>1, <2>1, <2>2, <3>2 DEF Left, Working
  <2>3. CASE engine # "batch"
    <3>1. report' = FinalStatus
      BY <1>15, <2>3 DEF ThreadFinished
    <3>2. QED
      BY <1>1, <2>1, <2>3, <3>1 DEF Left
  <2>4. QED
    BY <2>2, <2>3
<1>16. CASE BatchMeasure
  <2>1. CASE Launch("line", Outputs)
    BY <2>1, LeftAtFirst DEF Kinds
  <2>2. CASE UNCHANGED work /\ batch' = [batch EXCEPT !.end = "error"]
    <3>1. batch'.end = "error" /\ engine' = "batch" /\ UNCHANGED <<hot, files, worker>>
      BY <1>2, <1>16, <2>2 DEF BatchMeasure, lanes, work
    <3>2. QED
      BY <1>1, <3>1 DEF Left
  <2>3. QED
    BY <1>16, <2>1, <2>2 DEF BatchMeasure
<1>17. CASE BatchFinish
  <2>1. /\ engine = "batch" /\ ~Working /\ engine' = "none" /\ UNCHANGED work
        /\ batch.left = 0 \/ batch.end # "none"
        /\ report' = IF batch.end = "none" THEN "finished" ELSE batch.end
    BY <1>17 DEF BatchFinish, BatchOver
  <2>2. report' = "finished" => files.meta = "finished" /\ files.safe
    BY <1>1, <1>2, <2>1 DEF Left
  <2>3. QED
    BY <1>1, <2>1, <2>2 DEF Left, work
<1>18. CASE TransportEnds
  <2>1. validated'.mode = "transport" /\ engine' = "none" /\ UNCHANGED work
    BY <1>1, <1>18 DEF TransportEnds, Lanes
  <2>2. QED
    BY <1>1, <2>1 DEF Left, work
<1>19. QED
  BY <1>1, <1>3, <1>5, <1>7, <1>8, <1>9, <1>10, <1>11, <1>12, <1>13, <1>14, <1>15, <1>16,
     <1>17, <1>18
     DEF Next

-----------------------------------------------------------------------------
LEMMA InvariantStep == Types /\ IInv /\ [Next]_vars => Types' /\ IInv'
<1>1. SUFFICES ASSUME Types, IInv, [Next]_vars PROVE Types' /\ IInv'
  OBVIOUS
<1>2. Types' /\ Lanes'
  BY <1>1, TypesStep, LanesStep DEF IInv
<1>3. QED
  BY <1>1, <1>2, SignalsStep, ProgressStep, LeftStep DEF IInv

LEMMA InvariantHolds == Spec => [](Types /\ IInv)
<1>1. Init => Types
  <2>1. SUFFICES ASSUME Init PROVE Types
    OBVIOUS
  <2>2. /\ Repeats \in Nat /\ MaxStarts \in Nat /\ MaxEdits \in Nat /\ MaxAsks \in Nat
        /\ MaxChanges \in Nat /\ MaxTrouble \in Nat
    BY RunAssumption
  <2>3. GuiTypes
    BY <2>1, <2>2 DEF Init, GuiTypes, NoRequest
  <2>4. LaneTypes
    BY <2>1, <2>2 DEF Init, LaneTypes, NoPreflight, PreflightType
  <2>5. WorkTypes
    BY <2>1, Fresh DEF Init, WorkTypes, NotSeen, NoFiles
  <2>6. RestTypes
    BY <2>1, <2>2 DEF Init, RestTypes
  <2>7. QED
    BY <2>3, <2>4, <2>5, <2>6 DEF Types
<1>2. Init => IInv
  <2>1. SUFFICES ASSUME Init PROVE IInv
    OBVIOUS
  <2>2. ~Working /\ ~Preparing /\ ~Asking /\ engine = "none" /\ queue = <<>> /\ granted = NoField
        /\ files.meta = "none" /\ ~files.safe /\ report = "none"
    BY <2>1 DEF Init, NoWorker, NoPreflight, NoFiles, Working, Preparing, Asking
  <2>3. QED
    BY <2>2 DEF IInv, Lanes, Signals, Progress, Left
<1>3. QED
  BY <1>1, <1>2, InvariantStep, PTL DEF Spec

\* What is left behind tells the truth: "finished" in the metadata stands
\* beside a file with every point, a safe state that is claimed is reached, and
\* a run reported finished has both, in whatever order the worker reports,
\* zeroes and writes, and whatever fails on the way (MeasurementThread,
\* _thread_finished, update_run_metadata_status).
THEOREM SoundRuns == Spec => []RunSound
<1>1. Types /\ IInv => RunSound
  <2>1. SUFFICES ASSUME Types, IInv PROVE RunSound
    OBVIOUS
  <2>2. TypeOK
    BY <2>1 DEF Types, GuiTypes, LaneTypes, WorkTypes, RestTypes, TypeOK, PreflightType, Results
  <2>3. files.meta = "finished" => Wanted(files.kind) = 2
    BY <2>1, TwoPoints DEF IInv, Left
  <2>4. ResultHonest
    BY <2>1, <2>3 DEF IInv, Left, ResultHonest, Active
  <2>5. QED
    BY <2>2, <2>4 DEF RunSound
<1>2. QED
  BY <1>1, InvariantHolds, PTL

-----------------------------------------------------------------------------
\* Only the end of a preflight starts something when nothing is going on.
LEMMA Starting ==
    ASSUME Types, IInv, Next, ~Working, engine = "none", worker'.kind # "none" \/ engine' # "none"
    PROVE  PreflightFinished /\ GoOn
<1>1. ~WorkerStep
  BY WorkerKeeps
<1>2. ~Deliver /\ ~ThreadFinished
  BY DEF IInv, Signals, Deliver, ThreadFinished
<1>3. ~BatchMeasure /\ ~BatchFinish /\ ~TransportEnds
  BY DEF BatchMeasure, BatchFinish, TransportEnds
<1>4. worker.kind = "none"
  BY DEF Working
<1>5. UNCHANGED <<worker, engine>> => FALSE
  BY <1>4
<1>6. ~(SetMode \/ SetValue \/ SetRecipeCell \/ RecipeOperation \/ Start \/ ByHand \/ StoredChanges
        \/ PreflightRead \/ Idle)
  BY <1>5 DEF SetMode, SetValue, SetRecipeCell, RecipeOperation, Editing, Start, StartWith,
     AskConfirmation, BeginPreflight, ByHand, StoredChanges, PreflightRead, Idle, vars, lanes, work
<1>7. \A token \in 1 .. MaxAsks, accepted \in BOOLEAN : ~AnswerConfirmation(token, accepted)
  BY <1>5 DEF AnswerConfirmation, Declined, StartWith, AskConfirmation, BeginPreflight, lanes,
     work
<1>8. ~Stop
  BY <1>4, <1>5 DEF Stop, StopPreflight, StopAsking, StopRun, Working
<1>9. ~ThermalFault
  <2>1. SUFFICES ASSUME ThermalFault PROVE FALSE
    OBVIOUS
  <2> DEFINE b == worker.stop \/ (engine = "batch" /\ Working)
  <2>2. worker \in WorkerType /\ b \in BOOLEAN /\ worker' = [worker EXCEPT !.stop = b] /\ engine' = engine
    BY <2>1 DEF ThermalFault, Types, WorkTypes, WorkerType
  <2>3. worker'.kind = worker.kind
    BY <2>2, AskedToStop DEF Kept
  <2>4. QED
    BY <1>4, <2>2, <2>3
<1>10. ~(PreflightFinished /\ Drop)
  <2>1. SUFFICES ASSUME PreflightFinished, Drop PROVE FALSE
    OBVIOUS
  <2>2. UNCHANGED <<worker, engine>>
    BY <2>1 DEF Drop, work
  <2>3. QED
    BY <1>5, <2>2
<1>11. PreflightFinished
  BY <1>1, <1>2, <1>3, <1>6, <1>7, <1>8, <1>9 DEF Next
<1>12. QED
  BY <1>10, <1>11 DEF PreflightFinished

\* A run starts as it was validated, with no STOP and no other use of the
\* instruments since, and an engine over a switch heater that is off only with
\* a confirmation that showed this field, mode and form (_begin_preflight,
\* _preflight_finished, confirm_persistent_field).
THEOREM StartsAsValidated == Spec => LaunchSound
<1> DEFINE Launches == ~Working /\ engine = "none" /\ (worker'.kind # "none" \/ engine' # "none")
           AsValidated == /\ validated = [mode |-> mode, form |-> form]
                          /\ ~stopped
                          /\ manager = "claimed" /\ manager' = "claimed"
                          /\ engine' # "none" /\ stored.off =>
                                shown = [field |-> stored.field, mode |-> mode, form |-> form]
<1>1. Types /\ IInv /\ [Next]_vars => [Launches => AsValidated]_vars
  <2>1. SUFFICES ASSUME Types, IInv, Next, Launches PROVE AsValidated
    BY DEF vars
  <2>2. PreflightFinished /\ GoOn
    BY <2>1, Starting
  <2>3. Preparing /\ ~preflight.cancel
    BY <2>2 DEF PreflightFinished, GoOn, Preparing, Cancelled
  <2>4. /\ validated = [mode |-> mode, form |-> form] /\ ~stopped /\ manager = "claimed"
        /\ preflight.mode = mode
    BY <2>1, <2>3 DEF IInv, Lanes
  <2>5. manager' = manager
    BY <2>2 DEF GoOn
  <2>6. ASSUME engine' # "none", stored.off
        PROVE  shown = [field |-> stored.field, mode |-> mode, form |-> form]
    <3>1. preflight.mode \notin Kinds
      BY <2>1, <2>2, <2>6 DEF GoOn
    <3>2. preflight.mode \in Engines
      BY <2>1, <2>4, <3>1, RunAssumption DEF Types, GuiTypes
    <3>3. granted = stored.field
      BY <2>2, <2>6, <3>2 DEF GoOn, EngineRefuses, Confirmed
    <3>4. granted # NoField
      BY <2>1, <3>3, RunAssumption DEF Types, RestTypes, NoField
    <3>5. QED
      BY <2>1, <3>3, <3>4 DEF IInv, Lanes
  <2>7. QED
    BY <2>4, <2>5, <2>6
<1>2. QED
  BY <1>1, InvariantHolds, PTL DEF Spec, LaunchSound

-----------------------------------------------------------------------------
\* What the contract sees of the service.
Biased == hot \intersect worker.driven # {}
Held == IF engine # "none" \/ Working THEN IF Biased THEN "biased" ELSE "running"
        ELSE IF Preparing THEN "reserved" ELSE "no"
Unseen == Held' = Held /\ UNCHANGED <<report, stopped>>

\* The steps of the contract, in these terms.
LEMMA ContractSteps ==
    /\ Held = "no" /\ Held' = "reserved" /\ stopped' = FALSE /\ report' = report
          => Contract!Reserve
    /\ Held # "no" /\ stopped' = TRUE /\ Held' = Held /\ report' = report => Contract!AskStop
    /\ Held = "reserved" /\ ~stopped /\ Held' \in {"running", "biased"} /\ UNCHANGED <<report, stopped>>
          => Contract!Launch
    /\ Held = "running" /\ Held' = "biased" /\ UNCHANGED <<report, stopped>> => Contract!Drive
    /\ Held = "biased" /\ Held' = "running" /\ UNCHANGED <<report, stopped>> => Contract!Zero
    /\ ( /\ Held # "no" /\ Held' = "no" /\ report' \in Results /\ stopped' = FALSE
         /\ (Held = "reserved" => report' # "finished")
         /\ (Held = "biased" => report' = "error") )
          => Contract!Release
    /\ Unseen => UNCHANGED Contract!contractVars
  BY DEF Held, Biased, Unseen, Results, Contract!Reserve, Contract!AskStop, Contract!Launch,
     Contract!Drive, Contract!Zero, Contract!Release, Contract!Outcomes, Contract!contractVars

\* Every step of the service is a step of the contract, or one it does not see.
LEMMA ContractStep == Types /\ IInv /\ [Next]_vars => [Contract!ContractNext]_(Contract!contractVars)
<1> DEFINE Allowed == Contract!ContractNext \/ UNCHANGED Contract!contractVars
<1>1. SUFFICES ASSUME Types, Lanes, Signals, Progress, Left, Next \/ UNCHANGED vars
      PROVE  Allowed
  BY DEF IInv
<1>2. /\ Contract!Reserve \/ Contract!AskStop \/ Contract!Launch \/ Contract!Drive \/ Contract!Zero
         \/ Contract!Release => Allowed
      /\ Unseen => Allowed
  BY ContractSteps DEF Contract!ContractNext
<1> HIDE DEF Allowed
<1>3. /\ worker \in WorkerType /\ preflight \in PreflightType /\ hot \subseteq Outputs
      /\ worker.driven \subseteq Outputs
      /\ Held \in {"no", "reserved", "running", "biased"}
  BY <1>1 DEF Types, WorkTypes, WorkerType, LaneTypes, Held
<1>4. ASSUME UNCHANGED <<engine, hot, report, stopped>>, worker'.kind = worker.kind,
             worker'.driven = worker.driven, preflight'.pc = preflight.pc
      PROVE  Allowed
  BY <1>2, <1>4 DEF Unseen, Held, Biased, Working, Preparing
<1>5. CASE UNCHANGED <<work, lanes, report>>
  BY <1>4, <1>5 DEF work, lanes
<1>6. SetMode \/ SetValue \/ SetRecipeCell \/ RecipeOperation \/ StoredChanges \/ Idle
      \/ UNCHANGED vars => UNCHANGED <<work, lanes, report>>
  BY DEF SetMode, SetValue, SetRecipeCell, RecipeOperation, Editing, StoredChanges, Idle, vars,
     rest
<1>7. CASE ByHand
  BY <1>4, <1>7 DEF ByHand, work, rest
<1>8. ASSUME NEW g, NEW open, StartWith(g, open), UNCHANGED <<work, report>>,
             ~Working, ~Preparing, engine = "none"
      PROVE  Allowed
  <2>1. CASE UNCHANGED lanes
    BY <1>5, <1>8, <2>1
  <2>2. CASE BeginPreflight(open)
    <3>1. preflight'.pc = "reading" /\ engine' = engine /\ worker' = worker /\ stopped' = FALSE
      BY <1>8, <2>2 DEF BeginPreflight, work
    <3>2. Held = "no" /\ Held' = "reserved"
      BY <1>8, <3>1 DEF Held, Working, Preparing
    <3>3. QED
      BY <1>2, <1>8, <3>1, <3>2, ContractSteps
  <2>3. QED
    BY <1>8, <2>1, <2>2 DEF StartWith, AskConfirmation
<1>9. CASE Start
  BY <1>8, <1>9 DEF Start, Active
<1>10. ASSUME NEW token \in 1 .. MaxAsks, NEW accepted \in BOOLEAN,
              AnswerConfirmation(token, accepted)
       PROVE  Allowed
  <2>1. UNCHANGED <<work, report>>
    BY <1>10 DEF AnswerConfirmation
  <2>2. UNCHANGED lanes \/ (StartWith(asked.field, dialogs \ {token}) /\ asked.token = token)
    BY <1>10 DEF AnswerConfirmation, Declined, Current
  <2>3. asked.token = token => ~Working /\ ~Preparing /\ engine = "none"
    <3>1. NoRequest.token = 0
      BY DEF NoRequest
    <3>2. token # 0
      BY <1>10, RunAssumption
    <3>3. QED
      BY <1>1, <3>1, <3>2 DEF Lanes, Asking
  <2>4. QED
    BY <1>5, <1>8, <2>1, <2>2, <2>3
<1>11. CASE PreflightRead
  <2>1. preflight'.pc = "done" /\ Preparing /\ UNCHANGED <<work, engine, stopped, report>>
    BY <1>3, <1>11 DEF PreflightRead, PreflightType, Preparing
  <2>2. Unseen
    BY <2>1 DEF Unseen, Held, Biased, Working, Preparing, work
  <2>3. QED
    BY <1>2, <2>2
<1>12. CASE Stop
  <2>1. UNCHANGED <<hot, engine, report>>
    BY <1>12 DEF Stop
  <2>2. worker'.kind = worker.kind /\ worker'.driven = worker.driven
    <3>1. Working \in BOOLEAN
      BY DEF Working
    <3>2. \/ worker' = worker
          \/ \E b \in BOOLEAN : worker' = [worker EXCEPT !.stop = b]
      BY <1>12, <3>1 DEF Stop, StopPreflight, StopAsking, StopRun
    <3>3. QED
      BY <1>3, <3>2, AskedToStop DEF Kept
  <2>3. preflight'.pc = preflight.pc
    BY <1>3, <1>12 DEF Stop, StopPreflight, StopAsking, StopRun, PreflightType
  <2>4. CASE StopAsking
    BY <1>4, <2>1, <2>2, <2>3, <2>4 DEF StopAsking
  <2>5. CASE StopPreflight \/ StopRun
    <3>1. stopped' = TRUE /\ (Preparing \/ Working \/ engine # "none")
      BY <2>5 DEF StopPreflight, StopRun
    <3>2. Held # "no" /\ Held' = Held
      BY <2>1, <2>2, <2>3, <3>1 DEF Held, Biased, Working, Preparing
    <3>3. QED
      BY <1>2, <2>1, <3>1, <3>2, ContractSteps
  <2>6. QED
    BY <1>12, <2>4, <2>5 DEF Stop
<1>13. CASE ThermalFault
  <2>1. UNCHANGED <<hot, engine, report, stopped>>
    BY <1>13 DEF ThermalFault
  <2>2. worker'.kind = worker.kind /\ worker'.driven = worker.driven
    <3> DEFINE b == worker.stop \/ (engine = "batch" /\ Working)
    <3>1. b \in BOOLEAN /\ worker' = [worker EXCEPT !.stop = b]
      BY <1>3, <1>13 DEF ThermalFault, WorkerType
    <3>2. QED
      BY <1>3, <3>1, AskedToStop DEF Kept
  <2>3. preflight'.pc = preflight.pc
    BY <1>3, <1>13 DEF ThermalFault, PreflightType
  <2>4. QED
    BY <1>4, <2>1, <2>2, <2>3
<1>14. CASE PreflightFinished
  <2>1. Preparing /\ ~Working /\ engine = "none" /\ preflight' = NoPreflight /\ Held = "reserved"
    BY <1>1, <1>14 DEF PreflightFinished, Lanes, Preparing, Held
  <2>2. CASE GoOn
    <3>1. ~stopped /\ UNCHANGED <<report, stopped>>
      BY <1>1, <2>1, <2>2 DEF GoOn, Cancelled, Lanes
    <3>2. worker'.kind # "none" \/ engine' # "none"
      <4>1. CASE preflight.mode \in Kinds
        <5>1. PICK driven \in DrivenBy[preflight.mode] : Launch(preflight.mode, driven)
          BY <2>2, <4>1 DEF GoOn
        <5>2. driven \in SUBSET Outputs
          BY <4>1, Driven
        <5>3. worker'.kind = preflight.mode
          BY <4>1, <5>1, <5>2, Launched
        <5>4. QED
          BY <4>1, <5>3 DEF Kinds
      <4>2. CASE preflight.mode \notin Kinds
        <5>1. preflight.mode \in Engines
          BY <1>1, <2>1, <4>2, RunAssumption DEF Lanes, Types, GuiTypes
        <5>2. QED
          BY <2>2, <4>2, <5>1 DEF GoOn, Engines
      <4>3. QED
        BY <4>1, <4>2
    <3>3. Held' \in {"running", "biased"}
      BY <3>2 DEF Held, Working
    <3>4. QED
      BY <1>2, <2>1, <3>1, <3>3, ContractSteps
  <2>3. CASE Drop
    <3>1. /\ report' \in {"stopped", "error"} /\ stopped' = FALSE
          /\ engine' = engine /\ worker' = worker
      BY <2>3 DEF Drop, work
    <3>2. Held' = "no"
      BY <2>1, <3>1 DEF Held, Working, Preparing, NoPreflight
    <3>3. QED
      BY <1>2, <2>1, <3>1, <3>2, ContractSteps DEF Results
  <2>4. QED
    BY <1>14, <2>2, <2>3 DEF PreflightFinished
<1>15. CASE WorkerStep
  <2>1. /\ Working /\ worker'.kind = worker.kind /\ Working'
        /\ UNCHANGED <<engine, preflight, report, stopped>>
    BY <1>1, <1>15, WorkerKeeps DEF Working, lanes
  <2>2. Held = IF Biased THEN "biased" ELSE "running"
    BY <2>1 DEF Held
  <2>3. Held' = IF Biased' THEN "biased" ELSE "running"
    BY <2>1 DEF Held
  <2>4. QED
    BY <1>2, <2>1, <2>2, <2>3, ContractSteps DEF Unseen
<1>16. CASE Deliver
  BY <1>4, <1>16 DEF Deliver, lanes, rest
<1>17. CASE ThreadFinished
  <2>1. /\ Working /\ FinalStatus \in Results /\ worker'.kind = "none" /\ worker'.driven = worker.driven
        /\ Biased => FinalStatus = "error"
        /\ UNCHANGED <<hot, engine, preflight>>
    BY <1>1, <1>17, Outcome DEF ThreadFinished, Biased
  <2>2. Held = IF Biased THEN "biased" ELSE "running"
    BY <2>1 DEF Held
  <2>3. CASE engine = "batch"
    <3>1. Held' = Held /\ UNCHANGED <<report, stopped>>
      BY <1>17, <2>1, <2>2, <2>3 DEF ThreadFinished, Held, Biased
    <3>2. QED
      BY <1>2, <3>1 DEF Unseen
  <2>4. CASE engine # "batch"
    <3>1. engine = "none" /\ ~Preparing
      BY <1>1, <2>1, <2>4 DEF Lanes, Types, LaneTypes, Engines
    <3>2. Held' = "no"
      BY <2>1, <3>1 DEF Held, Working, Preparing
    <3>3. report' = FinalStatus /\ stopped' = FALSE
      BY <1>17, <2>4 DEF ThreadFinished
    <3>4. QED
      BY <1>2, <2>1, <2>2, <3>2, <3>3, ContractSteps
  <2>5. QED
    BY <2>3, <2>4
<1>18. CASE BatchMeasure
  <2>1. engine = "batch" /\ UNCHANGED <<engine, preflight, report, stopped>>
    BY <1>18 DEF BatchMeasure, lanes
  <2>2. /\ Held = IF Biased THEN "biased" ELSE "running"
        /\ Held' = IF Biased' THEN "biased" ELSE "running"
    BY <2>1 DEF Held
  <2>3. QED
    BY <1>2, <2>1, <2>2, ContractSteps DEF Unseen
<1>19. CASE BatchFinish
  <2>1. /\ engine = "batch" /\ ~Working /\ engine' = "none" /\ UNCHANGED <<work, preflight>>
        /\ stopped' = FALSE
        /\ report' = IF batch.end = "none" THEN "finished" ELSE batch.end
    BY <1>19 DEF BatchFinish
  <2>2. ~Preparing
    BY <1>1, <2>1 DEF Lanes
  <2>3. Held' = "no" /\ Held = IF Biased THEN "biased" ELSE "running"
    BY <2>1, <2>2 DEF Held, Working, Preparing, work
  <2>4. report' \in Results /\ (Biased => report' = "error")
    BY <1>1, <2>1 DEF Left, Biased, Types, RestTypes, Results
  <2>5. QED
    BY <1>2, <2>1, <2>3, <2>4, ContractSteps
<1>20. CASE TransportEnds
  <2>1. /\ engine = "transport" /\ engine' = "none" /\ UNCHANGED <<work, preflight>>
        /\ stopped' = FALSE /\ report' \in Results
    BY <1>20 DEF TransportEnds, Results
  <2>2. ~Preparing /\ ~Working /\ ~Biased
    BY <1>1, <2>1 DEF Lanes, Biased
  <2>3. Held' = "no" /\ Held = "running"
    BY <2>1, <2>2 DEF Held, Working, Preparing, work
  <2>4. QED
    BY <1>2, <2>1, <2>3, ContractSteps
<1>21. Allowed
  BY <1>1, <1>5, <1>6, <1>7, <1>9, <1>10, <1>11, <1>12, <1>13, <1>14, <1>15, <1>16, <1>17,
     <1>18, <1>19,
     <1>20 DEF Next
<1>22. QED
  BY <1>21 DEF Allowed

\* The service implements RunContract: reserved before driven, never driven
\* once stopped in its preparation, and given back at zero or reported as an
\* error (_claim, _preflight_finished, _release, _thread_finished).
THEOREM Implements == Spec => ImplementsContract
<1>1. Init => Contract!ContractInit
  <2>1. SUFFICES ASSUME Init PROVE Contract!ContractInit
    OBVIOUS
  <2>2. ~Working /\ ~Preparing /\ engine = "none" /\ report = "none" /\ stopped = FALSE
    BY <2>1 DEF Init, Working, Preparing, NoWorker, NoPreflight
  <2>3. QED
    BY <2>2 DEF Contract!ContractInit
<1>2. QED
  BY <1>1, InvariantHolds, ContractStep, PTL DEF Spec, ImplementsContract, Contract!ContractSpec

=============================================================================
