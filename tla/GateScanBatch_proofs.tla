------------------------ MODULE GateScanBatch_proofs ------------------------
(***************************************************************************)
(* What holds of GateScanBatch for every list of jobs, every set of        *)
(* thermal verdicts and any number of starts, losses and faults.           *)
(*                                                                         *)
(* The inductive invariant is Holds: the types, and IInv.  A move is in    *)
(* one place at a time, the queue, the APS100 thread or the answer on its  *)
(* way (Flight), a lost session is told before anything of a new one       *)
(* (Session), and a field that was verified stays what it was while the    *)
(* series holds the magnet (Known).  Each handler is first shown to be one *)
(* of a few kinds of step, and the parts of IInv are then proved for those *)
(* kinds: a handler Goes on to the next job, Ends the series, Drops an     *)
(* event, aborts a run or a move, Waits, Reads or Stops.                   *)
(***************************************************************************)
EXTENDS GateScanBatch, TLAPS, SequenceTheorems

Upto(i) == [n \in 1 .. i |-> n]

\* The types, in groups.
BatchTypes ==
    /\ phase \in Phases /\ index \in 0 .. NumJobs /\ moveId \in Ids \cup {NoId}
    /\ lastField \in FieldOrAway /\ snap \in Snapshots /\ confirmed \in BOOLEAN
    /\ waitContext \in {"none", "preflight", "pre_move", "post_move"}
DiskTypes ==
    /\ results \in Seq(1 .. NumJobs) /\ checkpoint \in Checkpoints /\ data \subseteq 1 .. NumJobs
    /\ worker \in {"none", "running", "finished", "stopped", "error"}
ApsTypes ==
    /\ apsQueue \in Seq(ApsItems) /\ apsNow \in ApsItems /\ field \in FieldOrAway
    /\ guiQueue \in Seq(Events)
Flags ==
    /\ stopRequested \in BOOLEAN /\ pendingFailure \in BOOLEAN /\ manualRequired \in BOOLEAN
    /\ confirmed \in BOOLEAN /\ exclusive \in BOOLEAN /\ workerStop \in BOOLEAN
    /\ connected \in BOOLEAN /\ heater \in BOOLEAN /\ alarm \in BOOLEAN
SceneTypes ==
    /\ thermal \in Verdicts /\ scene \in Scenes
    /\ starts \in 0 .. scene.starts /\ losses \in 0 .. scene.losses /\ faults \in 0 .. scene.faults
Types == BatchTypes /\ DiskTypes /\ ApsTypes /\ SceneTypes

\* Only moves and their results carry a request's identifier.
Labels ==
    /\ \A n \in 1 .. Len(apsQueue) : IF apsQueue[n].op = "move" THEN apsQueue[n].id # NoId
                                                               ELSE apsQueue[n].id = NoId
    /\ \A n \in 1 .. Len(apsQueue) : apsQueue[n].op = "connect" => apsQueue[n] = ConnectItem
    /\ \A n \in 1 .. Len(guiQueue) : guiQueue[n].kind # "result" => guiQueue[n].id = NoId

\* Jobs done, on the disk and in the cursor.
Done ==
    /\ results = Upto(index) /\ 1 .. index \subseteq data
    /\ checkpoint.results = Upto(checkpoint.next) /\ 1 .. checkpoint.next \subseteq data
    /\ worker = "finished" => index + 1 \in data

\* The state of a series.
Series ==
    /\ Active => index < NumJobs /\ exclusive
    /\ ~Active => lastField = Away
    /\ phase = "moving" => moveId # NoId
    /\ worker # "none" => phase \in {"measuring", "stopping"} /\ lastField = JobField[index + 1]
    /\ phase = "measuring" => worker # "none"
    /\ phase = "stopping" /\ worker # "none" => workerStop
    /\ Active /\ (stopRequested \/ pendingFailure) => phase \in {"moving", "stopping"}
    /\ phase = "stopping" => stopRequested \/ pendingFailure

\* Temperature.
Warm ==
    /\ alarm => phase \notin {"moving", "measuring", "verifying"}
    /\ alarm /\ phase = "thermal_wait" => manualRequired
    /\ worker # "none" /\ thermal \in {"warning", "tripped"} => workerStop

Pending(kind) == \E n \in 1 .. Len(guiQueue) : guiQueue[n].kind = kind
Queued(op) == \E n \in 1 .. Len(apsQueue) : apsQueue[n].op = op

\* The session with the APS100, and what of it is on the way to the GUI.
Order ==
    \A n, m \in 1 .. Len(guiQueue) :
        guiQueue[n].kind = "snapshot" => /\ guiQueue[m].kind = "disconnected" => m < n
                                         /\ guiQueue[m].kind = "snapshot" => m = n
Session ==
    /\ Queued("connect") => ~connected /\ ~Active /\ ~Pending("disconnected")
    /\ \A n, m \in 1 .. Len(apsQueue) :
         apsQueue[n].op = "connect" /\ apsQueue[m].op = "connect" => m = n
    /\ Order
    /\ ~connected => ~Pending("snapshot")
    /\ Pending("disconnected") /\ connected => ~Active /\ ~snap.valid
    /\ ~Pending("disconnected") /\ ~connected => ~snap.valid
    /\ Active /\ ~connected => Pending("disconnected") \/ (worker # "none" /\ pendingFailure)

\* The move that is under way, if one is: queued, running, or answered.
Flight ==
    /\ apsNow.op = "move" \/ apsNow = ApsIdle
    /\ apsNow.op = "move" =>
         /\ phase = "moving" /\ apsNow.id = moveId /\ apsNow.target = JobField[index + 1]
         /\ connected /\ ~Pending("disconnected") /\ ~Queued("move") /\ ~Pending("result")
    /\ \A n, m \in 1 .. Len(apsQueue) :
         apsQueue[n].op = "move" =>
           /\ apsQueue[m].op = "move" => m = n
           /\ apsQueue[m].op = "connect" => n < m
           /\ ~Pending("result")
           /\ IF phase = "moving"
                THEN apsQueue[n].id = moveId /\ apsQueue[n].target = JobField[index + 1]
                ELSE ~connected /\ ~Active
    /\ \A n, m \in 1 .. Len(guiQueue) :
         guiQueue[n].kind = "result" =>
           /\ guiQueue[m].kind = "result" => m = n
           /\ IF phase = "moving" THEN guiQueue[n].id = moveId
                ELSE ~Active /\ (~connected \/ \E i \in n .. Len(guiQueue) : guiQueue[i].kind = "disconnected")
    /\ phase = "moving" => apsNow.op = "move" \/ Queued("move") \/ Pending("result")

\* What is known of the field.
Accurate(s) == s.valid => s.field = field /\ s.heater = heater
Known ==
    /\ Active /\ phase \notin {"moving", "verifying"} /\ lastField # Away => field = lastField /\ ~heater
    /\ Active /\ (phase = "verifying" \/ (phase # "moving" /\ lastField # Away)) =>
         \A n \in 1 .. Len(guiQueue) : guiQueue[n].kind = "snapshot" => Accurate(guiQueue[n].snap)
    /\ phase = "moving" => \A n, m \in 1 .. Len(guiQueue) :
         guiQueue[n].kind = "result" /\ guiQueue[n].ok =>
           /\ field = JobField[index + 1] /\ ~heater
           /\ Accurate(guiQueue[n].snap)
           /\ guiQueue[m].kind = "snapshot" => Accurate(guiQueue[m].snap)

\* The answer a stop waits for.
Answered ==
    phase = "stopping" /\ worker = "none" =>
        Queued("pause") \/ Pending("pause") \/ Pending("disconnected")

IInv == Labels /\ Done /\ Series /\ Warm /\ Session /\ Flight /\ Known /\ Answered

-----------------------------------------------------------------------------
LEMMA TypesAre == TypeOK <=> Types /\ Flags
  BY DEF TypeOK, Types, BatchTypes, DiskTypes, ApsTypes, Flags, SceneTypes

\* The jobs of a series.
LEMMA Jobs == ASSUME SceneTypes
              PROVE  /\ JobField \in Seq(Fields) /\ NumJobs \in Nat /\ NumJobs > 0
                     /\ \A i \in 1 .. NumJobs : JobField[i] \in Fields
                     /\ Away \notin Fields
<1>1. JobField \in Seq(Fields) \ {<<>>}
  BY ConstantsAssumption DEF SceneTypes, JobField
<1>2. QED
  BY <1>1, ConstantsAssumption, EmptySeq, LenProperties, ElementOfSeq DEF NumJobs

\* The jobs up to one.
LEMMA UptoIs ==
    ASSUME NEW k \in Nat, NEW i \in 0 .. k
    PROVE  /\ Upto(i) \in Seq(1 .. k) /\ Len(Upto(i)) = i
           /\ Upto(0) = <<>>
           /\ i < k => Append(Upto(i), i + 1) = Upto(i + 1)
<1>1. \A j \in 0 .. k : Upto(j) \in [1 .. j -> 1 .. k] /\ DOMAIN Upto(j) = 1 .. j
  BY DEF Upto
<1>2. \A j \in 0 .. k : Upto(j) \in Seq(1 .. k)
  BY <1>1, SeqDef
<1>3. \A j \in 0 .. k : Len(Upto(j)) = j
  BY <1>1, <1>2, LenProperties
<1>4. Upto(0) = <<>>
  BY <1>2, <1>3, EmptySeq
<1>5. ASSUME i < k PROVE Append(Upto(i), i + 1) = Upto(i + 1)
  <2> DEFINE a == Append(Upto(i), i + 1)
  <2>1. /\ a \in Seq(1 .. k) /\ Len(a) = i + 1
        /\ \A j \in 1 .. i : a[j] = Upto(i)[j]
        /\ a[i + 1] = i + 1
    <3>1. i + 1 \in 1 .. k
      BY <1>5
    <3>2. Upto(i) \in Seq(1 .. k) /\ Len(Upto(i)) = i
      BY <1>2, <1>3
    <3>3. /\ a \in Seq(1 .. k) /\ Len(a) = Len(Upto(i)) + 1
          /\ \A j \in 1 .. Len(Upto(i)) : a[j] = Upto(i)[j]
          /\ a[Len(Upto(i)) + 1] = i + 1
      BY <3>1, <3>2, AppendProperties
    <3> HIDE DEF a
    <3>4. QED
      BY <3>2, <3>3
  <2>2. Upto(i + 1) \in Seq(1 .. k) /\ Len(Upto(i + 1)) = i + 1
    BY <1>2, <1>3, <1>5
  <2>3. \A j \in 1 .. i + 1 : a[j] = Upto(i + 1)[j]
    BY <2>1 DEF Upto
  <2> HIDE DEF a
  <2>4. a = Upto(i + 1)
    BY <2>1, <2>2, <2>3, SeqEqual
  <2>5. QED
    BY <2>4 DEF a
<1>6. QED
  BY <1>2, <1>3, <1>4, <1>5

\* The event at the head is taken from the queue, and one is put at its end.
LEMMA Taken ==
    ASSUME NEW S, NEW q \in Seq(S), q # <<>>
    PROVE  /\ Len(q) \in Nat /\ Len(q) > 0 /\ Head(q) = q[1] /\ q[1] \in S
           /\ Tail(q) \in Seq(S) /\ Len(Tail(q)) = Len(q) - 1
           /\ \A i \in 1 .. Len(Tail(q)) : Tail(q)[i] = q[i + 1]
<1>1. Len(q) \in Nat \ {0}
  BY EmptySeq
<1>2. Head(q) = q[1]
  OBVIOUS
<1>3. QED
  BY <1>1, <1>2, HeadTailProperties

LEMMA Added ==
    ASSUME NEW S, NEW q \in Seq(S), NEW e \in S
    PROVE  /\ Append(q, e) \in Seq(S) /\ Len(q) \in Nat /\ Len(Append(q, e)) = Len(q) + 1
           /\ \A i \in 1 .. Len(q) : Append(q, e)[i] = q[i]
           /\ Append(q, e)[Len(q) + 1] = e
  BY AppendProperties, LenProperties

\* The snapshot that has not been delivered is dropped.
LEMMA Dropped ==
    ASSUME NEW q \in Seq(Events),
           \A n, m \in 1 .. Len(q) : q[n].kind = "snapshot" /\ q[m].kind = "snapshot" => m = n
    PROVE  LET r == NoSnapshots(q)
           IN  /\ r \in Seq(Events) /\ Len(r) \in Nat
               /\ \A n \in 1 .. Len(r) : r[n].kind # "snapshot" /\ r[n] \in Events
               /\ \A n, m \in 1 .. Len(r) : n # m =>
                     \E i, j \in 1 .. Len(q) : i # j /\ r[n] = q[i] /\ r[m] = q[j]
               /\ \A n \in 1 .. Len(r) : \E i \in 1 .. Len(q) : r[n] = q[i]
               /\ \A i \in 1 .. Len(q) : q[i].kind # "snapshot" => \E n \in 1 .. Len(r) : r[n] = q[i]
<1> DEFINE r == NoSnapshots(q)
<1>1. Len(q) \in Nat /\ DOMAIN q = 1 .. Len(q) /\ \A n \in 1 .. Len(q) : q[n] \in Events
  BY LenProperties, ElementOfSeq
<1>2. CASE ~ \E n \in DOMAIN q : q[n].kind = "snapshot"
  <2>1. r = q
    BY <1>2 DEF NoSnapshots
  <2>2. QED
    BY <1>1, <1>2, <2>1
<1>3. CASE \E n \in DOMAIN q : q[n].kind = "snapshot"
  <2> DEFINE k == CHOOSE n \in DOMAIN q : q[n].kind = "snapshot"
  <2>1. k \in 1 .. Len(q) /\ q[k].kind = "snapshot"
    BY <1>1, <1>3
  <2>2. r = SubSeq(q, 1, k - 1) \o SubSeq(q, k + 1, Len(q))
    BY <1>3 DEF NoSnapshots
  <2> HIDE DEF k, r
  <2> DEFINE a == SubSeq(q, 1, k - 1)
             b == SubSeq(q, k + 1, Len(q))
  <2>3. a \in Seq(Events) /\ Len(a) = k - 1 /\ \A i \in 1 .. k - 1 : a[i] = q[i]
    BY <1>1, <2>1, SubSeqProperties
  <2>4. b \in Seq(Events) /\ Len(b) = Len(q) - k /\ \A i \in 1 .. Len(q) - k : b[i] = q[k + i]
    <3>1. \A i \in k + 1 .. Len(q) : q[i] \in Events
      BY <1>1, <2>1
    <3>2. k + 1 \in Int /\ Len(q) \in Int
      BY <1>1, <2>1
    <3>3. /\ b \in Seq(Events)
          /\ Len(b) = IF k + 1 <= Len(q) THEN Len(q) - (k + 1) + 1 ELSE 0
          /\ \A i \in 1 .. Len(q) - (k + 1) + 1 : b[i] = q[(k + 1) + i - 1]
      BY <3>1, <3>2, SubSeqProperties
    <3>4. /\ (IF k + 1 <= Len(q) THEN Len(q) - (k + 1) + 1 ELSE 0) = Len(q) - k
          /\ Len(q) - (k + 1) + 1 = Len(q) - k
          /\ \A i \in 1 .. Len(q) - k : (k + 1) + i - 1 = k + i
      <4> DEFINE len == Len(q)
      <4>1. len \in Nat /\ k \in 1 .. len
        BY <1>1, <2>1
      <4> HIDE DEF len
      <4>2. /\ (IF k + 1 <= len THEN len - (k + 1) + 1 ELSE 0) = len - k
            /\ len - (k + 1) + 1 = len - k
        BY <4>1
      <4>3. \A i \in 1 .. len - k : (k + 1) + i - 1 = k + i
        BY <4>1
      <4>4. QED
        BY <4>2, <4>3 DEF len
    <3> HIDE DEF b
    <3>5. QED
      BY <3>3, <3>4
  <2> HIDE DEF a, b
  <2>5. /\ r \in Seq(Events) /\ Len(r) = Len(q) - 1
        /\ \A i \in 1 .. Len(q) - 1 : r[i] = IF i < k THEN q[i] ELSE q[i + 1]
    <3>1. r \in Seq(Events) /\ Len(r) = Len(a) + Len(b)
          /\ \A i \in 1 .. Len(a) + Len(b) : r[i] = IF i <= Len(a) THEN a[i] ELSE b[i - Len(a)]
      BY <2>2, <2>3, <2>4, ConcatProperties DEF a, b
    <3>2. \A i \in 1 .. Len(q) - 1 : i >= k => b[i - (k - 1)] = q[i + 1]
      BY <1>1, <2>1, <2>4
    <3>3. Len(a) + Len(b) = Len(q) - 1 /\ Len(a) = k - 1
      BY <1>1, <2>1, <2>3, <2>4
    <3>4. ASSUME NEW i \in 1 .. Len(q) - 1 PROVE r[i] = IF i < k THEN q[i] ELSE q[i + 1]
      <4>1. r[i] = IF i <= k - 1 THEN a[i] ELSE b[i - (k - 1)]
        BY <3>1, <3>3
      <4>2. CASE i < k
        BY <1>1, <2>1, <2>3, <4>1, <4>2
      <4>3. CASE ~(i < k)
        <5>1. ~(i <= k - 1) /\ i >= k
          BY <2>1, <4>3
        <5>2. QED
          BY <3>2, <4>1, <4>3, <5>1
      <4>4. QED
        BY <4>2, <4>3
    <3>5. QED
      BY <3>1, <3>3, <3>4
  <2>6. \A n \in 1 .. Len(r) : r[n].kind # "snapshot" /\ r[n] \in Events
    BY <1>1, <2>1, <2>5
  <2>7. \A n, m \in 1 .. Len(r) : n # m =>
           \E i, j \in 1 .. Len(q) : i # j /\ r[n] = q[i] /\ r[m] = q[j]
    <3>1. TAKE n, m \in 1 .. Len(r)
    <3>2. SUFFICES ASSUME n # m PROVE \E i, j \in 1 .. Len(q) : i # j /\ r[n] = q[i] /\ r[m] = q[j]
      OBVIOUS
    <3>3. (IF n < k THEN n ELSE n + 1) # (IF m < k THEN m ELSE m + 1)
      BY <2>1, <2>5, <3>2
    <3>4. /\ (IF n < k THEN n ELSE n + 1) \in 1 .. Len(q) /\ (IF m < k THEN m ELSE m + 1) \in 1 .. Len(q)
          /\ r[n] = q[IF n < k THEN n ELSE n + 1] /\ r[m] = q[IF m < k THEN m ELSE m + 1]
      BY <1>1, <2>1, <2>5
    <3>5. QED
      BY <3>3, <3>4
  <2>8. \A n \in 1 .. Len(r) : \E i \in 1 .. Len(q) : r[n] = q[i]
    BY <1>1, <2>1, <2>5
  <2>9. \A i \in 1 .. Len(q) : q[i].kind # "snapshot" => \E n \in 1 .. Len(r) : r[n] = q[i]
    <3>1. TAKE i \in 1 .. Len(q)
    <3>2. CASE i < k
      BY <1>1, <2>1, <2>5, <3>2
    <3>3. CASE i > k
      <4>1. i - 1 \in 1 .. Len(r) /\ r[i - 1] = q[i]
        BY <1>1, <2>1, <2>5, <3>3
      <4>2. QED
        BY <4>1
    <3>4. QED
      BY <2>1, <3>2, <3>3
  <2>10. QED
    BY <1>1, <2>5, <2>6, <2>7, <2>8, <2>9 DEF r
<1>4. QED
  BY <1>2, <1>3

\* A snapshot is published: in the place of the one not yet delivered, or last.
LEMMA Published ==
    ASSUME NEW q \in Seq(Events), NEW s \in Snapshots
    PROVE  LET r == WithSnapshot(q, s)
           IN  /\ r \in Seq(Events) /\ Len(q) \in Nat /\ Len(r) \in {Len(q), Len(q) + 1}
               /\ \A n \in 1 .. Len(r) : r[n].kind = "snapshot" => r[n].snap = s /\ r[n].id = NoId
               /\ \A n \in 1 .. Len(q) : /\ q[n].kind = "snapshot" <=> r[n].kind = "snapshot"
                                         /\ q[n].kind # "snapshot" => r[n] = q[n]
               /\ Len(r) = Len(q) + 1 =>
                    /\ r[Len(r)] = Event("snapshot", NoId, TRUE, s)
                    /\ \A n \in 1 .. Len(q) : q[n].kind # "snapshot"
<1> DEFINE r == WithSnapshot(q, s)
           e == Event("snapshot", NoId, TRUE, s)
<1>1. Len(q) \in Nat /\ DOMAIN q = 1 .. Len(q) /\ \A n \in 1 .. Len(q) : q[n] \in Events
  BY LenProperties, ElementOfSeq
<1>2. e \in Events /\ e.kind = "snapshot" /\ e.snap = s /\ e.id = NoId
  BY DEF Event, Events, NoId
<1>3. CASE \E n \in DOMAIN q : q[n].kind = "snapshot"
  <2>1. r = [n \in 1 .. Len(q) |-> IF q[n].kind = "snapshot" THEN e ELSE q[n]]
    BY <1>1, <1>3 DEF WithSnapshot
  <2> HIDE DEF r, e
  <2>2. r \in [1 .. Len(q) -> Events]
    BY <1>1, <1>2, <2>1
  <2>3. r \in Seq(Events) /\ Len(r) = Len(q)
    <3>1. r \in Seq(Events)
      BY <1>1, <2>2, SeqDef
    <3>2. DOMAIN r = 1 .. Len(q) /\ DOMAIN r = 1 .. Len(r) /\ Len(r) \in Nat
      BY <2>2, <3>1, LenProperties
    <3>3. QED
      BY <1>1, <3>1, <3>2
  <2>4. QED
    <3>1. \A n \in 1 .. Len(q) : r[n] = IF q[n].kind = "snapshot" THEN e ELSE q[n]
      BY <2>1
    <3>2. \A n \in 1 .. Len(q) : (q[n].kind = "snapshot" <=> r[n].kind = "snapshot")
                                 /\ (q[n].kind # "snapshot" => r[n] = q[n])
      BY <1>2, <3>1
    <3>3. \A n \in 1 .. Len(r) : r[n].kind = "snapshot" => r[n].snap = s /\ r[n].id = NoId
      BY <1>2, <2>3, <3>1
    <3>4. Len(r) # Len(q) + 1 /\ Len(q) \in Nat /\ Len(r) \in {Len(q), Len(q) + 1}
      <4>1. Len(q) \in Nat /\ Len(r) = Len(q)
        BY <1>1, <2>3
      <4>2. QED
        BY <4>1
    <3>5. r \in Seq(Events)
      BY <2>3
    <3>6. Len(r) = Len(q) + 1 => /\ r[Len(r)] = Event("snapshot", NoId, TRUE, s)
                                 /\ \A n \in 1 .. Len(q) : q[n].kind # "snapshot"
      BY <3>4
    <3>7. \A n \in 1 .. Len(q) : q[n].kind = "snapshot" <=> r[n].kind = "snapshot"
      BY <3>2
    <3>8. \A n \in 1 .. Len(q) : q[n].kind # "snapshot" => r[n] = q[n]
      BY <3>2
    <3>9. QED
      BY <3>3, <3>4, <3>5, <3>6, <3>7, <3>8 DEF r
<1>4. CASE ~ \E n \in DOMAIN q : q[n].kind = "snapshot"
  <2>1. r = Append(q, e)
    BY <1>4 DEF WithSnapshot
  <2> HIDE DEF r
  <2>2. /\ r \in Seq(Events) /\ Len(r) = Len(q) + 1
        /\ \A i \in 1 .. Len(q) : r[i] = q[i]
        /\ r[Len(q) + 1] = e
    <3> HIDE DEF e
    <3>1. QED
      BY <1>2, <2>1, Added
  <2>3. \A n \in 1 .. Len(q) : q[n].kind # "snapshot" /\ r[n] = q[n]
    BY <1>1, <1>4, <2>2
  <2>4. \A n \in 1 .. Len(r) : r[n].kind = "snapshot" => r[n].snap = s /\ r[n].id = NoId
    <3>1. \A n \in 1 .. Len(r) : n \in 1 .. Len(q) \/ n = Len(q) + 1
      BY <1>1, <2>2
    <3>2. QED
      BY <1>2, <2>2, <2>3, <3>1
  <2>5. QED
    BY <1>1, <2>2, <2>3, <2>4 DEF r
<1>5. QED
  BY <1>3, <1>4

-----------------------------------------------------------------------------
(* What the handlers come down to.                                         *)

AccurateQueue == \A n \in 1 .. Len(guiQueue) :
    guiQueue[n].kind = "snapshot" => Accurate(guiQueue[n].snap)

\* The cursor of a handler is honest about the data.
Cursor(c) ==
    /\ c.sure \in BOOLEAN
    /\ c.index \in 0 .. NumJobs /\ c.results = Upto(c.index) /\ 1 .. c.index \subseteq data
    /\ c.disk \in Checkpoints /\ c.disk.results = Upto(c.disk.next) /\ 1 .. c.disk.next \subseteq data

\* A series is over, or goes on to a phase.
Over(c) ==
    /\ phase' \in {"complete", "stopped", "failed"}
    /\ index' = c.index /\ results' = c.results
    /\ checkpoint' = c.disk \/ \E end \in {"complete", "stopped", "failed"} : checkpoint' = Saved(end, c)
    /\ exclusive' = FALSE /\ lastField' = Away /\ waitContext' = "none" /\ worker' = "none"
    /\ apsQueue' = apsQueue /\ moveId' \in {moveId, NoId}
GoesTo(p, c) ==
    /\ phase' = p /\ index' = c.index /\ results' = c.results /\ checkpoint' = c.disk
    /\ exclusive' = TRUE /\ waitContext' \in {"none", "preflight", "pre_move", "post_move"}
    /\ c.index < NumJobs

\* Where the chain from one job to the next may lead.
Leads(c) ==
    \/ Over(c)
    \/ /\ GoesTo("thermal_wait", c) \/ GoesTo("verifying", c)
       /\ worker' = "none" /\ NoMove /\ lastField' \in {lastField, Target(c)}
    \/ /\ GoesTo("measuring", c)
       /\ worker' = "running" /\ NoMove /\ lastField' = Target(c) /\ c.thermal = "safe"
    \/ /\ GoesTo("moving", c)
       /\ worker' = "none" /\ lastField' = lastField /\ c.thermal \in MayMove /\ moveId' = FreshId
       /\ guiQueue' = guiQueue
       /\ apsQueue' = Append(apsQueue, [op |-> "move", id |-> FreshId,
                                        target |-> Target(c), sure |-> c.sure])

LEMMA VerificationLeads ==
    ASSUME NEW c, NEW s, SceneTypes, c.index \in 0 .. NumJobs, c.index < NumJobs,
           UNCHANGED <<field, heater, scene>>, AccurateQueue', ~Pending("result")',
           Verified(s, c) => field = Target(c) /\ ~heater,
           CompleteMoveVerification(s, c)
    PROVE  Leads(c) /\ Known'
<1> USE DEF CompleteMoveVerification, Running, NoMove, TabIdle
<1>1. Len(guiQueue') \in Int => \A n \in 1 .. Len(guiQueue') : guiQueue'[n].kind # "result"
  BY DEF Pending
<1>2. Target(c) \in Fields /\ Target(c) # Away
  BY Jobs DEF Target
<1>3. CASE Finish("failed", c) /\ TabIdle /\ NoMove
  <2>1. Over(c) /\ ~Active'
    BY <1>3 DEF Finish, Over, Cleanup, Active, Ended
  <2>2. phase' # "moving"
    BY <1>3 DEF Finish
  <2>3. QED
    BY <2>1, <2>2 DEF Leads, Known
<1>4. CASE /\ Verified(s, c) /\ c.thermal = "safe" /\ NoMove
           /\ worker' = "running" /\ workerStop' = FALSE /\ lastField' = Target(c)
           /\ Running("measuring", "none", c)
  BY <1>4 DEF Leads, GoesTo, Known, AccurateQueue
<1>5. CASE /\ Verified(s, c) /\ NoMove /\ TabIdle
           /\ Running("thermal_wait", "post_move", c) /\ lastField' = Target(c)
  BY <1>5 DEF Leads, GoesTo, Known, AccurateQueue
<1>6. CASE Running("verifying", "none", c) /\ UNCHANGED lastField /\ TabIdle /\ NoMove
  BY <1>6 DEF Leads, GoesTo, Known, AccurateQueue
<1>7. QED
  BY <1>3, <1>4, <1>5, <1>6 DEF StartMeasurement

LEMMA NextMoveLeads ==
    ASSUME NEW c, SceneTypes, c.index \in 0 .. NumJobs,
           UNCHANGED <<field, heater, scene, guiQueue>>, ~Pending("result")',
           lastField # Away => field = lastField /\ ~heater /\ AccurateQueue',
           RequestNextMove(c)
    PROVE  Leads(c) /\ Known'
<1> USE DEF RequestNextMove, Running, NoMove, TabIdle
<1>1. CASE (Finish("failed", c) \/ FinishSuccess(c)) /\ TabIdle /\ NoMove
  <2>1. Over(c) /\ ~Active' /\ phase' # "moving"
    BY <1>1 DEF Finish, FinishSuccess, Over, Cleanup, Active, Ended
  <2>2. QED
    BY <2>1 DEF Leads, Known
<1>2. CASE c.index < NumJobs /\ SameField(c) /\ CompleteMoveVerification(snap, c)
  <2>1. Target(c) \in Fields /\ Target(c) # Away
    BY <1>2, Jobs DEF Target
  <2>2. field = Target(c) /\ ~heater /\ AccurateQueue'
    BY <1>2, <2>1 DEF SameField
  <2>3. QED
    BY <1>2, <2>2, VerificationLeads
<1>3. CASE /\ c.index < NumJobs
           /\ Running("thermal_wait", "pre_move", c) /\ UNCHANGED lastField /\ TabIdle /\ NoMove
  BY <1>3 DEF Leads, GoesTo, Known, AccurateQueue
<1>4. CASE /\ c.index < NumJobs /\ c.thermal \in MayMove
           /\ Running("moving", "none", c) /\ UNCHANGED lastField /\ TabIdle
           /\ moveId' = FreshId
           /\ apsQueue' = Append(apsQueue, [op |-> "move", id |-> FreshId,
                                            target |-> Target(c), sure |-> c.sure])
  BY <1>4 DEF Leads, GoesTo, Known, Pending
<1>5. QED
  BY <1>1, <1>2, <1>3, <1>4

-----------------------------------------------------------------------------
TakesEvent(kinds) ==
    guiQueue # <<>> /\ Head(guiQueue).kind \in kinds /\ guiQueue' = Tail(guiQueue)

\* The chain is taken: nothing is under way, and the session is known.
Goes(c) ==
    /\ Cursor(c) /\ Leads(c) /\ c.thermal = thermal'
    /\ UNCHANGED <<apsNow, connected, field, heater, data, scene>>
    /\ guiQueue' = guiQueue \/ TakesEvent({"result", "snapshot"})
    /\ apsNow = ApsIdle /\ ~Queued("move") /\ ~Queued("connect") /\ ~Pending("result")'
    /\ connected => ~Pending("disconnected")'
    /\ ~connected => Pending("disconnected")'
    /\ ~stopRequested' /\ ~pendingFailure' /\ ~alarm' /\ snap' \in Snapshots
    /\ Known'
    /\ Active => ~stopRequested /\ ~pendingFailure

\* A series is ended.
Ends(c) ==
    /\ Active /\ Cursor(c) /\ Over(c)
    /\ UNCHANGED <<apsNow, connected, field, heater, data, scene>>
    /\ \/ UNCHANGED <<guiQueue, snap>> /\ phase # "moving"
       \/ TakesEvent({"result", "pause", "fault"}) /\ UNCHANGED snap
          /\ (phase = "moving" => Head(guiQueue).kind = "result")
       \/ TakesEvent({"disconnected"}) /\ snap' = NoSnap

\* The cursor, the disk and the APS100 are left alone.
Core == UNCHANGED <<index, results, checkpoint, data, scene, exclusive, lastField, worker,
                    moveId, apsNow, connected, field, heater, waitContext>>

\* An event is of no concern to the series.
Drops ==
    /\ Core
    /\ UNCHANGED <<phase, workerStop, stopRequested, pendingFailure, manualRequired,
                   thermal, alarm, apsQueue>>
    /\ \/ TakesEvent({"result"}) /\ snap' = snap /\ phase # "moving"
       \/ TakesEvent({"snapshot"}) /\ snap' = Head(guiQueue).snap /\ phase # "verifying"
       \/ TakesEvent({"pause"}) /\ snap' = snap /\ ~AwaitsPause
       \/ TakesEvent({"fault"}) /\ snap' = snap
       \/ TakesEvent({"connected"}) /\ snap' = NoSnap
       \/ TakesEvent({"disconnected"}) /\ snap' = NoSnap /\ ~Active

\* A run, or a move, is aborted.
AbortsRun ==
    /\ Core /\ worker # "none" /\ Active /\ phase' = "stopping" /\ pendingFailure' /\ workerStop'
    /\ UNCHANGED <<apsQueue, stopRequested, manualRequired>> /\ (alarm' => alarm) /\ thermal' \in Verdicts
    /\ \/ UNCHANGED <<guiQueue, snap>>
       \/ TakesEvent({"fault"}) /\ snap' = snap
       \/ TakesEvent({"disconnected"}) /\ snap' = NoSnap
AbortsMove ==
    /\ Core /\ worker = "none" /\ phase = "moving" /\ phase' = phase /\ pendingFailure'
    /\ apsQueue' = apsQueue \/ PauseMagnet
    /\ ~alarm' /\ UNCHANGED <<stopRequested, manualRequired, snap>> /\ thermal' \in Verdicts
    /\ guiQueue' = guiQueue \/ TakesEvent({"fault"})

\* The wait for the temperature goes on, and a reading is of no concern.
Waits ==
    /\ Core /\ phase = "thermal_wait" /\ phase' = phase /\ (alarm' => manualRequired')
    /\ UNCHANGED <<guiQueue, snap, apsQueue, stopRequested, pendingFailure>>
    /\ thermal' \in Verdicts
Reads ==
    /\ Core /\ UNCHANGED <<phase, workerStop, stopRequested, pendingFailure,
                           manualRequired, apsQueue, guiQueue, snap>>
    /\ worker # "none" /\ thermal' \in {"warning", "tripped"} => workerStop
    /\ (alarm' => alarm) /\ thermal' \in Verdicts

\* A stop that waits.
Stops ==
    /\ Core /\ Active /\ phase # "verifying" /\ stopRequested' /\ PauseMagnet
    /\ phase' = IF phase = "moving" THEN "moving" ELSE "stopping"
    /\ worker # "none" => workerStop'
    /\ UNCHANGED <<pendingFailure, guiQueue, snap, alarm, thermal, manualRequired>>

\* The handlers leave these alone.
LEMMA NowIs ==
    ASSUME Types, Done
    PROVE  /\ Cursor(Now) /\ Cursor([Now EXCEPT !.sure = FALSE])
           /\ \A t : Cursor([Now EXCEPT !.thermal = t])
           /\ Now.index = index /\ Now.thermal = thermal
  BY DEF Now, Cursor, Types, DiskTypes, BatchTypes, Done

\* In a series that is not moving nothing is under way.
LEMMA Quiet ==
    ASSUME Session, Flight, Series, Types, phase # "moving",
           (Active /\ (worker = "none" \/ ~pendingFailure)) \/ (connected /\ snap.valid)
    PROVE  /\ apsNow = ApsIdle /\ ~Queued("move") /\ ~Queued("connect") /\ ~Pending("result")
           /\ connected => ~Pending("disconnected")
           /\ ~connected => Pending("disconnected")
<1>1. /\ connected => ~Pending("disconnected")
      /\ ~connected => Pending("disconnected")
  BY DEF Session
<1>2. apsNow = ApsIdle
  BY DEF Flight
<1>3. ~Queued("move")
  BY DEF Flight, Queued
<1>4. ~Queued("connect")
  BY DEF Session
<1>5. ~Pending("result")
  <2>1. SUFFICES ASSUME NEW n \in 1 .. Len(guiQueue), guiQueue[n].kind = "result" PROVE FALSE
    BY DEF Pending
  <2>2. /\ ~Active
        /\ (~connected \/ \E i \in n .. Len(guiQueue) : guiQueue[i].kind = "disconnected")
    BY <2>1 DEF Flight
  <2>3. Len(guiQueue) \in Nat
    BY LenProperties DEF Types, ApsTypes
  <2>4. ~Pending("disconnected") /\ connected
    BY <1>1, <2>2
  <2>5. \A i \in n .. Len(guiQueue) : i \in 1 .. Len(guiQueue)
    BY <2>1, <2>3
  <2>6. QED
    BY <2>2, <2>4, <2>5 DEF Pending
<1>6. QED
  BY <1>1, <1>2, <1>3, <1>4, <1>5

-----------------------------------------------------------------------------
(* The handlers, one by one.                                               *)

LEMMA FinishIsOver ==
    ASSUME NEW c, NEW end \in {"complete", "stopped", "failed"}, Finish(end, c),
           worker' = "none", apsQueue' = apsQueue, moveId' \in {moveId, NoId}
    PROVE  Over(c)
  BY DEF Finish, Over, Cleanup

\* What is left in the queue when an event is taken.
LEMMA LeftInQueue ==
    ASSUME ApsTypes, NEW kinds, TakesEvent(kinds)
    PROVE  /\ Head(guiQueue) = guiQueue[1] /\ guiQueue[1] \in Events /\ guiQueue[1].kind \in kinds
           /\ Len(guiQueue) \in Nat /\ Len(guiQueue) > 0
           /\ Len(guiQueue') = Len(guiQueue) - 1 /\ guiQueue' \in Seq(Events)
           /\ \A i \in 1 .. Len(guiQueue') : guiQueue'[i] = guiQueue[i + 1] /\ i + 1 \in 1 .. Len(guiQueue)
           /\ \A k : Pending(k)' => Pending(k)
           /\ \A k : Pending(k) /\ k \notin kinds => Pending(k)'
           /\ UNCHANGED <<field, heater>> /\ AccurateQueue => AccurateQueue'
<1>1. /\ Len(guiQueue) \in Nat /\ Len(guiQueue) > 0 /\ Head(guiQueue) = guiQueue[1]
      /\ guiQueue[1] \in Events
      /\ guiQueue' \in Seq(Events) /\ Len(guiQueue') = Len(guiQueue) - 1
      /\ \A i \in 1 .. Len(guiQueue') : guiQueue'[i] = guiQueue[i + 1]
  BY Taken DEF ApsTypes, TakesEvent
<1>2. \A i \in 1 .. Len(guiQueue') : i + 1 \in 1 .. Len(guiQueue)
  BY <1>1
<1>3. \A k : Pending(k)' => Pending(k)
  BY <1>1, <1>2 DEF Pending
<1>4. guiQueue[1].kind \in kinds
  BY <1>1 DEF TakesEvent
<1>5. ASSUME NEW k, Pending(k), k \notin kinds PROVE Pending(k)'
  <2>1. PICK n \in 1 .. Len(guiQueue) : guiQueue[n].kind = k
    BY <1>5 DEF Pending
  <2>2. n # 1
    BY <1>4, <1>5, <2>1
  <2>3. n - 1 \in 1 .. Len(guiQueue') /\ (n - 1) + 1 = n
    BY <1>1, <2>2
  <2>4. guiQueue'[n - 1] = guiQueue[n]
    BY <1>1, <2>3
  <2>5. QED
    BY <2>1, <2>3, <2>4 DEF Pending
<1>6. UNCHANGED <<field, heater>> /\ AccurateQueue => AccurateQueue'
  BY <1>1, <1>2 DEF AccurateQueue, Accurate
<1>7. QED
  BY <1>1, <1>2, <1>3, <1>4, <1>5, <1>6

Holds == Types /\ Flags /\ IInv

LEMMA OnMoveResultIs ==
    Holds /\ OnMoveResult => (\E c : Goes(c)) \/ (\E c : Ends(c)) \/ Drops
<1> SUFFICES ASSUME Types, IInv, OnMoveResult PROVE (\E c : Goes(c)) \/ (\E c : Ends(c)) \/ Drops
  BY DEF Holds
<1> DEFINE e == Head(guiQueue)
<1>1. TakesEvent({"result"})
  BY DEF OnMoveResult, Take, TakesEvent
<1>2. /\ e = guiQueue[1] /\ e \in Events /\ e.kind = "result" /\ 1 \in 1 .. Len(guiQueue)
      /\ Len(guiQueue) \in Nat /\ Len(guiQueue') = Len(guiQueue) - 1
      /\ \A i \in 1 .. Len(guiQueue') : guiQueue'[i] = guiQueue[i + 1] /\ i + 1 \in 1 .. Len(guiQueue)
      /\ \A k : k # "result" => (Pending(k)' <=> Pending(k))
  BY <1>1, LeftInQueue DEF Types
<1> HIDE DEF e
<1>3. Pending("result")
  BY <1>2 DEF Pending
<1>4. ~Pending("result")'
  BY <1>2 DEF Pending, IInv, Flight
<1>5. CASE ~Awaited(e) /\ BatchAside /\ NoCommand /\ UNCHANGED <<snap, confirmed>>
  <2>1. phase # "moving"
    BY <1>2, <1>5 DEF Awaited, IInv, Flight, Series
  <2>2. Drops
    BY <1>1, <1>5, <2>1 DEF OnMoveResult, BatchAside, NoCommand, Drops, Core, Ghosts, ApsAside,
       magnetVars, bounds
  <2>3. QED
    BY <2>2
<1>6. CASE Awaited(e) /\ (Finish("failed", Now) \/ Finish("stopped", Now)) /\ TabIdle /\ NoMove
           /\ UNCHANGED snap
  <2>1. Over(Now)
    BY <1>6, FinishIsOver DEF TabIdle, NoMove
  <2>2. Cursor(Now)
    BY NowIs DEF IInv
  <2>3. e.kind = "result" /\ Head(guiQueue) = e
    BY <1>2 DEF e
  <2>4. TakesEvent({"result", "pause", "fault"})
    BY <1>1 DEF TakesEvent
  <2>5. Ends(Now)
    BY <1>6, <2>1, <2>2, <2>3, <2>4 DEF Ends, OnMoveResult, ApsAside, magnetVars, bounds, Awaited,
       Active, Ended
  <2>6. QED
    BY <2>5
<1>7. CASE /\ Awaited(e) /\ ~pendingFailure /\ ~stopRequested /\ e.ok
           /\ CompleteMoveVerification(e.snap, Now)
           /\ snap' = IF Verified(e.snap, Now) THEN e.snap ELSE snap
  <2>1. phase = "moving" /\ Active /\ worker = "none"
    BY <1>7 DEF Awaited, Active, Ended, IInv, Series
  <2>2. field = JobField[index + 1] /\ ~heater /\ Accurate(e.snap) /\ AccurateQueue
    BY <1>2, <1>7, <2>1 DEF IInv, Known, AccurateQueue
  <2>3. UNCHANGED <<field, heater, scene, data, apsNow, connected, thermal, alarm, stopRequested,
                    pendingFailure>>
    BY DEF OnMoveResult, ApsAside, magnetVars, bounds, Ghosts
  <2>4. AccurateQueue'
    BY <1>1, <2>2, <2>3, LeftInQueue DEF Types
  <2>5. /\ Cursor(Now) /\ Now.index = index /\ Now.thermal = thermal
        /\ index \in 0 .. NumJobs /\ index < NumJobs /\ SceneTypes
    BY <2>1, NowIs DEF IInv, Types, BatchTypes, Series
  <2>6. Target(Now) = field
    BY <2>2, <2>5 DEF Target
  <2>7. Leads(Now) /\ Known'
    BY <1>4, <1>7, <2>2, <2>3, <2>4, <2>5, <2>6, VerificationLeads
  <2>8. apsNow = ApsIdle /\ ~Queued("move") /\ ~Queued("connect")
    BY <1>3, <2>1 DEF IInv, Flight, Session, Queued
  <2>9. /\ connected => ~Pending("disconnected")
        /\ ~connected => Pending("disconnected")
    BY <2>1 DEF IInv, Session
  <2>10. ~alarm
    BY <2>1 DEF IInv, Warm
  <2>11. snap' \in Snapshots
    BY <1>2, <1>7 DEF Types, BatchTypes, Events
  <2>12. TakesEvent({"result", "snapshot"})
    BY <1>1 DEF TakesEvent
  <2>13. Goes(Now)
    BY <1>2, <1>4, <1>7, <2>3, <2>5, <2>7, <2>8, <2>9, <2>10, <2>11, <2>12 DEF Goes
  <2>14. QED
    BY <2>13
<1>8. QED
  BY <1>5, <1>6, <1>7 DEF OnMoveResult, e

LEMMA OnSnapshotIs == Holds /\ OnSnapshot => (\E c : Goes(c)) \/ Drops
<1> SUFFICES ASSUME Types, IInv, OnSnapshot PROVE (\E c : Goes(c)) \/ Drops
  BY DEF Holds
<1> DEFINE e == Head(guiQueue)
<1>1. TakesEvent({"snapshot"}) /\ snap' = e.snap
  BY DEF OnSnapshot, Take, TakesEvent
<1>2. /\ e = guiQueue[1] /\ e \in Events /\ e.kind = "snapshot" /\ 1 \in 1 .. Len(guiQueue)
      /\ \A k : k # "snapshot" => (Pending(k)' <=> Pending(k))
  BY <1>1, LeftInQueue DEF Types
<1> HIDE DEF e
<1>3. CASE phase # "verifying" /\ BatchAside /\ NoCommand /\ UNCHANGED confirmed
  <2>1. Drops
    BY <1>1, <1>3 DEF OnSnapshot, BatchAside, NoCommand, Drops, Core, Ghosts, ApsAside,
       magnetVars, bounds, e
  <2>2. QED
    BY <2>1
<1>4. CASE phase = "verifying" /\ CompleteMoveVerification(e.snap, Now)
  <2>1. Active /\ worker = "none" /\ ~stopRequested /\ ~pendingFailure
    BY <1>4 DEF Active, Ended, IInv, Series
  <2>2. UNCHANGED <<field, heater, scene, data, apsNow, connected, thermal, alarm, stopRequested,
                    pendingFailure>>
    BY DEF OnSnapshot, ApsAside, magnetVars, bounds, Ghosts
  <2>3. AccurateQueue /\ Accurate(e.snap)
    BY <1>2, <1>4, <2>1 DEF IInv, Known, AccurateQueue
  <2>4. AccurateQueue'
    BY <1>1, <2>2, <2>3, LeftInQueue DEF Types
  <2>5. /\ Cursor(Now) /\ Now.index = index /\ Now.thermal = thermal
        /\ index \in 0 .. NumJobs /\ index < NumJobs /\ SceneTypes
    BY <2>1, NowIs DEF IInv, Types, BatchTypes, Series
  <2>6. /\ apsNow = ApsIdle /\ ~Queued("move") /\ ~Queued("connect") /\ ~Pending("result")
        /\ connected => ~Pending("disconnected")
        /\ ~connected => Pending("disconnected")
    BY <1>4, <2>1, Quiet DEF IInv
  <2>7. Verified(e.snap, Now) => field = Target(Now) /\ ~heater
    BY <2>3 DEF Verified, Accurate
  <2>8. Leads(Now) /\ Known'
    BY <1>2, <1>4, <2>2, <2>4, <2>5, <2>6, <2>7, VerificationLeads
  <2>9. ~alarm
    BY <1>4 DEF IInv, Warm
  <2>10. snap' \in Snapshots
    BY <1>1, <1>2 DEF Events
  <2>11. TakesEvent({"result", "snapshot"})
    BY <1>1 DEF TakesEvent
  <2>12. Goes(Now)
    BY <1>2, <2>1, <2>2, <2>5, <2>6, <2>8, <2>9, <2>10, <2>11 DEF Goes
  <2>13. QED
    BY <2>12
<1>5. QED
  BY <1>1, <1>3, <1>4 DEF OnSnapshot, e

LEMMA OnPauseDoneIs == Holds /\ OnPauseDone => (\E c : Ends(c)) \/ Drops
<1> SUFFICES ASSUME Types, IInv, OnPauseDone PROVE (\E c : Ends(c)) \/ Drops
  BY DEF Holds
<1>1. TakesEvent({"pause"})
  BY DEF OnPauseDone, Take, TakesEvent
<1>2. CASE ~AwaitsPause /\ BatchAside /\ UNCHANGED confirmed
  <2>1. Drops
    BY <1>1, <1>2 DEF OnPauseDone, BatchAside, NoCommand, Drops, Core, Ghosts, ApsAside,
       magnetVars, bounds
  <2>2. QED
    BY <2>1
<1>3. CASE AwaitsPause /\ (Finish("stopped", Now) \/ Finish("failed", Now))
           /\ UNCHANGED <<worker, workerStop, moveId>>
  <2>1. Over(Now)
    BY <1>3, FinishIsOver DEF OnPauseDone, NoCommand, AwaitsPause
  <2>2. Cursor(Now)
    BY NowIs DEF IInv
  <2>3. TakesEvent({"result", "pause", "fault"})
    BY <1>1 DEF TakesEvent
  <2>4. Ends(Now)
    BY <1>3, <2>1, <2>2, <2>3 DEF Ends, OnPauseDone, ApsAside, magnetVars, bounds, AwaitsPause,
       Active, Ended
  <2>5. QED
    BY <2>4
<1>4. QED
  BY <1>2, <1>3 DEF OnPauseDone

LEMMA OnFaultIs == Holds /\ OnFault => (\E c : Ends(c)) \/ AbortsRun \/ AbortsMove \/ Drops
<1> SUFFICES ASSUME Types, IInv, OnFault
    PROVE  (\E c : Ends(c)) \/ AbortsRun \/ AbortsMove \/ Drops
  BY DEF Holds
<1>1. TakesEvent({"fault"}) /\ thermal \in Verdicts
  BY DEF OnFault, Take, TakesEvent, Types, SceneTypes
<1>2. UNCHANGED <<field, heater, scene, data, apsNow, connected, thermal, alarm, stopRequested,
                  manualRequired, snap, moveId>>
  BY DEF OnFault, ApsAside, magnetVars, bounds, Ghosts
<1>3. CASE /\ ~Active /\ NoCommand
           /\ UNCHANGED <<phase, index, results, checkpoint, exclusive, lastField, waitContext,
                          worker, workerStop, pendingFailure, confirmed>>
  <2>1. Drops
    BY <1>1, <1>2, <1>3 DEF NoCommand, Drops, Core
  <2>2. QED
    BY <2>1
<1>4. CASE Active /\ Abort(Now)
  <2>1. CASE worker # "none"
    <3>1. AbortsRun
      BY <1>1, <1>2, <1>4, <2>1 DEF Abort, AbortsRun, Core
    <3>2. QED
      BY <3>1
  <2>2. CASE worker = "none" /\ phase = "moving"
    <3>1. AbortsMove
      BY <1>1, <1>2, <1>4, <2>2 DEF Abort, AbortsMove, Core, IInv, Warm
    <3>2. QED
      BY <3>1
  <2>3. CASE worker = "none" /\ phase # "moving"
    <3>1. Over(Now)
      BY <1>2, <1>4, <2>3, FinishIsOver DEF Abort
    <3>2. Cursor(Now)
      BY NowIs DEF IInv
    <3>3. TakesEvent({"result", "pause", "fault"})
      BY <1>1 DEF TakesEvent
    <3>4. Ends(Now)
      BY <1>2, <1>4, <2>3, <3>1, <3>2, <3>3 DEF Ends
    <3>5. QED
      BY <3>4
  <2>4. QED
    BY <2>1, <2>2, <2>3
<1>5. QED
  BY <1>3, <1>4 DEF OnFault

LEMMA OnDisconnectedIs == Holds /\ OnDisconnected => (\E c : Ends(c)) \/ AbortsRun \/ Drops
<1> SUFFICES ASSUME Types, IInv, OnDisconnected PROVE (\E c : Ends(c)) \/ AbortsRun \/ Drops
  BY DEF Holds
<1> DEFINE unsure == [Now EXCEPT !.sure = FALSE]
<1>1. TakesEvent({"disconnected"}) /\ snap' = NoSnap /\ thermal \in Verdicts
  BY DEF OnDisconnected, Take, TakesEvent, Types, SceneTypes
<1>2. UNCHANGED <<field, heater, scene, data, apsNow, connected, thermal, alarm, stopRequested,
                  manualRequired>>
  BY DEF OnDisconnected, ApsAside, magnetVars, bounds, Ghosts
<1>3. CASE ~Active /\ BatchAside /\ NoCommand /\ UNCHANGED pendingFailure
  <2>1. Drops
    BY <1>1, <1>2, <1>3 DEF NoCommand, Drops, Core, BatchAside
  <2>2. QED
    BY <2>1
<1>4. Cursor(unsure)
  BY NowIs DEF IInv
<1> HIDE DEF unsure
<1>5. CASE /\ phase = "moving" /\ Finish("failed", unsure)
           /\ NoCommand /\ UNCHANGED <<worker, workerStop, moveId, pendingFailure>>
  <2>1. Active /\ worker = "none"
    BY <1>5 DEF Active, Ended, IInv, Series
  <2>2. Over(unsure)
    BY <1>5, <2>1, FinishIsOver DEF NoCommand
  <2>3. Ends(unsure)
    BY <1>1, <1>2, <1>4, <2>1, <2>2 DEF Ends
  <2>4. QED
    BY <2>3
<1>6. CASE Active /\ phase # "moving" /\ Abort(unsure) /\ UNCHANGED moveId
  <2>1. CASE worker # "none"
    <3>1. AbortsRun
      BY <1>1, <1>2, <1>6, <2>1 DEF Abort, AbortsRun, Core
    <3>2. QED
      BY <3>1
  <2>2. CASE worker = "none"
    <3>1. Over(unsure)
      BY <1>2, <1>6, <2>2, FinishIsOver DEF Abort
    <3>2. Ends(unsure)
      BY <1>1, <1>2, <1>4, <1>6, <3>1 DEF Ends
    <3>3. QED
      BY <3>2
  <2>3. QED
    BY <2>1, <2>2
<1>7. QED
  BY <1>3, <1>5, <1>6 DEF OnDisconnected, unsure

LEMMA OnConnectedIs == Holds /\ OnConnected => Drops
<1> SUFFICES ASSUME OnConnected PROVE Drops
  BY DEF Holds
<1>1. TakesEvent({"connected"})
  BY DEF OnConnected, Take, TakesEvent
<1>2. QED
  BY <1>1 DEF OnConnected, BatchAside, NoCommand, Drops, Core, Ghosts, ApsAside, magnetVars,
     bounds

LEMMA OnMeasurementTerminalIs ==
    Holds /\ OnMeasurementTerminal => (\E c : Goes(c)) \/ (\E c : Ends(c))
<1> SUFFICES ASSUME Types, IInv, OnMeasurementTerminal PROVE (\E c : Goes(c)) \/ (\E c : Ends(c))
  BY DEF Holds
<1> DEFINE done == [Now EXCEPT !.index = index + 1, !.results = Append(results, index + 1)]
           saved == [done EXCEPT !.disk = Saved("job_complete", done)]
<1>1. /\ worker \in {"finished", "stopped", "error"}
      /\ UNCHANGED <<field, heater, scene, data, apsNow, connected, thermal, alarm, stopRequested,
                     pendingFailure, snap, guiQueue>>
  BY DEF OnMeasurementTerminal, Ghosts, ApsAside, magnetVars, bounds
<1>2. phase \in {"measuring", "stopping"} /\ Active /\ phase # "moving"
  BY <1>1 DEF IInv, Series, Active, Ended
<1>3. CASE /\ Interrupted /\ (Finish("stopped", Now) \/ Finish("failed", Now)) /\ TabIdle /\ NoMove
  <2>1. Over(Now) /\ Cursor(Now)
    BY <1>3, FinishIsOver, NowIs DEF TabIdle, NoMove, IInv
  <2>2. Ends(Now)
    BY <1>1, <1>2, <2>1 DEF Ends
  <2>3. QED
    BY <2>2
<1>4. CASE ~Interrupted /\ (\/ RequestNextMove(saved)
                            \/ Finish("failed", done) /\ TabIdle /\ NoMove)
  <2>1. worker = "finished" /\ ~pendingFailure /\ ~stopRequested
    BY <1>4 DEF Interrupted
  <2>2. index \in 0 .. NumJobs /\ index < NumJobs /\ NumJobs \in Nat /\ SceneTypes
    BY <1>2, Jobs DEF IInv, Series, Types, BatchTypes
  <2>3. /\ results = Upto(index) /\ 1 .. index \subseteq data /\ index + 1 \in data
        /\ checkpoint \in Checkpoints /\ checkpoint.results = Upto(checkpoint.next)
        /\ 1 .. checkpoint.next \subseteq data
    BY <2>1 DEF IInv, Done, Types, DiskTypes
  <2>4. /\ index + 1 \in 0 .. NumJobs /\ Append(Upto(index), index + 1) = Upto(index + 1)
        /\ Upto(index + 1) \in Seq(1 .. NumJobs)
    <3>1. index + 1 \in 0 .. NumJobs
      BY <2>2
    <3>2. Append(Upto(index), index + 1) = Upto(index + 1)
      BY <2>2, UptoIs
    <3>3. Upto(index + 1) \in Seq(1 .. NumJobs)
      BY <2>2, <3>1, UptoIs
    <3>4. QED
      BY <3>1, <3>2, <3>3
  <2>5. 1 .. index + 1 \subseteq data
    BY <2>2, <2>3
  <2>6. /\ done.index = index + 1 /\ done.results = Upto(index + 1) /\ done.disk = checkpoint
        /\ done.thermal = thermal /\ done.sure = confirmed /\ saved.sure = confirmed
        /\ saved.index = index + 1 /\ saved.results = Upto(index + 1) /\ saved.thermal = thermal
        /\ saved.disk = [status |-> "job_complete", next |-> index + 1, results |-> Upto(index + 1)]
    BY <2>3, <2>4 DEF Now, Saved
  <2> HIDE DEF done, saved
  <2>7. saved.disk \in Checkpoints
    BY <2>4, <2>6 DEF Checkpoints
  <2>8. Cursor(done) /\ Cursor(saved)
    BY <2>3, <2>4, <2>5, <2>6, <2>7 DEF Cursor, Types, BatchTypes
  <2>9. /\ apsNow = ApsIdle /\ ~Queued("move") /\ ~Queued("connect") /\ ~Pending("result")
        /\ connected => ~Pending("disconnected")
        /\ ~connected => Pending("disconnected")
    BY <1>2, <2>1, Quiet DEF IInv
  <2>10. ~Pending("result")' /\ (Pending("disconnected")' <=> Pending("disconnected"))
    BY <1>1, <2>9 DEF Pending
  <2>11. lastField # Away => field = lastField /\ ~heater /\ AccurateQueue'
    BY <1>1, <1>2 DEF IInv, Known, AccurateQueue, Accurate
  <2>12. ~alarm
    BY <1>1, <1>2, <2>1 DEF IInv, Warm, Series
  <2>13. ASSUME RequestNextMove(saved) PROVE Leads(saved) /\ Known'
    BY <1>1, <2>2, <2>4, <2>6, <2>10, <2>11, <2>13, NextMoveLeads
  <2>14. ASSUME Finish("failed", done), TabIdle, NoMove PROVE Leads(done) /\ Known'
    <3>1. Over(done)
      BY <2>14, FinishIsOver DEF TabIdle, NoMove
    <3>2. phase' = "failed"
      BY <2>14 DEF Finish
    <3>3. QED
      BY <3>1, <3>2 DEF Leads, Known, Active, Ended
  <2>15. snap' \in Snapshots
    BY <1>1 DEF Types, BatchTypes
  <2>16. ASSUME NEW c \in {done, saved}, Leads(c), Known' PROVE Goes(c)
    BY <1>1, <2>1, <2>6, <2>8, <2>9, <2>10, <2>12, <2>15, <2>16 DEF Goes
  <2>17. QED
    BY <1>4, <2>13, <2>14, <2>16
<1>5. QED
  BY <1>3, <1>4 DEF OnMeasurementTerminal

LEMMA WaitTimeoutIs == Holds /\ WaitTimeout => \E c : Ends(c)
<1> SUFFICES ASSUME Types, IInv, WaitTimeout PROVE \E c : Ends(c)
  BY DEF Holds
<1>1. worker = "none" /\ Active /\ phase # "moving"
  BY DEF WaitTimeout, IInv, Series, Active, Ended
<1>2. Over(Now) /\ Cursor(Now)
  BY <1>1, FinishIsOver, NowIs DEF WaitTimeout, NoCommand, IInv
<1>3. Ends(Now)
  BY <1>1, <1>2 DEF Ends, WaitTimeout, ApsAside, magnetVars, bounds
<1>4. QED
  BY <1>3

\* The poll of the temperature, with what its callers leave alone.
LEMMA PollIs ==
    ASSUME Holds, NEW t \in Verdicts, NEW manual \in BOOLEAN, phase = "thermal_wait",
           PollCooldown(t, manual), thermal' = t,
           UNCHANGED <<field, heater, scene, data, apsNow, connected, stopRequested,
                       pendingFailure, snap, guiQueue>>,
           Recovered(t, manual) => ~alarm', alarm' => AlarmSeen(t)
    PROVE  (\E c : Goes(c)) \/ (\E c : Ends(c)) \/ Waits
<1> DEFINE c == [Now EXCEPT !.thermal = t]
<1>1. Types /\ IInv
  BY DEF Holds
<1>2. Active /\ worker = "none" /\ ~stopRequested /\ ~pendingFailure
  BY <1>1 DEF Active, Ended, IInv, Series
<1>3. /\ Cursor(c) /\ Cursor(Now) /\ c.index = index /\ c.thermal = t
      /\ index \in 0 .. NumJobs /\ SceneTypes /\ snap \in Snapshots
  <2>1. Now.index = index /\ c.index = Now.index /\ c.thermal = t
    BY DEF Now
  <2>2. QED
    BY <1>1, <2>1, NowIs DEF IInv, Types, BatchTypes
<1> HIDE DEF c
<1>4. CASE Recovered(t, manual) /\ RequestNextMove(c)
  <2>1. /\ apsNow = ApsIdle /\ ~Queued("move") /\ ~Queued("connect") /\ ~Pending("result")
        /\ connected => ~Pending("disconnected")
        /\ ~connected => Pending("disconnected")
    BY <1>1, <1>2, Quiet DEF IInv
  <2>2. ~Pending("result")' /\ (Pending("disconnected")' <=> Pending("disconnected"))
    BY <2>1 DEF Pending
  <2>3. lastField # Away => field = lastField /\ ~heater /\ AccurateQueue'
    BY <1>1, <1>2 DEF IInv, Known, AccurateQueue, Accurate
  <2>4. Leads(c) /\ Known'
    BY <1>3, <1>4, <2>2, <2>3, NextMoveLeads
  <2>5. Goes(c)
    BY <1>2, <1>3, <1>4, <2>1, <2>2, <2>4 DEF Goes
  <2>6. QED
    BY <2>5
<1>5. CASE Finish("failed", Now) /\ TabIdle /\ NoMove
  <2>1. Over(Now)
    BY <1>5, FinishIsOver DEF TabIdle, NoMove
  <2>2. Ends(Now)
    BY <1>2, <1>3, <2>1 DEF Ends
  <2>3. QED
    BY <2>2
<1>6. CASE manualRequired' = AlarmSeen(t) /\ BatchAside /\ UNCHANGED <<apsQueue, confirmed>>
  <2>1. alarm' => manualRequired'
    BY <1>6
  <2>2. Waits
    BY <1>6, <2>1 DEF Waits, Core, BatchAside
  <2>3. QED
    BY <2>2
<1>7. QED
  BY <1>4, <1>5, <1>6 DEF PollCooldown, c

LEMMA OnLakeShoreSnapshotIs ==
    ASSUME NEW t \in Verdicts
    PROVE  Holds /\ OnLakeShoreSnapshot(t) =>
             (\E c : Goes(c)) \/ (\E c : Ends(c)) \/ Waits \/ Reads \/ AbortsRun \/ AbortsMove
<1> SUFFICES ASSUME Holds, OnLakeShoreSnapshot(t)
    PROVE  (\E c : Goes(c)) \/ (\E c : Ends(c)) \/ Waits \/ Reads \/ AbortsRun \/ AbortsMove
  OBVIOUS
<1>1. Types /\ IInv
  BY DEF Holds
<1>2. /\ UNCHANGED <<field, heater, scene, data, apsNow, connected, stopRequested, snap, guiQueue>>
      /\ thermal' = t /\ alarm' = (alarm \/ (phase = "thermal_wait" /\ t = "warning"))
  BY DEF OnLakeShoreSnapshot, ApsAside, magnetVars, bounds
<1>3. CASE phase = "thermal_wait" /\ PollCooldown(t, FALSE) /\ UNCHANGED pendingFailure
  <2>1. Recovered(t, FALSE) => ~alarm'
    BY <1>1, <1>2, <1>3 DEF Recovered, AlarmSeen, IInv, Warm
  <2>2. alarm' => AlarmSeen(t)
    BY <1>1, <1>2, <1>3 DEF AlarmSeen, IInv, Warm
  <2>3. QED
    BY <1>2, <1>3, <2>1, <2>2, PollIs
<1>4. CASE /\ ~Aborts(t) /\ phase # "thermal_wait"
           /\ BatchAside /\ NoCommand /\ UNCHANGED <<pendingFailure, manualRequired, confirmed>>
  <2>1. worker # "none" /\ t \in {"warning", "tripped"} => workerStop
    BY <1>1, <1>4 DEF Aborts, IInv, Series, Active, Ended
  <2>2. alarm' => alarm
    BY <1>2, <1>4, <1>1 DEF Aborts
  <2>3. Reads
    BY <1>2, <1>4, <2>1, <2>2 DEF Reads, Core, BatchAside, NoCommand
  <2>4. QED
    BY <2>3
<1>5. CASE Aborts(t) /\ Abort(Now) /\ UNCHANGED <<moveId, manualRequired>>
  <2>1. Active
    BY <1>5 DEF Aborts
  <2>2. CASE worker # "none"
    <3>1. phase # "thermal_wait"
      BY <1>1, <2>2 DEF IInv, Series
    <3>2. alarm' => alarm
      BY <1>2, <3>1
    <3>3. AbortsRun
      BY <1>2, <1>5, <2>1, <2>2, <3>2 DEF Abort, AbortsRun, Core
    <3>4. QED
      BY <3>3
  <2>3. CASE worker = "none" /\ phase = "moving"
    <3>1. ~alarm'
      BY <1>1, <1>2, <2>3 DEF IInv, Warm
    <3>2. AbortsMove
      BY <1>2, <1>5, <2>3, <3>1 DEF Abort, AbortsMove, Core
    <3>3. QED
      BY <3>2
  <2>4. CASE worker = "none" /\ phase # "moving"
    <3>1. Over(Now) /\ Cursor(Now)
      BY <1>1, <1>5, <2>4, FinishIsOver, NowIs DEF Abort, IInv
    <3>2. Ends(Now)
      BY <1>2, <2>1, <2>4, <3>1 DEF Ends
    <3>3. QED
      BY <3>2
  <2>5. QED
    BY <2>2, <2>3, <2>4
<1>6. QED
  BY <1>3, <1>4, <1>5 DEF OnLakeShoreSnapshot

LEMMA OnLakeShoreDisconnectedIs ==
    Holds /\ OnLakeShoreDisconnected =>
      (\E c : Ends(c)) \/ Reads \/ AbortsRun \/ AbortsMove
<1> SUFFICES ASSUME Types, IInv, OnLakeShoreDisconnected
    PROVE  (\E c : Ends(c)) \/ Reads \/ AbortsRun \/ AbortsMove
  BY DEF Holds
<1>1. /\ UNCHANGED <<field, heater, scene, data, apsNow, connected, stopRequested, snap, guiQueue,
                     alarm, manualRequired>>
      /\ thermal' = "warning" /\ thermal' \in Verdicts
  BY DEF OnLakeShoreDisconnected, ApsAside, magnetVars, bounds, Verdicts
<1>2. CASE ~Active /\ BatchAside /\ NoCommand /\ UNCHANGED <<pendingFailure, confirmed>>
  <2>1. worker = "none"
    BY <1>2 DEF IInv, Series, Active, Ended
  <2>2. Reads
    BY <1>1, <1>2, <2>1 DEF Reads, Core, BatchAside, NoCommand
  <2>3. QED
    BY <2>2
<1>3. CASE Active /\ Abort(Now) /\ UNCHANGED moveId
  <2>1. CASE worker # "none"
    <3>1. AbortsRun
      BY <1>1, <1>3, <2>1 DEF Abort, AbortsRun, Core
    <3>2. QED
      BY <3>1
  <2>2. CASE worker = "none" /\ phase = "moving"
    <3>1. AbortsMove
      BY <1>1, <1>3, <2>2 DEF Abort, AbortsMove, Core, IInv, Warm
    <3>2. QED
      BY <3>1
  <2>3. CASE worker = "none" /\ phase # "moving"
    <3>1. Over(Now) /\ Cursor(Now)
      BY <1>3, <2>3, FinishIsOver, NowIs DEF Abort, IInv
    <3>2. Ends(Now)
      BY <1>1, <1>3, <2>3, <3>1 DEF Ends
    <3>3. QED
      BY <3>2
  <2>4. QED
    BY <2>1, <2>2, <2>3
<1>4. QED
  BY <1>2, <1>3 DEF OnLakeShoreDisconnected

LEMMA ContinueIs == Holds /\ Continue => (\E c : Goes(c)) \/ (\E c : Ends(c)) \/ Waits
<1> SUFFICES ASSUME Holds, Continue PROVE (\E c : Goes(c)) \/ (\E c : Ends(c)) \/ Waits
  OBVIOUS
<1>1. Types /\ IInv
  BY DEF Holds
<1>2. /\ UNCHANGED <<field, heater, scene, data, apsNow, connected, stopRequested, snap, guiQueue,
                     pendingFailure, thermal>>
      /\ alarm' = (alarm /\ ~Permitted(thermal)) /\ PollCooldown(thermal, TRUE)
      /\ phase = "thermal_wait" /\ thermal \in Verdicts
  BY <1>1 DEF Continue, ApsAside, magnetVars, bounds, Types, SceneTypes
<1>3. Recovered(thermal, TRUE) => ~alarm'
  BY <1>2 DEF Recovered
<1>4. alarm' => AlarmSeen(thermal)
  BY <1>1, <1>2 DEF AlarmSeen, IInv, Warm
<1>5. QED
  BY <1>2, <1>3, <1>4, PollIs

LEMMA StartFromIs ==
    ASSUME Types, IInv, NEW i, NEW res, StartFrom(i, res), i \in 0 .. NumJobs, i < NumJobs,
           res = Upto(i), 1 .. i \subseteq data
    PROVE  \E c : Goes(c)
<1> DEFINE c == [index |-> i, results |-> res, disk |-> checkpoint,
                 thermal |-> thermal, sure |-> TRUE]
           written == [c EXCEPT !.disk = Saved("running", c)]
<1>1. /\ ~Active /\ worker = "none" /\ connected /\ snap.valid
      /\ ~stopRequested' /\ ~pendingFailure' /\ ~alarm'
      /\ UNCHANGED <<field, heater, scene, data, apsNow, connected, thermal, snap, guiQueue>>
  BY DEF StartFrom, magnetVars
<1>2. /\ checkpoint \in Checkpoints /\ checkpoint.results = Upto(checkpoint.next)
      /\ 1 .. checkpoint.next \subseteq data /\ snap \in Snapshots /\ SceneTypes /\ NumJobs \in Nat
  BY Jobs DEF IInv, Done, Types, DiskTypes, BatchTypes
<1>3. Upto(i) \in Seq(1 .. NumJobs)
  BY <1>2, UptoIs
<1>4. /\ c.index = i /\ c.results = Upto(i) /\ c.disk = checkpoint /\ c.thermal = thermal /\ c.sure \in BOOLEAN
      /\ written.index = i /\ written.results = Upto(i) /\ written.thermal = thermal
      /\ written.sure \in BOOLEAN
      /\ written.disk = [status |-> "running", next |-> i, results |-> Upto(i)]
  BY DEF Saved
<1>5. \/ Finish("failed", c) /\ TabIdle /\ NoMove
      \/ RequestNextMove(written)
      \/ Running("thermal_wait", "preflight", written) /\ UNCHANGED lastField /\ TabIdle /\ NoMove
  BY DEF StartFrom
<1> HIDE DEF c, written
<1>6. written.disk \in Checkpoints
  BY <1>3, <1>4 DEF Checkpoints
<1>7. Cursor(c) /\ Cursor(written)
  BY <1>2, <1>4, <1>6 DEF Cursor
<1>8. phase # "moving" /\ lastField = Away
  BY <1>1 DEF Active, Ended, IInv, Series
<1>9. /\ apsNow = ApsIdle /\ ~Queued("move") /\ ~Queued("connect") /\ ~Pending("result")
      /\ connected => ~Pending("disconnected")
      /\ ~connected => Pending("disconnected")
  BY <1>1, <1>8, Quiet DEF IInv
<1>10. ~Pending("result")' /\ (Pending("disconnected")' <=> Pending("disconnected"))
  BY <1>1, <1>9 DEF Pending
<1>11. ASSUME NEW d \in {c, written}, Leads(d), Known' PROVE Goes(d)
  BY <1>1, <1>2, <1>4, <1>7, <1>9, <1>10, <1>11 DEF Goes
<1>12. CASE Finish("failed", c) /\ TabIdle /\ NoMove
  <2>1. Over(c)
    BY <1>12, FinishIsOver DEF TabIdle, NoMove
  <2>2. phase' = "failed"
    BY <1>12 DEF Finish
  <2>3. Leads(c) /\ Known'
    BY <2>1, <2>2 DEF Leads, Known, Active, Ended
  <2>4. QED
    BY <1>11, <2>3
<1>13. CASE RequestNextMove(written)
  <2>1. Leads(written) /\ Known'
    BY <1>1, <1>2, <1>4, <1>8, <1>10, <1>13, NextMoveLeads
  <2>2. QED
    BY <1>11, <2>1
<1>14. CASE /\ Running("thermal_wait", "preflight", written)
            /\ UNCHANGED lastField /\ TabIdle /\ NoMove
  <2>1. Leads(written)
    BY <1>4, <1>14 DEF Leads, GoesTo, Running, TabIdle
  <2>2. Known'
    BY <1>8, <1>14 DEF Known, Running
  <2>3. QED
    BY <1>11, <2>1, <2>2
<1>15. QED
  BY <1>5, <1>12, <1>13, <1>14

LEMMA StartIs == Holds /\ (Start \/ Resume) => \E c : Goes(c)
<1> SUFFICES ASSUME Types, IInv, Start \/ Resume PROVE \E c : Goes(c)
  BY DEF Holds
<1>1. NumJobs \in Nat /\ NumJobs > 0
  BY Jobs DEF Types
<1>2. CASE Start
  <2>1. 0 \in 0 .. NumJobs /\ 0 < NumJobs /\ <<>> = Upto(0) /\ 1 .. 0 \subseteq data
    <3>1. 0 \in 0 .. NumJobs
      BY <1>1
    <3>2. <<>> = Upto(0)
      BY <1>1, <3>1, UptoIs
    <3>3. 1 .. 0 \subseteq data
      OBVIOUS
    <3>4. QED
      BY <1>1, <3>1, <3>2, <3>3
  <2>2. QED
    BY <1>2, <2>1, StartFromIs DEF Start
<1>3. CASE Resume
  <2>1. checkpoint.next < NumJobs /\ checkpoint.next \in 0 .. NumJobs
    BY <1>3 DEF Resume, Resumable, Types, DiskTypes, Checkpoints
  <2>2. checkpoint.results = Upto(checkpoint.next) /\ 1 .. checkpoint.next \subseteq data
    BY DEF IInv, Done
  <2>3. QED
    BY <1>3, <2>1, <2>2, StartFromIs DEF Resume
<1>4. QED
  BY <1>2, <1>3

LEMMA StopIs == Holds /\ Stop => (\E c : Ends(c)) \/ Stops
<1> SUFFICES ASSUME Types, IInv, Stop PROVE (\E c : Ends(c)) \/ Stops
  BY DEF Holds
<1>1. /\ UNCHANGED <<field, heater, scene, data, apsNow, connected, snap, guiQueue, moveId,
                     pendingFailure, thermal, alarm, manualRequired>>
      /\ Active /\ stopRequested'
  BY DEF Stop, ApsAside, magnetVars, bounds, Ghosts
<1>2. CASE phase = "verifying"
  <2>1. worker = "none"
    BY <1>2 DEF IInv, Series
  <2>2. Over(Now) /\ Cursor(Now)
    BY <1>1, <1>2, <2>1, FinishIsOver, NowIs DEF Stop, NoCommand, IInv
  <2>3. Ends(Now)
    BY <1>1, <1>2, <2>2 DEF Ends
  <2>4. QED
    BY <2>3
<1>3. CASE phase # "verifying"
  <2>1. Stops
    BY <1>1, <1>3 DEF Stops, Stop, Core
  <2>2. QED
    BY <2>1
<1>4. QED
  BY <1>2, <1>3

-----------------------------------------------------------------------------
\* Every step is one of these.
LEMMA StepsAre ==
    Holds /\ Next =>
      \/ (\E c : Goes(c)) \/ (\E c : Ends(c))
      \/ Drops \/ AbortsRun \/ AbortsMove \/ Waits \/ Reads \/ Stops
      \/ PanelStop \/ Connect \/ Measurement \/ Aps \/ Crash
<1> SUFFICES ASSUME Holds, Next
    PROVE  \/ (\E c : Goes(c)) \/ (\E c : Ends(c))
           \/ Drops \/ AbortsRun \/ AbortsMove \/ Waits \/ Reads \/ Stops
           \/ PanelStop \/ Connect \/ Measurement \/ Aps \/ Crash
  OBVIOUS
<1>1. \A t \in scene.thermals : t \in Verdicts
  BY ConstantsAssumption DEF Holds, Types, SceneTypes
<1>2. CASE Gui
  BY <1>1, <1>2, OnMoveResultIs, OnSnapshotIs, OnPauseDoneIs, OnFaultIs, OnConnectedIs,
     OnDisconnectedIs, OnMeasurementTerminalIs, WaitTimeoutIs, OnLakeShoreSnapshotIs,
     OnLakeShoreDisconnectedIs DEF Gui
<1>3. CASE User
  BY <1>3, StartIs, StopIs, ContinueIs DEF User
<1>4. QED
  BY <1>2, <1>3 DEF Next

\* The identifier of a new request is none of those in use, and not nothing.
LEMMA FreshIs ==
    ASSUME Types, Labels, apsNow = ApsIdle, ~Queued("move"), ~Pending("result")
    PROVE  FreshId \in Ids /\ FreshId # NoId
<1>1. PICK id \in Ids : id # 0
  BY ConstantsAssumption
<1>2. apsNow.id = 0
  BY DEF ApsIdle, NoId
<1>3. \A n \in DOMAIN apsQueue : apsQueue[n].id = 0
  BY LenProperties DEF Labels, Types, ApsTypes, Queued, NoId
<1>4. \A n \in DOMAIN guiQueue : guiQueue[n].id = 0
  BY LenProperties DEF Labels, Types, ApsTypes, Pending, NoId
<1>5. \E x \in Ids : /\ x # apsNow.id
                     /\ \A n \in DOMAIN apsQueue : apsQueue[n].id # x
                     /\ \A n \in DOMAIN guiQueue : guiQueue[n].id # x
  BY <1>1, <1>2, <1>3, <1>4
<1>6. FreshId \in Ids /\ FreshId # apsNow.id
  BY <1>5 DEF FreshId
<1>7. QED
  BY <1>2, <1>6 DEF NoId

\* What a new move finds.
LEMMA MoveIsFresh ==
    ASSUME Types, IInv, NEW c, Goes(c), guiQueue' = guiQueue
    PROVE  FreshId \in Ids /\ FreshId # NoId
  BY FreshIs DEF Goes, IInv, Pending

\* The jobs done depend on these alone.
LEMMA SameDone ==
    ASSUME Done, UNCHANGED <<results, index, checkpoint, data, worker>> PROVE Done'
  BY DEF Done

LEMMA DoneByCursor ==
    ASSUME NEW c, Cursor(c), data' = data, worker' \in {"none", "running"},
           index' = c.index, results' = c.results,
           checkpoint' = c.disk \/ \E end \in {"complete", "stopped", "failed"} : checkpoint' = Saved(end, c)
    PROVE  Done'
  BY DEF Cursor, Done, Saved

\* The jobs done, through every step.
LEMMA DoneStep == Holds /\ [Next]_vars => Done'
<1> SUFFICES ASSUME Holds, Types, IInv, Next \/ UNCHANGED vars PROVE Done'
  BY DEF Holds
<1>1. ASSUME NEW c, Goes(c) PROVE Done'
  BY <1>1, DoneByCursor DEF Goes, Leads, Over, GoesTo
<1>2. ASSUME NEW c, Ends(c) PROVE Done'
  BY <1>2, DoneByCursor DEF Ends, Over
<1>3. CASE Drops \/ AbortsRun \/ AbortsMove \/ Waits \/ Reads \/ Stops
  BY <1>3, SameDone DEF IInv, Core, Drops, AbortsRun, AbortsMove, Waits, Reads, Stops
<1>4. CASE PanelStop \/ Connect
  BY <1>4, SameDone DEF IInv, PanelStop, Connect, GuiAside, batchVars, diskVars, tabVars,
     apsVars, magnetVars, bounds
<1>5. ASSUME NEW end \in {"finished", "stopped", "error"}, MeasurementEnds(end) PROVE Done'
  BY <1>5 DEF MeasurementEnds, batchVars, IInv, Done
<1>6. CASE Aps
  BY <1>6, SameDone DEF IInv, Aps, ApsBeginMove, ApsEndMove, ApsPause, ApsConnect, ApsPoll,
     ApsFault, ApsSessionLost, GuiAside, batchVars, diskVars, tabVars, apsVars, magnetVars, bounds
<1>7. CASE Crash
  <2>1. NumJobs \in Nat
    BY Jobs DEF Types
  <2>2. 0 \in 0 .. NumJobs
    BY <2>1
  <2>3. <<>> = Upto(0)
    BY <2>1, <2>2, UptoIs
  <2>4. 1 .. 0 \subseteq data
    OBVIOUS
  <2>5. QED
    BY <1>7, <2>3, <2>4 DEF Crash, diskVars, IInv, Done
<1>8. CASE UNCHANGED vars
  BY <1>8, SameDone DEF IInv, vars, GuiAside, batchVars, diskVars, tabVars, apsVars,
     magnetVars, bounds
<1>9. QED
  BY <1>1, <1>2, <1>3, <1>4, <1>5, <1>6, <1>7, <1>8, StepsAre DEF Aps, Measurement, Next

-----------------------------------------------------------------------------
LEMMA SameSeries ==
    ASSUME Series, UNCHANGED <<phase, index, exclusive, lastField, moveId, worker, workerStop,
                               stopRequested, pendingFailure, scene>>
    PROVE  Series'
  BY DEF Series, Active, NumJobs, JobField

\* The state of the series, through every step.
LEMMA SeriesStep == Holds /\ [Next]_vars => Series'
<1> SUFFICES ASSUME Holds, Types, IInv, Next \/ UNCHANGED vars PROVE Series'
  BY DEF Holds
<1>1. ASSUME NEW c, Goes(c) PROVE Series'
  <2>1. /\ ~stopRequested' /\ ~pendingFailure' /\ JobField' = JobField /\ NumJobs' = NumJobs
        /\ Leads(c)
    BY <1>1 DEF Goes, JobField, NumJobs
  <2>2. CASE Over(c)
    BY <2>1, <2>2 DEF Over, Series, Active, Ended
  <2>3. CASE /\ GoesTo("thermal_wait", c) \/ GoesTo("verifying", c)
             /\ worker' = "none"
    BY <2>1, <2>3 DEF GoesTo, Series, Active, Ended
  <2>4. CASE GoesTo("measuring", c) /\ worker' = "running" /\ lastField' = Target(c)
    BY <2>1, <2>4 DEF GoesTo, Series, Active, Ended, Target
  <2>5. CASE GoesTo("moving", c) /\ worker' = "none" /\ moveId' = FreshId /\ guiQueue' = guiQueue
    <3>1. FreshId # NoId
      BY <1>1, <2>5, MoveIsFresh
    <3>2. QED
      BY <2>1, <2>5, <3>1 DEF GoesTo, Series, Active, Ended
  <2>6. QED
    BY <2>1, <2>2, <2>3, <2>4, <2>5 DEF Leads
<1>2. ASSUME NEW c, Ends(c) PROVE Series'
  BY <1>2 DEF Ends, Over, Series, Active, Ended
<1>3. CASE Drops \/ Reads
  BY <1>3, SameSeries DEF IInv, Core, Drops, Reads
<1>4. CASE Waits
  BY <1>4 DEF IInv, Core, Waits, Series, Active, Ended, NumJobs, JobField
<1>5. CASE AbortsRun
  BY <1>5 DEF IInv, Core, AbortsRun, Series, Active, Ended, NumJobs, JobField
<1>6. CASE AbortsMove
  BY <1>6 DEF IInv, Core, AbortsMove, Series, Active, Ended, NumJobs, JobField
<1>7. CASE Stops
  BY <1>7 DEF IInv, Core, Stops, Series, Active, Ended, NumJobs, JobField
<1>8. CASE PanelStop \/ Connect
  BY <1>8, SameSeries DEF IInv, PanelStop, Connect, GuiAside, batchVars, diskVars, tabVars,
     apsVars, magnetVars, bounds
<1>9. ASSUME NEW end \in {"finished", "stopped", "error"}, MeasurementEnds(end) PROVE Series'
  BY <1>9 DEF MeasurementEnds, batchVars, bounds, IInv, Series, Active, NumJobs, JobField
<1>10. CASE Aps
  BY <1>10, SameSeries DEF IInv, Aps, ApsBeginMove, ApsEndMove, ApsPause, ApsConnect, ApsPoll,
     ApsFault, ApsSessionLost, GuiAside, batchVars, diskVars, tabVars, apsVars, magnetVars, bounds
<1>11. CASE Crash
  BY <1>11 DEF Crash, Series, Active, Ended
<1>12. CASE UNCHANGED vars
  BY <1>12, SameSeries DEF IInv, vars, GuiAside, batchVars, diskVars, tabVars, apsVars,
     magnetVars, bounds
<1>13. QED
  BY <1>1, <1>2, <1>3, <1>4, <1>5, <1>6, <1>7, <1>8, <1>9, <1>10, <1>11, <1>12,
     StepsAre DEF Aps, Measurement, Next

-----------------------------------------------------------------------------
LEMMA SameWarm ==
    ASSUME Warm, UNCHANGED <<phase, worker, workerStop, manualRequired, thermal, alarm>> PROVE Warm'
  BY DEF Warm

\* The temperature and the series, through every step.
LEMMA WarmStep == Holds /\ [Next]_vars => Warm'
<1> SUFFICES ASSUME Holds, Types, IInv, Next \/ UNCHANGED vars PROVE Warm'
  BY DEF Holds
<1>1. ASSUME NEW c, Goes(c) PROVE Warm'
  BY <1>1 DEF Goes, Leads, Over, GoesTo, Warm
<1>2. ASSUME NEW c, Ends(c) PROVE Warm'
  BY <1>2 DEF Ends, Over, Warm
<1>3. CASE Drops
  BY <1>3, SameWarm DEF IInv, Core, Drops
<1>4. CASE AbortsRun
  BY <1>4 DEF IInv, Core, AbortsRun, Warm
<1>5. CASE AbortsMove
  BY <1>5 DEF IInv, Core, AbortsMove, Warm
<1>6. CASE Waits
  BY <1>6 DEF IInv, Core, Waits, Warm, Series
<1>7. CASE Reads
  BY <1>7 DEF IInv, Core, Reads, Warm
<1>8. CASE Stops
  BY <1>8 DEF IInv, Core, Stops, Warm
<1>9. CASE PanelStop \/ Connect
  BY <1>9, SameWarm DEF IInv, PanelStop, Connect, GuiAside, batchVars, diskVars, tabVars,
     apsVars, magnetVars, bounds
<1>10. ASSUME NEW end \in {"finished", "stopped", "error"}, MeasurementEnds(end) PROVE Warm'
  BY <1>10 DEF MeasurementEnds, batchVars, IInv, Warm
<1>11. CASE Aps
  BY <1>11, SameWarm DEF IInv, Aps, ApsBeginMove, ApsEndMove, ApsPause, ApsConnect, ApsPoll,
     ApsFault, ApsSessionLost, GuiAside, batchVars, diskVars, tabVars, apsVars, magnetVars, bounds
<1>12. CASE Crash
  BY <1>12 DEF Crash, Warm
<1>13. CASE UNCHANGED vars
  BY <1>13, SameWarm DEF IInv, vars, GuiAside, batchVars, diskVars, tabVars, apsVars,
     magnetVars, bounds
<1>14. QED
  BY <1>1, <1>2, <1>3, <1>4, <1>5, <1>6, <1>7, <1>8, <1>9, <1>10, <1>11, <1>12, <1>13,
     StepsAre DEF Aps, Measurement, Next

-----------------------------------------------------------------------------
(* The queues, when something is put into them or taken.                   *)

LEMMA GuiAdded ==
    ASSUME ApsTypes, NEW e \in Events, guiQueue' = Append(guiQueue, e)
    PROVE  /\ guiQueue' \in Seq(Events) /\ Len(guiQueue) \in Nat /\ Len(guiQueue') = Len(guiQueue) + 1
           /\ \A i \in 1 .. Len(guiQueue) : guiQueue'[i] = guiQueue[i] /\ i \in 1 .. Len(guiQueue')
           /\ guiQueue'[Len(guiQueue')] = e /\ Len(guiQueue') \in 1 .. Len(guiQueue')
           /\ \A i \in 1 .. Len(guiQueue') : i = Len(guiQueue') \/ i \in 1 .. Len(guiQueue)
           /\ \A k : Pending(k)' <=> Pending(k) \/ e.kind = k
           /\ Order /\ e.kind \notin {"snapshot", "disconnected"} => Order'
<1>1. /\ guiQueue' \in Seq(Events) /\ Len(guiQueue) \in Nat /\ Len(guiQueue') = Len(guiQueue) + 1
      /\ \A i \in 1 .. Len(guiQueue) : guiQueue'[i] = guiQueue[i]
      /\ guiQueue'[Len(guiQueue) + 1] = e
  BY Added DEF ApsTypes
<1>2. /\ \A i \in 1 .. Len(guiQueue) : i \in 1 .. Len(guiQueue')
      /\ Len(guiQueue') \in 1 .. Len(guiQueue')
      /\ \A i \in 1 .. Len(guiQueue') : i = Len(guiQueue') \/ i \in 1 .. Len(guiQueue)
  BY <1>1
<1>3. \A k : Pending(k)' <=> Pending(k) \/ e.kind = k
  BY <1>1, <1>2 DEF Pending
<1>4. Order /\ e.kind \notin {"snapshot", "disconnected"} => Order'
  BY <1>1, <1>2 DEF Order
<1>5. QED
  BY <1>1, <1>2, <1>3, <1>4

LEMMA ApsAdded ==
    ASSUME ApsTypes, NEW e \in ApsItems, apsQueue' = Append(apsQueue, e)
    PROVE  /\ apsQueue' \in Seq(ApsItems) /\ Len(apsQueue) \in Nat /\ Len(apsQueue') = Len(apsQueue) + 1
           /\ \A i \in 1 .. Len(apsQueue) : apsQueue'[i] = apsQueue[i] /\ i \in 1 .. Len(apsQueue')
           /\ apsQueue'[Len(apsQueue')] = e /\ Len(apsQueue') \in 1 .. Len(apsQueue')
           /\ \A i \in 1 .. Len(apsQueue') : i = Len(apsQueue') \/ i \in 1 .. Len(apsQueue)
           /\ \A k : Queued(k)' <=> Queued(k) \/ e.op = k
<1>1. /\ apsQueue' \in Seq(ApsItems) /\ Len(apsQueue) \in Nat /\ Len(apsQueue') = Len(apsQueue) + 1
      /\ \A i \in 1 .. Len(apsQueue) : apsQueue'[i] = apsQueue[i]
      /\ apsQueue'[Len(apsQueue) + 1] = e
  BY Added DEF ApsTypes
<1>2. /\ \A i \in 1 .. Len(apsQueue) : i \in 1 .. Len(apsQueue')
      /\ Len(apsQueue') \in 1 .. Len(apsQueue')
      /\ \A i \in 1 .. Len(apsQueue') : i = Len(apsQueue') \/ i \in 1 .. Len(apsQueue)
  BY <1>1
<1>3. \A k : Queued(k)' <=> Queued(k) \/ e.op = k
  BY <1>1, <1>2 DEF Queued
<1>4. QED
  BY <1>1, <1>2, <1>3

\* A pause is put behind what is queued, unless one is there.
LEMMA Paused ==
    ASSUME ApsTypes, PauseMagnet
    PROVE  /\ apsQueue' = apsQueue \/ apsQueue' = Append(apsQueue, PauseItem)
           /\ PauseItem \in ApsItems /\ PauseItem.op = "pause" /\ PauseItem.id = NoId
           /\ apsQueue' \in Seq(ApsItems) /\ Len(apsQueue) \in Nat /\ Len(apsQueue') \in Nat
           /\ \A i \in 1 .. Len(apsQueue) : apsQueue'[i] = apsQueue[i] /\ i \in 1 .. Len(apsQueue')
           /\ \A i \in 1 .. Len(apsQueue') : apsQueue'[i] = PauseItem \/ i \in 1 .. Len(apsQueue)
           /\ \A k : Queued(k)' <=> Queued(k) \/ k = "pause"
<1>1. PauseItem \in ApsItems /\ PauseItem.op = "pause" /\ PauseItem.id = NoId
  BY DEF PauseItem, ApsIdle, ApsItems, FieldOrAway
<1>2. apsQueue \in Seq(ApsItems) /\ Len(apsQueue) \in Nat
  BY LenProperties DEF ApsTypes
<1>3. CASE apsQueue # <<>> /\ apsQueue[Len(apsQueue)] = PauseItem /\ apsQueue' = apsQueue
  <2>1. Len(apsQueue) \in 1 .. Len(apsQueue)
    BY <1>2, <1>3, EmptySeq
  <2>2. Queued("pause")
    BY <1>1, <1>3, <2>1 DEF Queued
  <2>3. \A k : Queued(k)' <=> Queued(k)
    BY <1>3 DEF Queued
  <2>4. QED
    BY <1>1, <1>2, <1>3, <2>2, <2>3
<1>4. CASE apsQueue' = Append(apsQueue, PauseItem)
  <2> HIDE DEF PauseItem
  <2>1. QED
    BY <1>1, <1>2, <1>4, ApsAdded
<1>5. QED
  BY <1>3, <1>4 DEF PauseMagnet

LEMMA ApsTaken ==
    ASSUME ApsTypes, NEW op, ApsTake(op)
    PROVE  /\ Head(apsQueue) = apsQueue[1] /\ apsQueue[1] \in ApsItems /\ apsQueue[1].op = op
           /\ Len(apsQueue) \in Nat /\ Len(apsQueue) > 0 /\ Len(apsQueue') = Len(apsQueue) - 1
           /\ apsQueue' \in Seq(ApsItems) /\ 1 \in 1 .. Len(apsQueue)
           /\ \A i \in 1 .. Len(apsQueue') : apsQueue'[i] = apsQueue[i + 1] /\ i + 1 \in 1 .. Len(apsQueue)
           /\ \A k : Queued(k)' => Queued(k)
           /\ \A k : Queued(k) /\ k # op => Queued(k)'
           /\ apsNow = ApsIdle
<1>1. /\ Len(apsQueue) \in Nat /\ Len(apsQueue) > 0 /\ Head(apsQueue) = apsQueue[1]
      /\ apsQueue[1] \in ApsItems
      /\ apsQueue' \in Seq(ApsItems) /\ Len(apsQueue') = Len(apsQueue) - 1
      /\ \A i \in 1 .. Len(apsQueue') : apsQueue'[i] = apsQueue[i + 1]
  BY Taken DEF ApsTypes, ApsTake
<1>2. \A i \in 1 .. Len(apsQueue') : i + 1 \in 1 .. Len(apsQueue)
  BY <1>1
<1>3. \A k : Queued(k)' => Queued(k)
  BY <1>1, <1>2 DEF Queued
<1>4. apsQueue[1].op = op /\ apsNow = ApsIdle
  BY <1>1 DEF ApsTake
<1>5. ASSUME NEW k, Queued(k), k # op PROVE Queued(k)'
  <2>1. PICK n \in 1 .. Len(apsQueue) : apsQueue[n].op = k
    BY <1>5 DEF Queued
  <2>2. n # 1
    BY <1>4, <1>5, <2>1
  <2>3. n - 1 \in 1 .. Len(apsQueue') /\ (n - 1) + 1 = n
    BY <1>1, <2>2
  <2>4. apsQueue'[n - 1] = apsQueue[n]
    BY <1>1, <2>3
  <2>5. QED
    BY <2>1, <2>3, <2>4 DEF Queued
<1>6. 1 \in 1 .. Len(apsQueue)
  BY <1>1
<1>7. QED
  BY <1>1, <1>2, <1>3, <1>4, <1>5, <1>6

\* Nothing is queued that was not: the queues are what they were, or less.
LEMMA OrderKept ==
    ASSUME ApsTypes, Order, NEW kinds, guiQueue' = guiQueue \/ TakesEvent(kinds)
    PROVE  Order'
<1>1. CASE guiQueue' = guiQueue
  BY <1>1 DEF Order
<1>2. CASE TakesEvent(kinds)
  <2>1. \A i \in 1 .. Len(guiQueue') : guiQueue'[i] = guiQueue[i + 1] /\ i + 1 \in 1 .. Len(guiQueue)
    BY <1>2, LeftInQueue
  <2>2. SUFFICES ASSUME NEW n \in 1 .. Len(guiQueue'), NEW m \in 1 .. Len(guiQueue'),
                        guiQueue'[n].kind = "snapshot"
        PROVE  /\ guiQueue'[m].kind = "disconnected" => m < n
               /\ guiQueue'[m].kind = "snapshot" => m = n
    BY DEF Order
  <2>3. n + 1 \in 1 .. Len(guiQueue) /\ m + 1 \in 1 .. Len(guiQueue)
        /\ guiQueue'[n] = guiQueue[n + 1] /\ guiQueue'[m] = guiQueue[m + 1]
    BY <2>1
  <2>4. /\ guiQueue[m + 1].kind = "disconnected" => m + 1 < n + 1
        /\ guiQueue[m + 1].kind = "snapshot" => m + 1 = n + 1
    BY <2>2, <2>3 DEF Order
  <2>5. n \in Int /\ m \in Int
    OBVIOUS
  <2>6. QED
    BY <2>3, <2>4, <2>5
<1>3. QED
  BY <1>1, <1>2

\* The session is lost, or made anew: no snapshot is left, and its end is told.
LEMMA Replaced ==
    ASSUME ApsTypes, Order, NEW e \in Seq(Events), guiQueue' = NoSnapshots(guiQueue) \o e,
           Len(e) > 0, e[1].kind = "disconnected",
           \A i \in 1 .. Len(e) : e[i].kind \in {"disconnected", "connected"} /\ e[i].id = NoId
    PROVE  /\ guiQueue' \in Seq(Events) /\ Order' /\ ~Pending("snapshot")' /\ Pending("disconnected")'
           /\ \A k : Pending(k) /\ k # "snapshot" => Pending(k)'
           /\ Pending("result")' => Pending("result")
           /\ \A n \in 1 .. Len(guiQueue') : guiQueue'[n].kind \notin {"disconnected", "connected"} =>
                 /\ \E i \in 1 .. Len(guiQueue) : guiQueue'[n] = guiQueue[i]
                 /\ \E i \in n .. Len(guiQueue') : guiQueue'[i].kind = "disconnected"
           /\ \A n \in 1 .. Len(guiQueue') : guiQueue'[n].id = NoId
                 \/ \E i \in 1 .. Len(guiQueue) : guiQueue'[n] = guiQueue[i]
           /\ \A n, m \in 1 .. Len(guiQueue') :
                 n # m /\ {guiQueue'[n].kind, guiQueue'[m].kind} \intersect {"disconnected", "connected"} = {} =>
                   \E i, j \in 1 .. Len(guiQueue) :
                      i # j /\ guiQueue'[n] = guiQueue[i] /\ guiQueue'[m] = guiQueue[j]
<1> DEFINE r == NoSnapshots(guiQueue)
<1>1. guiQueue \in Seq(Events)
  BY DEF ApsTypes
<1>2. \A n, m \in 1 .. Len(guiQueue) :
         guiQueue[n].kind = "snapshot" /\ guiQueue[m].kind = "snapshot" => m = n
  BY DEF Order
<1>3. /\ r \in Seq(Events) /\ Len(r) \in Nat
      /\ \A n \in 1 .. Len(r) : r[n].kind # "snapshot"
      /\ \A n, m \in 1 .. Len(r) : n # m =>
            \E i, j \in 1 .. Len(guiQueue) : i # j /\ r[n] = guiQueue[i] /\ r[m] = guiQueue[j]
      /\ \A n \in 1 .. Len(r) : \E i \in 1 .. Len(guiQueue) : r[n] = guiQueue[i]
      /\ \A i \in 1 .. Len(guiQueue) : guiQueue[i].kind # "snapshot" =>
            \E n \in 1 .. Len(r) : r[n] = guiQueue[i]
  BY <1>1, <1>2, Dropped
<1> HIDE DEF r
<1>4. Len(e) \in Nat
  BY LenProperties
<1>5. /\ guiQueue' \in Seq(Events) /\ Len(guiQueue') = Len(r) + Len(e)
      /\ \A i \in 1 .. Len(r) + Len(e) : guiQueue'[i] = IF i <= Len(r) THEN r[i] ELSE e[i - Len(r)]
  BY <1>3, ConcatProperties DEF r
<1>6. /\ \A i \in 1 .. Len(r) : i \in 1 .. Len(guiQueue') /\ guiQueue'[i] = r[i]
      /\ \A i \in 1 .. Len(guiQueue') : i \notin 1 .. Len(r) =>
            i - Len(r) \in 1 .. Len(e) /\ guiQueue'[i] = e[i - Len(r)]
      /\ Len(r) + 1 \in 1 .. Len(guiQueue') /\ guiQueue'[Len(r) + 1] = e[1]
  <2>1. ASSUME NEW i \in 1 .. Len(r) PROVE i \in 1 .. Len(guiQueue') /\ guiQueue'[i] = r[i]
    BY <1>3, <1>4, <1>5
  <2>2. ASSUME NEW i \in 1 .. Len(guiQueue'), i \notin 1 .. Len(r)
        PROVE  i - Len(r) \in 1 .. Len(e) /\ guiQueue'[i] = e[i - Len(r)]
    BY <1>3, <1>4, <1>5, <2>2
  <2>3. Len(r) + 1 \in 1 .. Len(guiQueue') /\ Len(r) + 1 \notin 1 .. Len(r) /\ (Len(r) + 1) - Len(r) = 1
    BY <1>3, <1>4, <1>5
  <2>4. guiQueue'[Len(r) + 1] = e[1]
    BY <2>2, <2>3
  <2>5. QED
    BY <2>1, <2>2, <2>3, <2>4
<1>16. /\ \A n \in 1 .. Len(r) : r[n].kind # "snapshot"
       /\ \A n \in 1 .. Len(r) : \E i \in 1 .. Len(guiQueue) : r[n] = guiQueue[i]
  BY <1>3
<1>17. \A i \in 1 .. Len(guiQueue) : guiQueue[i].kind # "snapshot" =>
          \E n \in 1 .. Len(r) : r[n] = guiQueue[i]
  BY <1>3
<1>18. \A n \in 1 .. Len(guiQueue') :
          \/ n \in 1 .. Len(r) /\ guiQueue'[n] = r[n]
          \/ guiQueue'[n].kind \in {"disconnected", "connected"} /\ guiQueue'[n].id = NoId
  BY <1>6
<1>7. \A n \in 1 .. Len(guiQueue') : guiQueue'[n].kind # "snapshot"
  BY <1>16, <1>18
<1>8. Order' /\ ~Pending("snapshot")'
  BY <1>7 DEF Order, Pending
<1>9. Pending("disconnected")'
  BY <1>6 DEF Pending
<1>10. \A k : Pending(k) /\ k # "snapshot" => Pending(k)'
  <2>1. ASSUME NEW k, NEW i \in 1 .. Len(guiQueue), guiQueue[i].kind = k, k # "snapshot"
        PROVE  \E n \in 1 .. Len(guiQueue') : guiQueue'[n].kind = k
    <3>1. PICK n \in 1 .. Len(r) : r[n] = guiQueue[i]
      BY <1>17, <2>1
    <3>2. n \in 1 .. Len(guiQueue') /\ guiQueue'[n] = r[n]
      BY <1>6
    <3>3. QED
      BY <2>1, <3>1, <3>2
  <2>2. QED
    BY <2>1 DEF Pending
<1>11. Pending("result")' => Pending("result")
  <2>1. SUFFICES ASSUME NEW n \in 1 .. Len(guiQueue'), guiQueue'[n].kind = "result"
        PROVE  \E i \in 1 .. Len(guiQueue) : guiQueue[i].kind = "result"
    BY DEF Pending
  <2>2. n \in 1 .. Len(r) /\ guiQueue'[n] = r[n]
    BY <1>18, <2>1
  <2>3. QED
    BY <1>16, <2>1, <2>2
<1>12. ASSUME NEW n \in 1 .. Len(guiQueue'), guiQueue'[n].kind \notin {"disconnected", "connected"}
       PROVE  /\ n \in 1 .. Len(r)
              /\ \E i \in 1 .. Len(guiQueue) : guiQueue'[n] = guiQueue[i]
              /\ \E i \in n .. Len(guiQueue') : guiQueue'[i].kind = "disconnected"
  <2>1. n \in 1 .. Len(r)
    BY <1>6, <1>12
  <2>2. Len(r) + 1 \in n .. Len(guiQueue')
    BY <1>3, <1>6, <2>1
  <2>3. QED
    BY <1>3, <1>6, <2>1, <2>2
<1>13. \A n \in 1 .. Len(guiQueue') : guiQueue'[n].id = NoId
          \/ \E i \in 1 .. Len(guiQueue) : guiQueue'[n] = guiQueue[i]
  BY <1>16, <1>18
<1>19. guiQueue' \in Seq(Events)
  BY <1>5
<1>14. ASSUME NEW n \in 1 .. Len(guiQueue'), NEW m \in 1 .. Len(guiQueue'), n # m,
              {guiQueue'[n].kind, guiQueue'[m].kind} \intersect {"disconnected", "connected"} = {}
       PROVE  \E i, j \in 1 .. Len(guiQueue) :
                 i # j /\ guiQueue'[n] = guiQueue[i] /\ guiQueue'[m] = guiQueue[j]
  <2>1. n \in 1 .. Len(r) /\ m \in 1 .. Len(r)
    BY <1>12, <1>14
  <2>2. guiQueue'[n] = r[n] /\ guiQueue'[m] = r[m]
    BY <1>6, <2>1
  <2>3. \E i, j \in 1 .. Len(guiQueue) : i # j /\ r[n] = guiQueue[i] /\ r[m] = guiQueue[j]
    <3>1. \A a, b \in 1 .. Len(r) : a # b =>
             \E i, j \in 1 .. Len(guiQueue) : i # j /\ r[a] = guiQueue[i] /\ r[b] = guiQueue[j]
      BY ONLY <1>3, Zenon
    <3>2. QED
      BY ONLY <1>14, <2>1, <3>1
  <2>4. QED
    BY ONLY <2>2, <2>3
<1>15. \A n \in 1 .. Len(guiQueue') : guiQueue'[n].kind \notin {"disconnected", "connected"} =>
          /\ \E i \in 1 .. Len(guiQueue) : guiQueue'[n] = guiQueue[i]
          /\ \E i \in n .. Len(guiQueue') : guiQueue'[i].kind = "disconnected"
  BY <1>12
<1>20. \A n, m \in 1 .. Len(guiQueue') :
          n # m /\ {guiQueue'[n].kind, guiQueue'[m].kind} \intersect {"disconnected", "connected"} = {} =>
            \E i, j \in 1 .. Len(guiQueue) :
               i # j /\ guiQueue'[n] = guiQueue[i] /\ guiQueue'[m] = guiQueue[j]
  BY ONLY <1>14, Zenon
<1>21. QED
  BY ONLY <1>8, <1>9, <1>10, <1>11, <1>13, <1>15, <1>19, <1>20, Zenon

\* What the events of the APS100 thread are.
LEMMA SignalsAre ==
    /\ \A k \in {"fault", "connected", "disconnected"} :
          Signal(k) \in Events /\ Signal(k).kind = k /\ Signal(k).id = NoId
    /\ \A ok \in BOOLEAN : /\ Event("pause", NoId, ok, NoSnap) \in Events
                           /\ Event("pause", NoId, ok, NoSnap).kind = "pause"
                           /\ Event("pause", NoId, ok, NoSnap).id = NoId
    /\ \A id \in Ids \cup {NoId}, ok \in BOOLEAN, s \in Snapshots :
          /\ Event("result", id, ok, s) \in Events /\ Event("result", id, ok, s).kind = "result"
          /\ Event("result", id, ok, s).id = id /\ Event("result", id, ok, s).ok = ok
          /\ Event("result", id, ok, s).snap = s
    /\ NoSnap \in Snapshots /\ NoSnap.valid = FALSE
    /\ \A at \in FieldOrAway, on \in BOOLEAN, ok \in BOOLEAN : Reading(at, on, ok) \in Snapshots
<1>1. NoSnap \in Snapshots /\ NoSnap.valid = FALSE
  BY DEF NoSnap, Snapshots, FieldOrAway
<1> HIDE DEF NoSnap
<1>2. \A at \in FieldOrAway, on \in BOOLEAN, ok \in BOOLEAN : Reading(at, on, ok) \in Snapshots
  BY <1>1 DEF Reading, Snapshots
<1> HIDE DEF Snapshots
<1>3. \A k \in {"fault", "connected", "disconnected"} :
         Signal(k) \in Events /\ Signal(k).kind = k /\ Signal(k).id = NoId
  BY <1>1 DEF Signal, Event, Events
<1>4. \A ok \in BOOLEAN : /\ Event("pause", NoId, ok, NoSnap) \in Events
                          /\ Event("pause", NoId, ok, NoSnap).kind = "pause"
                          /\ Event("pause", NoId, ok, NoSnap).id = NoId
  BY <1>1 DEF Event, Events
<1>5. \A id \in Ids \cup {NoId}, ok \in BOOLEAN, s \in Snapshots :
         /\ Event("result", id, ok, s) \in Events /\ Event("result", id, ok, s).kind = "result"
         /\ Event("result", id, ok, s).id = id /\ Event("result", id, ok, s).ok = ok
         /\ Event("result", id, ok, s).snap = s
  BY DEF Event, Events
<1>6. QED
  BY <1>1, <1>2, <1>3, <1>4, <1>5

LEMMA RefusalIs ==
    ASSUME NEW id \in Ids \cup {NoId}
    PROVE  LET e == Event("result", id, FALSE, NoSnap)
           IN  /\ e \in Events /\ e.kind = "result" /\ e.id = id /\ e.ok = FALSE /\ e.snap = NoSnap
<1>1. NoSnap \in Snapshots /\ FALSE \in BOOLEAN
  BY SignalsAre
<1> HIDE DEF NoSnap, Snapshots
<1>2. QED
  BY <1>1 DEF Event, Events

\* The two events of a new connection.
LEMMA ConnectionIs ==
    LET e == <<Signal("disconnected"), Signal("connected")>>
    IN  /\ e \in Seq(Events) /\ Len(e) = 2 /\ e[1].kind = "disconnected"
        /\ \A i \in 1 .. Len(e) : e[i].kind \in {"disconnected", "connected"} /\ e[i].id = NoId
<1> DEFINE d == Signal("disconnected")
           f == Signal("connected")
           e == <<d, f>>
<1>1. d \in Events /\ f \in Events /\ d.kind = "disconnected" /\ f.kind = "connected"
      /\ d.id = NoId /\ f.id = NoId
  BY SignalsAre
<1> HIDE DEF d, f
<1>2. e \in Seq(Events) /\ Len(e) = 2 /\ e[1] = d /\ e[2] = f
  <2>1. e \in [1 .. 2 -> Events]
    BY <1>1
  <2>2. e \in Seq(Events)
    BY <2>1, SeqDef
  <2>3. QED
    BY <2>2
<1> HIDE DEF e
<1>3. \A i \in 1 .. Len(e) : i = 1 \/ i = 2
  BY <1>2
<1>4. e[1].kind = "disconnected" /\ \A i \in 1 .. Len(e) : e[i].kind \in {"disconnected", "connected"} /\ e[i].id = NoId
  BY <1>1, <1>2, <1>3
<1>5. QED
  BY <1>2, <1>4 DEF e, d, f

LEMMA LossIs ==
    ASSUME ApsTypes, Order, guiQueue' = Append(NoSnapshots(guiQueue), Signal("disconnected"))
    PROVE  \E e \in Seq(Events) :
              /\ guiQueue' = NoSnapshots(guiQueue) \o e /\ Len(e) > 0 /\ e[1].kind = "disconnected"
              /\ \A i \in 1 .. Len(e) : e[i].kind \in {"disconnected", "connected"} /\ e[i].id = NoId
<1> DEFINE d == Signal("disconnected")
           e == <<d>>
<1>1. d \in Events /\ d.kind = "disconnected" /\ d.id = NoId
  BY SignalsAre
<1>2. NoSnapshots(guiQueue) \in Seq(Events)
  BY Dropped DEF ApsTypes, Order
<1> HIDE DEF d
<1>3. e \in Seq(Events) /\ Len(e) = 1 /\ e[1] = d
  <2>1. e \in [1 .. 1 -> Events]
    BY <1>1
  <2>2. e \in Seq(Events)
    BY <2>1, SeqDef
  <2>3. QED
    BY <2>2
<1>4. guiQueue' = NoSnapshots(guiQueue) \o e
  BY <1>1, <1>2, AppendIsConcat DEF d
<1> HIDE DEF e
<1>5. \A i \in 1 .. Len(e) : i = 1
  BY <1>3
<1>6. QED
  BY <1>1, <1>3, <1>4, <1>5

-----------------------------------------------------------------------------
LEMMA SameSession ==
    ASSUME Session, UNCHANGED <<apsQueue, guiQueue, connected, phase, snap, worker, pendingFailure>>
    PROVE  Session'
  BY DEF Session, Order, Queued, Pending, Active

\* Among connects at most one is queued, also when another item is taken.
LEMMA ConnectsShift ==
    ASSUME Types, IInv, NEW op, ApsTake(op)
    PROVE  \A n, m \in 1 .. Len(apsQueue') :
              apsQueue'[n].op = "connect" /\ apsQueue'[m].op = "connect" => m = n
<1>1. \A i \in 1 .. Len(apsQueue') : apsQueue'[i] = apsQueue[i + 1] /\ i + 1 \in 1 .. Len(apsQueue)
  BY ApsTaken DEF Types
<1>2. SUFFICES ASSUME NEW n \in 1 .. Len(apsQueue'), NEW m \in 1 .. Len(apsQueue'),
                      apsQueue'[n].op = "connect", apsQueue'[m].op = "connect"
      PROVE  m = n
  OBVIOUS
<1>3. m + 1 = n + 1
  BY <1>1, <1>2 DEF IInv, Session
<1>4. QED
  BY <1>3

\* A snapshot is published while the session lasts.
LEMMA PublishedOrder ==
    ASSUME ApsTypes, Order, NEW s \in Snapshots, NEW q, q = WithSnapshot(guiQueue, s)
    PROVE  /\ q \in Seq(Events) /\ Len(q) \in Nat
           /\ \A n \in 1 .. Len(q) : q[n].kind = "snapshot" => q[n].snap = s /\ q[n].id = NoId
           /\ \A n, m \in 1 .. Len(q) : q[n].kind = "snapshot" =>
                 /\ q[m].kind = "disconnected" => m < n
                 /\ q[m].kind = "snapshot" => m = n
           /\ \A n \in 1 .. Len(q) : q[n].kind # "snapshot" => n \in 1 .. Len(guiQueue) /\ q[n] = guiQueue[n]
           /\ \A n \in 1 .. Len(guiQueue) : guiQueue[n].kind # "snapshot" => n \in 1 .. Len(q) /\ q[n] = guiQueue[n]
<1>1. guiQueue \in Seq(Events)
  BY DEF ApsTypes
<1>2. /\ q \in Seq(Events) /\ Len(guiQueue) \in Nat /\ Len(q) \in {Len(guiQueue), Len(guiQueue) + 1}
      /\ \A n \in 1 .. Len(q) : q[n].kind = "snapshot" => q[n].snap = s /\ q[n].id = NoId
      /\ \A n \in 1 .. Len(guiQueue) : guiQueue[n].kind = "snapshot" <=> q[n].kind = "snapshot"
      /\ \A n \in 1 .. Len(guiQueue) : guiQueue[n].kind # "snapshot" => q[n] = guiQueue[n]
      /\ Len(q) = Len(guiQueue) + 1 =>
            /\ q[Len(q)] = Event("snapshot", NoId, TRUE, s)
            /\ \A n \in 1 .. Len(guiQueue) : guiQueue[n].kind # "snapshot"
  BY <1>1, Published, ZenonT(60)
<1>3. Event("snapshot", NoId, TRUE, s).kind = "snapshot"
  BY DEF Event
<1>4. CASE Len(q) = Len(guiQueue)
  <2>1. \A n \in 1 .. Len(q) : n \in 1 .. Len(guiQueue)
    BY <1>4
  <2>2. \A n \in 1 .. Len(guiQueue) : n \in 1 .. Len(q)
    BY <1>4
  <2>3. ASSUME NEW n \in 1 .. Len(q), NEW m \in 1 .. Len(q), q[n].kind = "snapshot"
        PROVE  /\ q[m].kind = "disconnected" => m < n
               /\ q[m].kind = "snapshot" => m = n
    <3>1. n \in 1 .. Len(guiQueue) /\ m \in 1 .. Len(guiQueue)
      BY <2>1
    <3>2. guiQueue[n].kind = "snapshot"
      BY <1>2, <2>3, <3>1
    <3>3. q[m].kind = "disconnected" => guiQueue[m].kind = "disconnected"
      BY <1>2, <3>1
    <3>4. q[m].kind = "snapshot" => guiQueue[m].kind = "snapshot"
      BY <1>2, <3>1
    <3>5. QED
      BY <3>1, <3>2, <3>3, <3>4 DEF Order
  <2>4. \A n \in 1 .. Len(q) : q[n].kind # "snapshot" => n \in 1 .. Len(guiQueue) /\ q[n] = guiQueue[n]
    BY <1>2, <2>1
  <2>5. \A n \in 1 .. Len(guiQueue) : guiQueue[n].kind # "snapshot" => n \in 1 .. Len(q) /\ q[n] = guiQueue[n]
    BY <1>2, <2>2
  <2>6. QED
    BY <1>2, <1>4, <2>3, <2>4, <2>5
<1>5. CASE Len(q) = Len(guiQueue) + 1
  <2>1. \A n \in 1 .. Len(q) : n \in 1 .. Len(guiQueue) \/ n = Len(q)
    BY <1>2, <1>5
  <2>2. \A n \in 1 .. Len(guiQueue) : n \in 1 .. Len(q) /\ n < Len(q)
    BY <1>2, <1>5
  <2>3. \A n \in 1 .. Len(guiQueue) : q[n].kind # "snapshot" /\ q[n] = guiQueue[n]
    BY <1>2, <1>5
  <2>4. q[Len(q)] = Event("snapshot", NoId, TRUE, s) /\ Len(q) \in Nat
    <3>1. Len(q) \in Nat
      BY <1>2, <1>5
    <3>2. QED
      BY ONLY <1>2, <1>5, <3>1
  <2>5. \A n \in 1 .. Len(q) : q[n].kind = "snapshot" => n = Len(q)
    BY <2>1, <2>3
  <2>6. \A m \in 1 .. Len(q) : q[m].kind = "disconnected" => m < Len(q)
    BY <1>3, <2>1, <2>2, <2>4
  <2>7. QED
    BY <1>2, <1>3, <2>1, <2>2, <2>3, <2>4, <2>5, <2>6
<1>6. QED
  BY <1>2, <1>4, <1>5

\* What is told of a move's end.
LEMMA MoveAnswered ==
    ASSUME ApsTypes, Order, NEW ok \in BOOLEAN, ApsEndMove(ok), ~Pending("disconnected")
    PROVE  /\ Order' /\ ~Pending("disconnected")' /\ guiQueue' \in Seq(Events)
           /\ \A k : k \notin {"snapshot", "result"} => (Pending(k)' <=> Pending(k))
           /\ Pending("result")'
           /\ \A n \in 1 .. Len(guiQueue') : guiQueue'[n].kind = "result" =>
                 \/ n = Len(guiQueue') /\ guiQueue'[n].id = apsNow.id /\ guiQueue'[n].ok = ok
                 \/ n \in 1 .. Len(guiQueue) /\ guiQueue[n].kind = "result"
           /\ \A n \in 1 .. Len(guiQueue') : guiQueue'[n].kind # "result" =>
                 guiQueue'[n].id = NoId \/ (n \in 1 .. Len(guiQueue) /\ guiQueue'[n] = guiQueue[n])
           /\ ok => field' = apsNow.target /\ (heater' => FALSE)
           /\ ok => \A n \in 1 .. Len(guiQueue') : guiQueue'[n].kind = "snapshot" => Accurate(guiQueue[n].snap)'
           /\ Accurate(guiQueue[Len(guiQueue)].snap)'
<1>1. PICK valid \in BOOLEAN, at \in {field, apsNow.target, Away}, on \in BOOLEAN :
         LET s == Reading(at, on, valid)
             published == IF ok THEN WithSnapshot(guiQueue, s) ELSE guiQueue
         IN  /\ guiQueue' = Append(published, Event("result", apsNow.id, ok, s))
             /\ ok => at = apsNow.target /\ ~on
             /\ field' = at /\ heater' = on
  BY DEF ApsEndMove
<1> DEFINE s == Reading(at, on, valid)
           q == IF ok THEN WithSnapshot(guiQueue, s) ELSE guiQueue
           e == Event("result", apsNow.id, ok, s)
<1>2. guiQueue' = Append(q, e)
  BY <1>1
<1>3. apsNow.id \in Ids \cup {NoId} /\ at \in FieldOrAway
  BY DEF ApsTypes, ApsItems, FieldOrAway
<1>4. s \in Snapshots
  BY <1>3, SignalsAre
<1>17. field' = at /\ heater' = on /\ (s.valid => s.field = at /\ s.heater = on)
  BY <1>1 DEF Reading, NoSnap
<1> HIDE DEF s
<1>5. e \in Events /\ e.kind = "result" /\ e.id = apsNow.id /\ e.ok = ok
  BY <1>3, <1>4, SignalsAre
<1>22. e.snap = s
  BY DEF Event
<1>23. e \in Events
  BY <1>3, <1>4, SignalsAre
<1>6. /\ q \in Seq(Events) /\ Len(q) \in Nat
      /\ \A n, m \in 1 .. Len(q) : q[n].kind = "snapshot" =>
            /\ q[m].kind = "disconnected" => m < n
            /\ q[m].kind = "snapshot" => m = n
      /\ \A n \in 1 .. Len(q) : q[n].kind # "snapshot" => n \in 1 .. Len(guiQueue) /\ q[n] = guiQueue[n]
      /\ \A n \in 1 .. Len(guiQueue) : guiQueue[n].kind # "snapshot" => n \in 1 .. Len(q) /\ q[n] = guiQueue[n]
      /\ \A n \in 1 .. Len(q) : q[n].kind # "result" =>
            q[n].id = NoId \/ (n \in 1 .. Len(guiQueue) /\ q[n] = guiQueue[n])
      /\ ok => \A n \in 1 .. Len(q) : q[n].kind = "snapshot" => q[n].snap = s
  <2>1. CASE ok
    BY <1>4, <2>1, PublishedOrder
  <2>2. CASE ~ok
    <3>1. q = guiQueue /\ guiQueue \in Seq(Events) /\ Len(guiQueue) \in Nat
      BY <2>2, LenProperties DEF ApsTypes
    <3> HIDE DEF q
    <3>2. QED
      BY <2>2, <3>1 DEF Order
  <2>3. QED
    BY <2>1, <2>2
<1> HIDE DEF q, e
<1>7. /\ guiQueue' \in Seq(Events) /\ Len(guiQueue') = Len(q) + 1
      /\ \A i \in 1 .. Len(q) : guiQueue'[i] = q[i]
      /\ guiQueue'[Len(q) + 1] = e
  BY <1>2, <1>5, <1>6, Added
<1>8. /\ \A i \in 1 .. Len(q) : i \in 1 .. Len(guiQueue')
      /\ Len(guiQueue') \in 1 .. Len(guiQueue')
      /\ \A i \in 1 .. Len(guiQueue') : i = Len(guiQueue') \/ i \in 1 .. Len(q)
  BY <1>6, <1>7
<1>9. guiQueue'[Len(guiQueue')] = e
  BY <1>6, <1>7
<1>10. \A n \in 1 .. Len(guiQueue') : guiQueue'[n].kind # "disconnected"
  <2>1. \A n \in 1 .. Len(guiQueue) : guiQueue[n].kind # "disconnected"
    BY DEF Pending
  <2>2. \A n \in 1 .. Len(q) : q[n].kind # "disconnected"
    BY <1>6, <2>1
  <2>3. QED
    BY <1>5, <1>7, <1>8, <1>9, <2>2
<1>11. Order'
  <2>1. SUFFICES ASSUME NEW n \in 1 .. Len(guiQueue'), NEW m \in 1 .. Len(guiQueue'),
                        guiQueue'[n].kind = "snapshot", guiQueue'[m].kind = "snapshot"
        PROVE  m = n
    BY <1>10 DEF Order
  <2>2. n \in 1 .. Len(q) /\ m \in 1 .. Len(q)
    BY <1>5, <1>8, <1>9, <2>1
  <2>3. q[n].kind = "snapshot" /\ q[m].kind = "snapshot"
    BY <1>7, <2>1, <2>2
  <2>4. QED
    BY <1>6, <2>2, <2>3
<1>12. ASSUME NEW k, k \notin {"snapshot", "result"} PROVE Pending(k)' <=> Pending(k)
  <2>1. ASSUME NEW n \in 1 .. Len(guiQueue'), guiQueue'[n].kind = k
        PROVE  \E i \in 1 .. Len(guiQueue) : guiQueue[i].kind = k
    <3>1. n \in 1 .. Len(q)
      BY <1>5, <1>8, <1>9, <1>12, <2>1
    <3>2. q[n].kind = k
      BY <1>7, <2>1, <3>1
    <3>3. QED
      BY <1>6, <1>12, <3>1, <3>2
  <2>2. ASSUME NEW n \in 1 .. Len(guiQueue), guiQueue[n].kind = k
        PROVE  \E i \in 1 .. Len(guiQueue') : guiQueue'[i].kind = k
    <3>1. n \in 1 .. Len(q) /\ q[n] = guiQueue[n]
      BY <1>6, <1>12, <2>2
    <3>2. n \in 1 .. Len(guiQueue') /\ guiQueue'[n] = q[n]
      BY <1>7, <1>8, <3>1
    <3>3. QED
      BY <2>2, <3>1, <3>2
  <2>3. QED
    BY <2>1, <2>2 DEF Pending
<1>13. Pending("result")'
  BY <1>5, <1>8, <1>9 DEF Pending
<1>14. ASSUME NEW n \in 1 .. Len(guiQueue'), guiQueue'[n].kind = "result"
       PROVE  \/ n = Len(guiQueue') /\ guiQueue'[n].id = apsNow.id /\ guiQueue'[n].ok = ok
              \/ n \in 1 .. Len(guiQueue) /\ guiQueue[n].kind = "result"
  <2>1. CASE n = Len(guiQueue')
    BY <1>5, <1>9, <2>1
  <2>2. CASE n \in 1 .. Len(q)
    BY <1>6, <1>7, <1>14, <2>2
  <2>3. QED
    BY <1>8, <2>1, <2>2
<1>15. ~Pending("disconnected")'
  BY <1>10 DEF Pending
<1>18. ASSUME NEW n \in 1 .. Len(guiQueue'), guiQueue'[n].kind # "result"
       PROVE  guiQueue'[n].id = NoId \/ (n \in 1 .. Len(guiQueue) /\ guiQueue'[n] = guiQueue[n])
  <2>1. n \in 1 .. Len(q) /\ guiQueue'[n] = q[n]
    BY <1>5, <1>7, <1>8, <1>9, <1>18
  <2>2. QED
    BY <1>6, <1>18, <2>1
<1>19. ASSUME ok PROVE \A n \in 1 .. Len(guiQueue') : guiQueue'[n].kind = "snapshot" => Accurate(guiQueue[n].snap)'
  <2>1. SUFFICES ASSUME NEW n \in 1 .. Len(guiQueue'), guiQueue'[n].kind = "snapshot"
        PROVE  Accurate(guiQueue[n].snap)'
    OBVIOUS
  <2>2. n \in 1 .. Len(q) /\ guiQueue'[n] = q[n]
    BY <1>5, <1>7, <1>8, <1>9, <2>1
  <2>3. guiQueue'[n].snap = s
    BY <1>6, <1>19, <2>1, <2>2
  <2>4. QED
    BY <1>17, <2>3 DEF Accurate
<1>20. Accurate(guiQueue[Len(guiQueue)].snap)'
  BY <1>9, <1>17, <1>22 DEF Accurate
<1>21. ok => field' = apsNow.target /\ (heater' => FALSE)
  BY <1>1
<1>16. QED
  BY <1>7, <1>11, <1>12, <1>13, <1>14, <1>15, <1>18, <1>19, <1>20, <1>21

LEMMA Polled ==
    ASSUME ApsTypes, Order, heater \in BOOLEAN, ApsPoll
    PROVE  /\ Order' /\ guiQueue' \in Seq(Events)
           /\ \A k : k # "snapshot" => (Pending(k)' <=> Pending(k))
           /\ \A n \in 1 .. Len(guiQueue') : guiQueue'[n].kind # "snapshot" =>
                 n \in 1 .. Len(guiQueue) /\ guiQueue'[n] = guiQueue[n]
           /\ \A n \in 1 .. Len(guiQueue) : guiQueue[n].kind # "snapshot" =>
                 n \in 1 .. Len(guiQueue') /\ guiQueue'[n] = guiQueue[n]
           /\ \A n \in 1 .. Len(guiQueue') : guiQueue'[n].kind = "snapshot" /\ guiQueue'[n].snap.valid =>
                 guiQueue'[n].snap.field = field /\ guiQueue'[n].snap.heater = heater
           /\ \A n \in 1 .. Len(guiQueue') : guiQueue'[n].kind = "snapshot" => guiQueue'[n].id = NoId
<1>1. PICK ok \in BOOLEAN : guiQueue' = WithSnapshot(guiQueue, Reading(field, heater, ok))
  BY DEF ApsPoll
<1> DEFINE s == Reading(field, heater, ok)
<1>2. s \in Snapshots
  BY SignalsAre DEF ApsTypes
<1>3. s.valid => s.field = field /\ s.heater = heater
  BY DEF Reading, NoSnap
<1>4. guiQueue' = WithSnapshot(guiQueue, s)
  BY <1>1
<1> HIDE DEF s
<1>5. /\ guiQueue' \in Seq(Events)
      /\ \A n \in 1 .. Len(guiQueue') : guiQueue'[n].kind = "snapshot" => guiQueue'[n].snap = s /\ guiQueue'[n].id = NoId
      /\ \A n, m \in 1 .. Len(guiQueue') : guiQueue'[n].kind = "snapshot" =>
            /\ guiQueue'[m].kind = "disconnected" => m < n
            /\ guiQueue'[m].kind = "snapshot" => m = n
      /\ \A n \in 1 .. Len(guiQueue') : guiQueue'[n].kind # "snapshot" =>
            n \in 1 .. Len(guiQueue) /\ guiQueue'[n] = guiQueue[n]
      /\ \A n \in 1 .. Len(guiQueue) : guiQueue[n].kind # "snapshot" =>
            n \in 1 .. Len(guiQueue') /\ guiQueue'[n] = guiQueue[n]
  BY <1>2, <1>4, PublishedOrder
<1>6. Order'
  BY <1>5 DEF Order
<1>7. ASSUME NEW k, k # "snapshot" PROVE Pending(k)' <=> Pending(k)
  BY <1>5, <1>7 DEF Pending
<1>8. QED
  BY <1>3, <1>5, <1>6, <1>7

\* The session with the APS100, through every step.
LEMMA SessionStep == Holds /\ [Next]_vars => Session'
<1> SUFFICES ASSUME Holds, Types, IInv, Next \/ UNCHANGED vars PROVE Session'
  BY DEF Holds
<1>1. ASSUME NEW c, Goes(c) PROVE Session'
  <2>1. Order'
    BY <1>1, OrderKept DEF Goes, IInv, Session, Types
  <2>2. ~connected' => ~Pending("snapshot")'
    BY <1>1, LeftInQueue DEF Goes, IInv, Session, Types, Pending
  <2>3. ~Queued("connect")'
    <3>1. CASE apsQueue' = apsQueue
      BY <1>1, <3>1 DEF Goes, Queued
    <3>2. CASE apsQueue' # apsQueue
      <4>1. /\ apsQueue' = Append(apsQueue, [op |-> "move", id |-> FreshId, target |-> Target(c), sure |-> c.sure])
            /\ guiQueue' = guiQueue
        BY <1>1, <3>2 DEF Goes, Leads, Over, NoMove
      <4> DEFINE e == [op |-> "move", id |-> FreshId, target |-> Target(c), sure |-> c.sure]
      <4>2. e.op = "move" /\ apsQueue \in Seq(ApsItems \cup {e}) /\ e \in ApsItems \cup {e}
        BY SeqMonotonic DEF Types, ApsTypes
      <4> HIDE DEF e
      <4>3. \A i \in 1 .. Len(apsQueue') : apsQueue'[i] = e \/ (i \in 1 .. Len(apsQueue) /\ apsQueue'[i] = apsQueue[i])
        BY <4>1, <4>2, Added DEF e
      <4>4. QED
        BY <1>1, <4>2, <4>3 DEF Goes, Queued
    <3>3. QED
      BY <3>1, <3>2
  <2>4. /\ \A n, m \in 1 .. Len(apsQueue') :
            apsQueue'[n].op = "connect" /\ apsQueue'[m].op = "connect" => m = n
    BY <2>3 DEF Queued
  <2>5. /\ Pending("disconnected")' /\ connected' => ~Active' /\ ~snap'.valid
        /\ ~Pending("disconnected")' /\ ~connected' => ~snap'.valid
        /\ Active' /\ ~connected' => Pending("disconnected")' \/ (worker' # "none" /\ pendingFailure')
    BY <1>1 DEF Goes
  <2>6. QED
    BY <2>1, <2>2, <2>3, <2>4, <2>5 DEF Session
<1>2. ASSUME NEW c, Ends(c) PROVE Session'
  <2>1. Order'
    BY <1>2, OrderKept DEF Ends, IInv, Session, Types
  <2>2. /\ \A k : Pending(k)' => Pending(k)
        /\ Pending("disconnected") => Pending("disconnected")' \/ snap' = NoSnap
        /\ snap' = snap \/ snap' = NoSnap
    <3>1. CASE UNCHANGED <<guiQueue, snap>>
      BY <3>1 DEF Pending
    <3>2. CASE TakesEvent({"result", "pause", "fault"}) /\ snap' = snap
      BY <3>2, LeftInQueue DEF Types
    <3>3. CASE TakesEvent({"disconnected"}) /\ snap' = NoSnap
      BY <3>3, LeftInQueue DEF Types
    <3>4. QED
      BY <1>2, <3>1, <3>2, <3>3 DEF Ends
  <2>3. NoSnap.valid = FALSE
    BY DEF NoSnap
  <2>4. ~Active' /\ Active /\ apsQueue' = apsQueue /\ connected' = connected
    BY <1>2 DEF Ends, Over, Active, Ended
  <2>5. Queued("connect")' = Queued("connect")
    BY <2>4 DEF Queued
  <2>6. QED
    BY <2>1, <2>2, <2>3, <2>4, <2>5 DEF Session, IInv
<1>3. CASE Drops
  <2> DEFINE h == Head(guiQueue)
  <2>1. PICK kinds : TakesEvent(kinds)
    BY <1>3 DEF Drops
  <2>2. Order'
    BY <2>1, OrderKept DEF IInv, Session, Types
  <2>3. /\ h = guiQueue[1] /\ 1 \in 1 .. Len(guiQueue)
        /\ \A k : Pending(k)' => Pending(k)
        /\ \A k : Pending(k) /\ k # h.kind => Pending(k)'
    <3>1. TakesEvent({h.kind})
      BY <2>1 DEF TakesEvent
    <3> HIDE DEF h
    <3>2. QED
      BY <3>1, LeftInQueue DEF Types, h
  <2>4. /\ Active' = Active /\ connected' = connected /\ Queued("connect")' = Queued("connect")
        /\ apsQueue' = apsQueue /\ worker' = worker /\ pendingFailure' = pendingFailure
    BY <1>3 DEF Drops, Core, Active, Queued
  <2>5. NoSnap.valid = FALSE
    BY DEF NoSnap
  <2>6. h.kind = "disconnected" => snap' = NoSnap /\ ~Active
    BY <1>3 DEF Drops, TakesEvent
  <2>7. snap' = snap \/ snap' = NoSnap \/ (h.kind = "snapshot" /\ snap' = h.snap)
    BY <1>3 DEF Drops, TakesEvent
  <2> HIDE DEF h
  <2>8. h.kind = "snapshot" => Pending("snapshot") /\ ~Pending("disconnected")
    <3>1. SUFFICES ASSUME guiQueue[1].kind = "snapshot" PROVE Pending("snapshot") /\ ~Pending("disconnected")
      BY <2>3
    <3>2. \A m \in 1 .. Len(guiQueue) : guiQueue[m].kind = "disconnected" => m < 1
      BY <2>3, <3>1 DEF IInv, Session, Order
    <3>3. QED
      BY <2>3, <3>1, <3>2 DEF Pending
  <2>9. QED
    BY <2>2, <2>3, <2>4, <2>5, <2>6, <2>7, <2>8 DEF Session, IInv
<1>4. CASE AbortsRun
  <2>1. Order'
    BY <1>4, OrderKept DEF AbortsRun, IInv, Session, Types
  <2>2. /\ \A k : Pending(k)' => Pending(k)
        /\ Pending("disconnected") => Pending("disconnected")' \/ snap' = NoSnap
        /\ snap' = snap \/ snap' = NoSnap
    <3>1. CASE UNCHANGED <<guiQueue, snap>>
      BY <3>1 DEF Pending
    <3>2. CASE TakesEvent({"fault"}) /\ snap' = snap
      BY <3>2, LeftInQueue DEF Types
    <3>3. CASE TakesEvent({"disconnected"}) /\ snap' = NoSnap
      BY <3>3, LeftInQueue DEF Types
    <3>4. QED
      BY <1>4, <3>1, <3>2, <3>3 DEF AbortsRun
  <2>3. NoSnap.valid = FALSE
    BY DEF NoSnap
  <2>4. /\ Active /\ apsQueue' = apsQueue /\ connected' = connected
        /\ worker' # "none" /\ pendingFailure'
    BY <1>4 DEF AbortsRun, Core
  <2>5. Queued("connect")' = Queued("connect")
    BY <2>4 DEF Queued
  <2>6. QED
    BY <2>1, <2>2, <2>3, <2>4, <2>5 DEF Session, IInv
<1>5. CASE AbortsMove
  <2>1. Order'
    BY <1>5, OrderKept DEF AbortsMove, IInv, Session, Types
  <2>2. /\ \A k : Pending(k)' => Pending(k)
        /\ Pending("disconnected") => Pending("disconnected")'
    <3>1. CASE guiQueue' = guiQueue
      BY <3>1 DEF Pending
    <3>2. CASE TakesEvent({"fault"})
      BY <3>2, LeftInQueue DEF Types
    <3>3. QED
      BY <1>5, <3>1, <3>2 DEF AbortsMove
  <2>3. Active /\ Active' /\ UNCHANGED <<connected, snap, worker>> /\ worker = "none"
    BY <1>5 DEF AbortsMove, Core, Active, Ended
  <2>4. ~Queued("connect")
    BY <2>3 DEF IInv, Session
  <2>5. ~Queued("connect")'
    BY <1>5, <2>4, Paused DEF AbortsMove, Types, Queued
  <2>6. QED
    BY <2>1, <2>2, <2>3, <2>4, <2>5 DEF Session, IInv, Queued
<1>6. CASE Waits \/ Reads
  BY <1>6, SameSession DEF IInv, Core, Waits, Reads
<1>7. CASE Stops
  <2>1. Order' /\ \A k : Pending(k)' = Pending(k)
    BY <1>7 DEF Stops, IInv, Session, Order, Pending
  <2>2. Active /\ Active' /\ UNCHANGED <<connected, snap, worker, pendingFailure>>
    BY <1>7 DEF Stops, Core, Active, Ended
  <2>3. ~Queued("connect")
    BY <2>2 DEF IInv, Session
  <2>4. ~Queued("connect")'
    BY <1>7, <2>3, Paused DEF Stops, Types
  <2>5. QED
    BY <2>1, <2>2, <2>3, <2>4 DEF Session, IInv, Queued
<1>8. CASE PanelStop
  <2>1. /\ Order' /\ \A k : Pending(k)' = Pending(k)
        /\ UNCHANGED <<connected, snap, worker, pendingFailure, phase>> /\ PauseMagnet
    BY <1>8 DEF PanelStop, IInv, Session, Order, Pending, tabVars
  <2>2. /\ Queued("connect")' <=> Queued("connect")
        /\ \A i \in 1 .. Len(apsQueue') : apsQueue'[i].op = "connect" =>
              i \in 1 .. Len(apsQueue) /\ apsQueue'[i] = apsQueue[i]
    BY <2>1, Paused DEF Types
  <2>3. \A n, m \in 1 .. Len(apsQueue') :
            apsQueue'[n].op = "connect" /\ apsQueue'[m].op = "connect" => m = n
    BY <2>2 DEF IInv, Session
  <2>4. QED
    BY <2>1, <2>2, <2>3 DEF Session, IInv, Active
<1>9. CASE Connect
  <2>1. /\ Order' /\ \A k : Pending(k)' = Pending(k)
        /\ UNCHANGED <<connected, snap, worker, pendingFailure, phase>>
    BY <1>9 DEF Connect, IInv, Session, Order, Pending, apsVars, batchVars, tabVars
  <2>2. ConnectItem \in ApsItems /\ ConnectItem.op = "connect"
    BY DEF ConnectItem, ApsIdle, ApsItems, FieldOrAway
  <2>3. ~Queued("connect")
    BY <1>9, LenProperties DEF Connect, IInv, Labels, Queued, Types, ApsTypes
  <2>4. ~connected /\ ~Active /\ ~Pending("disconnected")
    BY <1>9, LenProperties DEF Connect, Pending, Types, ApsTypes
  <2>5. \A n \in 1 .. Len(apsQueue') : apsQueue'[n].op = "connect" => n = Len(apsQueue')
    <3>1. \A i \in 1 .. Len(apsQueue') : i = Len(apsQueue') \/ (i \in 1 .. Len(apsQueue) /\ apsQueue'[i] = apsQueue[i])
      BY <1>9, <2>2, ApsAdded DEF Connect, Types
    <3>2. QED
      BY <2>3, <3>1 DEF Queued
  <2>6. QED
    BY <2>1, <2>4, <2>5 DEF Session, IInv, Active
<1>10. ASSUME NEW end \in {"finished", "stopped", "error"}, MeasurementEnds(end) PROVE Session'
  <2>1. UNCHANGED <<apsQueue, guiQueue, connected, phase, snap, pendingFailure>> /\ worker' # "none"
        /\ worker # "none"
    BY <1>10 DEF MeasurementEnds, batchVars, apsVars
  <2>2. QED
    BY <2>1 DEF IInv, Session, Order, Queued, Pending, Active
<1>11. CASE ApsBeginMove
  <2>1. ApsTake("move") /\ UNCHANGED <<connected, phase, snap, worker, pendingFailure>>
    BY <1>11 DEF ApsBeginMove, GuiAside, batchVars, tabVars
  <2>2. /\ Order'
        /\ \A k : k # "result" => (Pending(k)' <=> Pending(k))
    <3>1. CASE guiQueue' = guiQueue
      BY <3>1 DEF IInv, Session, Order, Pending
    <3>2. CASE guiQueue' # guiQueue
      <4> DEFINE e == Event("result", Head(apsQueue).id, FALSE, NoSnap)
      <4>1. guiQueue' = Append(guiQueue, e)
        BY <1>11, <3>2 DEF ApsBeginMove
      <4>2. Head(apsQueue).id \in Ids \cup {NoId}
        BY <2>1, ApsTaken DEF Types, ApsItems
      <4>3. e \in Events /\ e.kind = "result"
        BY <4>2, RefusalIs
      <4> HIDE DEF e
      <4>4. QED
        BY <4>1, <4>3, GuiAdded DEF IInv, Session, Types
    <3>3. QED
      BY <3>1, <3>2
  <2>3. Queued("connect")' <=> Queued("connect")
    BY <2>1, ApsTaken DEF Types
  <2>4. \A n, m \in 1 .. Len(apsQueue') :
            apsQueue'[n].op = "connect" /\ apsQueue'[m].op = "connect" => m = n
    BY <2>1, ConnectsShift
  <2>5. QED
    BY <2>1, <2>2, <2>3, <2>4 DEF Session, IInv, Active
<1>12. ASSUME NEW ok \in BOOLEAN, ApsEndMove(ok) PROVE Session'
  <2>1. /\ UNCHANGED <<apsQueue, connected, phase, snap, worker, pendingFailure>>
        /\ apsNow.op = "move"
    BY <1>12 DEF ApsEndMove, GuiAside, batchVars, tabVars
  <2>2. connected /\ ~Pending("disconnected")
    BY <2>1 DEF IInv, Flight
  <2>3. /\ Order' /\ ~Pending("disconnected")'
    BY <1>12, <2>2, MoveAnswered DEF IInv, Session, Types
  <2>4. QED
    BY <2>1, <2>2, <2>3 DEF Session, IInv, Active, Queued
<1>13. CASE ApsPause
  <2>1. ApsTake("pause") /\ UNCHANGED <<connected, phase, snap, worker, pendingFailure>>
    BY <1>13 DEF ApsPause, GuiAside, batchVars, tabVars
  <2>2. /\ Order'
        /\ \A k : k # "pause" => (Pending(k)' <=> Pending(k))
    <3>1. CASE guiQueue' = guiQueue
      BY <3>1 DEF IInv, Session, Order, Pending
    <3>2. CASE guiQueue' # guiQueue
      <4>1. PICK ok \in BOOLEAN : guiQueue' = Append(guiQueue, Event("pause", NoId, ok, NoSnap))
        BY <1>13, <3>2 DEF ApsPause
      <4> DEFINE e == Event("pause", NoId, ok, NoSnap)
      <4>2. e \in Events /\ e.kind = "pause" /\ guiQueue' = Append(guiQueue, e)
        BY <4>1, SignalsAre
      <4> HIDE DEF e
      <4>3. QED
        BY <4>2, GuiAdded DEF IInv, Session, Types
    <3>3. QED
      BY <3>1, <3>2
  <2>3. Queued("connect")' <=> Queued("connect")
    BY <2>1, ApsTaken DEF Types
  <2>4. \A n, m \in 1 .. Len(apsQueue') :
            apsQueue'[n].op = "connect" /\ apsQueue'[m].op = "connect" => m = n
    BY <2>1, ConnectsShift
  <2>5. QED
    BY <2>1, <2>2, <2>3, <2>4 DEF Session, IInv, Active
<1>14. CASE ApsConnect
  <2>1. /\ ApsTake("connect") /\ UNCHANGED <<phase, snap, worker, pendingFailure>> /\ connected' = TRUE
    BY <1>14 DEF ApsConnect, GuiAside, batchVars, tabVars
  <2>2. apsQueue[1].op = "connect" /\ 1 \in 1 .. Len(apsQueue)
    BY <2>1, ApsTaken DEF Types
  <2>3. Queued("connect")
    BY <2>2 DEF Queued
  <2>4. ~connected /\ ~Active /\ ~snap.valid
    BY <2>3 DEF IInv, Session
  <2>5. ~Queued("connect")'
    <3>1. \A i \in 1 .. Len(apsQueue') : /\ apsQueue'[i] = apsQueue[i + 1] /\ i + 1 \in 1 .. Len(apsQueue)
                                         /\ i + 1 # 1
      BY <2>1, ApsTaken DEF Types
    <3>2. \A i \in 1 .. Len(apsQueue') : apsQueue'[i].op # "connect"
      BY <2>2, <3>1 DEF IInv, Session
    <3>3. QED
      BY <3>2 DEF Queued
  <2>6. Order'
    <3> DEFINE e == <<Signal("disconnected"), Signal("connected")>>
    <3>1. /\ e \in Seq(Events) /\ Len(e) > 0 /\ e[1].kind = "disconnected"
          /\ \A i \in 1 .. Len(e) : e[i].kind \in {"disconnected", "connected"} /\ e[i].id = NoId
      BY ConnectionIs
    <3>2. guiQueue' = NoSnapshots(guiQueue) \o e
      BY <1>14 DEF ApsConnect
    <3> HIDE DEF e
    <3>3. QED
      BY <3>1, <3>2, Replaced DEF IInv, Session, Types
  <2>7. QED
    BY <2>1, <2>4, <2>5, <2>6 DEF Session, Active, Queued
<1>15. CASE ApsPoll
  <2>1. UNCHANGED <<apsQueue, connected, phase, snap, worker, pendingFailure>> /\ connected
    BY <1>15 DEF ApsPoll, GuiAside, batchVars, tabVars, apsVars
  <2>0. heater \in BOOLEAN
    BY DEF Holds, Flags
  <2>2. /\ Order' /\ \A k : k # "snapshot" => (Pending(k)' <=> Pending(k))
    BY <1>15, <2>0, Polled DEF IInv, Session, Types
  <2>3. QED
    BY <2>1, <2>2 DEF Session, IInv, Active, Queued
<1>16. CASE ApsFault
  <2>1. UNCHANGED <<apsQueue, connected, phase, snap, worker, pendingFailure>>
    BY <1>16 DEF ApsFault, GuiAside, batchVars, tabVars, apsVars
  <2>2. Signal("fault") \in Events /\ Signal("fault").kind = "fault"
    BY SignalsAre
  <2>3. /\ Order' /\ \A k : k # "fault" => (Pending(k)' <=> Pending(k))
    BY <1>16, <2>2, GuiAdded DEF ApsFault, IInv, Session, Types
  <2>4. QED
    BY <2>1, <2>3 DEF Session, IInv, Active, Queued
<1>17. CASE ApsSessionLost
  <2>1. UNCHANGED <<apsQueue, phase, snap, worker, pendingFailure>> /\ connected /\ connected' = FALSE
    BY <1>17 DEF ApsSessionLost, GuiAside, batchVars, tabVars, apsVars
  <2>2. /\ Order' /\ ~Pending("snapshot")' /\ Pending("disconnected")'
    BY <1>17, LossIs, Replaced DEF ApsSessionLost, IInv, Session, Types
  <2>3. ~Queued("connect")'
    BY <2>1 DEF IInv, Session, Queued
  <2>4. QED
    BY <2>1, <2>2, <2>3 DEF Session, IInv, Queued
<1>18. CASE Crash
  <2>1. /\ apsQueue' = <<>> /\ guiQueue' = <<>> /\ ~connected' /\ phase' = "idle" /\ snap' = NoSnap
    BY <1>18 DEF Crash
  <2>2. Len(<<>>) = 0 /\ NoSnap.valid = FALSE
    BY DEF NoSnap
  <2>3. \A i \in 1 .. 0 : FALSE
    OBVIOUS
  <2>4. ~Queued("connect")' /\ ~Pending("snapshot")' /\ Order'
    BY <2>1, <2>2, <2>3 DEF Queued, Pending, Order
  <2>5. QED
    BY <2>1, <2>2, <2>4 DEF Session, Queued, Active, Ended
<1>19. CASE UNCHANGED vars
  BY <1>19, SameSession DEF IInv, vars, batchVars, diskVars, tabVars, apsVars, magnetVars, bounds
<1>20. QED
  BY <1>1, <1>2, <1>3, <1>4, <1>5, <1>6, <1>7, <1>8, <1>9, <1>10, <1>11, <1>12, <1>13, <1>14,
     <1>15, <1>16, <1>17, <1>18, <1>19, StepsAre DEF Aps, Measurement, Next

-----------------------------------------------------------------------------
(* The move under way.                                                     *)

Moves ==
    \A n, m \in 1 .. Len(apsQueue) :
        apsQueue[n].op = "move" =>
          /\ apsQueue[m].op = "move" => m = n
          /\ apsQueue[m].op = "connect" => n < m
          /\ ~Pending("result")
          /\ IF phase = "moving"
               THEN apsQueue[n].id = moveId /\ apsQueue[n].target = JobField[index + 1]
               ELSE ~connected /\ ~Active
Results ==
    \A n, m \in 1 .. Len(guiQueue) :
        guiQueue[n].kind = "result" =>
          /\ guiQueue[m].kind = "result" => m = n
          /\ IF phase = "moving" THEN guiQueue[n].id = moveId
               ELSE ~Active /\ (~connected \/ \E i \in n .. Len(guiQueue) : guiQueue[i].kind = "disconnected")

LEMMA FlightIs ==
    Flight <=>
      /\ apsNow.op = "move" \/ apsNow = ApsIdle
      /\ apsNow.op = "move" =>
           /\ phase = "moving" /\ apsNow.id = moveId /\ apsNow.target = JobField[index + 1]
           /\ connected /\ ~Pending("disconnected") /\ ~Queued("move") /\ ~Pending("result")
      /\ Moves /\ Results
      /\ phase = "moving" => apsNow.op = "move" \/ Queued("move") \/ Pending("result")
  BY DEF Flight, Moves, Results

LEMMA FlightMade ==
    ASSUME (apsNow.op = "move" \/ apsNow = ApsIdle)',
           (apsNow.op = "move" =>
             /\ phase = "moving" /\ apsNow.id = moveId /\ apsNow.target = JobField[index + 1]
             /\ connected /\ ~Pending("disconnected") /\ ~Queued("move") /\ ~Pending("result"))',
           Moves', Results',
           (phase = "moving" => apsNow.op = "move" \/ Queued("move") \/ Pending("result"))'
    PROVE  Flight'
  BY DEF Flight, Moves, Results

\* Nothing is under way.
LEMMA FlightOver ==
    ASSUME apsNow' = ApsIdle, ~Queued("move")', ~Pending("result")', phase' # "moving"
    PROVE  Flight'
<1>1. ApsIdle.op # "move"
  BY DEF ApsIdle
<1>2. QED
  BY <1>1 DEF Flight, Queued, Pending

\* The series a move belongs to is what it was, or over.
SameAsker ==
    /\ UNCHANGED <<moveId, index, scene>>
    /\ connected' => connected
    /\ (phase' = "moving" <=> phase = "moving")
    /\ Active' => Active

\* The queued move stays the series' own.
LEMMA MovesKept ==
    ASSUME ApsTypes, Moves, Pending("result")' => Pending("result"), SameAsker, NEW op,
           apsQueue' = apsQueue \/ PauseMagnet \/ ApsTake(op)
    PROVE  Moves'
<1>1. JobField' = JobField
  BY DEF SameAsker, JobField
<1>2. CASE apsQueue' = apsQueue
  BY <1>1, <1>2 DEF Moves, SameAsker
<1>3. CASE PauseMagnet
  <2>1. /\ PauseItem.op = "pause"
        /\ \A i \in 1 .. Len(apsQueue) : apsQueue'[i] = apsQueue[i]
        /\ \A i \in 1 .. Len(apsQueue') : apsQueue'[i] = PauseItem \/ i \in 1 .. Len(apsQueue)
    BY <1>3, Paused
  <2>2. \A i \in 1 .. Len(apsQueue') : apsQueue'[i].op \in {"move", "connect"} =>
            i \in 1 .. Len(apsQueue) /\ apsQueue'[i] = apsQueue[i]
    BY <2>1
  <2>3. QED
    BY <1>1, <2>2 DEF Moves, SameAsker
<1>4. CASE ApsTake(op)
  <2>1. \A i \in 1 .. Len(apsQueue') : apsQueue'[i] = apsQueue[i + 1] /\ i + 1 \in 1 .. Len(apsQueue)
    BY <1>4, ApsTaken
  <2>2. SUFFICES ASSUME NEW n \in 1 .. Len(apsQueue'), NEW m \in 1 .. Len(apsQueue'),
                        apsQueue'[n].op = "move"
        PROVE  /\ apsQueue'[m].op = "move" => m = n
               /\ apsQueue'[m].op = "connect" => n < m
               /\ ~Pending("result")'
               /\ IF phase' = "moving"
                    THEN apsQueue'[n].id = moveId' /\ apsQueue'[n].target = (JobField[index + 1])'
                    ELSE ~connected' /\ ~Active'
    BY DEF Moves
  <2>3. /\ n + 1 \in 1 .. Len(apsQueue) /\ m + 1 \in 1 .. Len(apsQueue)
        /\ apsQueue'[n] = apsQueue[n + 1] /\ apsQueue'[m] = apsQueue[m + 1]
    BY <2>1
  <2>4. /\ apsQueue[m + 1].op = "move" => m + 1 = n + 1
        /\ apsQueue[m + 1].op = "connect" => n + 1 < m + 1
        /\ ~Pending("result")
        /\ IF phase = "moving"
             THEN apsQueue[n + 1].id = moveId /\ apsQueue[n + 1].target = JobField[index + 1]
             ELSE ~connected /\ ~Active
    BY <2>2, <2>3 DEF Moves
  <2>5. n \in Int /\ m \in Int
    OBVIOUS
  <2>6. /\ apsQueue'[m].op = "move" => m = n
        /\ apsQueue'[m].op = "connect" => n < m
    BY <2>3, <2>4, <2>5
  <2>7. /\ ~Pending("result")'
        /\ IF phase' = "moving"
             THEN apsQueue'[n].id = moveId' /\ apsQueue'[n].target = (JobField[index + 1])'
             ELSE ~connected' /\ ~Active'
    BY <1>1, <2>3, <2>4 DEF SameAsker
  <2>8. QED
    BY <2>6, <2>7
<1>5. QED
  BY <1>2, <1>3, <1>4

\* The answer to a move stays the series' own.
LEMMA ResultsAlike ==
    ASSUME ApsTypes, Results, SameAsker, Len(guiQueue) \in Nat, Len(guiQueue') \in Nat, NEW d \in 0 .. 1,
           \A n \in 1 .. Len(guiQueue') : guiQueue'[n].kind = "result" =>
              n + d \in 1 .. Len(guiQueue) /\ guiQueue[n + d].kind = "result" /\ guiQueue'[n].id = guiQueue[n + d].id,
           \A n \in 1 .. Len(guiQueue) : guiQueue[n].kind = "disconnected" /\ n > d =>
              n - d \in 1 .. Len(guiQueue') /\ guiQueue'[n - d].kind = "disconnected"
    PROVE  Results'
<1>1. SUFFICES ASSUME NEW n \in 1 .. Len(guiQueue'), NEW m \in 1 .. Len(guiQueue'),
                      guiQueue'[n].kind = "result"
      PROVE  /\ guiQueue'[m].kind = "result" => m = n
             /\ IF phase' = "moving" THEN guiQueue'[n].id = moveId'
                  ELSE ~Active' /\ (~connected' \/ \E i \in n .. Len(guiQueue') : guiQueue'[i].kind = "disconnected")
  BY DEF Results
<1>2. n + d \in 1 .. Len(guiQueue) /\ guiQueue[n + d].kind = "result" /\ guiQueue'[n].id = guiQueue[n + d].id
  BY <1>1
<1>3. ASSUME guiQueue'[m].kind = "result" PROVE m = n
  <2>1. m + d \in 1 .. Len(guiQueue) /\ guiQueue[m + d].kind = "result"
    BY <1>3
  <2>2. m + d = n + d
    BY <1>2, <2>1 DEF Results
  <2>3. QED
    BY <2>2
<1>4. CASE phase' = "moving"
  <2>1. guiQueue[n + d].id = moveId
    BY <1>2, <1>4 DEF Results, SameAsker
  <2>2. QED
    BY <1>2, <1>3, <1>4, <2>1 DEF SameAsker
<1>5. CASE phase' # "moving"
  <2>1. ~Active /\ (~connected \/ \E i \in n + d .. Len(guiQueue) : guiQueue[i].kind = "disconnected")
    BY <1>2, <1>5 DEF Results, SameAsker
  <2>2. ASSUME NEW i \in n + d .. Len(guiQueue), guiQueue[i].kind = "disconnected"
        PROVE  \E j \in n .. Len(guiQueue') : guiQueue'[j].kind = "disconnected"
    <3>1. i \in 1 .. Len(guiQueue) /\ i > d
      BY <1>2
    <3>2. i - d \in 1 .. Len(guiQueue') /\ guiQueue'[i - d].kind = "disconnected"
      BY <2>2, <3>1
    <3>3. i - d \in n .. Len(guiQueue')
      BY <3>2
    <3>4. QED
      BY <3>2, <3>3
  <2>3. ~Active' /\ (connected' => connected)
    BY <2>1 DEF SameAsker
  <2>4. QED
    BY <1>3, <1>5, <2>1, <2>2, <2>3
<1>6. QED
  BY <1>4, <1>5

LEMMA ResultsKept ==
    ASSUME ApsTypes, Results, SameAsker, NEW kinds, guiQueue' = guiQueue \/ TakesEvent(kinds)
    PROVE  Results'
<1>1. Len(guiQueue) \in Nat
  BY LenProperties DEF ApsTypes
<1>2. CASE guiQueue' = guiQueue
  <2>1. 0 \in 0 .. 1 /\ \A n \in 1 .. Len(guiQueue) : n + 0 = n /\ n - 0 = n
    BY <1>1
  <2>2. QED
    BY <1>1, <1>2, <2>1 DEF Results, SameAsker
<1>3. CASE TakesEvent(kinds)
  <2>1. /\ Len(guiQueue') = Len(guiQueue) - 1
        /\ \A i \in 1 .. Len(guiQueue') : guiQueue'[i] = guiQueue[i + 1] /\ i + 1 \in 1 .. Len(guiQueue)
        /\ guiQueue' \in Seq(Events)
    BY <1>3, LeftInQueue
  <2>2. Len(guiQueue') \in Nat
    BY <2>1, LenProperties
  <2>3. \A n \in 1 .. Len(guiQueue) : n > 1 => n - 1 \in 1 .. Len(guiQueue') /\ (n - 1) + 1 = n
    BY <1>1, <2>1
  <2>4. \A n \in 1 .. Len(guiQueue) : n > 1 => guiQueue'[n - 1] = guiQueue[n]
    BY <2>1, <2>3
  <2>5. QED
    BY <1>1, <2>1, <2>2, <2>3, <2>4, ResultsAlike
<1>4. QED
  BY <1>2, <1>3

LEMMA ResultsKeptBehind ==
    ASSUME ApsTypes, Results, SameAsker, NEW e \in Events, e.kind # "result",
           guiQueue' = Append(guiQueue, e)
    PROVE  Results'
<1>1. /\ Len(guiQueue) \in Nat /\ Len(guiQueue') = Len(guiQueue) + 1
      /\ \A i \in 1 .. Len(guiQueue) : guiQueue'[i] = guiQueue[i] /\ i \in 1 .. Len(guiQueue')
      /\ guiQueue'[Len(guiQueue')] = e
      /\ \A i \in 1 .. Len(guiQueue') : i = Len(guiQueue') \/ i \in 1 .. Len(guiQueue)
  BY GuiAdded
<1>2. 0 \in 0 .. 1 /\ \A n \in 1 .. Len(guiQueue) : n + 0 = n /\ n - 0 = n
  BY <1>1
<1>3. Len(guiQueue') \in Nat
  BY <1>1
<1>4. \A n \in 1 .. Len(guiQueue') : guiQueue'[n].kind = "result" =>
         n \in 1 .. Len(guiQueue) /\ guiQueue'[n] = guiQueue[n] /\ n + 0 = n
  BY <1>1, <1>2
<1>5. QED
  BY <1>1, <1>2, <1>3, <1>4, ResultsAlike

\* A move goes on being what it was.
LEMMA FlightKept ==
    ASSUME Types, IInv, SameAsker, connected' = connected, apsNow' = apsNow,
           NEW kinds, guiQueue' = guiQueue \/ TakesEvent(kinds),
           phase = "moving" /\ guiQueue' # guiQueue => guiQueue[1].kind # "result",
           apsQueue' = apsQueue \/ PauseMagnet
    PROVE  Flight'
<1>1. (\A k : Pending(k)' => Pending(k)) /\ (phase = "moving" /\ Pending("result") => Pending("result")')
  <2>1. CASE guiQueue' = guiQueue
    BY <2>1 DEF Pending
  <2>2. CASE TakesEvent(kinds) /\ guiQueue' # guiQueue
    <3> DEFINE k1 == Head(guiQueue).kind
    <3>1. TakesEvent({k1})
      BY <2>2 DEF TakesEvent
    <3>2. Head(guiQueue) = guiQueue[1]
      BY <3>1, LeftInQueue DEF Types
    <3>3. phase = "moving" => k1 # "result"
      BY <2>2, <3>2
    <3> HIDE DEF k1
    <3>4. QED
      BY <3>1, <3>3, LeftInQueue DEF Types
  <2>3. QED
    BY <2>1, <2>2
<1>2. /\ Queued("move")' <=> Queued("move")
  <2>1. CASE apsQueue' = apsQueue
    BY <2>1 DEF Queued
  <2>2. CASE PauseMagnet
    BY <2>2, Paused DEF Types
  <2>3. QED
    BY <2>1, <2>2
<1>3. Moves' /\ Results'
  <2>1. Moves /\ Results
    BY FlightIs DEF IInv
  <2>2. QED
    BY <1>1, <2>1, MovesKept, ResultsKept DEF Types
<1>4. JobField' = JobField
  BY DEF SameAsker, JobField
<1>5. /\ apsNow.op = "move" \/ apsNow = ApsIdle
      /\ apsNow.op = "move" =>
           /\ phase = "moving" /\ apsNow.id = moveId /\ apsNow.target = JobField[index + 1]
           /\ connected /\ ~Pending("disconnected") /\ ~Queued("move") /\ ~Pending("result")
      /\ phase = "moving" => apsNow.op = "move" \/ Queued("move") \/ Pending("result")
  BY FlightIs DEF IInv
<1>6. /\ (apsNow.op = "move" \/ apsNow = ApsIdle)'
      /\ (apsNow.op = "move" =>
           /\ phase = "moving" /\ apsNow.id = moveId /\ apsNow.target = JobField[index + 1]
           /\ connected /\ ~Pending("disconnected") /\ ~Queued("move") /\ ~Pending("result"))'
      /\ (phase = "moving" => apsNow.op = "move" \/ Queued("move") \/ Pending("result"))'
  BY <1>1, <1>2, <1>4, <1>5 DEF SameAsker
<1>7. QED
  BY <1>3, <1>6, FlightMade

-----------------------------------------------------------------------------
LEMMA NoneUnderWay ==
    ASSUME Types, IInv, Active, phase # "moving"
    PROVE  apsNow = ApsIdle /\ ~Queued("move") /\ ~Pending("result")
<1>1. apsNow = ApsIdle
  BY DEF IInv, Flight
<1>2. ~Queued("move")
  BY DEF IInv, Flight, Queued
<1>3. ~Pending("result")
  BY DEF IInv, Flight, Pending
<1>4. QED
  BY <1>1, <1>2, <1>3

\* Of the answers at most one is on its way, also when a session ends.
LEMMA OneResult ==
    ASSUME \A n, m \in 1 .. Len(guiQueue) : guiQueue[n].kind = "result" =>
              (guiQueue[m].kind = "result" => m = n),
           \A n, m \in 1 .. Len(guiQueue') :
             n # m /\ {guiQueue'[n].kind, guiQueue'[m].kind} \intersect {"disconnected", "connected"} = {} =>
               \E i, j \in 1 .. Len(guiQueue) :
                  i # j /\ guiQueue'[n] = guiQueue[i] /\ guiQueue'[m] = guiQueue[j]
    PROVE  \A n, m \in 1 .. Len(guiQueue') :
              guiQueue'[n].kind = "result" /\ guiQueue'[m].kind = "result" => m = n
<1>1. SUFFICES ASSUME NEW n \in 1 .. Len(guiQueue'), NEW m \in 1 .. Len(guiQueue'),
                      guiQueue'[n].kind = "result", guiQueue'[m].kind = "result", n # m
      PROVE  FALSE
  OBVIOUS
<1>2. {guiQueue'[n].kind, guiQueue'[m].kind} \intersect {"disconnected", "connected"} = {}
  BY <1>1
<1>3. PICK i \in 1 .. Len(guiQueue), j \in 1 .. Len(guiQueue) :
         i # j /\ guiQueue'[n] = guiQueue[i] /\ guiQueue'[m] = guiQueue[j]
  BY <1>1, <1>2
<1>4. QED
  BY <1>1, <1>3

\* The move under way, through every step.
LEMMA FlightStep == Holds /\ [Next]_vars => Flight'
<1> SUFFICES ASSUME Holds, Types, IInv, Next \/ UNCHANGED vars PROVE Flight'
  BY DEF Holds
<1>1. ASSUME NEW c, Goes(c) PROVE Flight'
  <2>1. /\ apsNow' = ApsIdle /\ ~Queued("move") /\ ~Pending("result")' /\ Leads(c) /\ ApsIdle.op # "move"
        /\ JobField' = JobField /\ SceneTypes
    BY <1>1 DEF Goes, ApsIdle, JobField, Types
  <2>2. CASE apsQueue' = apsQueue /\ phase' # "moving"
    BY <2>1, <2>2, FlightOver DEF Queued
  <2> DEFINE e == [op |-> "move", id |-> FreshId, target |-> Target(c), sure |-> c.sure]
  <2>3. CASE /\ phase' = "moving" /\ moveId' = FreshId /\ guiQueue' = guiQueue /\ index' = c.index
             /\ apsQueue' = Append(apsQueue, e) /\ c.index < NumJobs
    <3>1. FreshId \in Ids
      BY <1>1, <2>3, MoveIsFresh
    <3>2. Target(c) \in Fields /\ c.sure \in BOOLEAN
      BY <1>1, <2>1, <2>3, Jobs DEF Goes, Cursor, Target
    <3>3. e \in ApsItems /\ e.op = "move" /\ e.id = FreshId /\ e.target = Target(c)
      BY <3>1, <3>2 DEF ApsItems, FieldOrAway
    <3> HIDE DEF e
    <3>4. /\ \A i \in 1 .. Len(apsQueue) : apsQueue'[i] = apsQueue[i]
          /\ apsQueue'[Len(apsQueue')] = e
          /\ \A i \in 1 .. Len(apsQueue') : i = Len(apsQueue') \/ i \in 1 .. Len(apsQueue)
          /\ Queued("move")'
      BY <2>3, <3>3, ApsAdded DEF Types
    <3>5. ~Queued("connect")
      BY <1>1 DEF Goes
    <3>6. \A i \in 1 .. Len(apsQueue) : apsQueue[i].op \notin {"move", "connect"}
      BY <2>1, <3>5 DEF Queued
    <3>7. \A i \in 1 .. Len(apsQueue') : apsQueue'[i].op \in {"move", "connect"} => i = Len(apsQueue') /\ apsQueue'[i] = e
      BY <3>4, <3>6
    <3>8. e.id = moveId' /\ e.target = JobField'[index' + 1]
      BY <2>1, <2>3, <3>3 DEF Target
    <3>9. Moves'
      BY <2>1, <2>3, <3>3, <3>7, <3>8 DEF Moves
    <3>10. Results'
      BY <2>1 DEF Results, Pending
    <3>11. QED
      BY <2>1, <3>4, <3>9, <3>10, FlightMade
  <2>4. QED
    BY <2>1, <2>2, <2>3 DEF Leads, Over, GoesTo, NoMove
<1>2. ASSUME NEW c, Ends(c) PROVE Flight'
  <2>1. /\ phase' # "moving" /\ ~Active' /\ Active /\ apsNow' = apsNow /\ connected' = connected
        /\ apsQueue' = apsQueue
    BY <1>2 DEF Ends, Over, Active, Ended
  <2>2. Queued("move")' = Queued("move")
    BY <2>1 DEF Queued
  <2>3. \A k : Pending(k)' => Pending(k)
    <3>1. CASE guiQueue' = guiQueue
      BY <3>1 DEF Pending
    <3>2. CASE TakesEvent({"result", "pause", "fault"})
      BY <3>2, LeftInQueue DEF Types
    <3>3. CASE TakesEvent({"disconnected"})
      BY <3>3, LeftInQueue DEF Types
    <3>4. QED
      BY <1>2, <3>1, <3>2, <3>3 DEF Ends
  <2>4. CASE phase # "moving"
    BY <2>1, <2>2, <2>3, <2>4, NoneUnderWay, FlightOver
  <2>5. CASE phase = "moving" /\ Head(guiQueue).kind = "result" /\ TakesEvent({"result", "pause", "fault"})
    <3>1. TakesEvent({"result"})
      BY <2>5 DEF TakesEvent
    <3>2. /\ guiQueue[1].kind = "result" /\ 1 \in 1 .. Len(guiQueue) /\ Len(guiQueue') = Len(guiQueue) - 1
          /\ \A i \in 1 .. Len(guiQueue') : guiQueue'[i] = guiQueue[i + 1] /\ i + 1 \in 1 .. Len(guiQueue) /\ i + 1 # 1
      BY <3>1, LeftInQueue DEF Types
    <3>3. Pending("result")
      BY <3>2 DEF Pending
    <3>4. apsNow = ApsIdle /\ ~Queued("move")
      BY <3>3 DEF IInv, Flight, Queued
    <3>5. \A i \in 1 .. Len(guiQueue) : guiQueue[i].kind = "result" => i = 1
      BY <3>2 DEF IInv, Flight
    <3>6. ~Pending("result")'
      BY <3>2, <3>5 DEF Pending
    <3>7. QED
      BY <2>1, <2>2, <3>4, <3>6, FlightOver
  <2>6. CASE phase = "moving" /\ TakesEvent({"disconnected"})
    <3>1. Pending("disconnected")
      <4>1. guiQueue[1].kind = "disconnected" /\ 1 \in 1 .. Len(guiQueue)
        BY <2>6, LeftInQueue DEF Types
      <4>2. QED
        BY <4>1 DEF Pending
    <3>2. ~connected' /\ ~connected
      BY <2>1, <3>1 DEF IInv, Session
    <3>3. apsNow = ApsIdle
      BY <3>1 DEF IInv, Flight
    <3>4. Moves'
      BY <2>1, <2>3, <3>2 DEF IInv, Flight, Moves
    <3>5. Results'
      <4>1. /\ \A i \in 1 .. Len(guiQueue') : guiQueue'[i] = guiQueue[i + 1] /\ i + 1 \in 1 .. Len(guiQueue)
        BY <2>6, LeftInQueue DEF Types
      <4>2. SUFFICES ASSUME NEW n \in 1 .. Len(guiQueue'), NEW m \in 1 .. Len(guiQueue'),
                            guiQueue'[n].kind = "result", guiQueue'[m].kind = "result"
            PROVE  m = n
        BY <2>1, <3>2 DEF Results
      <4>3. m + 1 = n + 1
        BY <4>1, <4>2 DEF IInv, Flight
      <4>4. QED
        BY <4>3
    <3>6. ApsIdle.op # "move"
      BY DEF ApsIdle
    <3>7. QED
      BY <2>1, <3>3, <3>4, <3>5, <3>6, FlightMade
  <2>7. QED
    BY <1>2, <2>4, <2>5, <2>6 DEF Ends
<1>3. CASE Drops
  <2>1. PICK kinds : TakesEvent(kinds)
    BY <1>3 DEF Drops
  <2>2. /\ apsNow' = apsNow /\ apsQueue' = apsQueue /\ connected' = connected /\ SameAsker
    BY <1>3 DEF Drops, Core, Active, SameAsker
  <2>3. Head(guiQueue) = guiQueue[1]
    BY <2>1, LeftInQueue DEF Types
  <2>4. phase = "moving" => guiQueue[1].kind # "result"
    BY <1>3, <2>3 DEF Drops, TakesEvent
  <2>5. QED
    BY <2>1, <2>2, <2>4, FlightKept
<1>4. CASE AbortsRun
  <2>1. /\ apsNow' = apsNow /\ apsQueue' = apsQueue /\ connected' = connected /\ SameAsker /\ phase # "moving"
    BY <1>4 DEF AbortsRun, Core, Active, Ended, SameAsker, IInv, Series
  <2>2. \E kinds : guiQueue' = guiQueue \/ TakesEvent(kinds)
    BY <1>4 DEF AbortsRun
  <2>3. QED
    BY <2>1, <2>2, FlightKept
<1>5. CASE AbortsMove
  <2>1. /\ apsNow' = apsNow /\ (apsQueue' = apsQueue \/ PauseMagnet) /\ connected' = connected /\ SameAsker
    BY <1>5 DEF AbortsMove, Core, Active, Ended, SameAsker
  <2>2. guiQueue' = guiQueue \/ TakesEvent({"fault"})
    BY <1>5 DEF AbortsMove
  <2>3. guiQueue' # guiQueue => guiQueue[1].kind # "result"
    BY <2>2, LeftInQueue DEF Types
  <2>4. QED
    BY <2>1, <2>2, <2>3, FlightKept
<1>6. CASE Waits \/ Reads
  <2>1. /\ UNCHANGED <<apsNow, apsQueue, connected, guiQueue>> /\ SameAsker
    BY <1>6 DEF Waits, Reads, Core, Active, SameAsker
  <2>2. QED
    BY <2>1, FlightKept
<1>7. CASE Stops
  <2>1. /\ UNCHANGED <<apsNow, connected, guiQueue>> /\ PauseMagnet /\ SameAsker
    BY <1>7 DEF Stops, Core, Active, Ended, SameAsker
  <2>2. QED
    BY <2>1, FlightKept
<1>8. CASE PanelStop
  <2>1. /\ UNCHANGED <<apsNow, connected, guiQueue>> /\ PauseMagnet /\ SameAsker
    BY <1>8 DEF PanelStop, Active, SameAsker
  <2>2. QED
    BY <2>1, FlightKept
<1>9. CASE Connect
  <2>1. /\ UNCHANGED <<apsNow, connected, guiQueue, phase, moveId, index, scene>>
        /\ apsQueue' = Append(apsQueue, ConnectItem)
    BY <1>9 DEF Connect, apsVars, batchVars, bounds
  <2>2. ConnectItem \in ApsItems /\ ConnectItem.op = "connect"
    BY DEF ConnectItem, ApsIdle, ApsItems, FieldOrAway
  <2> HIDE DEF ConnectItem
  <2>3. /\ \A i \in 1 .. Len(apsQueue) : apsQueue'[i] = apsQueue[i] /\ i \in 1 .. Len(apsQueue')
        /\ apsQueue'[Len(apsQueue')] = ConnectItem
        /\ \A i \in 1 .. Len(apsQueue') : i = Len(apsQueue') \/ i \in 1 .. Len(apsQueue)
        /\ \A k : Queued(k)' <=> Queued(k) \/ ConnectItem.op = k
        /\ Len(apsQueue) \in Nat /\ Len(apsQueue') = Len(apsQueue) + 1
    BY <2>1, <2>2, ApsAdded DEF Types
  <2>4. Queued("move")' <=> Queued("move")
    BY <2>2, <2>3
  <2>5. JobField' = JobField /\ (Active' <=> Active) /\ \A k : Pending(k)' <=> Pending(k)
    BY <2>1 DEF JobField, Active, Pending
  <2>6. Moves'
    <3>1. \A i \in 1 .. Len(apsQueue') : apsQueue'[i].op = "move" => i \in 1 .. Len(apsQueue) /\ apsQueue'[i] = apsQueue[i] /\ i < Len(apsQueue')
      BY <2>2, <2>3
    <3>2. \A i \in 1 .. Len(apsQueue') : i = Len(apsQueue') \/ (i \in 1 .. Len(apsQueue) /\ apsQueue'[i] = apsQueue[i])
      BY <2>3
    <3>3. Moves
      BY FlightIs DEF IInv
    <3>4. QED
      BY <2>1, <2>5, <3>1, <3>2, <3>3 DEF Moves
  <2>7. Results'
    BY <2>1, <2>5, FlightIs DEF IInv, Results
  <2>8. QED
    BY <2>1, <2>4, <2>5, <2>6, <2>7, FlightIs, FlightMade DEF IInv
<1>10. ASSUME NEW end \in {"finished", "stopped", "error"}, MeasurementEnds(end) PROVE Flight'
  <2>1. /\ UNCHANGED <<apsNow, apsQueue, connected, guiQueue>> /\ SameAsker
    BY <1>10 DEF MeasurementEnds, batchVars, apsVars, bounds, Active, SameAsker
  <2>2. QED
    BY <2>1, FlightKept
<1>11. CASE ApsBeginMove
  <2> DEFINE item == Head(apsQueue)
  <2>1. /\ ApsTake("move") /\ UNCHANGED <<connected, phase, index, scene, moveId>>
        /\ \/ connected /\ apsNow' = item /\ guiQueue' = guiQueue
           \/ ~connected /\ apsNow' = apsNow /\ guiQueue' = Append(guiQueue, Event("result", item.id, FALSE, NoSnap))
    BY <1>11 DEF ApsBeginMove, GuiAside, batchVars
  <2>2. /\ item = apsQueue[1] /\ item \in ApsItems /\ item.op = "move" /\ 1 \in 1 .. Len(apsQueue)
        /\ \A i \in 1 .. Len(apsQueue') : apsQueue'[i] = apsQueue[i + 1] /\ i + 1 \in 1 .. Len(apsQueue) /\ i + 1 # 1
        /\ apsNow = ApsIdle
    BY <2>1, ApsTaken DEF Types
  <2> HIDE DEF item
  <2>3. /\ \A i \in 1 .. Len(apsQueue) : apsQueue[i].op = "move" => i = 1
        /\ ~Pending("result")
        /\ IF phase = "moving" THEN item.id = moveId /\ item.target = JobField[index + 1]
             ELSE ~connected /\ ~Active
    BY <2>2 DEF IInv, Flight
  <2>4. ~Queued("move")'
    BY <2>2, <2>3 DEF Queued
  <2>5. Moves'
    BY <2>4 DEF Moves, Queued
  <2>6. JobField' = JobField /\ (Active' <=> Active) /\ ApsIdle.op # "move"
    BY <2>1 DEF JobField, Active, ApsIdle
  <2>7. CASE connected /\ apsNow' = item /\ guiQueue' = guiQueue
    <3>1. phase = "moving"
      BY <2>3, <2>7
    <3>2. Active
      BY <3>1 DEF Active, Ended
    <3>3. ~Pending("disconnected")
      BY <2>7, <3>2 DEF IInv, Session
    <3>4. ~Pending("result")' /\ ~Pending("disconnected")'
      BY <2>3, <2>7, <3>3 DEF Pending
    <3>5. Results'
      BY <3>4 DEF Results, Pending
    <3>6. QED
      BY <2>1, <2>2, <2>3, <2>4, <2>5, <2>6, <2>7, <3>1, <3>4, <3>5, FlightMade
  <2>8. CASE ~connected /\ apsNow' = apsNow /\ guiQueue' = Append(guiQueue, Event("result", item.id, FALSE, NoSnap))
    <3> DEFINE e == Event("result", item.id, FALSE, NoSnap)
    <3>1. e \in Events /\ e.kind = "result" /\ e.id = item.id
      <4>1. item.id \in Ids \cup {NoId} /\ FALSE \in BOOLEAN /\ NoSnap \in Snapshots
        BY <2>2, SignalsAre DEF ApsItems
      <4>2. QED
        BY <4>1, RefusalIs
    <3> HIDE DEF e
    <3>2. guiQueue' = Append(guiQueue, e)
      BY <2>8 DEF e
    <3>3. /\ guiQueue'[Len(guiQueue')] = e
          /\ \A i \in 1 .. Len(guiQueue) : guiQueue'[i] = guiQueue[i]
          /\ \A i \in 1 .. Len(guiQueue') : i = Len(guiQueue') \/ i \in 1 .. Len(guiQueue)
          /\ Pending("result")'
      BY <3>1, <3>2, GuiAdded DEF Types
    <3>4. \A i \in 1 .. Len(guiQueue') : guiQueue'[i].kind = "result" => i = Len(guiQueue') /\ guiQueue'[i] = e
      BY <2>3, <3>3 DEF Pending
    <3>5. Results'
      BY <2>1, <2>3, <2>6, <2>8, <3>1, <3>4 DEF Results
    <3>6. QED
      BY <2>1, <2>2, <2>5, <2>6, <2>8, <3>3, <3>5, FlightMade
  <2>9. QED
    BY <2>1, <2>7, <2>8
<1>12. ASSUME NEW ok \in BOOLEAN, ApsEndMove(ok) PROVE Flight'
  <2>1. /\ UNCHANGED <<apsQueue, connected, phase, index, scene, moveId>>
        /\ apsNow.op = "move" /\ apsNow' = ApsIdle /\ ApsIdle.op # "move"
    BY <1>12 DEF ApsEndMove, GuiAside, batchVars, ApsIdle
  <2>2. /\ phase = "moving" /\ apsNow.id = moveId /\ ~Pending("disconnected") /\ ~Queued("move") /\ ~Pending("result")
    BY <2>1 DEF IInv, Flight
  <2>3. /\ Pending("result")'
        /\ \A n \in 1 .. Len(guiQueue') : guiQueue'[n].kind = "result" =>
              \/ n = Len(guiQueue') /\ guiQueue'[n].id = apsNow.id
              \/ n \in 1 .. Len(guiQueue) /\ guiQueue[n].kind = "result"
    BY <1>12, <2>2, MoveAnswered DEF IInv, Session, Types
  <2>4. \A n \in 1 .. Len(guiQueue') : guiQueue'[n].kind = "result" => n = Len(guiQueue') /\ guiQueue'[n].id = moveId
    BY <2>2, <2>3 DEF Pending
  <2>5. Moves' /\ ~Queued("move")'
    BY <2>1, <2>2 DEF Moves, Queued
  <2>6. Results'
    BY <2>1, <2>2, <2>4 DEF Results
  <2>7. QED
    BY <2>1, <2>3, <2>5, <2>6, FlightMade
<1>13. CASE ApsPause
  <2>1. /\ ApsTake("pause") /\ UNCHANGED <<connected, phase, index, scene, moveId, apsNow>>
    BY <1>13 DEF ApsPause, GuiAside, batchVars
  <2>2. SameAsker /\ apsNow = ApsIdle /\ ApsIdle.op # "move"
    BY <2>1, ApsTaken DEF SameAsker, Active, Types, ApsIdle
  <2>3. Queued("move")' <=> Queued("move")
    BY <2>1, ApsTaken DEF Types
  <2>4. (Pending("result")' <=> Pending("result")) /\ Results'
    <3>1. CASE guiQueue' = guiQueue
      BY <2>2, <3>1, ResultsKept, FlightIs DEF Pending, IInv, Types
    <3>2. CASE guiQueue' # guiQueue
      <4>1. PICK ok \in BOOLEAN : guiQueue' = Append(guiQueue, Event("pause", NoId, ok, NoSnap))
        BY <1>13, <3>2 DEF ApsPause
      <4> DEFINE e == Event("pause", NoId, ok, NoSnap)
      <4>2. e \in Events /\ e.kind = "pause" /\ guiQueue' = Append(guiQueue, e)
        BY <4>1, SignalsAre
      <4> HIDE DEF e
      <4>3. QED
        BY <2>2, <4>2, GuiAdded, ResultsKeptBehind, FlightIs DEF IInv, Types
    <3>3. QED
      BY <3>1, <3>2
  <2>5. Moves'
    BY <2>1, <2>2, <2>4, MovesKept, FlightIs DEF IInv, Types
  <2>6. phase = "moving" => Queued("move") \/ Pending("result")
    BY <2>2 DEF IInv, Flight
  <2>7. QED
    BY <2>1, <2>2, <2>3, <2>4, <2>5, <2>6, FlightMade
<1>14. CASE ApsConnect
  <2>1. /\ ApsTake("connect") /\ UNCHANGED <<phase, index, scene, moveId, apsNow>>
        /\ guiQueue' = NoSnapshots(guiQueue) \o <<Signal("disconnected"), Signal("connected")>>
    BY <1>14 DEF ApsConnect, GuiAside, batchVars
  <2>2. /\ apsQueue[1].op = "connect" /\ 1 \in 1 .. Len(apsQueue) /\ apsNow = ApsIdle /\ ApsIdle.op # "move"
        /\ \A k : Queued(k)' => Queued(k)
    BY <2>1, ApsTaken DEF Types, ApsIdle
  <2>3. Queued("connect")
    BY <2>2 DEF Queued
  <2>4. ~Active
    BY <2>3 DEF IInv, Session
  <2>5. phase # "moving"
    BY <2>4 DEF Active, Ended
  <2>6. ~Queued("move")
    <3>1. \A n \in 1 .. Len(apsQueue) : apsQueue[n].op = "move" => n < 1
      BY <2>2 DEF IInv, Flight
    <3>2. QED
      BY <3>1 DEF Queued
  <2>7. ~Queued("move")'
    BY <2>2, <2>6
  <2>8. Moves'
    BY <2>7 DEF Moves, Queued
  <2>9. Results'
    <3> DEFINE e == <<Signal("disconnected"), Signal("connected")>>
    <3>1. /\ e \in Seq(Events) /\ Len(e) > 0 /\ e[1].kind = "disconnected"
          /\ \A i \in 1 .. Len(e) : e[i].kind \in {"disconnected", "connected"} /\ e[i].id = NoId
      BY ConnectionIs
    <3>2. guiQueue' = NoSnapshots(guiQueue) \o e
      BY <2>1
    <3> HIDE DEF e
    <3>3. /\ \A n \in 1 .. Len(guiQueue') : guiQueue'[n].kind \notin {"disconnected", "connected"} =>
                 \E i \in n .. Len(guiQueue') : guiQueue'[i].kind = "disconnected"
          /\ \A n, m \in 1 .. Len(guiQueue') :
               n # m /\ {guiQueue'[n].kind, guiQueue'[m].kind} \intersect {"disconnected", "connected"} = {} =>
                 \E i, j \in 1 .. Len(guiQueue) :
                    i # j /\ guiQueue'[n] = guiQueue[i] /\ guiQueue'[m] = guiQueue[j]
      BY <3>1, <3>2, Replaced DEF IInv, Session, Types
    <3>4. \A n, m \in 1 .. Len(guiQueue') :
              guiQueue'[n].kind = "result" /\ guiQueue'[m].kind = "result" => m = n
      BY <3>3, OneResult DEF IInv, Flight
    <3>5. ~Active' /\ phase' # "moving"
      BY <2>1, <2>4, <2>5 DEF Active
    <3>6. QED
      BY <3>3, <3>4, <3>5 DEF Results
  <2>10. QED
    BY <2>1, <2>2, <2>5, <2>8, <2>9, FlightMade
<1>15. CASE ApsPoll
  <2>1. UNCHANGED <<apsQueue, apsNow, connected, phase, index, scene, moveId>>
    BY <1>15 DEF ApsPoll, GuiAside, batchVars, tabVars, apsVars
  <2>0. heater \in BOOLEAN
    BY DEF Holds, Flags
  <2>2. /\ guiQueue' \in Seq(Events)
        /\ \A k : k # "snapshot" => (Pending(k)' <=> Pending(k))
        /\ \A n \in 1 .. Len(guiQueue') : guiQueue'[n].kind # "snapshot" =>
              n \in 1 .. Len(guiQueue) /\ guiQueue'[n] = guiQueue[n]
        /\ \A n \in 1 .. Len(guiQueue) : guiQueue[n].kind # "snapshot" =>
              n \in 1 .. Len(guiQueue') /\ guiQueue'[n] = guiQueue[n]
    BY <1>15, <2>0, Polled DEF IInv, Session, Types
  <2>3. Len(guiQueue) \in Nat /\ Len(guiQueue') \in Nat
    BY <2>2, LenProperties DEF Types, ApsTypes
  <2>4. SameAsker
    BY <2>1 DEF SameAsker, Active
  <2>5. /\ 0 \in 0 .. 1
        /\ \A n \in 1 .. Len(guiQueue') : n + 0 = n /\ n - 0 = n
        /\ \A n \in 1 .. Len(guiQueue) : n + 0 = n /\ n - 0 = n
    BY <2>3
  <2>6. Results
    BY FlightIs DEF IInv
  <2>7. Results'
    <3>1. \A n \in 1 .. Len(guiQueue') : guiQueue'[n].kind = "result" =>
              n + 0 \in 1 .. Len(guiQueue) /\ guiQueue[n + 0].kind = "result" /\ guiQueue'[n].id = guiQueue[n + 0].id
      BY <2>2, <2>5
    <3>2. \A n \in 1 .. Len(guiQueue) : guiQueue[n].kind = "disconnected" /\ n > 0 =>
              n - 0 \in 1 .. Len(guiQueue') /\ guiQueue'[n - 0].kind = "disconnected"
      BY <2>2, <2>5
    <3>3. QED
      BY <2>3, <2>4, <2>5, <2>6, <3>1, <3>2, ResultsAlike DEF Types
  <2>8. Moves'
    BY <2>1, <2>2, <2>4, MovesKept, FlightIs DEF IInv, Types
  <2>9. (Queued("move")' <=> Queued("move")) /\ JobField' = JobField
    BY <2>1 DEF Queued, JobField
  <2>10. QED
    BY <2>1, <2>2, <2>7, <2>8, <2>9, FlightIs, FlightMade DEF IInv
<1>16. CASE ApsFault
  <2>1. UNCHANGED <<apsQueue, apsNow, connected, phase, index, scene, moveId>>
        /\ guiQueue' = Append(guiQueue, Signal("fault"))
    BY <1>16 DEF ApsFault, GuiAside, batchVars, apsVars
  <2>2. Signal("fault") \in Events /\ Signal("fault").kind = "fault"
    BY SignalsAre
  <2>3. /\ \A k : k # "fault" => (Pending(k)' <=> Pending(k))
    BY <2>1, <2>2, GuiAdded DEF Types
  <2>4. SameAsker
    BY <2>1 DEF SameAsker, Active
  <2>5. Results'
    BY <2>1, <2>2, <2>4, ResultsKeptBehind, FlightIs DEF IInv, Types
  <2>6. Moves'
    BY <2>1, <2>3, <2>4, MovesKept, FlightIs DEF IInv, Types
  <2>7. (Queued("move")' <=> Queued("move")) /\ JobField' = JobField
    BY <2>1 DEF Queued, JobField
  <2>8. QED
    BY <2>1, <2>3, <2>5, <2>6, <2>7, FlightIs, FlightMade DEF IInv
<1>17. CASE ApsSessionLost
  <2>1. /\ UNCHANGED <<apsQueue, apsNow, phase, index, scene, moveId>> /\ ~connected'
        /\ apsNow = ApsIdle /\ ApsIdle.op # "move"
        /\ guiQueue' = Append(NoSnapshots(guiQueue), Signal("disconnected"))
    BY <1>17 DEF ApsSessionLost, GuiAside, batchVars, ApsIdle
  <2>2. /\ \A k : Pending(k) /\ k # "snapshot" => Pending(k)'
        /\ Pending("result")' => Pending("result")
        /\ \A n \in 1 .. Len(guiQueue') : guiQueue'[n].kind \notin {"disconnected", "connected"} =>
              \E i \in 1 .. Len(guiQueue) : guiQueue'[n] = guiQueue[i]
        /\ \A n, m \in 1 .. Len(guiQueue') :
             n # m /\ {guiQueue'[n].kind, guiQueue'[m].kind} \intersect {"disconnected", "connected"} = {} =>
               \E i, j \in 1 .. Len(guiQueue) :
                  i # j /\ guiQueue'[n] = guiQueue[i] /\ guiQueue'[m] = guiQueue[j]
    <3>1. PICK e \in Seq(Events) :
              /\ guiQueue' = NoSnapshots(guiQueue) \o e /\ Len(e) > 0 /\ e[1].kind = "disconnected"
              /\ \A i \in 1 .. Len(e) : e[i].kind \in {"disconnected", "connected"} /\ e[i].id = NoId
      BY <2>1, LossIs DEF IInv, Session, Types
    <3>2. QED
      BY <3>1, Replaced DEF IInv, Session, Types
  <2>3. SameAsker /\ (Active' <=> Active)
    BY <2>1 DEF SameAsker, Active
  <2>4. Moves'
    BY <2>1, <2>2, <2>3, MovesKept, FlightIs DEF IInv, Types
  <2>5. \A n, m \in 1 .. Len(guiQueue') :
            guiQueue'[n].kind = "result" /\ guiQueue'[m].kind = "result" => m = n
    BY <2>2, OneResult DEF IInv, Flight
  <2>6. \A n \in 1 .. Len(guiQueue) : guiQueue[n].kind = "result" =>
            IF phase = "moving" THEN guiQueue[n].id = moveId ELSE ~Active
    BY DEF IInv, Flight
  <2>7. \A n \in 1 .. Len(guiQueue') : guiQueue'[n].kind = "result" =>
            IF phase = "moving" THEN guiQueue'[n].id = moveId ELSE ~Active
    BY <2>2, <2>6
  <2>8. Results'
    BY <2>1, <2>3, <2>5, <2>7 DEF Results
  <2>9. (Queued("move")' <=> Queued("move"))
    BY <2>1 DEF Queued
  <2>10. phase = "moving" => Queued("move") \/ Pending("result")
    BY <2>1 DEF IInv, Flight
  <2>11. QED
    BY <2>1, <2>2, <2>4, <2>8, <2>9, <2>10, FlightMade
<1>18. CASE Crash
  <2>1. /\ apsQueue' = <<>> /\ guiQueue' = <<>> /\ phase' = "idle" /\ apsNow' = ApsIdle
    BY <1>18 DEF Crash
  <2>2. Len(<<>>) = 0 /\ \A i \in 1 .. 0 : FALSE
    OBVIOUS
  <2>3. ~Queued("move")' /\ ~Pending("result")'
    BY <2>1, <2>2 DEF Queued, Pending
  <2>4. QED
    BY <2>1, <2>3, FlightOver
<1>19. CASE UNCHANGED vars
  <2>1. /\ UNCHANGED <<apsNow, apsQueue, connected, guiQueue>> /\ SameAsker
    BY <1>19 DEF vars, batchVars, diskVars, tabVars, apsVars, magnetVars, bounds, Active,
       SameAsker
  <2>2. QED
    BY <2>1, FlightKept
<1>20. QED
  BY <1>1, <1>2, <1>3, <1>4, <1>5, <1>6, <1>7, <1>8, <1>9, <1>10, <1>11, <1>12, <1>13, <1>14,
     <1>15, <1>16, <1>17, <1>18, <1>19, StepsAre DEF Aps, Measurement, Next

-----------------------------------------------------------------------------
(* What is known of the field, and what the queues hold.                   *)

\* What is in the queue was there.
Old(n) == \E i \in 1 .. Len(guiQueue) : guiQueue[i] = guiQueue'[n]

LEMMA TakenOld ==
    ASSUME ApsTypes, NEW kinds, guiQueue' = guiQueue \/ TakesEvent(kinds)
    PROVE  \A n \in 1 .. Len(guiQueue') : Old(n)
<1>1. CASE guiQueue' = guiQueue
  BY <1>1 DEF Old
<1>2. CASE TakesEvent(kinds)
  BY <1>2, LeftInQueue DEF Old
<1>3. QED
  BY <1>1, <1>2

LEMMA AddedOld ==
    ASSUME ApsTypes, NEW e \in Events, guiQueue' = Append(guiQueue, e)
    PROVE  \A n \in 1 .. Len(guiQueue') : Old(n) \/ guiQueue'[n] = e
  BY GuiAdded DEF Old

LEMMA ReplacedOld ==
    ASSUME Types, IInv, ApsConnect \/ ApsSessionLost
    PROVE  /\ ~Pending("snapshot")' /\ Pending("disconnected")' /\ guiQueue' \in Seq(Events)
           /\ \A n \in 1 .. Len(guiQueue') : guiQueue'[n].id = NoId \/ Old(n)
           /\ \A n \in 1 .. Len(guiQueue') : guiQueue'[n].kind \notin {"disconnected", "connected"} => Old(n)
<1>1. PICK e \in Seq(Events) :
         /\ guiQueue' = NoSnapshots(guiQueue) \o e /\ Len(e) > 0 /\ e[1].kind = "disconnected"
         /\ \A i \in 1 .. Len(e) : e[i].kind \in {"disconnected", "connected"} /\ e[i].id = NoId
  <2>1. CASE ApsConnect
    <3> DEFINE f == <<Signal("disconnected"), Signal("connected")>>
    <3>1. /\ f \in Seq(Events) /\ Len(f) > 0 /\ f[1].kind = "disconnected"
          /\ \A i \in 1 .. Len(f) : f[i].kind \in {"disconnected", "connected"} /\ f[i].id = NoId
      BY ConnectionIs
    <3>2. guiQueue' = NoSnapshots(guiQueue) \o f
      BY <2>1 DEF ApsConnect
    <3> HIDE DEF f
    <3>3. QED
      BY <3>1, <3>2
  <2>2. CASE ApsSessionLost
    BY <2>2, LossIs DEF ApsSessionLost, IInv, Session, Types
  <2>3. QED
    BY <2>1, <2>2
<1>2. QED
  BY <1>1, Replaced DEF Old, IInv, Session, Types

LEMMA KnownKept ==
    ASSUME Known, Active' => Active,
           phase' = "moving" => phase = "moving", phase' = "verifying" => phase = "verifying",
           Active' /\ phase' \notin {"moving", "verifying"} => phase \notin {"moving", "verifying"},
           UNCHANGED <<lastField, field, heater, index, scene>>,
           \A n \in 1 .. Len(guiQueue') :
              guiQueue'[n].kind = "snapshot" => Accurate(guiQueue[n].snap)' \/ Old(n),
           \A n \in 1 .. Len(guiQueue') : guiQueue'[n].kind = "result" /\ guiQueue'[n].ok => Old(n)
    PROVE  Known'
<1>1. JobField' = JobField
  BY DEF JobField
<1>2. (Active /\ phase \notin {"moving", "verifying"} /\ lastField # Away => field = lastField /\ ~heater)'
  BY DEF Known
<1>3. ASSUME (Active /\ (phase = "verifying" \/ (phase # "moving" /\ lastField # Away)))',
             NEW n \in 1 .. Len(guiQueue'), guiQueue'[n].kind = "snapshot"
      PROVE  Accurate(guiQueue[n].snap)'
  <2>1. \A i \in 1 .. Len(guiQueue) : guiQueue[i].kind = "snapshot" => Accurate(guiQueue[i].snap)
    BY <1>3 DEF Known
  <2>2. CASE Old(n)
    <3>1. PICK i \in 1 .. Len(guiQueue) : guiQueue[i] = guiQueue'[n]
      BY <2>2 DEF Old
    <3>2. Accurate(guiQueue[i].snap)
      BY <1>3, <2>1, <3>1
    <3>3. QED
      BY <3>1, <3>2 DEF Accurate
  <2>3. QED
    BY <1>3, <2>2
<1>4. ASSUME phase' = "moving", NEW n \in 1 .. Len(guiQueue'), NEW m \in 1 .. Len(guiQueue'),
             guiQueue'[n].kind = "result", guiQueue'[n].ok
      PROVE  /\ (field = JobField[index + 1] /\ (heater => FALSE))'
             /\ Accurate(guiQueue[n].snap)'
             /\ guiQueue'[m].kind = "snapshot" => Accurate(guiQueue[m].snap)'
  <2>1. PICK i \in 1 .. Len(guiQueue) : guiQueue[i] = guiQueue'[n]
    BY <1>4 DEF Old
  <2>2. /\ field = JobField[index + 1] /\ (heater => FALSE)
        /\ Accurate(guiQueue[i].snap)
        /\ \A j \in 1 .. Len(guiQueue) : guiQueue[j].kind = "snapshot" => Accurate(guiQueue[j].snap)
    BY <1>4, <2>1 DEF Known
  <2>3. ASSUME guiQueue'[m].kind = "snapshot", Old(m) PROVE Accurate(guiQueue[m].snap)'
    <3>1. PICK j \in 1 .. Len(guiQueue) : guiQueue[j] = guiQueue'[m]
      BY <2>3 DEF Old
    <3>2. Accurate(guiQueue[j].snap)
      BY <2>2, <2>3, <3>1
    <3>3. QED
      BY <3>1, <3>2 DEF Accurate
  <2>4. Accurate(guiQueue[n].snap)'
    BY <2>1, <2>2 DEF Accurate
  <2>5. QED
    BY <1>1, <2>2, <2>3, <2>4
<1>5. QED
  BY <1>2, <1>3, <1>4 DEF Known

\* What is known of the field, through every step.
LEMMA KnownStep == Holds /\ [Next]_vars => Known'
<1> SUFFICES ASSUME Holds, Types, IInv, Next \/ UNCHANGED vars PROVE Known'
  BY DEF Holds
<1>1. ASSUME NEW c, Goes(c) PROVE Known'
  BY <1>1 DEF Goes
<1>2. ASSUME NEW c, Ends(c) PROVE Known'
  <2>1. ~Active' /\ phase' # "moving"
    BY <1>2 DEF Ends, Over, Active, Ended
  <2>2. QED
    BY <2>1 DEF Known
<1>3. CASE Drops
  <2>1. PICK kinds : TakesEvent(kinds)
    BY <1>3 DEF Drops
  <2>2. UNCHANGED <<lastField, field, heater, index, scene, phase>>
    BY <1>3 DEF Drops, Core
  <2>3. Active' <=> Active
    BY <2>2 DEF Active
  <2>4. QED
    BY <2>1, <2>2, <2>3, TakenOld, KnownKept DEF IInv, Types
<1>4. CASE AbortsRun
  <2>1. UNCHANGED <<lastField, field, heater, index, scene>> /\ phase' = "stopping" /\ Active
        /\ phase \in {"measuring", "stopping"}
    BY <1>4 DEF AbortsRun, Core, IInv, Series
  <2>2. \E kinds : guiQueue' = guiQueue \/ TakesEvent(kinds)
    BY <1>4 DEF AbortsRun
  <2>3. QED
    BY <2>1, <2>2, TakenOld, KnownKept DEF IInv, Types
<1>5. CASE AbortsMove
  <2>1. UNCHANGED <<lastField, field, heater, index, scene, phase>>
    BY <1>5 DEF AbortsMove, Core
  <2>2. Active' <=> Active
    BY <2>1 DEF Active
  <2>3. \A n \in 1 .. Len(guiQueue') : Old(n)
    BY <1>5, TakenOld DEF AbortsMove, Types
  <2>4. QED
    BY <2>1, <2>2, <2>3, KnownKept DEF IInv
<1>6. CASE Waits \/ Reads
  <2>1. UNCHANGED <<lastField, field, heater, index, scene, phase, guiQueue>>
    BY <1>6 DEF Waits, Reads, Core
  <2>2. Active' <=> Active
    BY <2>1 DEF Active
  <2>3. \A n \in 1 .. Len(guiQueue') : Old(n)
    BY <2>1 DEF Old
  <2>4. QED
    BY <2>1, <2>2, <2>3, KnownKept DEF IInv
<1>7. CASE Stops
  <2>1. UNCHANGED <<lastField, field, heater, index, scene, guiQueue>> /\ Active /\ phase # "verifying"
        /\ phase' = IF phase = "moving" THEN "moving" ELSE "stopping"
    BY <1>7 DEF Stops, Core
  <2>2. \A n \in 1 .. Len(guiQueue') : Old(n)
    BY <2>1 DEF Old
  <2>3. QED
    BY <2>1, <2>2, KnownKept DEF IInv
<1>8. CASE PanelStop
  <2>1. UNCHANGED <<lastField, field, heater, index, scene, phase, guiQueue>>
    BY <1>8 DEF PanelStop, magnetVars
  <2>2. Active' <=> Active
    BY <2>1 DEF Active
  <2>3. \A n \in 1 .. Len(guiQueue') : Old(n)
    BY <2>1 DEF Old
  <2>4. QED
    BY <2>1, <2>2, <2>3, KnownKept DEF IInv
<1>9. CASE Connect
  <2>1. UNCHANGED <<lastField, field, heater, index, scene, phase, guiQueue>>
    BY <1>9 DEF Connect, batchVars, magnetVars, bounds
  <2>2. Active' <=> Active
    BY <2>1 DEF Active
  <2>3. \A n \in 1 .. Len(guiQueue') : Old(n)
    BY <2>1 DEF Old
  <2>4. QED
    BY <2>1, <2>2, <2>3, KnownKept DEF IInv
<1>10. ASSUME NEW end \in {"finished", "stopped", "error"}, MeasurementEnds(end) PROVE Known'
  <2>1. UNCHANGED <<lastField, field, heater, index, scene, phase, guiQueue>>
    BY <1>10 DEF MeasurementEnds, batchVars, apsVars, magnetVars, bounds
  <2>2. Active' <=> Active
    BY <2>1 DEF Active
  <2>3. \A n \in 1 .. Len(guiQueue') : Old(n)
    BY <2>1 DEF Old
  <2>4. QED
    BY <2>1, <2>2, <2>3, KnownKept DEF IInv
<1>11. CASE ApsBeginMove
  <2>1. ApsTake("move") /\ UNCHANGED <<lastField, field, heater, index, scene, phase>>
    BY <1>11 DEF ApsBeginMove, GuiAside, batchVars, magnetVars
  <2>2. Active' <=> Active
    BY <2>1 DEF Active
  <2>3. CASE guiQueue' = guiQueue
    <3>1. \A n \in 1 .. Len(guiQueue') : Old(n)
      BY <2>3 DEF Old
    <3>2. QED
      BY <2>1, <2>2, <3>1, KnownKept DEF IInv
  <2>4. CASE guiQueue' # guiQueue
    <3> DEFINE e == Event("result", Head(apsQueue).id, FALSE, NoSnap)
    <3>1. guiQueue' = Append(guiQueue, e)
      BY <1>11, <2>4 DEF ApsBeginMove
    <3>2. Head(apsQueue).id \in Ids \cup {NoId} /\ FALSE \in BOOLEAN /\ NoSnap \in Snapshots
      BY <2>1, ApsTaken, SignalsAre DEF Types, ApsItems
    <3>3. e \in Events /\ e.kind = "result"
      BY <3>2, RefusalIs
    <3>4. e.ok = FALSE
      BY DEF Event
    <3> HIDE DEF e
    <3>5. \A n \in 1 .. Len(guiQueue') : Old(n) \/ guiQueue'[n] = e
      BY <3>1, <3>3, AddedOld DEF Types
    <3>6. QED
      BY <2>1, <2>2, <3>3, <3>4, <3>5, KnownKept DEF IInv
  <2>5. QED
    BY <2>3, <2>4
<1>12. ASSUME NEW ok \in BOOLEAN, ApsEndMove(ok) PROVE Known'
  <2>1. /\ UNCHANGED <<connected, phase, index, scene, lastField>> /\ apsNow.op = "move"
    BY <1>12 DEF ApsEndMove, GuiAside, batchVars
  <2>2. /\ phase = "moving" /\ apsNow.target = JobField[index + 1] /\ ~Pending("disconnected") /\ ~Pending("result")
    BY <2>1 DEF IInv, Flight
  <2>3. /\ \A n \in 1 .. Len(guiQueue') : guiQueue'[n].kind = "result" =>
              \/ n = Len(guiQueue') /\ guiQueue'[n].id = apsNow.id /\ guiQueue'[n].ok = ok
              \/ n \in 1 .. Len(guiQueue) /\ guiQueue[n].kind = "result"
        /\ ok => field' = apsNow.target /\ (heater' => FALSE)
        /\ ok => \A n \in 1 .. Len(guiQueue') : guiQueue'[n].kind = "snapshot" => Accurate(guiQueue[n].snap)'
        /\ Accurate(guiQueue[Len(guiQueue)].snap)'
    BY <1>12, <2>2, MoveAnswered DEF IInv, Session, Types
  <2>4. \A n \in 1 .. Len(guiQueue') : guiQueue'[n].kind = "result" => n = Len(guiQueue') /\ guiQueue'[n].ok = ok
    BY <2>2, <2>3 DEF Pending
  <2>5. JobField' = JobField
    BY <2>1 DEF JobField
  <2>6. ASSUME NEW n \in 1 .. Len(guiQueue'), NEW m \in 1 .. Len(guiQueue'),
               guiQueue'[n].kind = "result", guiQueue'[n].ok
        PROVE  /\ (field = JobField[index + 1] /\ (heater => FALSE))'
               /\ Accurate(guiQueue[n].snap)'
               /\ guiQueue'[m].kind = "snapshot" => Accurate(guiQueue[m].snap)'
    <3>1. n = Len(guiQueue') /\ ok
      BY <2>4, <2>6
    <3>2. QED
      BY <2>1, <2>2, <2>3, <2>5, <3>1
  <2>7. QED
    BY <2>1, <2>2, <2>6 DEF Known
<1>13. CASE ApsPause
  <2>1. UNCHANGED <<lastField, field, heater, index, scene, phase>>
    BY <1>13 DEF ApsPause, GuiAside, batchVars, magnetVars
  <2>2. Active' <=> Active
    BY <2>1 DEF Active
  <2>3. CASE guiQueue' = guiQueue
    <3>1. \A n \in 1 .. Len(guiQueue') : Old(n)
      BY <2>3 DEF Old
    <3>2. QED
      BY <2>1, <2>2, <3>1, KnownKept DEF IInv
  <2>4. CASE guiQueue' # guiQueue
    <3>1. PICK ok \in BOOLEAN : guiQueue' = Append(guiQueue, Event("pause", NoId, ok, NoSnap))
      BY <1>13, <2>4 DEF ApsPause
    <3> DEFINE e == Event("pause", NoId, ok, NoSnap)
    <3>2. e \in Events /\ e.kind = "pause" /\ guiQueue' = Append(guiQueue, e)
      BY <3>1, SignalsAre
    <3> HIDE DEF e
    <3>3. \A n \in 1 .. Len(guiQueue') : Old(n) \/ guiQueue'[n] = e
      BY <3>2, AddedOld DEF Types
    <3>4. QED
      BY <2>1, <2>2, <3>2, <3>3, KnownKept DEF IInv
  <2>5. QED
    BY <2>3, <2>4
<1>14. CASE ApsConnect
  <2>1. UNCHANGED <<lastField, field, heater, index, scene, phase>>
    BY <1>14 DEF ApsConnect, GuiAside, batchVars, magnetVars
  <2>2. Active' <=> Active
    BY <2>1 DEF Active
  <2>3. \A n \in 1 .. Len(guiQueue') : guiQueue'[n].kind \in {"snapshot", "result"} => Old(n)
    BY <1>14, ReplacedOld
  <2>4. QED
    BY <2>1, <2>2, <2>3, KnownKept DEF IInv
<1>15. CASE ApsPoll
  <2>1. UNCHANGED <<lastField, field, heater, index, scene, phase>>
    BY <1>15 DEF ApsPoll, GuiAside, batchVars, apsVars, magnetVars
  <2>0. heater \in BOOLEAN
    BY DEF Holds, Flags
  <2>2. Active' <=> Active
    BY <2>1 DEF Active
  <2>3. /\ \A n \in 1 .. Len(guiQueue') : guiQueue'[n].kind # "snapshot" =>
              n \in 1 .. Len(guiQueue) /\ guiQueue'[n] = guiQueue[n]
        /\ \A n \in 1 .. Len(guiQueue') : guiQueue'[n].kind = "snapshot" /\ guiQueue'[n].snap.valid =>
              guiQueue'[n].snap.field = field /\ guiQueue'[n].snap.heater = heater
    BY <1>15, <2>0, Polled DEF IInv, Session, Types
  <2>4. /\ \A n \in 1 .. Len(guiQueue') : guiQueue'[n].kind = "snapshot" => Accurate(guiQueue[n].snap)'
        /\ \A n \in 1 .. Len(guiQueue') : guiQueue'[n].kind = "result" => Old(n)
    BY <2>1, <2>3 DEF Accurate, Old
  <2>5. QED
    BY <2>1, <2>2, <2>4, KnownKept DEF IInv
<1>16. CASE ApsFault
  <2>1. UNCHANGED <<lastField, field, heater, index, scene, phase>>
    BY <1>16 DEF ApsFault, GuiAside, batchVars, apsVars, magnetVars
  <2>2. Active' <=> Active
    BY <2>1 DEF Active
  <2>3. Signal("fault") \in Events /\ Signal("fault").kind = "fault"
    BY SignalsAre
  <2>4. \A n \in 1 .. Len(guiQueue') : Old(n) \/ guiQueue'[n] = Signal("fault")
    BY <1>16, <2>3, AddedOld DEF Types, ApsFault
  <2>5. QED
    BY <2>1, <2>2, <2>3, <2>4, KnownKept DEF IInv
<1>17. CASE ApsSessionLost
  <2>1. UNCHANGED <<lastField, field, heater, index, scene, phase>>
    BY <1>17 DEF ApsSessionLost, GuiAside, batchVars, magnetVars
  <2>2. Active' <=> Active
    BY <2>1 DEF Active
  <2>3. \A n \in 1 .. Len(guiQueue') : guiQueue'[n].kind \in {"snapshot", "result"} => Old(n)
    BY <1>17, ReplacedOld
  <2>4. QED
    BY <2>1, <2>2, <2>3, KnownKept DEF IInv
<1>18. CASE Crash
  <2>1. phase' = "idle"
    BY <1>18 DEF Crash
  <2>2. QED
    BY <2>1 DEF Known, Active, Ended
<1>19. CASE UNCHANGED vars
  <2>1. UNCHANGED <<lastField, field, heater, index, scene, phase, guiQueue>>
    BY <1>19 DEF vars, batchVars, diskVars, tabVars, apsVars, magnetVars, bounds
  <2>2. Active' <=> Active
    BY <2>1 DEF Active
  <2>3. \A n \in 1 .. Len(guiQueue') : Old(n)
    BY <2>1 DEF Old
  <2>4. QED
    BY <2>1, <2>2, <2>3, KnownKept DEF IInv
<1>20. QED
  BY <1>1, <1>2, <1>3, <1>4, <1>5, <1>6, <1>7, <1>8, <1>9, <1>10, <1>11, <1>12, <1>13, <1>14,
     <1>15, <1>16, <1>17, <1>18, <1>19, StepsAre DEF Aps, Measurement, Next

-----------------------------------------------------------------------------
\* What is in the queue of the APS100 thread was there, or is well labelled.
Fit(item) ==
    /\ IF item.op = "move" THEN item.id # NoId ELSE item.id = NoId
    /\ item.op = "connect" => item = ConnectItem
OldItem(n) == \E i \in 1 .. Len(apsQueue) : apsQueue[i] = apsQueue'[n]

LEMMA LabelsKept ==
    ASSUME Labels,
           \A n \in 1 .. Len(apsQueue') : OldItem(n) \/ Fit(apsQueue'[n]),
           \A n \in 1 .. Len(guiQueue') : guiQueue'[n].kind # "result" => guiQueue'[n].id = NoId \/ Old(n)
    PROVE  Labels'
<1>1. \A i \in 1 .. Len(apsQueue) : Fit(apsQueue[i])
  BY DEF Labels, Fit
<1>2. \A n \in 1 .. Len(apsQueue') : Fit(apsQueue'[n])
  BY <1>1 DEF OldItem
<1>3. \A n \in 1 .. Len(guiQueue') : guiQueue'[n].kind # "result" => guiQueue'[n].id = NoId
  BY DEF Labels, Old
<1>4. QED
  BY <1>2, <1>3 DEF Labels, Fit

LEMMA ItemsKept ==
    ASSUME ApsTypes, NEW op, apsQueue' = apsQueue \/ PauseMagnet \/ ApsTake(op)
    PROVE  \A n \in 1 .. Len(apsQueue') : OldItem(n) \/ Fit(apsQueue'[n])
<1>1. CASE apsQueue' = apsQueue
  BY <1>1 DEF OldItem
<1>2. CASE PauseMagnet
  <2>1. /\ PauseItem.op = "pause" /\ PauseItem.id = NoId
        /\ \A i \in 1 .. Len(apsQueue) : apsQueue'[i] = apsQueue[i]
        /\ \A i \in 1 .. Len(apsQueue') : apsQueue'[i] = PauseItem \/ i \in 1 .. Len(apsQueue)
    BY <1>2, Paused
  <2>2. Fit(PauseItem)
    BY <2>1 DEF Fit
  <2>3. QED
    BY <2>1, <2>2 DEF OldItem
<1>3. CASE ApsTake(op)
  BY <1>3, ApsTaken DEF OldItem
<1>4. QED
  BY <1>1, <1>2, <1>3

\* What the queues hold, through every step.
LEMMA LabelsStep == Holds /\ [Next]_vars => Labels'
<1> SUFFICES ASSUME Holds, Types, IInv, Next \/ UNCHANGED vars PROVE Labels'
  BY DEF Holds
<1>1. ASSUME NEW c, Goes(c) PROVE Labels'
  <2>1. \A n \in 1 .. Len(apsQueue') : OldItem(n) \/ Fit(apsQueue'[n])
    <3>1. CASE apsQueue' = apsQueue
      BY <3>1 DEF OldItem
    <3>2. CASE apsQueue' # apsQueue
      <4> DEFINE e == [op |-> "move", id |-> FreshId, target |-> Target(c), sure |-> c.sure]
      <4>1. apsQueue' = Append(apsQueue, e) /\ guiQueue' = guiQueue /\ c.index < NumJobs
        BY <1>1, <3>2 DEF Goes, Leads, Over, NoMove, GoesTo
      <4>2. FreshId \in Ids /\ FreshId # NoId
        BY <1>1, <4>1, MoveIsFresh
      <4>3. Target(c) \in Fields /\ c.sure \in BOOLEAN
        BY <1>1, <4>1, Jobs DEF Goes, Cursor, Target, Types
      <4>4. e \in ApsItems /\ Fit(e)
        BY <4>2, <4>3 DEF ApsItems, FieldOrAway, Fit
      <4> HIDE DEF e
      <4>5. QED
        BY <4>1, <4>4, ApsAdded DEF Types, OldItem
    <3>3. QED
      BY <3>1, <3>2
  <2>2. \A n \in 1 .. Len(guiQueue') : guiQueue'[n].kind # "result" => guiQueue'[n].id = NoId \/ Old(n)
    BY <1>1, TakenOld DEF Types, Goes
  <2>3. QED
    BY <2>1, <2>2, LabelsKept DEF IInv
<1>2. ASSUME NEW c, Ends(c) PROVE Labels'
  <2>1. \A n \in 1 .. Len(apsQueue') : OldItem(n) \/ Fit(apsQueue'[n])
    BY <1>2, ItemsKept DEF Types, Ends, Over
  <2>2. \A n \in 1 .. Len(guiQueue') : guiQueue'[n].kind # "result" => guiQueue'[n].id = NoId \/ Old(n)
    <3>1. \E kinds : guiQueue' = guiQueue \/ TakesEvent(kinds)
      BY <1>2 DEF Ends
    <3>2. QED
      BY <3>1, TakenOld DEF Types
  <2>3. QED
    BY <2>1, <2>2, LabelsKept DEF IInv
<1>3. CASE Drops
  <2>1. \A n \in 1 .. Len(apsQueue') : OldItem(n) \/ Fit(apsQueue'[n])
    BY <1>3, ItemsKept DEF Types, Drops
  <2>2. \A n \in 1 .. Len(guiQueue') : guiQueue'[n].kind # "result" => guiQueue'[n].id = NoId \/ Old(n)
    <3>1. \E kinds : guiQueue' = guiQueue \/ TakesEvent(kinds)
      BY <1>3 DEF Drops
    <3>2. QED
      BY <3>1, TakenOld DEF Types
  <2>3. QED
    BY <2>1, <2>2, LabelsKept DEF IInv
<1>4. CASE AbortsRun
  <2>1. \A n \in 1 .. Len(apsQueue') : OldItem(n) \/ Fit(apsQueue'[n])
    BY <1>4, ItemsKept DEF Types, AbortsRun
  <2>2. \A n \in 1 .. Len(guiQueue') : guiQueue'[n].kind # "result" => guiQueue'[n].id = NoId \/ Old(n)
    <3>1. \E kinds : guiQueue' = guiQueue \/ TakesEvent(kinds)
      BY <1>4 DEF AbortsRun
    <3>2. QED
      BY <3>1, TakenOld DEF Types
  <2>3. QED
    BY <2>1, <2>2, LabelsKept DEF IInv
<1>5. CASE AbortsMove
  <2>1. \A n \in 1 .. Len(apsQueue') : OldItem(n) \/ Fit(apsQueue'[n])
    BY <1>5, ItemsKept DEF Types, AbortsMove
  <2>2. \A n \in 1 .. Len(guiQueue') : guiQueue'[n].kind # "result" => guiQueue'[n].id = NoId \/ Old(n)
    BY <1>5, TakenOld DEF Types, AbortsMove
  <2>3. QED
    BY <2>1, <2>2, LabelsKept DEF IInv
<1>6. CASE Waits \/ Reads
  <2>1. \A n \in 1 .. Len(apsQueue') : OldItem(n) \/ Fit(apsQueue'[n])
    BY <1>6, ItemsKept DEF Types, Waits, Reads
  <2>2. \A n \in 1 .. Len(guiQueue') : guiQueue'[n].kind # "result" => guiQueue'[n].id = NoId \/ Old(n)
    BY <1>6, TakenOld DEF Types, Waits, Reads
  <2>3. QED
    BY <2>1, <2>2, LabelsKept DEF IInv
<1>7. CASE Stops
  <2>1. \A n \in 1 .. Len(apsQueue') : OldItem(n) \/ Fit(apsQueue'[n])
    BY <1>7, ItemsKept DEF Types, Stops
  <2>2. \A n \in 1 .. Len(guiQueue') : guiQueue'[n].kind # "result" => guiQueue'[n].id = NoId \/ Old(n)
    BY <1>7, TakenOld DEF Types, Stops
  <2>3. QED
    BY <2>1, <2>2, LabelsKept DEF IInv
<1>8. CASE PanelStop
  <2>1. \A n \in 1 .. Len(apsQueue') : OldItem(n) \/ Fit(apsQueue'[n])
    BY <1>8, ItemsKept DEF Types, PanelStop
  <2>2. \A n \in 1 .. Len(guiQueue') : guiQueue'[n].kind # "result" => guiQueue'[n].id = NoId \/ Old(n)
    BY <1>8, TakenOld DEF Types, PanelStop
  <2>3. QED
    BY <2>1, <2>2, LabelsKept DEF IInv
<1>9. CASE Connect
  <2>1. \A n \in 1 .. Len(apsQueue') : OldItem(n) \/ Fit(apsQueue'[n])
    <3>1. ConnectItem \in ApsItems /\ Fit(ConnectItem)
      BY DEF ConnectItem, ApsIdle, ApsItems, FieldOrAway, Fit
    <3>2. apsQueue' = Append(apsQueue, ConnectItem)
      BY <1>9 DEF Connect
    <3> HIDE DEF ConnectItem
    <3>3. QED
      BY <3>1, <3>2, ApsAdded DEF Types, OldItem
  <2>2. \A n \in 1 .. Len(guiQueue') : guiQueue'[n].kind # "result" => guiQueue'[n].id = NoId \/ Old(n)
    BY <1>9, TakenOld DEF Types, Connect
  <2>3. QED
    BY <2>1, <2>2, LabelsKept DEF IInv
<1>10. ASSUME NEW end \in {"finished", "stopped", "error"}, MeasurementEnds(end) PROVE Labels'
  <2>1. \A n \in 1 .. Len(apsQueue') : OldItem(n) \/ Fit(apsQueue'[n])
    BY <1>10, ItemsKept DEF Types, MeasurementEnds, apsVars
  <2>2. \A n \in 1 .. Len(guiQueue') : guiQueue'[n].kind # "result" => guiQueue'[n].id = NoId \/ Old(n)
    BY <1>10, TakenOld DEF Types, MeasurementEnds, apsVars
  <2>3. QED
    BY <2>1, <2>2, LabelsKept DEF IInv
<1>11. CASE ApsBeginMove
  <2>1. \A n \in 1 .. Len(apsQueue') : OldItem(n) \/ Fit(apsQueue'[n])
    BY <1>11, ItemsKept DEF Types, ApsBeginMove
  <2>2. \A n \in 1 .. Len(guiQueue') : guiQueue'[n].kind # "result" => guiQueue'[n].id = NoId \/ Old(n)
    <3>1. CASE guiQueue' = guiQueue
      BY <3>1 DEF Old
    <3>2. CASE guiQueue' # guiQueue
      <4> DEFINE e == Event("result", Head(apsQueue).id, FALSE, NoSnap)
      <4>1. guiQueue' = Append(guiQueue, e) /\ ApsTake("move")
        BY <1>11, <3>2 DEF ApsBeginMove
      <4>2. Head(apsQueue).id \in Ids \cup {NoId} /\ FALSE \in BOOLEAN /\ NoSnap \in Snapshots
        BY <4>1, ApsTaken, SignalsAre DEF Types, ApsItems
      <4>3. e \in Events /\ e.kind = "result"
        BY <4>2, RefusalIs
      <4> HIDE DEF e
      <4>4. QED
        BY <4>1, <4>3, AddedOld DEF Types
    <3>3. QED
      BY <3>1, <3>2
  <2>3. QED
    BY <2>1, <2>2, LabelsKept DEF IInv
<1>12. ASSUME NEW ok \in BOOLEAN, ApsEndMove(ok) PROVE Labels'
  <2>1. \A n \in 1 .. Len(apsQueue') : OldItem(n) \/ Fit(apsQueue'[n])
    BY <1>12, ItemsKept DEF Types, ApsEndMove
  <2>2. \A n \in 1 .. Len(guiQueue') : guiQueue'[n].kind # "result" => guiQueue'[n].id = NoId \/ Old(n)
    <3>1. apsNow.op = "move"
      BY <1>12 DEF ApsEndMove
    <3>2. ~Pending("disconnected")
      BY <3>1 DEF IInv, Flight
    <3>3. QED
      BY <1>12, <3>2, MoveAnswered DEF IInv, Session, Types, Old
  <2>3. QED
    BY <2>1, <2>2, LabelsKept DEF IInv
<1>13. CASE ApsPause
  <2>1. \A n \in 1 .. Len(apsQueue') : OldItem(n) \/ Fit(apsQueue'[n])
    BY <1>13, ItemsKept DEF Types, ApsPause
  <2>2. \A n \in 1 .. Len(guiQueue') : guiQueue'[n].kind # "result" => guiQueue'[n].id = NoId \/ Old(n)
    <3>1. CASE guiQueue' = guiQueue
      BY <3>1 DEF Old
    <3>2. CASE guiQueue' # guiQueue
      <4>1. PICK ok \in BOOLEAN : guiQueue' = Append(guiQueue, Event("pause", NoId, ok, NoSnap))
        BY <1>13, <3>2 DEF ApsPause
      <4> DEFINE e == Event("pause", NoId, ok, NoSnap)
      <4>2. e \in Events /\ e.id = NoId /\ guiQueue' = Append(guiQueue, e)
        BY <4>1, SignalsAre
      <4> HIDE DEF e
      <4>3. QED
        BY <4>2, AddedOld DEF Types
    <3>3. QED
      BY <3>1, <3>2
  <2>3. QED
    BY <2>1, <2>2, LabelsKept DEF IInv
<1>14. CASE ApsConnect
  <2>1. \A n \in 1 .. Len(apsQueue') : OldItem(n) \/ Fit(apsQueue'[n])
    BY <1>14, ItemsKept DEF Types, ApsConnect
  <2>2. \A n \in 1 .. Len(guiQueue') : guiQueue'[n].kind # "result" => guiQueue'[n].id = NoId \/ Old(n)
    BY <1>14, ReplacedOld
  <2>3. QED
    BY <2>1, <2>2, LabelsKept DEF IInv
<1>15. CASE ApsPoll
  <2>1. \A n \in 1 .. Len(apsQueue') : OldItem(n) \/ Fit(apsQueue'[n])
    BY <1>15, ItemsKept DEF Types, ApsPoll, apsVars
  <2>2. \A n \in 1 .. Len(guiQueue') : guiQueue'[n].kind # "result" => guiQueue'[n].id = NoId \/ Old(n)
    <3>1. heater \in BOOLEAN
      BY DEF Holds, Flags
    <3>2. QED
      BY <1>15, <3>1, Polled DEF IInv, Session, Types, Old
  <2>3. QED
    BY <2>1, <2>2, LabelsKept DEF IInv
<1>16. CASE ApsFault
  <2>1. \A n \in 1 .. Len(apsQueue') : OldItem(n) \/ Fit(apsQueue'[n])
    BY <1>16, ItemsKept DEF Types, ApsFault, apsVars
  <2>2. \A n \in 1 .. Len(guiQueue') : guiQueue'[n].kind # "result" => guiQueue'[n].id = NoId \/ Old(n)
    <3>1. Signal("fault") \in Events /\ Signal("fault").id = NoId
      BY SignalsAre
    <3>2. QED
      BY <1>16, <3>1, AddedOld DEF Types, ApsFault
  <2>3. QED
    BY <2>1, <2>2, LabelsKept DEF IInv
<1>17. CASE ApsSessionLost
  <2>1. \A n \in 1 .. Len(apsQueue') : OldItem(n) \/ Fit(apsQueue'[n])
    BY <1>17, ItemsKept DEF Types, ApsSessionLost
  <2>2. \A n \in 1 .. Len(guiQueue') : guiQueue'[n].kind # "result" => guiQueue'[n].id = NoId \/ Old(n)
    BY <1>17, ReplacedOld
  <2>3. QED
    BY <2>1, <2>2, LabelsKept DEF IInv
<1>18. CASE Crash
  <2>1. apsQueue' = <<>> /\ guiQueue' = <<>>
    BY <1>18 DEF Crash
  <2>2. Len(<<>>) = 0 /\ \A i \in 1 .. 0 : FALSE
    OBVIOUS
  <2>3. QED
    BY <2>1, <2>2 DEF Labels
<1>19. CASE UNCHANGED vars
  <2>1. \A n \in 1 .. Len(apsQueue') : OldItem(n) \/ Fit(apsQueue'[n])
    BY <1>19, ItemsKept DEF Types, vars, apsVars
  <2>2. \A n \in 1 .. Len(guiQueue') : guiQueue'[n].kind # "result" => guiQueue'[n].id = NoId \/ Old(n)
    BY <1>19, TakenOld DEF Types, vars, apsVars
  <2>3. QED
    BY <2>1, <2>2, LabelsKept DEF IInv
<1>20. QED
  BY <1>1, <1>2, <1>3, <1>4, <1>5, <1>6, <1>7, <1>8, <1>9, <1>10, <1>11, <1>12, <1>13, <1>14,
     <1>15, <1>16, <1>17, <1>18, <1>19, StepsAre DEF Aps, Measurement, Next

LEMMA AnsweredKept ==
    ASSUME Answered, UNCHANGED <<phase, worker>>,
           Queued("pause") => Queued("pause")' \/ Pending("pause")',
           Pending("pause") => Pending("pause")', Pending("disconnected") => Pending("disconnected")'
    PROVE  Answered'
  BY DEF Answered

\* The answer a stop waits for, through every step.
LEMMA AnsweredStep == Holds /\ [Next]_vars => Answered'
<1> SUFFICES ASSUME Holds, Types, IInv, Next \/ UNCHANGED vars PROVE Answered'
  BY DEF Holds
<1>1. ASSUME NEW c, Goes(c) PROVE Answered'
  <2>1. phase' # "stopping"
    BY <1>1 DEF Goes, Leads, Over, GoesTo
  <2>2. QED
    BY <2>1 DEF Answered
<1>2. ASSUME NEW c, Ends(c) PROVE Answered'
  <2>1. phase' # "stopping"
    BY <1>2 DEF Ends, Over
  <2>2. QED
    BY <2>1 DEF Answered
<1>3. CASE Drops
  <2>1. UNCHANGED <<phase, worker, apsQueue>>
    BY <1>3 DEF Drops, Core
  <2>2. PICK kinds : TakesEvent(kinds)
    BY <1>3 DEF Drops
  <2> DEFINE k1 == Head(guiQueue).kind
  <2>3. TakesEvent({k1})
    BY <2>2 DEF TakesEvent
  <2>4. k1 = "pause" => ~AwaitsPause
    BY <1>3 DEF Drops, TakesEvent
  <2>5. k1 = "disconnected" => ~Active
    BY <1>3 DEF Drops, TakesEvent
  <2> HIDE DEF k1
  <2>6. \A k : Pending(k) /\ k # k1 => Pending(k)'
    BY <2>3, LeftInQueue DEF Types
  <2>7. Queued("pause")' <=> Queued("pause")
    BY <2>1 DEF Queued
  <2>8. SUFFICES ASSUME phase = "stopping", worker = "none" PROVE Queued("pause")' \/ Pending("pause")' \/ Pending("disconnected")'
    BY <2>1 DEF Answered
  <2>9. AwaitsPause /\ Active
    BY <2>8 DEF AwaitsPause, Active, Ended
  <2>10. QED
    BY <2>4, <2>5, <2>6, <2>7, <2>8, <2>9 DEF IInv, Answered
<1>4. CASE AbortsRun
  <2>1. worker' # "none"
    BY <1>4 DEF AbortsRun, Core
  <2>2. QED
    BY <2>1 DEF Answered
<1>5. CASE AbortsMove
  <2>1. phase' # "stopping"
    BY <1>5 DEF AbortsMove
  <2>2. QED
    BY <2>1 DEF Answered
<1>6. CASE Waits \/ Reads
  <2>1. UNCHANGED <<phase, worker, apsQueue, guiQueue>>
    BY <1>6 DEF Waits, Reads, Core
  <2>2. QED
    BY <2>1 DEF IInv, Answered, Queued, Pending
<1>7. CASE Stops
  <2>1. Queued("pause")'
    BY <1>7, Paused DEF Stops, Types
  <2>2. QED
    BY <2>1 DEF Answered
<1>8. CASE PanelStop
  <2>1. Queued("pause")'
    BY <1>8, Paused DEF PanelStop, Types
  <2>2. QED
    BY <2>1 DEF Answered
<1>9. CASE Connect
  <2>1. phase' # "stopping"
    BY <1>9 DEF Connect, batchVars, Active, Ended
  <2>2. QED
    BY <2>1 DEF Answered
<1>10. ASSUME NEW end \in {"finished", "stopped", "error"}, MeasurementEnds(end) PROVE Answered'
  <2>1. worker' # "none"
    BY <1>10 DEF MeasurementEnds
  <2>2. QED
    BY <2>1 DEF Answered
<1>11. CASE ApsBeginMove
  <2>1. ApsTake("move") /\ UNCHANGED <<phase, worker>>
    BY <1>11 DEF ApsBeginMove, GuiAside, batchVars, tabVars
  <2>2. \A k : k # "move" /\ Queued(k) => Queued(k)'
    BY <2>1, ApsTaken DEF Types
  <2>3. \A k : Pending(k) => Pending(k)'
    <3>1. CASE guiQueue' = guiQueue
      BY <3>1 DEF Pending
    <3>2. CASE guiQueue' # guiQueue
      <4> DEFINE e == Event("result", Head(apsQueue).id, FALSE, NoSnap)
      <4>1. guiQueue' = Append(guiQueue, e)
        BY <1>11, <3>2 DEF ApsBeginMove
      <4>2. Head(apsQueue).id \in Ids \cup {NoId} /\ FALSE \in BOOLEAN /\ NoSnap \in Snapshots
        BY <2>1, ApsTaken, SignalsAre DEF Types, ApsItems
      <4>3. e \in Events
        BY <4>2, SignalsAre
      <4> HIDE DEF e
      <4>4. QED
        BY <4>1, <4>3, GuiAdded DEF Types
    <3>3. QED
      BY <3>1, <3>2
  <2>4. QED
    BY <2>1, <2>2, <2>3, AnsweredKept DEF IInv
<1>12. ASSUME NEW ok \in BOOLEAN, ApsEndMove(ok) PROVE Answered'
  <2>1. apsNow.op = "move" /\ phase' = phase
    BY <1>12 DEF ApsEndMove, GuiAside, batchVars
  <2>2. phase' # "stopping"
    BY <2>1 DEF IInv, Flight
  <2>3. QED
    BY <2>2 DEF Answered
<1>13. CASE ApsPause
  <2>1. ApsTake("pause") /\ UNCHANGED <<phase, worker, connected>>
    BY <1>13 DEF ApsPause, GuiAside, batchVars, tabVars
  <2>2. CASE connected
    <3>1. PICK ok \in BOOLEAN : guiQueue' = Append(guiQueue, Event("pause", NoId, ok, NoSnap))
      BY <1>13, <2>2 DEF ApsPause
    <3> DEFINE e == Event("pause", NoId, ok, NoSnap)
    <3>2. e \in Events /\ e.kind = "pause" /\ guiQueue' = Append(guiQueue, e)
      BY <3>1, SignalsAre
    <3> HIDE DEF e
    <3>3. Pending("pause")'
      BY <3>2, GuiAdded DEF Types
    <3>4. QED
      BY <3>3 DEF Answered
  <2>3. CASE ~connected
    <3>1. SUFFICES ASSUME phase = "stopping", worker = "none" PROVE Pending("disconnected")'
      BY <2>1 DEF Answered
    <3>2. Active
      BY <3>1 DEF Active, Ended
    <3>3. Pending("disconnected")
      BY <2>3, <3>1, <3>2 DEF IInv, Session
    <3>4. guiQueue' = guiQueue
      BY <1>13, <2>3 DEF ApsPause
    <3>5. QED
      BY <3>3, <3>4 DEF Pending
  <2>4. QED
    BY <2>2, <2>3
<1>14. CASE ApsConnect
  <2>1. ApsTake("connect") /\ phase' = phase
    BY <1>14 DEF ApsConnect, GuiAside, batchVars
  <2>2. Queued("connect")
    <3>1. apsQueue[1].op = "connect" /\ 1 \in 1 .. Len(apsQueue)
      BY <2>1, ApsTaken DEF Types
    <3>2. QED
      BY <3>1 DEF Queued
  <2>3. ~Active
    BY <2>2 DEF IInv, Session
  <2>4. phase' # "stopping"
    BY <2>1, <2>3 DEF Active, Ended
  <2>5. QED
    BY <2>4 DEF Answered
<1>15. CASE ApsPoll
  <2>1. UNCHANGED <<phase, worker, apsQueue>>
    BY <1>15 DEF ApsPoll, GuiAside, batchVars, tabVars, apsVars
  <2>2. heater \in BOOLEAN
    BY DEF Holds, Flags
  <2>3. \A k : k # "snapshot" => (Pending(k)' <=> Pending(k))
    BY <1>15, <2>2, Polled DEF IInv, Session, Types
  <2>4. QED
    BY <2>1, <2>3 DEF IInv, Answered, Queued
<1>16. CASE ApsFault
  <2>1. UNCHANGED <<phase, worker, apsQueue>> /\ guiQueue' = Append(guiQueue, Signal("fault"))
    BY <1>16 DEF ApsFault, GuiAside, batchVars, tabVars, apsVars
  <2>2. Signal("fault") \in Events /\ Signal("fault").kind = "fault"
    BY SignalsAre
  <2>3. \A k : k # "fault" => (Pending(k)' <=> Pending(k))
    BY <2>1, <2>2, GuiAdded DEF Types
  <2>4. QED
    BY <2>1, <2>3 DEF IInv, Answered, Queued
<1>17. CASE ApsSessionLost
  <2>1. Pending("disconnected")'
    BY <1>17, ReplacedOld
  <2>2. QED
    BY <2>1 DEF Answered
<1>18. CASE Crash
  <2>1. phase' # "stopping"
    BY <1>18 DEF Crash
  <2>2. QED
    BY <2>1 DEF Answered
<1>19. CASE UNCHANGED vars
  <2>1. UNCHANGED <<phase, worker, apsQueue, guiQueue>>
    BY <1>19 DEF vars, apsVars, batchVars, tabVars
  <2>2. QED
    BY <2>1 DEF IInv, Answered, Queued, Pending
<1>20. QED
  BY <1>1, <1>2, <1>3, <1>4, <1>5, <1>6, <1>7, <1>8, <1>9, <1>10, <1>11, <1>12, <1>13, <1>14,
     <1>15, <1>16, <1>17, <1>18, <1>19, StepsAre DEF Aps, Measurement, Next

-----------------------------------------------------------------------------
(* Types.                                                                  *)

LEMMA SameScene ==
    ASSUME SceneTypes, scene' = scene, thermal' \in Verdicts \/ thermal' = thermal,
           starts' = starts \/ (starts < scene.starts /\ starts' = starts + 1),
           losses' = losses \/ (losses < scene.losses /\ losses' = losses + 1),
           faults' = faults \/ (faults < scene.faults /\ faults' = faults + 1)
    PROVE  SceneTypes'
<1>1. scene.starts \in Nat /\ scene.losses \in Nat /\ scene.faults \in Nat
  BY ConstantsAssumption DEF SceneTypes
<1>2. QED
  BY <1>1 DEF SceneTypes

LEMMA SceneStep == SceneTypes /\ [Next]_vars => SceneTypes'
<1> SUFFICES ASSUME SceneTypes, Next \/ UNCHANGED vars PROVE SceneTypes'
  OBVIOUS
<1>1. CASE OnMoveResult
  BY <1>1, SameScene DEF OnMoveResult, Ghosts, ApsAside, GuiAside, batchVars, diskVars,
     tabVars, apsVars, magnetVars, bounds
<1>2. CASE OnSnapshot
  BY <1>2, SameScene DEF OnSnapshot, Ghosts, ApsAside, GuiAside, batchVars, diskVars, tabVars,
     apsVars, magnetVars, bounds
<1>3. CASE OnPauseDone
  BY <1>3, SameScene DEF OnPauseDone, Ghosts, ApsAside, GuiAside, batchVars, diskVars, tabVars,
     apsVars, magnetVars, bounds
<1>4. CASE OnFault
  BY <1>4, SameScene DEF OnFault, Ghosts, ApsAside, GuiAside, batchVars, diskVars, tabVars,
     apsVars, magnetVars, bounds
<1>5. CASE OnConnected
  BY <1>5, SameScene DEF OnConnected, Ghosts, ApsAside, GuiAside, batchVars, diskVars, tabVars,
     apsVars, magnetVars, bounds
<1>6. CASE OnDisconnected
  BY <1>6, SameScene DEF OnDisconnected, Ghosts, ApsAside, GuiAside, batchVars, diskVars,
     tabVars, apsVars, magnetVars, bounds
<1>7. CASE OnMeasurementTerminal
  BY <1>7, SameScene DEF OnMeasurementTerminal, Ghosts, ApsAside, GuiAside, batchVars,
     diskVars, tabVars, apsVars, magnetVars, bounds
<1>8. CASE WaitTimeout
  BY <1>8, SameScene DEF WaitTimeout, Ghosts, ApsAside, GuiAside, batchVars, diskVars, tabVars,
     apsVars, magnetVars, bounds
<1>9. ASSUME NEW t \in scene.thermals, OnLakeShoreSnapshot(t) PROVE SceneTypes'
  <2>1. t \in Verdicts
    BY ConstantsAssumption DEF SceneTypes
  <2>2. QED
    BY <1>9, <2>1, SameScene DEF OnLakeShoreSnapshot, ApsAside, bounds
<1>10. CASE OnLakeShoreDisconnected
  <2>1. "warning" \in Verdicts
    BY DEF Verdicts
  <2>2. QED
    BY <1>10, <2>1, SameScene DEF OnLakeShoreDisconnected, ApsAside, bounds
<1>11. CASE Start \/ Resume
  BY <1>11, SameScene DEF Start, Resume, StartFrom, Ghosts, ApsAside, GuiAside, batchVars,
     diskVars, tabVars, apsVars, magnetVars, bounds
<1>12. CASE Stop
  BY <1>12, SameScene DEF Stop, Ghosts, ApsAside, GuiAside, batchVars, diskVars, tabVars,
     apsVars, magnetVars, bounds
<1>13. CASE Continue
  BY <1>13, SameScene DEF Continue, Ghosts, ApsAside, GuiAside, batchVars, diskVars, tabVars,
     apsVars, magnetVars, bounds
<1>14. CASE PanelStop
  BY <1>14, SameScene DEF PanelStop, Ghosts, ApsAside, GuiAside, batchVars, diskVars, tabVars,
     apsVars, magnetVars, bounds
<1>15. CASE Connect
  BY <1>15, SameScene DEF Connect, Ghosts, ApsAside, GuiAside, batchVars, diskVars, tabVars,
     apsVars, magnetVars, bounds
<1>16. ASSUME NEW end \in {"finished", "stopped", "error"}, MeasurementEnds(end) PROVE SceneTypes'
  BY <1>16, SameScene DEF MeasurementEnds, Ghosts, ApsAside, GuiAside, batchVars, diskVars,
     tabVars, apsVars, magnetVars, bounds
<1>17. CASE ApsBeginMove
  BY <1>17, SameScene DEF ApsBeginMove, Ghosts, ApsAside, GuiAside, batchVars, diskVars,
     tabVars, apsVars, magnetVars, bounds
<1>18. ASSUME NEW ok \in BOOLEAN, ApsEndMove(ok) PROVE SceneTypes'
  BY <1>18, SameScene DEF ApsEndMove, Ghosts, ApsAside, GuiAside, batchVars, diskVars, tabVars,
     apsVars, magnetVars, bounds
<1>19. CASE ApsPause
  BY <1>19, SameScene DEF ApsPause, Ghosts, ApsAside, GuiAside, batchVars, diskVars, tabVars,
     apsVars, magnetVars, bounds
<1>20. CASE ApsConnect
  BY <1>20, SameScene DEF ApsConnect, Ghosts, ApsAside, GuiAside, batchVars, diskVars, tabVars,
     apsVars, magnetVars, bounds
<1>21. CASE ApsPoll
  BY <1>21, SameScene DEF ApsPoll, Ghosts, ApsAside, GuiAside, batchVars, diskVars, tabVars,
     apsVars, magnetVars, bounds
<1>22. CASE ApsFault
  BY <1>22, SameScene DEF ApsFault, Ghosts, ApsAside, GuiAside, batchVars, diskVars, tabVars,
     apsVars, magnetVars, bounds
<1>23. CASE ApsSessionLost
  BY <1>23, SameScene DEF ApsSessionLost, Ghosts, ApsAside, GuiAside, batchVars, diskVars,
     tabVars, apsVars, magnetVars, bounds
<1>24. CASE Crash
  BY <1>24, SameScene DEF Crash, Ghosts, ApsAside, GuiAside, batchVars, diskVars, tabVars,
     apsVars, magnetVars, bounds
<1>25. CASE UNCHANGED vars
  BY <1>25, SameScene DEF vars, Ghosts, ApsAside, GuiAside, batchVars, diskVars, tabVars,
     apsVars, magnetVars, bounds
<1>26. QED
  BY <1>1, <1>2, <1>3, <1>4, <1>5, <1>6, <1>7, <1>8, <1>9, <1>10, <1>11, <1>12, <1>13, <1>14,
     <1>15, <1>16, <1>17, <1>18, <1>19, <1>20, <1>21, <1>22, <1>23, <1>24, <1>25 DEF Next, Gui,
     User, Aps, Measurement

\* The flags, where a handler ends a series, goes on with it or aborts it.
LEMMA FinishFlags ==
    ASSUME NEW end, NEW c, Finish(end, c)
    PROVE  exclusive' \in BOOLEAN /\ confirmed' \in BOOLEAN
  BY DEF Finish, Cleanup

LEMMA VerificationFlags ==
    ASSUME NEW s, NEW c, c.sure \in BOOLEAN, CompleteMoveVerification(s, c)
    PROVE  exclusive' \in BOOLEAN /\ confirmed' \in BOOLEAN /\ workerStop' \in BOOLEAN
<1>1. TabIdle => workerStop' \in BOOLEAN
  BY DEF TabIdle
<1>2. ASSUME NEW p, NEW x, Running(p, x, c) PROVE exclusive' \in BOOLEAN /\ confirmed' \in BOOLEAN
  BY <1>2 DEF Running
<1>3. StartMeasurement(c) => exclusive' \in BOOLEAN /\ confirmed' \in BOOLEAN /\ workerStop' \in BOOLEAN
  BY <1>1, <1>2, FinishFlags DEF StartMeasurement
<1>4. QED
  BY <1>1, <1>2, <1>3, FinishFlags DEF CompleteMoveVerification

LEMMA ChainFlags ==
    ASSUME NEW c, c.sure \in BOOLEAN, RequestNextMove(c)
    PROVE  exclusive' \in BOOLEAN /\ confirmed' \in BOOLEAN /\ workerStop' \in BOOLEAN
<1>1. TabIdle => workerStop' \in BOOLEAN
  BY DEF TabIdle
<1>2. ASSUME NEW p, NEW x, Running(p, x, c) PROVE exclusive' \in BOOLEAN /\ confirmed' \in BOOLEAN
  BY <1>2 DEF Running
<1>3. FinishSuccess(c) => exclusive' \in BOOLEAN /\ confirmed' \in BOOLEAN
  BY DEF FinishSuccess, Cleanup
<1>4. QED
  BY <1>1, <1>2, <1>3, FinishFlags, VerificationFlags DEF RequestNextMove

LEMMA AbortFlags ==
    ASSUME Flags, NEW c, c.sure \in BOOLEAN, Abort(c)
    PROVE  /\ exclusive' \in BOOLEAN /\ confirmed' \in BOOLEAN /\ workerStop' \in BOOLEAN
           /\ pendingFailure' \in BOOLEAN
  BY FinishFlags DEF Abort, Flags

LEMMA PollFlags ==
    ASSUME Flags, NEW t, NEW manual, PollCooldown(t, manual)
    PROVE  /\ exclusive' \in BOOLEAN /\ confirmed' \in BOOLEAN /\ workerStop' \in BOOLEAN
           /\ manualRequired' \in BOOLEAN
<1> DEFINE c == [Now EXCEPT !.thermal = t]
<1>1. c.sure \in BOOLEAN
  BY DEF Now, Flags
<1>2. manualRequired' \in BOOLEAN
  BY DEF PollCooldown, AlarmSeen
<1>3. \/ RequestNextMove(c)
      \/ Finish("failed", Now) /\ TabIdle
      \/ BatchAside /\ UNCHANGED confirmed
  BY DEF PollCooldown
<1> HIDE DEF c
<1>4. BatchAside /\ UNCHANGED confirmed => exclusive' \in BOOLEAN /\ confirmed' \in BOOLEAN /\ workerStop' \in BOOLEAN
  BY DEF BatchAside, Flags
<1>5. Finish("failed", Now) /\ TabIdle => exclusive' \in BOOLEAN /\ confirmed' \in BOOLEAN /\ workerStop' \in BOOLEAN
  BY FinishFlags DEF TabIdle
<1>6. RequestNextMove(c) => exclusive' \in BOOLEAN /\ confirmed' \in BOOLEAN /\ workerStop' \in BOOLEAN
  BY <1>1, ChainFlags
<1>7. QED
  BY <1>2, <1>3, <1>4, <1>5, <1>6

LEMMA FlagsStep == Flags /\ [Next]_vars => Flags'
<1> SUFFICES ASSUME Flags, Next \/ UNCHANGED vars PROVE Flags'
  OBVIOUS
<1>1. CASE OnMoveResult
  <2>0. Now.sure \in BOOLEAN /\ [Now EXCEPT !.sure = FALSE].sure \in BOOLEAN
    BY DEF Now, Flags
  <2>3. TabIdle => workerStop' \in BOOLEAN
    BY DEF TabIdle
  <2>4. BatchAside \/ UNCHANGED <<exclusive, workerStop>> => exclusive' \in BOOLEAN /\ workerStop' \in BOOLEAN
    BY DEF BatchAside, Flags
  <2>5. UNCHANGED workerStop \/ UNCHANGED <<worker, workerStop>> => workerStop' \in BOOLEAN
    BY DEF Flags
  <2>6. UNCHANGED confirmed => confirmed' \in BOOLEAN
    BY DEF Flags
  <2>7. confirmed' = FALSE => confirmed' \in BOOLEAN
    OBVIOUS
  <2>1. exclusive' \in BOOLEAN /\ confirmed' \in BOOLEAN /\ workerStop' \in BOOLEAN
    <3>1. \/ BatchAside /\ UNCHANGED confirmed
          \/ TabIdle /\ \E x : Finish(x, Now)
          \/ CompleteMoveVerification(Head(guiQueue).snap, Now)
      BY <1>1 DEF OnMoveResult
    <3>2. ASSUME NEW x, Finish(x, Now) PROVE exclusive' \in BOOLEAN /\ confirmed' \in BOOLEAN
      BY <3>2, FinishFlags
    <3>3. QED
      BY <2>0, <2>3, <2>4, <2>6, <3>1, <3>2, VerificationFlags
  <2>2. /\ manualRequired' \in BOOLEAN /\ stopRequested' \in BOOLEAN /\ connected' \in BOOLEAN /\ heater' \in BOOLEAN
        /\ alarm' \in BOOLEAN /\ pendingFailure' \in BOOLEAN
    BY <1>1 DEF OnMoveResult, Flags, Ghosts, ApsAside, GuiAside, batchVars, diskVars, tabVars,
       apsVars, magnetVars, bounds
  <2>8. QED
    BY <2>1, <2>2 DEF Flags
<1>2. CASE OnSnapshot
  <2>0. Now.sure \in BOOLEAN /\ [Now EXCEPT !.sure = FALSE].sure \in BOOLEAN
    BY DEF Now, Flags
  <2>1. exclusive' \in BOOLEAN /\ confirmed' \in BOOLEAN /\ workerStop' \in BOOLEAN /\ pendingFailure' \in BOOLEAN
    BY <1>2, <2>0, VerificationFlags DEF OnSnapshot, Flags, BatchAside, TabIdle
  <2>2. manualRequired' \in BOOLEAN /\ stopRequested' \in BOOLEAN /\ connected' \in BOOLEAN /\ heater' \in BOOLEAN /\ alarm' \in BOOLEAN
    BY <1>2 DEF OnSnapshot, Flags, Ghosts, ApsAside, GuiAside, batchVars, diskVars, tabVars,
       apsVars, magnetVars, bounds, AlarmSeen
  <2>3. QED
    BY <2>1, <2>2 DEF Flags
<1>3. CASE OnPauseDone
  <2>0. Now.sure \in BOOLEAN /\ [Now EXCEPT !.sure = FALSE].sure \in BOOLEAN
    BY DEF Now, Flags
  <2>1. exclusive' \in BOOLEAN /\ confirmed' \in BOOLEAN /\ workerStop' \in BOOLEAN /\ pendingFailure' \in BOOLEAN
    BY <1>3, <2>0, FinishFlags DEF OnPauseDone, Flags, BatchAside, TabIdle
  <2>2. manualRequired' \in BOOLEAN /\ stopRequested' \in BOOLEAN /\ connected' \in BOOLEAN /\ heater' \in BOOLEAN /\ alarm' \in BOOLEAN
    BY <1>3 DEF OnPauseDone, Flags, Ghosts, ApsAside, GuiAside, batchVars, diskVars, tabVars,
       apsVars, magnetVars, bounds, AlarmSeen
  <2>3. QED
    BY <2>1, <2>2 DEF Flags
<1>4. CASE OnFault
  <2>0. Now.sure \in BOOLEAN /\ [Now EXCEPT !.sure = FALSE].sure \in BOOLEAN
    BY DEF Now, Flags
  <2>1. exclusive' \in BOOLEAN /\ confirmed' \in BOOLEAN /\ workerStop' \in BOOLEAN /\ pendingFailure' \in BOOLEAN
    BY <1>4, <2>0, AbortFlags DEF OnFault, Flags, BatchAside, TabIdle
  <2>2. manualRequired' \in BOOLEAN /\ stopRequested' \in BOOLEAN /\ connected' \in BOOLEAN /\ heater' \in BOOLEAN /\ alarm' \in BOOLEAN
    BY <1>4 DEF OnFault, Flags, Ghosts, ApsAside, GuiAside, batchVars, diskVars, tabVars,
       apsVars, magnetVars, bounds, AlarmSeen
  <2>3. QED
    BY <2>1, <2>2 DEF Flags
<1>5. CASE OnConnected
  BY <1>5 DEF OnConnected, Flags, BatchAside, Ghosts, ApsAside, GuiAside, batchVars, diskVars,
     tabVars, apsVars, magnetVars, bounds
<1>6. CASE OnDisconnected
  <2> DEFINE unsure == [Now EXCEPT !.sure = FALSE]
  <2>0. unsure.sure \in BOOLEAN
    BY DEF Now
  <2>1. \/ BatchAside /\ confirmed' = FALSE /\ UNCHANGED pendingFailure
        \/ Finish("failed", unsure) /\ UNCHANGED <<workerStop, pendingFailure>>
        \/ Abort(unsure)
    BY <1>6 DEF OnDisconnected
  <2> HIDE DEF unsure
  <2>2. exclusive' \in BOOLEAN /\ confirmed' \in BOOLEAN /\ workerStop' \in BOOLEAN /\ pendingFailure' \in BOOLEAN
    <3>1. CASE BatchAside /\ confirmed' = FALSE /\ UNCHANGED pendingFailure
      BY <3>1 DEF BatchAside, Flags
    <3>2. CASE Finish("failed", unsure) /\ UNCHANGED <<workerStop, pendingFailure>>
      BY <3>2, FinishFlags DEF Flags
    <3>3. CASE Abort(unsure)
      BY <2>0, <3>3, AbortFlags
    <3>4. QED
      BY <2>1, <3>1, <3>2, <3>3
  <2>3. manualRequired' \in BOOLEAN /\ stopRequested' \in BOOLEAN /\ connected' \in BOOLEAN /\ heater' \in BOOLEAN /\ alarm' \in BOOLEAN
    BY <1>6 DEF OnDisconnected, Flags, Ghosts, ApsAside, magnetVars
  <2>4. QED
    BY <2>2, <2>3 DEF Flags
<1>7. CASE OnMeasurementTerminal
  <2> DEFINE done == [Now EXCEPT !.index = index + 1, !.results = Append(results, index + 1)]
             saved == [done EXCEPT !.disk = Saved("job_complete", done)]
  <2>0. done.sure \in BOOLEAN /\ saved.sure \in BOOLEAN
    BY DEF Now, Flags
  <2>1. exclusive' \in BOOLEAN /\ confirmed' \in BOOLEAN /\ workerStop' \in BOOLEAN
    <3>1. RequestNextMove(saved) \/ (TabIdle /\ \E x, d : Finish(x, d))
      BY <1>7 DEF OnMeasurementTerminal
    <3> HIDE DEF done, saved
    <3>2. TabIdle => workerStop' \in BOOLEAN
      BY DEF TabIdle
    <3>3. ASSUME NEW x, NEW d, Finish(x, d) PROVE exclusive' \in BOOLEAN /\ confirmed' \in BOOLEAN
      BY <3>3, FinishFlags
    <3>4. RequestNextMove(saved) => exclusive' \in BOOLEAN /\ confirmed' \in BOOLEAN /\ workerStop' \in BOOLEAN
      BY <2>0, ChainFlags
    <3>5. QED
      BY <3>1, <3>2, <3>3, <3>4
  <2>2. /\ manualRequired' \in BOOLEAN /\ stopRequested' \in BOOLEAN /\ connected' \in BOOLEAN /\ heater' \in BOOLEAN
        /\ alarm' \in BOOLEAN /\ pendingFailure' \in BOOLEAN
    BY <1>7 DEF OnMeasurementTerminal, Flags, Ghosts, ApsAside, magnetVars
  <2>3. QED
    BY <2>1, <2>2 DEF Flags
<1>8. CASE WaitTimeout
  <2>0. Now.sure \in BOOLEAN /\ [Now EXCEPT !.sure = FALSE].sure \in BOOLEAN
    BY DEF Now, Flags
  <2>1. exclusive' \in BOOLEAN /\ confirmed' \in BOOLEAN /\ workerStop' \in BOOLEAN /\ pendingFailure' \in BOOLEAN
    BY <1>8, <2>0, FinishFlags DEF WaitTimeout, Flags, BatchAside, TabIdle
  <2>2. manualRequired' \in BOOLEAN /\ stopRequested' \in BOOLEAN /\ connected' \in BOOLEAN /\ heater' \in BOOLEAN /\ alarm' \in BOOLEAN
    BY <1>8 DEF WaitTimeout, Flags, Ghosts, ApsAside, GuiAside, batchVars, diskVars, tabVars,
       apsVars, magnetVars, bounds, AlarmSeen
  <2>3. QED
    BY <2>1, <2>2 DEF Flags
<1>9. ASSUME NEW t \in scene.thermals, OnLakeShoreSnapshot(t) PROVE Flags'
  <2>0. Now.sure \in BOOLEAN /\ [Now EXCEPT !.sure = FALSE].sure \in BOOLEAN
    BY DEF Now, Flags
  <2>1. \/ Abort(Now) /\ UNCHANGED manualRequired
        \/ PollCooldown(t, FALSE) /\ UNCHANGED pendingFailure
        \/ BatchAside /\ UNCHANGED <<pendingFailure, manualRequired, confirmed>>
    BY <1>9 DEF OnLakeShoreSnapshot
  <2>2. exclusive' \in BOOLEAN /\ confirmed' \in BOOLEAN /\ workerStop' \in BOOLEAN /\ pendingFailure' \in BOOLEAN /\ manualRequired' \in BOOLEAN
    <3>1. CASE Abort(Now) /\ UNCHANGED manualRequired
      <4>1. manualRequired' \in BOOLEAN
        BY <3>1 DEF Flags
      <4>2. QED
        BY <2>0, <3>1, <4>1, AbortFlags
    <3>2. CASE PollCooldown(t, FALSE) /\ UNCHANGED pendingFailure
      <4>1. pendingFailure' \in BOOLEAN
        BY <3>2 DEF Flags
      <4>2. QED
        BY <3>2, <4>1, PollFlags
    <3>3. CASE BatchAside /\ UNCHANGED <<pendingFailure, manualRequired, confirmed>>
      BY <3>3 DEF BatchAside, Flags
    <3>4. QED
      BY <2>1, <3>1, <3>2, <3>3
  <2>3. stopRequested' \in BOOLEAN /\ connected' \in BOOLEAN /\ heater' \in BOOLEAN /\ alarm' \in BOOLEAN
    BY <1>9 DEF OnLakeShoreSnapshot, Flags, ApsAside, magnetVars
  <2>4. QED
    BY <2>2, <2>3 DEF Flags
<1>10. CASE OnLakeShoreDisconnected
  <2>0. Now.sure \in BOOLEAN /\ [Now EXCEPT !.sure = FALSE].sure \in BOOLEAN
    BY DEF Now, Flags
  <2>1. exclusive' \in BOOLEAN /\ confirmed' \in BOOLEAN /\ workerStop' \in BOOLEAN /\ pendingFailure' \in BOOLEAN
    BY <1>10, <2>0, AbortFlags DEF OnLakeShoreDisconnected, Flags, BatchAside, TabIdle
  <2>2. manualRequired' \in BOOLEAN /\ stopRequested' \in BOOLEAN /\ connected' \in BOOLEAN /\ heater' \in BOOLEAN /\ alarm' \in BOOLEAN
    BY <1>10 DEF OnLakeShoreDisconnected, Flags, Ghosts, ApsAside, GuiAside, batchVars,
       diskVars, tabVars, apsVars, magnetVars, bounds, AlarmSeen
  <2>3. QED
    BY <2>1, <2>2 DEF Flags
<1>11. CASE Start \/ Resume
  <2>1. PICK i, res : StartFrom(i, res)
    BY <1>11 DEF Start, Resume
  <2> DEFINE c == [index |-> i, results |-> res, disk |-> checkpoint,
                   thermal |-> thermal, sure |-> TRUE]
             written == [c EXCEPT !.disk = Saved("running", c)]
  <2>2. \/ Finish("failed", c) /\ TabIdle
        \/ RequestNextMove(written)
        \/ Running("thermal_wait", "preflight", written) /\ TabIdle
    BY <2>1 DEF StartFrom
  <2>3. c.sure \in BOOLEAN /\ written.sure \in BOOLEAN
    OBVIOUS
  <2> HIDE DEF c, written
  <2>4. exclusive' \in BOOLEAN /\ confirmed' \in BOOLEAN /\ workerStop' \in BOOLEAN
    <3>1. TabIdle => workerStop' \in BOOLEAN
      BY DEF TabIdle
    <3>2. Running("thermal_wait", "preflight", written) => exclusive' \in BOOLEAN /\ confirmed' \in BOOLEAN
      BY <2>3 DEF Running
    <3>3. Finish("failed", c) => exclusive' \in BOOLEAN /\ confirmed' \in BOOLEAN
      BY FinishFlags
    <3>4. RequestNextMove(written) => exclusive' \in BOOLEAN /\ confirmed' \in BOOLEAN /\ workerStop' \in BOOLEAN
      BY <2>3, ChainFlags
    <3>5. QED
      BY <2>2, <3>1, <3>2, <3>3, <3>4
  <2>5. /\ manualRequired' \in BOOLEAN /\ stopRequested' \in BOOLEAN /\ connected' \in BOOLEAN /\ heater' \in BOOLEAN
        /\ alarm' \in BOOLEAN /\ pendingFailure' \in BOOLEAN
    BY <2>1 DEF StartFrom, Flags, magnetVars
  <2>6. QED
    BY <2>4, <2>5 DEF Flags
<1>12. CASE Stop
  <2>0. Now.sure \in BOOLEAN /\ [Now EXCEPT !.sure = FALSE].sure \in BOOLEAN
    BY DEF Now, Flags
  <2>1. exclusive' \in BOOLEAN /\ confirmed' \in BOOLEAN /\ workerStop' \in BOOLEAN /\ pendingFailure' \in BOOLEAN
    BY <1>12, <2>0, FinishFlags DEF Stop, Flags, BatchAside, TabIdle
  <2>2. manualRequired' \in BOOLEAN /\ stopRequested' \in BOOLEAN /\ connected' \in BOOLEAN /\ heater' \in BOOLEAN /\ alarm' \in BOOLEAN
    BY <1>12 DEF Stop, Flags, Ghosts, ApsAside, GuiAside, batchVars, diskVars, tabVars,
       apsVars, magnetVars, bounds, AlarmSeen
  <2>3. QED
    BY <2>1, <2>2 DEF Flags
<1>13. CASE Continue
  <2>1. exclusive' \in BOOLEAN /\ confirmed' \in BOOLEAN /\ workerStop' \in BOOLEAN /\ pendingFailure' \in BOOLEAN /\ manualRequired' \in BOOLEAN
    BY <1>13, PollFlags DEF Continue, Flags
  <2>2. /\ stopRequested' \in BOOLEAN /\ connected' \in BOOLEAN /\ heater' \in BOOLEAN /\ alarm' \in BOOLEAN
    BY <1>13 DEF Continue, Flags, ApsAside, magnetVars
  <2>3. QED
    BY <2>1, <2>2 DEF Flags
<1>14. CASE PanelStop
  BY <1>14 DEF PanelStop, Flags, BatchAside, Ghosts, ApsAside, GuiAside, batchVars, diskVars,
     tabVars, apsVars, magnetVars, bounds
<1>15. CASE Connect
  BY <1>15 DEF Connect, Flags, BatchAside, Ghosts, ApsAside, GuiAside, batchVars, diskVars,
     tabVars, apsVars, magnetVars, bounds
<1>16. ASSUME NEW end \in {"finished", "stopped", "error"}, MeasurementEnds(end) PROVE Flags'
  BY <1>16 DEF MeasurementEnds, Flags, BatchAside, Ghosts, ApsAside, GuiAside, batchVars,
     diskVars, tabVars, apsVars, magnetVars, bounds
<1>17. CASE ApsBeginMove
  BY <1>17 DEF ApsBeginMove, Flags, BatchAside, Ghosts, ApsAside, GuiAside, batchVars,
     diskVars, tabVars, apsVars, magnetVars, bounds
<1>18. ASSUME NEW ok \in BOOLEAN, ApsEndMove(ok) PROVE Flags'
  BY <1>18 DEF ApsEndMove, Flags, BatchAside, Ghosts, ApsAside, GuiAside, batchVars, diskVars,
     tabVars, apsVars, magnetVars, bounds
<1>19. CASE ApsPause
  BY <1>19 DEF ApsPause, Flags, BatchAside, Ghosts, ApsAside, GuiAside, batchVars, diskVars,
     tabVars, apsVars, magnetVars, bounds
<1>20. CASE ApsConnect
  BY <1>20 DEF ApsConnect, Flags, BatchAside, Ghosts, ApsAside, GuiAside, batchVars, diskVars,
     tabVars, apsVars, magnetVars, bounds
<1>21. CASE ApsPoll
  BY <1>21 DEF ApsPoll, Flags, BatchAside, Ghosts, ApsAside, GuiAside, batchVars, diskVars,
     tabVars, apsVars, magnetVars, bounds
<1>22. CASE ApsFault
  BY <1>22 DEF ApsFault, Flags, BatchAside, Ghosts, ApsAside, GuiAside, batchVars, diskVars,
     tabVars, apsVars, magnetVars, bounds
<1>23. CASE ApsSessionLost
  BY <1>23 DEF ApsSessionLost, Flags, BatchAside, Ghosts, ApsAside, GuiAside, batchVars,
     diskVars, tabVars, apsVars, magnetVars, bounds
<1>24. CASE Crash
  BY <1>24 DEF Crash, Flags, BatchAside, Ghosts, ApsAside, GuiAside, batchVars, diskVars,
     tabVars, apsVars, magnetVars, bounds
<1>25. CASE UNCHANGED vars
  BY <1>25 DEF vars, Flags, BatchAside, Ghosts, ApsAside, GuiAside, batchVars, diskVars,
     tabVars, apsVars, magnetVars, bounds
<1>26. QED
  BY <1>1, <1>2, <1>3, <1>4, <1>5, <1>6, <1>7, <1>8, <1>9, <1>10, <1>11, <1>12, <1>13, <1>14,
     <1>15, <1>16, <1>17, <1>18, <1>19, <1>20, <1>21, <1>22, <1>23, <1>24, <1>25 DEF Next, Gui,
     User, Aps, Measurement

-----------------------------------------------------------------------------
LEMMA DiskMade ==
    ASSUME scene' = scene, results' \in Seq(1 .. NumJobs), checkpoint' \in Checkpoints,
           data' \subseteq 1 .. NumJobs, worker' \in {"none", "running", "finished", "stopped", "error"}
    PROVE  DiskTypes'
<1>1. NumJobs' = NumJobs
  BY DEF NumJobs, JobField
<1>2. QED
  BY <1>1 DEF DiskTypes, Checkpoints

LEMMA BatchMade ==
    ASSUME scene' = scene, confirmed' \in BOOLEAN, phase' \in Phases, index' \in 0 .. NumJobs,
           moveId' \in Ids \cup {NoId}, lastField' \in FieldOrAway, snap' \in Snapshots,
           waitContext' \in {"none", "preflight", "pre_move", "post_move"}
    PROVE  BatchTypes'
<1>1. NumJobs' = NumJobs
  BY DEF NumJobs, JobField
<1>2. QED
  BY <1>1 DEF BatchTypes

LEMMA ApsMade ==
    ASSUME ApsTypes, NEW kinds, guiQueue' = guiQueue \/ TakesEvent(kinds) \/ guiQueue' \in Seq(Events),
           NEW op, apsQueue' = apsQueue \/ PauseMagnet \/ ApsTake(op) \/ apsQueue' \in Seq(ApsItems),
           apsNow' \in ApsItems, field' \in FieldOrAway
    PROVE  ApsTypes'
<1>1. guiQueue' \in Seq(Events)
  BY LeftInQueue DEF ApsTypes
<1>2. apsQueue' \in Seq(ApsItems)
  BY Paused, ApsTaken DEF ApsTypes
<1>3. QED
  BY <1>1, <1>2 DEF ApsTypes

\* The cursor of a handler, typed.
LEMMA CursorTypes ==
    ASSUME SceneTypes, NEW c, Cursor(c)
    PROVE  /\ c.index \in 0 .. NumJobs /\ c.results \in Seq(1 .. NumJobs) /\ c.disk \in Checkpoints
           /\ \A end \in {"complete", "stopped", "failed"} : Saved(end, c) \in Checkpoints
           /\ c.index < NumJobs => Target(c) \in Fields
<1>1. NumJobs \in Nat /\ \A i \in 1 .. NumJobs : JobField[i] \in Fields
  BY Jobs
<1>2. c.index \in 0 .. NumJobs /\ c.disk \in Checkpoints /\ c.results = Upto(c.index)
  BY DEF Cursor
<1>3. c.results \in Seq(1 .. NumJobs)
  BY <1>1, <1>2, UptoIs
<1>4. \A end \in {"complete", "stopped", "failed"} : Saved(end, c) \in Checkpoints
  BY <1>2, <1>3 DEF Saved, Checkpoints
<1>5. c.index < NumJobs => Target(c) \in Fields
  BY <1>1, <1>2 DEF Target
<1>6. QED
  BY <1>2, <1>3, <1>4, <1>5

LEMMA CoreTypes ==
    ASSUME Types, Core, confirmed' \in BOOLEAN, phase' \in Phases, snap' \in Snapshots,
           NEW kinds, guiQueue' = guiQueue \/ TakesEvent(kinds), apsQueue' = apsQueue \/ PauseMagnet
    PROVE  BatchTypes' /\ DiskTypes' /\ ApsTypes'
<1>1. BatchTypes'
  BY BatchMade DEF Types, BatchTypes, Core
<1>2. DiskTypes'
  BY DiskMade DEF Types, DiskTypes, Core
<1>3. ApsTypes'
  <2>1. apsNow' \in ApsItems /\ field' \in FieldOrAway
    BY DEF Types, ApsTypes, Core
  <2>2. QED
    BY <2>1, ApsMade DEF Types
<1>4. QED
  BY <1>1, <1>2, <1>3

\* The types, through every step.
LEMMA TypesStep == Holds /\ [Next]_vars => BatchTypes' /\ DiskTypes' /\ ApsTypes'
<1> SUFFICES ASSUME Holds, Types, IInv, Next \/ UNCHANGED vars PROVE BatchTypes' /\ DiskTypes' /\ ApsTypes'
  BY DEF Holds
<1>0. confirmed' \in BOOLEAN
  BY FlagsStep DEF Holds, Flags
<1>1. ASSUME NEW c, Goes(c) PROVE BatchTypes' /\ DiskTypes' /\ ApsTypes'
  <2>1. /\ scene' = scene /\ data' = data /\ apsNow' = apsNow /\ field' = field /\ Leads(c) /\ snap' \in Snapshots
        /\ guiQueue' = guiQueue \/ TakesEvent({"result", "snapshot"})
        /\ Cursor(c)
    BY <1>1 DEF Goes
  <2>2. /\ c.index \in 0 .. NumJobs /\ c.results \in Seq(1 .. NumJobs) /\ c.disk \in Checkpoints
        /\ \A end \in {"complete", "stopped", "failed"} : Saved(end, c) \in Checkpoints
        /\ c.index < NumJobs => Target(c) \in FieldOrAway
    BY <2>1, CursorTypes DEF Types, FieldOrAway
  <2>3. moveId' \in Ids \cup {NoId}
    <3>1. moveId' \in {moveId, NoId} \/ (moveId' = FreshId /\ guiQueue' = guiQueue)
      BY <2>1 DEF Leads, Over, NoMove
    <3>2. moveId' = FreshId /\ guiQueue' = guiQueue => FreshId \in Ids
      BY <1>1, MoveIsFresh
    <3>3. QED
      BY <3>1, <3>2 DEF Types, BatchTypes
  <2>4. BatchTypes'
    <3>1. lastField' \in FieldOrAway
      BY <2>1, <2>2 DEF Leads, Over, GoesTo, Types, BatchTypes, FieldOrAway
    <3>2. phase' \in Phases /\ waitContext' \in {"none", "preflight", "pre_move", "post_move"} /\ index' \in 0 .. NumJobs
      BY <2>1, <2>2 DEF Leads, Over, GoesTo, Phases
    <3>3. QED
      BY <1>0, <2>1, <2>3, <3>1, <3>2, BatchMade
  <2>5. DiskTypes'
    <3>1. results' \in Seq(1 .. NumJobs) /\ checkpoint' \in Checkpoints
      BY <2>1, <2>2 DEF Leads, Over, GoesTo
    <3>2. worker' \in {"none", "running", "finished", "stopped", "error"}
      BY <2>1 DEF Leads, Over
    <3>3. QED
      BY <2>1, <3>1, <3>2, DiskMade DEF Types, DiskTypes
  <2>6. ApsTypes'
    <3>1. apsQueue' \in Seq(ApsItems)
      <4>1. CASE apsQueue' = apsQueue
        BY <4>1 DEF Types, ApsTypes
      <4>2. CASE apsQueue' # apsQueue
        <5> DEFINE e == [op |-> "move", id |-> FreshId, target |-> Target(c), sure |-> c.sure]
        <5>1. apsQueue' = Append(apsQueue, e) /\ guiQueue' = guiQueue /\ c.index < NumJobs
          BY <2>1, <4>2 DEF Leads, Over, NoMove, GoesTo
        <5>2. FreshId \in Ids
          BY <1>1, <5>1, MoveIsFresh
        <5>3. c.sure \in BOOLEAN
          BY <2>1 DEF Cursor
        <5>4. e \in ApsItems
          BY <2>2, <5>1, <5>2, <5>3 DEF ApsItems
        <5> HIDE DEF e
        <5>5. QED
          BY <5>1, <5>4, ApsAdded DEF Types
      <4>3. QED
        BY <4>1, <4>2
    <3>2. apsNow' \in ApsItems /\ field' \in FieldOrAway
      BY <2>1 DEF Types, ApsTypes
    <3>3. QED
      BY <2>1, <3>1, <3>2, ApsMade DEF Types
  <2>7. QED
    BY <2>4, <2>5, <2>6
<1>2. ASSUME NEW c, Ends(c) PROVE BatchTypes' /\ DiskTypes' /\ ApsTypes'
  <2>1. /\ scene' = scene /\ data' = data /\ apsNow' = apsNow /\ field' = field /\ Over(c) /\ Cursor(c)
    BY <1>2 DEF Ends
  <2>2. /\ c.index \in 0 .. NumJobs /\ c.results \in Seq(1 .. NumJobs) /\ c.disk \in Checkpoints
        /\ \A end \in {"complete", "stopped", "failed"} : Saved(end, c) \in Checkpoints
    BY <2>1, CursorTypes DEF Types
  <2>3. snap' \in Snapshots
    BY <1>2, SignalsAre DEF Ends, Types, BatchTypes
  <2>4. BatchTypes'
    <3>1. /\ phase' \in Phases /\ index' \in 0 .. NumJobs /\ moveId' \in Ids \cup {NoId}
          /\ lastField' \in FieldOrAway /\ waitContext' \in {"none", "preflight", "pre_move", "post_move"}
      BY <2>1, <2>2 DEF Over, Phases, Types, BatchTypes, FieldOrAway
    <3>2. QED
      BY <1>0, <2>1, <2>3, <3>1, BatchMade
  <2>5. DiskTypes'
    <3>1. results' \in Seq(1 .. NumJobs) /\ checkpoint' \in Checkpoints /\ worker' = "none"
      BY <2>1, <2>2 DEF Over
    <3>2. QED
      BY <2>1, <3>1, DiskMade DEF Types, DiskTypes
  <2>6. ApsTypes'
    <3>1. \E kinds : guiQueue' = guiQueue \/ TakesEvent(kinds)
      BY <1>2 DEF Ends
    <3>2. apsNow' \in ApsItems /\ field' \in FieldOrAway /\ apsQueue' = apsQueue
      BY <2>1 DEF Types, ApsTypes, Over
    <3>3. QED
      BY <3>1, <3>2, ApsMade DEF Types
  <2>7. QED
    BY <2>4, <2>5, <2>6
<1>3. CASE Drops
  <2>1. PICK kinds : TakesEvent(kinds)
    BY <1>3 DEF Drops
  <2>2. Head(guiQueue) \in Events
    BY <2>1, LeftInQueue DEF Types
  <2>3. Head(guiQueue).snap \in Snapshots
    BY <2>2 DEF Events
  <2>4. Core /\ phase' \in Phases /\ snap' \in Snapshots /\ apsQueue' = apsQueue
    BY <1>3, <2>3, SignalsAre DEF Drops, Types, BatchTypes
  <2>5. QED
    BY <1>0, <2>1, <2>4, CoreTypes
<1>4. CASE AbortsRun
  <2>1. Core /\ phase' \in Phases /\ snap' \in Snapshots
    BY <1>4, <1>0, SignalsAre DEF AbortsRun, Phases, Types, BatchTypes, Core
  <2>2. \E kinds : guiQueue' = guiQueue \/ TakesEvent(kinds)
    BY <1>4 DEF AbortsRun
  <2>3. apsQueue' = apsQueue \/ PauseMagnet
    BY <1>4 DEF AbortsRun
  <2>4. QED
    BY <1>0, <2>1, <2>2, <2>3, CoreTypes
<1>5. CASE AbortsMove
  <2>1. Core /\ phase' \in Phases /\ snap' \in Snapshots
    BY <1>5, <1>0 DEF AbortsMove, Phases, Types, BatchTypes, Core
  <2>2. \E kinds : guiQueue' = guiQueue \/ TakesEvent(kinds)
    BY <1>5 DEF AbortsMove
  <2>3. apsQueue' = apsQueue \/ PauseMagnet
    BY <1>5 DEF AbortsMove
  <2>4. QED
    BY <1>0, <2>1, <2>2, <2>3, CoreTypes
<1>6. CASE Waits \/ Reads
  <2>1. Core /\ phase' \in Phases /\ snap' \in Snapshots
    BY <1>6, <1>0 DEF Waits, Reads, Phases, Types, BatchTypes, Core
  <2>2. \E kinds : guiQueue' = guiQueue \/ TakesEvent(kinds)
    BY <1>6 DEF Waits, Reads
  <2>3. apsQueue' = apsQueue \/ PauseMagnet
    BY <1>6 DEF Waits, Reads
  <2>4. QED
    BY <1>0, <2>1, <2>2, <2>3, CoreTypes
<1>7. CASE Stops
  <2>1. Core /\ phase' \in Phases /\ snap' \in Snapshots
    BY <1>7, <1>0 DEF Stops, Phases, Types, BatchTypes, Core
  <2>2. \E kinds : guiQueue' = guiQueue \/ TakesEvent(kinds)
    BY <1>7 DEF Stops
  <2>3. apsQueue' = apsQueue \/ PauseMagnet
    BY <1>7 DEF Stops
  <2>4. QED
    BY <1>0, <2>1, <2>2, <2>3, CoreTypes
<1>8. CASE PanelStop
  <2>1. UNCHANGED <<phase, index, moveId, lastField, snap, waitContext, results, checkpoint, data, worker, scene>>
    BY <1>8 DEF PanelStop, GuiAside, batchVars, diskVars, tabVars, bounds
  <2>2. BatchTypes'
    BY <1>0, <2>1, BatchMade DEF Types, BatchTypes
  <2>3. DiskTypes'
    BY <2>1, DiskMade DEF Types, DiskTypes
  <2>4. ApsTypes'
    <3>1. apsNow' \in ApsItems /\ field' \in FieldOrAway
      BY <1>8 DEF PanelStop, apsVars, magnetVars, Types, ApsTypes
    <3>2. QED
      BY <1>8, <3>1, ApsMade DEF Types, PanelStop, apsVars
  <2>5. QED
    BY <2>2, <2>3, <2>4
<1>9. CASE Connect
  <2>1. UNCHANGED <<phase, index, moveId, lastField, snap, waitContext, results, checkpoint, data, worker, scene>>
    BY <1>9 DEF Connect, GuiAside, batchVars, diskVars, tabVars, bounds
  <2>2. BatchTypes'
    BY <1>0, <2>1, BatchMade DEF Types, BatchTypes
  <2>3. DiskTypes'
    BY <2>1, DiskMade DEF Types, DiskTypes
  <2>4. ApsTypes'
    <3>1. ConnectItem \in ApsItems
      BY DEF ConnectItem, ApsIdle, ApsItems, FieldOrAway
    <3>2. apsQueue' = Append(apsQueue, ConnectItem) /\ UNCHANGED <<apsNow, field, guiQueue>>
      BY <1>9 DEF Connect, magnetVars
    <3> HIDE DEF ConnectItem
    <3>3. apsQueue' \in Seq(ApsItems)
      BY <3>1, <3>2, ApsAdded DEF Types
    <3>4. QED
      BY <3>2, <3>3 DEF Types, ApsTypes
  <2>5. QED
    BY <2>2, <2>3, <2>4
<1>10. ASSUME NEW end \in {"finished", "stopped", "error"}, MeasurementEnds(end) PROVE BatchTypes' /\ DiskTypes' /\ ApsTypes'
  <2>1. UNCHANGED <<phase, index, moveId, lastField, snap, waitContext, results, checkpoint, scene, apsQueue, apsNow, field, guiQueue>>
        /\ worker = "running" /\ worker' = end /\ data' \subseteq data \cup {index + 1}
    BY <1>10 DEF MeasurementEnds, batchVars, apsVars, magnetVars, bounds
  <2>2. BatchTypes'
    BY <1>0, <2>1, BatchMade DEF Types, BatchTypes
  <2>3. index + 1 \in 1 .. NumJobs
    <3>1. phase \in {"measuring", "stopping"}
      BY <2>1 DEF IInv, Series
    <3>2. Active
      BY <3>1 DEF Active, Ended
    <3>3. index < NumJobs
      BY <3>2 DEF IInv, Series
    <3>4. NumJobs \in Nat
      BY Jobs DEF Types
    <3>5. QED
      BY <3>3, <3>4 DEF Types, BatchTypes
  <2>4. DiskTypes'
    BY <2>1, <2>3, DiskMade DEF Types, DiskTypes
  <2>5. ApsTypes'
    BY <2>1 DEF Types, ApsTypes
  <2>6. QED
    BY <2>2, <2>4, <2>5
<1>11. CASE ApsBeginMove
  <2>1. UNCHANGED <<phase, index, moveId, lastField, snap, waitContext, results, checkpoint, data, worker, scene>>
    BY <1>11 DEF ApsBeginMove, GuiAside, batchVars, diskVars, tabVars, bounds
  <2>2. BatchTypes'
    BY <1>0, <2>1, BatchMade DEF Types, BatchTypes
  <2>3. DiskTypes'
    BY <2>1, DiskMade DEF Types, DiskTypes
  <2>4. ApsTypes'
    <3>1. ApsTake("move") /\ field' = field
      BY <1>11 DEF ApsBeginMove, magnetVars
    <3>2. Head(apsQueue) \in ApsItems /\ apsQueue' \in Seq(ApsItems)
      BY <3>1, ApsTaken DEF Types
    <3>3. apsNow' \in ApsItems
      BY <1>11, <3>2 DEF ApsBeginMove, Types, ApsTypes
    <3>4. guiQueue' \in Seq(Events)
      <4>1. CASE guiQueue' = guiQueue
        BY <4>1 DEF Types, ApsTypes
      <4>2. CASE guiQueue' # guiQueue
        <5> DEFINE e == Event("result", Head(apsQueue).id, FALSE, NoSnap)
        <5>1. guiQueue' = Append(guiQueue, e)
          BY <1>11, <4>2 DEF ApsBeginMove
        <5>2. Head(apsQueue).id \in Ids \cup {NoId} /\ FALSE \in BOOLEAN /\ NoSnap \in Snapshots
          BY <3>2, SignalsAre DEF ApsItems
        <5>3. e \in Events
          BY <5>2, SignalsAre
        <5> HIDE DEF e
        <5>4. QED
          BY <5>1, <5>3, GuiAdded DEF Types
      <4>3. QED
        BY <4>1, <4>2
    <3>5. QED
      BY <3>1, <3>2, <3>3, <3>4 DEF Types, ApsTypes
  <2>5. QED
    BY <2>2, <2>3, <2>4
<1>12. ASSUME NEW ok \in BOOLEAN, ApsEndMove(ok) PROVE BatchTypes' /\ DiskTypes' /\ ApsTypes'
  <2>1. UNCHANGED <<phase, index, moveId, lastField, snap, waitContext, results, checkpoint, data, worker, scene>>
    BY <1>12 DEF ApsEndMove, GuiAside, batchVars, diskVars, tabVars, bounds
  <2>2. BatchTypes'
    BY <1>0, <2>1, BatchMade DEF Types, BatchTypes
  <2>3. DiskTypes'
    BY <2>1, DiskMade DEF Types, DiskTypes
  <2>4. ApsTypes'
    <3>1. apsNow.op = "move" /\ apsNow' = ApsIdle /\ apsQueue' = apsQueue
      BY <1>12 DEF ApsEndMove
    <3>2. ~Pending("disconnected")
      BY <3>1 DEF IInv, Flight
    <3>3. guiQueue' \in Seq(Events)
      BY <1>12, <3>2, MoveAnswered DEF IInv, Session, Types
    <3>4. field' \in FieldOrAway
      <4>1. field' \in {field, apsNow.target, Away}
        BY <1>12 DEF ApsEndMove
      <4>2. QED
        BY <4>1 DEF Types, ApsTypes, ApsItems, FieldOrAway
    <3>5. ApsIdle \in ApsItems
      BY DEF ApsIdle, ApsItems, FieldOrAway
    <3>6. QED
      BY <3>1, <3>3, <3>4, <3>5 DEF Types, ApsTypes
  <2>5. QED
    BY <2>2, <2>3, <2>4
<1>13. CASE ApsPause
  <2>1. UNCHANGED <<phase, index, moveId, lastField, snap, waitContext, results, checkpoint, data, worker, scene>>
    BY <1>13 DEF ApsPause, GuiAside, batchVars, diskVars, tabVars, bounds
  <2>2. BatchTypes'
    BY <1>0, <2>1, BatchMade DEF Types, BatchTypes
  <2>3. DiskTypes'
    BY <2>1, DiskMade DEF Types, DiskTypes
  <2>4. ApsTypes'
    <3>1. ApsTake("pause") /\ UNCHANGED <<apsNow, field>>
      BY <1>13 DEF ApsPause, magnetVars
    <3>2. guiQueue' \in Seq(Events)
      <4>1. CASE guiQueue' = guiQueue
        BY <4>1 DEF Types, ApsTypes
      <4>2. CASE guiQueue' # guiQueue
        <5>1. PICK ok \in BOOLEAN : guiQueue' = Append(guiQueue, Event("pause", NoId, ok, NoSnap))
          BY <1>13, <4>2 DEF ApsPause
        <5> DEFINE e == Event("pause", NoId, ok, NoSnap)
        <5>2. e \in Events /\ guiQueue' = Append(guiQueue, e)
          BY <5>1, SignalsAre
        <5> HIDE DEF e
        <5>3. QED
          BY <5>2, GuiAdded DEF Types
      <4>3. QED
        BY <4>1, <4>2
    <3>3. apsNow' \in ApsItems /\ field' \in FieldOrAway
      BY <3>1 DEF Types, ApsTypes
    <3>4. QED
      BY <3>1, <3>2, <3>3, ApsMade DEF Types
  <2>5. QED
    BY <2>2, <2>3, <2>4
<1>14. CASE ApsConnect
  <2>1. UNCHANGED <<phase, index, moveId, lastField, snap, waitContext, results, checkpoint, data, worker, scene>>
    BY <1>14 DEF ApsConnect, GuiAside, batchVars, diskVars, tabVars, bounds
  <2>2. BatchTypes'
    BY <1>0, <2>1, BatchMade DEF Types, BatchTypes
  <2>3. DiskTypes'
    BY <2>1, DiskMade DEF Types, DiskTypes
  <2>4. ApsTypes'
    <3>1. ApsTake("connect") /\ UNCHANGED <<apsNow, field>>
      BY <1>14 DEF ApsConnect, magnetVars
    <3>2. guiQueue' \in Seq(Events)
      BY <1>14, ReplacedOld
    <3>3. apsNow' \in ApsItems /\ field' \in FieldOrAway
      BY <3>1 DEF Types, ApsTypes
    <3>4. QED
      BY <3>1, <3>2, <3>3, ApsMade DEF Types
  <2>5. QED
    BY <2>2, <2>3, <2>4
<1>15. CASE ApsPoll
  <2>1. UNCHANGED <<phase, index, moveId, lastField, snap, waitContext, results, checkpoint, data, worker, scene>>
    BY <1>15 DEF ApsPoll, apsVars, GuiAside, batchVars, diskVars, tabVars, bounds
  <2>2. BatchTypes'
    BY <1>0, <2>1, BatchMade DEF Types, BatchTypes
  <2>3. DiskTypes'
    BY <2>1, DiskMade DEF Types, DiskTypes
  <2>4. ApsTypes'
    <3>1. heater \in BOOLEAN
      BY DEF Holds, Flags
    <3>2. guiQueue' \in Seq(Events)
      BY <1>15, <3>1, Polled DEF IInv, Session, Types
    <3>3. UNCHANGED <<apsNow, field, apsQueue>>
      BY <1>15 DEF ApsPoll, apsVars, magnetVars
    <3>4. QED
      BY <3>2, <3>3 DEF Types, ApsTypes
  <2>5. QED
    BY <2>2, <2>3, <2>4
<1>16. CASE ApsFault
  <2>1. UNCHANGED <<phase, index, moveId, lastField, snap, waitContext, results, checkpoint, data, worker, scene>>
    BY <1>16 DEF ApsFault, apsVars, GuiAside, batchVars, diskVars, tabVars, bounds
  <2>2. BatchTypes'
    BY <1>0, <2>1, BatchMade DEF Types, BatchTypes
  <2>3. DiskTypes'
    BY <2>1, DiskMade DEF Types, DiskTypes
  <2>4. ApsTypes'
    <3>1. Signal("fault") \in Events
      BY SignalsAre
    <3>2. guiQueue' \in Seq(Events)
      BY <1>16, <3>1, GuiAdded DEF Types, ApsFault
    <3>3. UNCHANGED <<apsNow, field, apsQueue>>
      BY <1>16 DEF ApsFault, apsVars, magnetVars
    <3>4. QED
      BY <3>2, <3>3 DEF Types, ApsTypes
  <2>5. QED
    BY <2>2, <2>3, <2>4
<1>17. CASE ApsSessionLost
  <2>1. UNCHANGED <<phase, index, moveId, lastField, snap, waitContext, results, checkpoint, data, worker, scene>>
    BY <1>17 DEF ApsSessionLost, GuiAside, batchVars, diskVars, tabVars, bounds
  <2>2. BatchTypes'
    BY <1>0, <2>1, BatchMade DEF Types, BatchTypes
  <2>3. DiskTypes'
    BY <2>1, DiskMade DEF Types, DiskTypes
  <2>4. ApsTypes'
    <3>1. UNCHANGED <<apsNow, field, apsQueue>>
      BY <1>17 DEF ApsSessionLost, magnetVars
    <3>2. guiQueue' \in Seq(Events)
      BY <1>17, ReplacedOld
    <3>3. QED
      BY <3>1, <3>2 DEF Types, ApsTypes
  <2>5. QED
    BY <2>2, <2>3, <2>4
<1>18. CASE Crash
  <2>1. /\ phase' = "idle" /\ index' = 0 /\ results' = <<>> /\ moveId' = NoId /\ lastField' = Away
        /\ snap' = NoSnap /\ waitContext' = "none" /\ worker' = "none" /\ apsQueue' = <<>>
        /\ guiQueue' = <<>> /\ apsNow' = ApsIdle
        /\ UNCHANGED <<checkpoint, data, scene>> /\ field' \in {field, apsNow.target, Away}
    BY <1>18 DEF Crash, diskVars, magnetVars
  <2>2. NumJobs \in Nat
    BY Jobs DEF Types
  <2>3. BatchTypes'
    <3>1. 0 \in 0 .. NumJobs /\ NoSnap \in Snapshots /\ Away \in FieldOrAway /\ "idle" \in Phases
      BY <2>2, SignalsAre DEF FieldOrAway, Phases
    <3>2. QED
      BY <1>0, <2>1, <3>1, BatchMade
  <2>4. DiskTypes'
    <3>1. <<>> \in Seq(1 .. NumJobs)
      OBVIOUS
    <3>2. QED
      BY <2>1, <3>1, DiskMade DEF Types, DiskTypes
  <2>5. ApsTypes'
    <3>1. <<>> \in Seq(ApsItems) /\ <<>> \in Seq(Events)
      OBVIOUS
    <3>2. field' \in FieldOrAway
      BY <2>1 DEF Types, ApsTypes, ApsItems, FieldOrAway
    <3>3. ApsIdle \in ApsItems
      BY DEF ApsIdle, ApsItems, FieldOrAway
    <3>4. QED
      BY <2>1, <3>1, <3>2, <3>3 DEF ApsTypes
  <2>6. QED
    BY <2>3, <2>4, <2>5
<1>19. CASE UNCHANGED vars
  <2>1. UNCHANGED <<phase, index, moveId, lastField, snap, waitContext, results, checkpoint, data, worker, scene>>
    BY <1>19 DEF vars, batchVars, diskVars, tabVars, bounds
  <2>2. BatchTypes'
    BY <1>0, <2>1, BatchMade DEF Types, BatchTypes
  <2>3. DiskTypes'
    BY <2>1, DiskMade DEF Types, DiskTypes
  <2>4. ApsTypes'
    <3>1. UNCHANGED <<apsNow, field, apsQueue, guiQueue>>
      BY <1>19 DEF vars, apsVars, magnetVars
    <3>2. QED
      BY <3>1 DEF Types, ApsTypes
  <2>5. QED
    BY <2>2, <2>3, <2>4
<1>20. QED
  BY <1>1, <1>2, <1>3, <1>4, <1>5, <1>6, <1>7, <1>8, <1>9, <1>10, <1>11, <1>12, <1>13, <1>14,
     <1>15, <1>16, <1>17, <1>18, <1>19, StepsAre DEF Aps, Measurement, Next

-----------------------------------------------------------------------------
(* The invariant, and what it says.                                        *)

LEMMA InitHolds == Init => Holds
<1> SUFFICES ASSUME Init PROVE Holds
  OBVIOUS
<1>1. SceneTypes
  <2>1. scene \in Scenes /\ thermal \in scene.thermals /\ starts = 0 /\ losses = 0 /\ faults = 0
    BY DEF Init
  <2>2. scene.starts \in Nat /\ scene.losses \in Nat /\ scene.faults \in Nat /\ scene.thermals \subseteq Verdicts
    BY <2>1, ConstantsAssumption
  <2>3. QED
    BY <2>1, <2>2 DEF SceneTypes
<1>2. NumJobs \in Nat /\ 0 \in 0 .. NumJobs
  BY <1>1, Jobs
<1>3. Upto(0) = <<>> /\ 1 .. 0 = {}
  <2>1. Upto(0) = <<>>
    BY <1>2, UptoIs
  <2>2. 1 .. 0 = {}
    OBVIOUS
  <2>3. QED
    BY <2>1, <2>2
<1>4. /\ Len(<<>>) = 0 /\ \A i \in 1 .. 0 : FALSE
  OBVIOUS
<1>5. BatchTypes
  <2>1. NoSnap \in Snapshots
    BY SignalsAre
  <2>2. QED
    BY <1>2, <2>1 DEF Init, BatchTypes, Phases, FieldOrAway
<1>6. DiskTypes
  <2>1. <<>> \in Seq(1 .. NumJobs)
    OBVIOUS
  <2>2. NoCheckpoint \in Checkpoints
    BY <1>2, <2>1 DEF NoCheckpoint, Checkpoints
  <2>3. QED
    BY <2>1, <2>2 DEF Init, DiskTypes
<1>7. ApsTypes
  <2>1. <<>> \in Seq(ApsItems) /\ <<>> \in Seq(Events)
    OBVIOUS
  <2>2. ApsIdle \in ApsItems
    BY DEF ApsIdle, ApsItems, FieldOrAway
  <2>3. QED
    BY <2>1, <2>2 DEF Init, ApsTypes
<1>8. Flags
  BY DEF Init, Flags
<1>9. Labels
  BY <1>4 DEF Init, Labels
<1>10. Done
  BY <1>3 DEF Init, Done, NoCheckpoint
<1>11. Series /\ Warm /\ Answered /\ ~Active
  BY DEF Init, Series, Warm, Answered, Active, Ended
<1>12. ~Queued("move") /\ ~Queued("connect") /\ \A k : ~Pending(k)
  BY <1>4 DEF Init, Queued, Pending
<1>13. Session
  BY <1>4, <1>12 DEF Init, Session, Order, Active, Ended
<1>14. Flight
  <2>1. ApsIdle.op # "move"
    BY DEF ApsIdle
  <2>2. QED
    BY <1>4, <2>1 DEF Init, Flight
<1>15. Known
  BY <1>4, <1>11 DEF Init, Known
<1>16. QED
  BY <1>1, <1>5, <1>6, <1>7, <1>8, <1>9, <1>10, <1>11, <1>13, <1>14, <1>15 DEF Holds, Types, IInv

LEMMA HoldsStep == Holds /\ [Next]_vars => Holds'
<1> SUFFICES ASSUME Holds, [Next]_vars PROVE Holds'
  OBVIOUS
<1>1. SceneTypes' /\ Flags'
  BY SceneStep, FlagsStep DEF Holds, Types
<1>2. BatchTypes' /\ DiskTypes' /\ ApsTypes'
  BY TypesStep
<1>3. Labels' /\ Done' /\ Series' /\ Warm' /\ Session' /\ Flight' /\ Known' /\ Answered'
  BY LabelsStep, DoneStep, SeriesStep, WarmStep, SessionStep, FlightStep, KnownStep, AnsweredStep
<1>4. QED
  BY <1>1, <1>2, <1>3 DEF Holds, Types, IInv

\* Every reachable state of a series satisfies the inductive invariant.
LEMMA InvariantHolds == Spec => []Holds
  BY InitHolds, HoldsStep, PTL DEF Spec

LEMMA AlarmSafeFollows == Holds => AlarmSafe
  BY TypesAre DEF Holds, IInv, Warm, AlarmSafe, AlarmHolds, NoMeasurementUnderAlarm

LEMMA MovesBelongFollows == Holds => MovesBelong
<1> SUFFICES ASSUME Types, IInv PROVE MovesBelong
  BY DEF Holds
<1>1. DOMAIN apsQueue = 1 .. Len(apsQueue) /\ DOMAIN guiQueue = 1 .. Len(guiQueue)
  BY LenProperties DEF Types, ApsTypes
<1>2. ASSUME worker # "none"
      PROVE  /\ Active /\ exclusive /\ index < NumJobs /\ field = JobField[index + 1] /\ ~heater
             /\ apsNow.op # "move"
             /\ \A n \in DOMAIN apsQueue : apsQueue[n].op # "move"
  <2>1. phase \in {"measuring", "stopping"} /\ lastField = JobField[index + 1]
    BY <1>2 DEF IInv, Series
  <2>2. Active /\ phase # "moving"
    BY <2>1 DEF Active, Ended
  <2>3. exclusive /\ index < NumJobs
    BY <2>2 DEF IInv, Series
  <2>4. NumJobs \in Nat /\ Away \notin Fields /\ \A i \in 1 .. NumJobs : JobField[i] \in Fields
    BY Jobs DEF Types
  <2>5. lastField # Away
    BY <2>1, <2>3, <2>4 DEF Types, BatchTypes
  <2>6. field = lastField /\ ~heater
    BY <2>1, <2>2, <2>5 DEF IInv, Known
  <2>7. apsNow.op # "move" /\ ~Queued("move")
    <3>1. apsNow = ApsIdle /\ ~Queued("move")
      BY <2>2, NoneUnderWay
    <3>2. QED
      BY <3>1 DEF ApsIdle
  <2>8. QED
    BY <1>1, <2>1, <2>2, <2>3, <2>6, <2>7 DEF Queued
<1>3. ASSUME apsNow.op = "move" PROVE Active /\ exclusive /\ apsNow.id = moveId
  <2>1. phase = "moving" /\ apsNow.id = moveId
    BY <1>3 DEF IInv, Flight
  <2>2. Active
    BY <2>1 DEF Active, Ended
  <2>3. QED
    BY <2>1, <2>2 DEF IInv, Series
<1>4. ASSUME Active, stopRequested
      PROVE  \/ apsNow.op = "move" \/ worker # "none"
             \/ \E n \in DOMAIN apsQueue : apsQueue[n].op \in {"move", "pause"}
             \/ \E n \in DOMAIN guiQueue : guiQueue[n].kind \in {"result", "pause", "disconnected"}
  <2>1. phase \in {"moving", "stopping"}
    BY <1>4 DEF IInv, Series
  <2>2. CASE phase = "moving"
    <3>1. apsNow.op = "move" \/ Queued("move") \/ Pending("result")
      BY <2>2 DEF IInv, Flight
    <3>2. QED
      BY <1>1, <3>1 DEF Queued, Pending
  <2>3. CASE phase = "stopping"
    <3>1. worker # "none" \/ Queued("pause") \/ Pending("pause") \/ Pending("disconnected")
      BY <2>3 DEF IInv, Answered
    <3>2. QED
      BY <1>1, <3>1 DEF Queued, Pending
  <2>4. QED
    BY <2>1, <2>2, <2>3
<1>5. QED
  BY <1>2, <1>3, <1>4 DEF MovesBelong, MeasuresAtVerifiedField, NoOrphanMove, StopAnswered

LEMMA CheckpointHonestFollows == Holds => CheckpointHonest
  BY DEF Holds, IInv, Done, CheckpointHonest, Upto

\* A warning that was seen is answered before the magnet moves or a measurement starts,
\* and none goes on without "safe" unless it has been told to stop: with every number of
\* jobs and every order of readings, answers and clicks.
THEOREM AlarmIsSafe == Spec => []AlarmSafe
  BY InvariantHolds, AlarmSafeFollows, PTL

\* A measurement runs only at its job's verified field and with no move under way, a move
\* only for the series that asked for it, and a stop always has an answer coming: for every
\* interleaving of the GUI, the APS100 thread, the measurement and lost sessions.
THEOREM MovesAndRunsBelong == Spec => []MovesBelong
  BY InvariantHolds, MovesBelongFollows, PTL

\* The checkpoint names a contiguous prefix of the jobs, each with its data on disk, through
\* failed writes, kills and resumed series.
THEOREM CheckpointIsHonest == Spec => []CheckpointHonest
  BY InvariantHolds, CheckpointHonestFollows, PTL

AbortStep ==
    Active /\ Active' /\ (stopRequested \/ pendingFailure)
      => /\ index' = index
         /\ worker = "none" => worker' = "none"
         /\ moveId' \in {moveId, NoId}

LEMMA AbortStays == Holds /\ [Next]_vars => [AbortStep]_vars
<1> SUFFICES ASSUME Holds, Types, IInv, Next PROVE AbortStep
  BY DEF Holds
<1> SUFFICES ASSUME Active, Active', stopRequested \/ pendingFailure
    PROVE  index' = index /\ (worker = "none" => worker' = "none") /\ moveId' \in {moveId, NoId}
  BY DEF AbortStep
<1>1. phase \in {"moving", "stopping"}
  BY DEF IInv, Series
<1>2. CASE UNCHANGED <<index, worker, moveId>>
  BY <1>2
<1>3. ASSUME NEW c, Goes(c) PROVE FALSE
  BY <1>3 DEF Goes
<1>4. ASSUME NEW c, Ends(c) PROVE FALSE
  BY <1>4 DEF Ends, Over, Active, Ended
<1>5. CASE Drops \/ AbortsRun \/ AbortsMove \/ Waits \/ Reads \/ Stops
  BY <1>5 DEF Core, Drops, AbortsRun, AbortsMove, Waits, Reads, Stops
<1>6. CASE PanelStop \/ Connect
  BY <1>6 DEF PanelStop, Connect, batchVars, tabVars
<1>7. ASSUME NEW end \in {"finished", "stopped", "error"}, MeasurementEnds(end)
      PROVE  index' = index /\ (worker = "none" => worker' = "none") /\ moveId' \in {moveId, NoId}
  BY <1>7 DEF MeasurementEnds, batchVars
<1>8. CASE Aps
  BY <1>8 DEF Aps, ApsBeginMove, ApsEndMove, ApsPause, ApsConnect, ApsPoll,
     ApsFault, ApsSessionLost, GuiAside, batchVars, tabVars
<1>9. CASE Crash
  BY <1>9 DEF Crash, Active, Ended
<1>10. QED
  BY <1>3, <1>4, <1>5, <1>6, <1>7, <1>8, <1>9, StepsAre DEF Measurement

\* Once a stop or an abort is registered, no further measurement or move starts and no
\* further job is counted: in every state in which a series can be, whatever answer, reading
\* or click comes next.
THEOREM AbortEndsSeries == Spec => AbortIsFinal
<1>1. Holds /\ [Next]_vars => [AbortStep]_vars
  BY AbortStays
<1>2. QED
  BY <1>1, InvariantHolds, PTL DEF Spec, AbortIsFinal, AbortStep
=============================================================================
