--------------------------- MODULE RequestLogProofs ---------------------------
(***************************************************************************)
(* Theorems about RequestLog, for any number of requests, processes and    *)
(* listeners and any width of the deduper's window.                        *)
(***************************************************************************)
EXTENDS RequestLog, FiniteSetTheorems, TLAPS

-----------------------------------------------------------------------------
(* Sequences of lines.                                                     *)

(* All lines are of process g. *)
Of(lines, g) == \A k \in 1 .. Len(lines) : lines[k].gen = g

LEMMA HeadTailLines ==
    ASSUME NEW p \in Seq(Line), p # <<>>, NEW g, Of(p, g)
    PROVE  Head(p) \in Line /\ Head(p).gen = g /\ Tail(p) \in Seq(Line) /\ Of(Tail(p), g)
<1>1. Len(p) \in Nat /\ Len(p) >= 1 /\ Head(p) = p[1] /\ p[1] \in Line
  OBVIOUS
<1>2. /\ Tail(p) \in Seq(Line) /\ Len(Tail(p)) = Len(p) - 1
      /\ \A k \in 1 .. Len(p) - 1 : Tail(p)[k] = p[k + 1]
  BY <1>1
<1> QED BY <1>1, <1>2 DEF Of

LEMMA AppendLine ==
    ASSUME NEW p \in Seq(Line), NEW g, Of(p, g), NEW l \in Line, l.gen = g
    PROVE  Append(p, l) \in Seq(Line) /\ Of(Append(p, l), g)
BY DEF Of

(* A line that was cut off is still one of its request and process. *)
LEMMA CutLine ==
    ASSUME NEW p \in Seq(Line), p # <<>>, NEW g, Of(p, g)
    PROVE  LET cut == [p EXCEPT ![Len(p)].text = "cut"]
           IN  cut \in Seq(Line) /\ Of(cut, g)
<1> DEFINE l == [p[Len(p)] EXCEPT !.text = "cut"]
           cut == [p EXCEPT ![Len(p)].text = "cut"]
<1>1. Len(p) \in Nat /\ Len(p) \in 1 .. Len(p) /\ p[Len(p)] \in Line
  OBVIOUS
<1>2. l \in Line /\ l.gen = g
  BY <1>1 DEF Line, Of
<1>3. cut = [p EXCEPT ![Len(p)] = l]
  OBVIOUS
<1> HIDE DEF l
<1>4. [p EXCEPT ![Len(p)] = l] \in Seq(Line)
  BY <1>1, <1>2
<1>5. Of([p EXCEPT ![Len(p)] = l], g)
  BY <1>1, <1>2 DEF Of
<1> QED BY <1>3, <1>4, <1>5

LEMMA ToSetOf ==
    ASSUME NEW p \in Seq(Line)
    PROVE  ToSet(p) = {p[k] : k \in 1 .. Len(p)}
BY DEF ToSet

LEMMA ToSetConcat ==
    ASSUME NEW p \in Seq(Line), NEW r \in Seq(Line)
    PROVE  ToSet(p \o r) \in SUBSET Line /\ ToSet(p) \subseteq ToSet(p \o r)
<1>1. /\ p \o r \in Seq(Line) /\ Len(p \o r) = Len(p) + Len(r)
      /\ \A k \in 1 .. Len(p) : (p \o r)[k] = p[k]
  OBVIOUS
<1>2. Len(p) \in Nat /\ Len(r) \in Nat
  OBVIOUS
<1>3. ToSet(p \o r) = {(p \o r)[k] : k \in 1 .. Len(p \o r)} /\ ToSet(p) = {p[k] : k \in 1 .. Len(p)}
  BY <1>1, ToSetOf
<1>4. \A k \in 1 .. Len(p) : k \in 1 .. Len(p \o r)
  BY <1>1, <1>2
<1> QED BY <1>1, <1>3, <1>4

LEMMA ToSetShort ==
    /\ ToSet(<<>>) = {}
    /\ \A l \in Line : <<l>> \in Seq(Line) /\ ToSet(<<l>>) = {l}
BY DEF ToSet

LEMMA ReportsAre ==
    ASSUME NEW lines, NEW i, NEW g
    PROVE  <<i, g>> \in reports(lines) <=>
              \E l \in lines : l.tag # "internal" /\ l.id = i /\ l.gen = g
BY DEF reports

LEMMA ReportsTyped ==
    ASSUME NEW lines \in SUBSET Line
    PROVE  reports(lines) \subseteq Ids \X (1 .. MaxGen)
BY DEF reports, Line

-----------------------------------------------------------------------------
(* The inductive invariant.                                                *)

(* Writers and requests only deal with lines of the current process, and a *)
(* process that has ended logs nothing more.                               *)
LinesCurrent ==
    /\ \A s \in Stream : Of(pipe[s], gen) /\ Of(hand[s], gen)
    /\ \A l \in todo : l.gen = gen
    /\ ~up => todo = {}

Running == {i \in Ids : request[i] = "running"}

(* The collector's gauge counts the requests in work. *)
GaugeExact == thread = Cardinality(Running)

HandLines == UNION {ToSet(hand[s]) : s \in Stream}

(* The boundary reports that are printed, held by a writer or lost. *)
Known == printed \cup lost \cup reports(HandLines)

(* What the deduper remembers it was told by this process. *)
BoundariesKnown == \A i \in Ids : boundaries[i] <= Window => <<i, gen>> \in Known

LogInv ==
    TypeOK /\ LinesCurrent /\ GaugeExact /\ BoundariesKnown /\ SuppressedOnlyIfReported

LEMMA IdsFinite == IsFiniteSet(Ids) /\ Cardinality(Ids) = MaxRequests
BY LogAssumption, FS_Interval DEF Ids

LEMMA RunningBounded ==
    IsFiniteSet(Running) /\ Cardinality(Running) \in 0 .. MaxRequests
<1>1. Running \subseteq Ids
  BY DEF Running
<1>2. IsFiniteSet(Running) /\ Cardinality(Running) <= MaxRequests
  BY <1>1, IdsFinite, FS_Subset
<1>3. Cardinality(Running) \in Nat
  BY <1>2, FS_CardinalityType
<1> QED BY <1>2, <1>3, LogAssumption

LEMMA InitLogInv == Init => LogInv
<1> SUFFICES ASSUME Init PROVE LogInv
  OBVIOUS
<1> USE LogAssumption DEF Init
<1>1. TypeOK
  BY DEF TypeOK
<1>2. LinesCurrent
  BY DEF LinesCurrent, Of
<1>3. GaugeExact
  <2>1. Running = {}
    BY DEF Running
  <2> QED BY <2>1, FS_EmptySet DEF GaugeExact
<1>4. BoundariesKnown
  BY DEF BoundariesKnown
<1>5. SuppressedOnlyIfReported
  BY DEF SuppressedOnlyIfReported
<1> QED BY <1>1, <1>2, <1>3, <1>4, <1>5 DEF LogInv

-----------------------------------------------------------------------------
(* The steps of MosDNS.                                                    *)

(* A step that leaves the writers' memory alone and takes no report back   *)
(* keeps what it is about.                                                 *)
LEMMA MemoryKept ==
    ASSUME LogInv, Known \subseteq Known', gen' = gen, suppressed' = suppressed,
           \A i \in Ids : boundaries'[i] <= Window => boundaries[i] <= Window
    PROVE  BoundariesKnown' /\ SuppressedOnlyIfReported'
<1>1. BoundariesKnown'
  BY DEF LogInv, BoundariesKnown
<1>2. suppressed \subseteq Known /\ (SuppressedOnlyIfReported' <=> suppressed' \subseteq Known')
  BY DEF LogInv, SuppressedOnlyIfReported, Known, HandLines
<1> QED BY <1>1, <1>2

LEMMA BeginStep ==
    ASSUME LogInv, NEW i \in Ids, Begin(i)
    PROVE  LogInv'
<1> USE DEF Begin, writerVars
<1>1. Running' = Running \cup {i} /\ i \notin Running
  BY DEF LogInv, TypeOK, Running
<1>2. Cardinality(Running') = Cardinality(Running) + 1 /\ IsFiniteSet(Running')
  BY <1>1, RunningBounded, FS_AddElement
<1>3. Cardinality(Running') <= MaxRequests
  <2>1. Running' \subseteq Ids
    BY DEF Running
  <2> QED BY <2>1, IdsFinite, FS_Subset
<1>4. GaugeExact'
  BY <1>2 DEF LogInv, GaugeExact
<1>5. TypeOK'
  <2>1. thread' \in 0 .. MaxRequests
    BY <1>2, <1>3, <1>4, RunningBounded, LogAssumption DEF GaugeExact
  <2>2. begun' \in 0 .. MaxRequests
    BY LogAssumption DEF LogInv, TypeOK
  <2> QED BY <2>1, <2>2 DEF LogInv, TypeOK
<1>6. LinesCurrent'
  BY DEF LogInv, LinesCurrent
<1>7. Known' = Known
  BY DEF Known, HandLines
<1>8. BoundariesKnown' /\ SuppressedOnlyIfReported'
  BY <1>7, MemoryKept
<1> QED BY <1>4, <1>5, <1>6, <1>8 DEF LogInv

LEMMA FinishStep ==
    ASSUME LogInv, NEW i \in Ids, NEW tag \in Listeners, NEW end \in End, Finish(i, tag, end)
    PROVE  LogInv'
<1> USE DEF Finish, writerVars
<1> DEFINE line(from, text) == [tag |-> from, text |-> text, id |-> i, gen |-> gen]
<1>1. Running' = Running \ {i} /\ i \in Running
  BY DEF LogInv, TypeOK, Running
<1>2. Cardinality(Running') = Cardinality(Running) - 1 /\ IsFiniteSet(Running')
  BY <1>1, RunningBounded, FS_RemoveElement
<1>3. Cardinality(Running') \in Nat
  BY <1>2, FS_CardinalityType
<1>4. GaugeExact'
  BY <1>2 DEF LogInv, GaugeExact, collect
<1>5. \A l \in todo' : l \in todo \/ l = line("internal", "deadline")
                       \/ \E text \in {"deadline", "other"} : l = line(tag, text)
  OBVIOUS
<1>6. todo' \subseteq Line /\ \A l \in todo' : l.gen = gen
  <2>1. todo \subseteq Line /\ (\A l \in todo : l.gen = gen) /\ gen \in 1 .. MaxGen
    BY DEF LogInv, TypeOK, LinesCurrent
  <2> QED BY <1>5, <2>1 DEF Line
<1>7. TypeOK'
  <2>1. thread' \in 0 .. MaxRequests
    BY <1>2, <1>3, <1>4, RunningBounded, LogAssumption DEF GaugeExact
  <2>2. counter' \in [Ids -> {"none", "err_total", "canceled_total"}]
    BY DEF LogInv, TypeOK, collect
  <2> QED BY <1>6, <2>1, <2>2 DEF LogInv, TypeOK
<1>8. LinesCurrent'
  BY <1>6 DEF LogInv, LinesCurrent
<1>9. Known' = Known
  BY DEF Known, HandLines
<1>10. BoundariesKnown' /\ SuppressedOnlyIfReported'
  BY <1>9, MemoryKept
<1> QED BY <1>4, <1>7, <1>8, <1>10 DEF LogInv

LEMMA LogStep ==
    ASSUME LogInv, NEW s \in Stream, NEW line \in todo, Log(line, s)
    PROVE  LogInv'
<1> USE DEF Log, processVars
<1>1. line \in Line /\ line.gen = gen /\ pipe[s] \in Seq(Line) /\ Of(pipe[s], gen)
  BY DEF LogInv, TypeOK, LinesCurrent
<1>2. Append(pipe[s], line) \in Seq(Line) /\ Of(Append(pipe[s], line), gen)
  BY <1>1, AppendLine
<1>3. reports({line}) \subseteq Ids \X (1 .. MaxGen)
  BY <1>1, ReportsTyped
<1>4. pipe' \in [Stream -> Seq(Line)] /\ \A t \in Stream : Of(pipe'[t], gen)
  BY <1>2 DEF LogInv, TypeOK, LinesCurrent
<1>5. TypeOK'
  BY <1>3, <1>4 DEF LogInv, TypeOK
<1>6. LinesCurrent'
  BY <1>4 DEF LogInv, LinesCurrent
<1>7. GaugeExact'
  BY DEF LogInv, GaugeExact, Running
<1>8. Known \subseteq Known'
  BY DEF Known, HandLines
<1>9. BoundariesKnown' /\ SuppressedOnlyIfReported'
  BY <1>8, MemoryKept
<1> QED BY <1>5, <1>6, <1>7, <1>9 DEF LogInv

LEMMA DieStep ==
    ASSUME LogInv, Die
    PROVE  LogInv'
<1> USE DEF Die
<1>1. PICK cut \in SUBSET {s \in Stream : pipe[s] # <<>>} :
        pipe' = [s \in Stream |->
            IF s \in cut THEN [pipe[s] EXCEPT ![Len(pipe[s])].text = "cut"] ELSE pipe[s]]
  OBVIOUS
<1>2. ASSUME NEW s \in Stream PROVE pipe'[s] \in Seq(Line) /\ Of(pipe'[s], gen)
  <2>1. pipe[s] \in Seq(Line) /\ Of(pipe[s], gen)
    BY DEF LogInv, TypeOK, LinesCurrent
  <2>2. CASE s \in cut
    <3>1. pipe[s] # <<>> /\ pipe'[s] = [pipe[s] EXCEPT ![Len(pipe[s])].text = "cut"]
      BY <1>1, <2>2
    <3> QED BY <2>1, <3>1, CutLine
  <2>3. CASE s \notin cut
    BY <1>1, <2>1, <2>3
  <2> QED BY <2>2, <2>3
<1>3. reports(todo) \subseteq Ids \X (1 .. MaxGen)
  BY ReportsTyped DEF LogInv, TypeOK
<1>4. TypeOK'
  <2>1. pipe' \in [Stream -> Seq(Line)]
    BY <1>1, <1>2
  <2>2. /\ request' \in [Ids -> {"new", "running", "done"}] /\ thread' \in 0 .. MaxRequests
        /\ counter' \in [Ids -> {"none", "err_total", "canceled_total"}]
    BY LogAssumption DEF forget
  <2> QED BY <1>3, <2>1, <2>2 DEF LogInv, TypeOK
<1>5. LinesCurrent'
  BY <1>2 DEF LogInv, LinesCurrent
<1>6. GaugeExact'
  <2>1. Running' = {}
    BY DEF Running, forget
  <2> QED BY <2>1, FS_EmptySet DEF GaugeExact, forget
<1>7. Known' = Known
  BY DEF Known, HandLines
<1>8. BoundariesKnown' /\ SuppressedOnlyIfReported'
  BY <1>7, MemoryKept
<1> QED BY <1>4, <1>5, <1>6, <1>8 DEF LogInv

-----------------------------------------------------------------------------
(* The steps of the writers.                                               *)

LEMMA JudgeStep ==
    ASSUME LogInv, NEW s \in Stream, judge(s)
    PROVE  LogInv'
<1> DEFINE line == Head(pipe[s])
<1>1. pipe[s] \in Seq(Line) /\ Of(pipe[s], gen) /\ pipe[s] # <<>> /\ hand[s] = <<>>
  BY DEF judge, LogInv, TypeOK, LinesCurrent
<1>2. /\ line \in Line /\ line.gen = gen
      /\ Tail(pipe[s]) \in Seq(Line) /\ Of(Tail(pipe[s]), gen)
  BY <1>1, HeadTailLines
<1>3. /\ line.id \in Ids /\ gen \in 1 .. MaxGen
  BY <1>2 DEF Line, LogInv, TypeOK
<1>4. pipe' \in [Stream -> Seq(Line)] /\ (\A t \in Stream : Of(pipe'[t], gen)) /\ gen' = gen
  BY <1>2 DEF judge, LogInv, TypeOK, LinesCurrent, processVars
<1>5. GaugeExact'
  BY DEF judge, LogInv, GaugeExact, Running, processVars
<1>6. CASE suppress(line)
  <2>1. /\ suppressed' = suppressed \cup {<<line.id, gen>>}
        /\ UNCHANGED <<hand, boundaries, processVars, todo, broken, printed, lost, unlogged>>
    BY <1>2, <1>6 DEF judge
  <2> USE DEF processVars
  <2>2. TypeOK'
    BY <1>3, <1>4, <2>1 DEF LogInv, TypeOK
  <2>3. LinesCurrent'
    BY <1>4, <2>1 DEF LogInv, LinesCurrent
  <2>4. Known' = Known
    BY <2>1 DEF Known, HandLines
  <2>5. <<line.id, gen>> \in Known
    BY <1>3, <1>6 DEF suppress, LogInv, BoundariesKnown
  <2>6. BoundariesKnown'
    BY <2>1, <2>4 DEF LogInv, BoundariesKnown
  <2>7. suppressed \subseteq Known /\ (SuppressedOnlyIfReported' <=> suppressed' \subseteq Known')
    BY DEF LogInv, SuppressedOnlyIfReported, Known, HandLines
  <2>8. SuppressedOnlyIfReported'
    BY <2>1, <2>4, <2>5, <2>7
  <2> QED BY <1>5, <2>2, <2>3, <2>6, <2>8 DEF LogInv
<1>7. CASE ~suppress(line)
  <2>1. /\ hand' = [hand EXCEPT ![s] = <<line>>]
        /\ boundaries' = IF isBoundary(line) THEN [boundaries EXCEPT ![line.id] = 0]
                         ELSE boundaries
        /\ UNCHANGED <<suppressed, processVars, todo, broken, printed, lost, unlogged>>
    BY <1>7 DEF judge
  <2> HIDE DEF line
  <2> USE DEF processVars
  <2>2. <<line>> \in Seq(Line) /\ Of(<<line>>, gen) /\ ToSet(<<line>>) = {line}
    BY <1>2, ToSetShort DEF Of
  <2>3. hand \in [Stream -> Seq(Line)]
    BY DEF LogInv, TypeOK
  <2>4. hand' \in [Stream -> Seq(Line)] /\ \A t \in Stream : Of(hand'[t], gen)
    BY <2>1, <2>2, <2>3 DEF LogInv, LinesCurrent
  <2>5. boundaries' \in [Ids -> 0 .. Window + 1]
    BY <1>3, <2>1, LogAssumption DEF LogInv, TypeOK
  <2>6. TypeOK'
    BY <1>4, <2>1, <2>4, <2>5 DEF LogInv, TypeOK
  <2>7. LinesCurrent'
    BY <1>4, <2>1, <2>4 DEF LogInv, LinesCurrent
  <2>8. HandLines' = HandLines \cup {line}
    <3>1. hand'[s] = <<line>> /\ \A t \in Stream \ {s} : hand'[t] = hand[t]
      BY <2>1, <2>3
    <3>2. ToSet(hand[s]) = {} /\ ToSet(hand'[s]) = {line}
      BY <1>1, <2>2, <3>1, ToSetShort
    <3> QED BY <3>1, <3>2 DEF HandLines
  <2>9. Known \subseteq Known'
    BY <2>1, <2>8 DEF Known, reports
  <2>10. isBoundary(line) => <<line.id, gen>> \in Known'
    <3>1. isBoundary(line) => <<line.id, line.gen>> \in reports(HandLines')
      BY <2>8, ReportsAre DEF isBoundary
    <3> QED BY <1>2, <3>1 DEF Known
  <2>11. BoundariesKnown'
    <3> SUFFICES ASSUME NEW i \in Ids, boundaries'[i] <= Window PROVE <<i, gen>> \in Known'
      BY <1>4 DEF BoundariesKnown
    <3>1. CASE isBoundary(line) /\ i = line.id
      BY <2>10, <3>1
    <3>2. CASE ~(isBoundary(line) /\ i = line.id)
      <4>1. boundaries'[i] = boundaries[i]
        BY <2>1, <3>2 DEF LogInv, TypeOK
      <4> QED BY <2>9, <4>1 DEF LogInv, BoundariesKnown
    <3> QED BY <3>1, <3>2
  <2>12. SuppressedOnlyIfReported'
    <3>1. suppressed \subseteq Known /\ (SuppressedOnlyIfReported' <=> suppressed' \subseteq Known')
      BY DEF LogInv, SuppressedOnlyIfReported, Known, HandLines
    <3> QED BY <2>1, <2>9, <3>1
  <2> QED BY <1>5, <2>6, <2>7, <2>11, <2>12 DEF LogInv
<1> QED BY <1>6, <1>7

(* What leaves a writer's hand is printed or lost. *)
LEMMA HandEmptied ==
    ASSUME LogInv, NEW s \in Stream, hand' = [hand EXCEPT ![s] = <<>>],
           printed \subseteq printed', lost \subseteq lost',
           reports(ToSet(hand[s])) \subseteq printed' \cup lost'
    PROVE  Known \subseteq Known'
<1>1. \A t \in Stream \ {s} : hand'[t] = hand[t]
  BY DEF LogInv, TypeOK
<1>2. HandLines \subseteq HandLines' \cup ToSet(hand[s])
  BY <1>1 DEF HandLines
<1>3. reports(HandLines) \subseteq reports(HandLines') \cup reports(ToSet(hand[s]))
  BY <1>2 DEF reports
<1> QED BY <1>3 DEF Known

LEMMA EmitStep ==
    ASSUME LogInv, NEW s \in Stream, Emit(s)
    PROVE  LogInv'
<1> USE DEF Emit, processVars
<1>1. hand[s] \in Seq(Line)
  BY DEF LogInv, TypeOK
<1>2. ToSet(hand[s]) \in SUBSET Line
  BY <1>1, ToSetOf
<1>3. reports(ToSet(hand[s])) \subseteq Ids \X (1 .. MaxGen)
  BY <1>2, ReportsTyped
<1>4. hand' \in [Stream -> Seq(Line)] /\ \A t \in Stream : Of(hand'[t], gen)
  BY DEF LogInv, TypeOK, LinesCurrent, Of
<1>5. TypeOK'
  BY <1>3, <1>4 DEF LogInv, TypeOK
<1>6. LinesCurrent'
  BY <1>4 DEF LogInv, LinesCurrent
<1>7. GaugeExact'
  BY DEF LogInv, GaugeExact, Running
<1>8. Known \subseteq Known'
  BY HandEmptied
<1>9. BoundariesKnown' /\ SuppressedOnlyIfReported'
  BY <1>8, MemoryKept
<1> QED BY <1>5, <1>6, <1>7, <1>9 DEF LogInv

LEMMA SinkStep ==
    ASSUME LogInv, NEW s \in Stream, SinkFails(s)
    PROVE  LogInv'
<1> USE DEF SinkFails, processVars
<1>1. hand[s] \in Seq(Line) /\ pipe[s] \in Seq(Line)
  BY DEF LogInv, TypeOK
<1>2. ToSet(hand[s] \o pipe[s]) \in SUBSET Line /\ ToSet(hand[s]) \subseteq ToSet(hand[s] \o pipe[s])
  BY <1>1, ToSetConcat
<1>3. reports(ToSet(hand[s] \o pipe[s])) \subseteq Ids \X (1 .. MaxGen)
  BY <1>2, ReportsTyped
<1>4. reports(ToSet(hand[s])) \subseteq reports(ToSet(hand[s] \o pipe[s]))
  BY <1>2 DEF reports
<1>5. /\ hand' \in [Stream -> Seq(Line)] /\ \A t \in Stream : Of(hand'[t], gen)
      /\ pipe' \in [Stream -> Seq(Line)] /\ \A t \in Stream : Of(pipe'[t], gen)
  BY DEF LogInv, TypeOK, LinesCurrent, Of
<1>6. TypeOK'
  BY <1>3, <1>5 DEF LogInv, TypeOK
<1>7. LinesCurrent'
  BY <1>5 DEF LogInv, LinesCurrent
<1>8. GaugeExact'
  BY DEF LogInv, GaugeExact, Running
<1>9. Known \subseteq Known'
  BY <1>4, HandEmptied
<1>10. BoundariesKnown' /\ SuppressedOnlyIfReported'
  BY <1>9, MemoryKept
<1> QED BY <1>6, <1>7, <1>8, <1>10 DEF LogInv

(* The next process finds the writers empty, and its deduper knows nothing. *)
LEMMA RestartStep ==
    ASSUME LogInv, Restart
    PROVE  LogInv'
<1> USE DEF Restart, newDeduper
<1>1. TypeOK'
  BY LogAssumption DEF LogInv, TypeOK
<1>2. LinesCurrent'
  BY DEF LogInv, LinesCurrent, Of
<1>3. GaugeExact'
  BY DEF LogInv, GaugeExact, Running
<1>4. BoundariesKnown'
  BY LogAssumption DEF BoundariesKnown
<1>5. SuppressedOnlyIfReported'
  BY DEF LogInv, SuppressedOnlyIfReported
<1> QED BY <1>1, <1>2, <1>3, <1>4, <1>5 DEF LogInv

LEMMA TickStep ==
    ASSUME LogInv, Tick
    PROVE  LogInv'
<1> USE DEF Tick, processVars
<1>1. /\ boundaries' \in [Ids -> 0 .. Window + 1]
      /\ \A i \in Ids : boundaries'[i] <= Window => boundaries[i] <= Window
  BY LogAssumption DEF LogInv, TypeOK
<1>2. TypeOK'
  BY <1>1 DEF LogInv, TypeOK
<1>3. LinesCurrent' /\ GaugeExact'
  BY DEF LogInv, LinesCurrent, GaugeExact, Running
<1>4. Known' = Known
  BY DEF Known, HandLines
<1>5. BoundariesKnown' /\ SuppressedOnlyIfReported'
  BY <1>1, <1>4, MemoryKept
<1> QED BY <1>2, <1>3, <1>5 DEF LogInv

LEMMA StepLogInv == LogInv /\ [Next]_vars => LogInv'
<1> SUFFICES ASSUME LogInv, [Next]_vars PROVE LogInv'
  OBVIOUS
<1>1. CASE Process
  BY <1>1, BeginStep, FinishStep, LogStep DEF Process
<1>2. CASE Die
  BY <1>2, DieStep
<1>3. CASE Restart
  BY <1>3, RestartStep
<1>4. CASE Tick
  BY <1>4, TickStep
<1>5. CASE \E s \in Stream : Writer(s) \/ SinkFails(s)
  BY <1>5, JudgeStep, EmitStep, SinkStep DEF Writer, Write, Flush
<1>6. CASE UNCHANGED vars
  <2> USE <1>6 DEF vars, processVars, writerVars
  <2>1. TypeOK' /\ LinesCurrent'
    BY DEF LogInv, TypeOK, LinesCurrent
  <2>2. GaugeExact'
    BY DEF LogInv, GaugeExact, Running
  <2>3. Known' = Known
    BY DEF Known, HandLines
  <2>4. BoundariesKnown' /\ SuppressedOnlyIfReported'
    BY <2>3, MemoryKept
  <2> QED BY <2>1, <2>2, <2>4 DEF LogInv
<1> QED BY <1>1, <1>2, <1>3, <1>4, <1>5, <1>6 DEF Next

LEMMA Invariance == Spec => []LogInv
BY InitLogInv, StepLogInv, PTL DEF Spec

-----------------------------------------------------------------------------
(* Collector, writers and deduper keep their types; in particular the      *)
(* gauge of requests in work never goes below zero, whatever errors the    *)
(* requests end with and whenever the process dies (collector.Exec).       *)
THEOREM TypeCorrect == Spec => []TypeOK
<1>1. LogInv => TypeOK
  BY DEF LogInv
<1> QED BY <1>1, Invariance, PTL

(* The gauge of the collector is the number of requests in work.           *)
THEOREM GaugeCountsRequests == Spec => []GaugeExact
<1>1. LogInv => GaugeExact
  BY DEF LogInv
<1> QED BY <1>1, Invariance, PTL

(* childLogDeduper.suppress leaves a warning out only if the boundary      *)
(* report of the same query of the same process is printed, in a writer's  *)
(* hand or lost to a write error: the number a query gets again after a    *)
(* restart, the order of the two pipes and the window do not matter.       *)
THEOREM NothingSilentlyDropped == Spec => []SuppressedOnlyIfReported
<1>1. LogInv => SuppressedOnlyIfReported
  BY DEF LogInv
<1> QED BY <1>1, Invariance, PTL

-----------------------------------------------------------------------------
(* No failure vanishes: where the boundary report of a request can be.     *)

(* The requests whose boundary reports wait in a pipe or in a writer's hand. *)
Way(s) == reports(ToSet(pipe[s])) \cup reports(ToSet(hand[s]))

(* The requests whose boundary report is accounted for: printed, lost with *)
(* the process or its output, or still on its way.                         *)
Traced ==
    printed \cup lost \cup unlogged \cup reports(todo) \cup UNION {Way(s) : s \in Stream}

(* Every failure that the metrics of this process count is accounted for.  *)
FailuresTraced == \A i \in Ids : counter[i] = "err_total" => <<i, gen>> \in Traced

(* A process that has ended counts nothing any more. *)
CountersOfProcess == ~up => \A i \in Ids : counter[i] = "none"

LEMMA ReportsMonotone ==
    ASSUME NEW a, NEW b
    PROVE  /\ a \subseteq b => reports(a) \subseteq reports(b)
           /\ reports(a \cup b) = reports(a) \cup reports(b)
BY DEF reports

LEMMA ToSetAppend ==
    ASSUME NEW p \in Seq(Line), NEW l \in Line
    PROVE  ToSet(Append(p, l)) = ToSet(p) \cup {l}
<1>1. /\ Append(p, l) \in Seq(Line) /\ Len(Append(p, l)) = Len(p) + 1 /\ Len(p) \in Nat
      /\ Append(p, l)[Len(p) + 1] = l
      /\ \A k \in 1 .. Len(p) : Append(p, l)[k] = p[k]
  OBVIOUS
<1>2. /\ ToSet(p) = {p[k] : k \in 1 .. Len(p)}
      /\ ToSet(Append(p, l)) = {Append(p, l)[k] : k \in 1 .. Len(p) + 1}
  BY <1>1, ToSetOf
<1>3. \A k : k \in 1 .. Len(p) + 1 <=> k \in 1 .. Len(p) \/ k = Len(p) + 1
  BY <1>1
<1> QED BY <1>1, <1>2, <1>3

LEMMA ToSetHeadTail ==
    ASSUME NEW p \in Seq(Line), p # <<>>
    PROVE  ToSet(p) = {Head(p)} \cup ToSet(Tail(p))
<1>1. /\ Tail(p) \in Seq(Line) /\ Len(p) \in Nat \ {0} /\ Len(Tail(p)) = Len(p) - 1
      /\ Head(p) = p[1]
      /\ \A k \in 1 .. Len(p) - 1 : Tail(p)[k] = p[k + 1]
  OBVIOUS
<1>2. /\ ToSet(p) = {p[k] : k \in 1 .. Len(p)}
      /\ ToSet(Tail(p)) = {Tail(p)[k] : k \in 1 .. Len(p) - 1}
  BY <1>1, ToSetOf
<1>3. \A l : l \in ToSet(p) <=> \E k \in 1 .. Len(p) : l = p[k]
  BY <1>2
<1>4. \A l : l \in ToSet(Tail(p)) <=> \E k \in 1 .. Len(p) - 1 : l = p[k + 1]
  BY <1>1, <1>2
<1>5. ASSUME NEW l \in ToSet(p), l # p[1] PROVE l \in ToSet(Tail(p))
  <2>1. PICK k \in 1 .. Len(p) : l = p[k]
    BY <1>3, <1>5
  <2>2. k - 1 \in 1 .. Len(p) - 1 /\ (k - 1) + 1 = k
    BY <1>1, <1>5, <2>1
  <2> QED BY <1>4, <2>1, <2>2
<1>6. ASSUME NEW l \in ToSet(Tail(p)) PROVE l \in ToSet(p)
  <2>1. PICK k \in 1 .. Len(p) - 1 : l = p[k + 1]
    BY <1>4
  <2>2. k + 1 \in 1 .. Len(p)
    BY <1>1
  <2> QED BY <1>3, <2>1, <2>2
<1>7. p[1] \in ToSet(p)
  BY <1>1, <1>3
<1> QED BY <1>1, <1>5, <1>6, <1>7

LEMMA ToSetBoth ==
    ASSUME NEW p \in Seq(Line), NEW r \in Seq(Line)
    PROVE  ToSet(p) \subseteq ToSet(p \o r) /\ ToSet(r) \subseteq ToSet(p \o r)
<1>1. /\ p \o r \in Seq(Line) /\ Len(p \o r) = Len(p) + Len(r)
      /\ Len(p) \in Nat /\ Len(r) \in Nat
      /\ \A k \in 1 .. Len(r) : (p \o r)[Len(p) + k] = r[k]
  OBVIOUS
<1>2. /\ ToSet(p \o r) = {(p \o r)[k] : k \in 1 .. Len(p) + Len(r)}
      /\ ToSet(r) = {r[k] : k \in 1 .. Len(r)}
  BY <1>1, ToSetOf
<1>3. \A k \in 1 .. Len(r) : Len(p) + k \in 1 .. Len(p) + Len(r)
  BY <1>1
<1> QED BY <1>1, <1>2, <1>3, ToSetConcat

(* A line that was cut off still tells of which request it is. *)
LEMMA CutReports ==
    ASSUME NEW p \in Seq(Line), p # <<>>
    PROVE  reports(ToSet(p)) \subseteq reports(ToSet([p EXCEPT ![Len(p)].text = "cut"]))
<1> DEFINE l == [p[Len(p)] EXCEPT !.text = "cut"]
           q == [p EXCEPT ![Len(p)] = l]
<1>1. Len(p) \in Nat /\ Len(p) \in 1 .. Len(p) /\ p[Len(p)] \in Line
  OBVIOUS
<1>2. /\ l \in Line /\ l.tag = p[Len(p)].tag
      /\ l.id = p[Len(p)].id /\ l.gen = p[Len(p)].gen
  BY <1>1 DEF Line
<1>3. [p EXCEPT ![Len(p)].text = "cut"] = q
  OBVIOUS
<1> HIDE DEF l
<1>4. q \in Seq(Line) /\ Len(q) = Len(p) /\ q[Len(p)] = l
      /\ \A k \in 1 .. Len(p) : k # Len(p) => q[k] = p[k]
  BY <1>1, <1>2
<1> HIDE DEF q
<1>5. \A k \in 1 .. Len(p) : q[k].tag = p[k].tag /\ q[k].id = p[k].id /\ q[k].gen = p[k].gen
  BY <1>2, <1>4
<1>6. /\ ToSet(p) = {p[k] : k \in 1 .. Len(p)}
      /\ ToSet(q) = {q[k] : k \in 1 .. Len(p)}
  BY <1>4, ToSetOf
<1>7. ASSUME NEW x \in ToSet(p), x.tag # "internal"
      PROVE  <<x.id, x.gen>> \in reports(ToSet(q))
  <2>1. PICK k \in 1 .. Len(p) : x = p[k]
    BY <1>6
  <2>2. q[k] \in ToSet(q) /\ q[k].tag # "internal" /\ q[k].id = x.id /\ q[k].gen = x.gen
    BY <1>5, <1>6, <1>7, <2>1
  <2> QED BY <2>2, ReportsAre
<1>8. reports(ToSet(p)) \subseteq reports(ToSet(q))
  BY <1>7 DEF reports
<1> QED BY <1>3, <1>8

-----------------------------------------------------------------------------
(* No failure vanishes: the steps.                                         *)

TraceInv == LogInv /\ FailuresTraced /\ CountersOfProcess

(* What a step has to show: nothing that was accounted for goes missing.   *)
LEMMA TracedKept ==
    ASSUME printed \cup lost \cup unlogged \cup reports(todo) \subseteq Traced',
           \A s \in Stream : Way(s) \subseteq Traced'
    PROVE  Traced \subseteq Traced'
BY DEF Traced

LEMMA WayTraced == \A s \in Stream : Way(s)' \subseteq Traced'
BY DEF Traced

LEMMA FinishTraces ==
    ASSUME LogInv, NEW i \in Ids, NEW tag \in Listeners, NEW end \in End, Finish(i, tag, end)
    PROVE  /\ Traced \subseteq Traced'
           /\ \A j \in Ids : counter'[j] = "err_total" =>
                                counter[j] = "err_total" \/ <<j, gen>> \in Traced'
<1> USE DEF Finish, writerVars
<1> DEFINE line(from, text) == [tag |-> from, text |-> text, id |-> i, gen |-> gen]
           text == IF end = "deadline" THEN "deadline" ELSE "other"
<1>1. todo \subseteq todo'
  OBVIOUS
<1>2. reports(todo) \subseteq reports(todo')
  BY <1>1, ReportsMonotone
<1>3. \A s \in Stream : Way(s)' = Way(s)
  BY DEF Way
<1>4. Traced \subseteq Traced'
  BY <1>2, <1>3 DEF Traced
<1>5. ASSUME NEW j \in Ids, counter'[j] = "err_total", counter[j] # "err_total"
      PROVE  <<j, gen>> \in Traced'
  <2>1. j = i /\ end # "answer" /\ ~Expected(end)
    BY <1>5 DEF LogInv, TypeOK, collect
  <2>2. line(tag, text) \in todo'
    BY <2>1 DEF withheld
  <2>3. tag # "internal"
    BY LogAssumption
  <2>4. <<i, gen>> \in reports(todo')
    BY <2>2, <2>3, ReportsAre
  <2> QED BY <2>1, <2>4 DEF Traced
<1> QED BY <1>4, <1>5

LEMMA LogTraces ==
    ASSUME LogInv, NEW s \in Stream, NEW line \in todo, Log(line, s)
    PROVE  Traced \subseteq Traced'
<1> USE DEF Log
<1>1. line \in Line /\ pipe[s] \in Seq(Line) /\ pipe \in [Stream -> Seq(Line)]
  BY DEF LogInv, TypeOK
<1>2. todo = todo' \cup {line}
  OBVIOUS
<1>3. reports(todo) = reports(todo') \cup reports({line})
  BY <1>2, ReportsMonotone
<1>4. CASE broken[s]
  <2>1. \A t \in Stream : Way(t)' = Way(t)
    BY <1>4 DEF Way
  <2>2. reports({line}) \subseteq lost' /\ lost \subseteq lost'
    BY <1>4
  <2> QED BY <1>3, <2>1, <2>2 DEF Traced
<1>5. CASE ~broken[s]
  <2>1. pipe'[s] = Append(pipe[s], line) /\ \A t \in Stream : t # s => pipe'[t] = pipe[t]
    BY <1>1, <1>5
  <2>2. ToSet(pipe'[s]) = ToSet(pipe[s]) \cup {line}
    BY <1>1, <2>1, ToSetAppend
  <2>3. reports(ToSet(pipe'[s])) = reports(ToSet(pipe[s])) \cup reports({line})
    BY <2>2, ReportsMonotone
  <2>4. /\ \A t \in Stream : Way(t) \subseteq Way(t)'
        /\ reports({line}) \subseteq Way(s)'
    BY <2>1, <2>3 DEF Way
  <2>5. \A t \in Stream : Way(t) \subseteq Traced'
    BY <2>4, WayTraced
  <2>6. printed \cup lost \cup unlogged \cup reports(todo) \subseteq Traced'
    <3>1. printed \cup lost \cup unlogged \cup reports(todo') \subseteq Traced'
      BY <1>5 DEF Traced
    <3>2. reports({line}) \subseteq Traced'
      BY <2>4, WayTraced
    <3> QED BY <1>3, <3>1, <3>2
  <2> QED BY <2>5, <2>6, TracedKept
<1> QED BY <1>4, <1>5

LEMMA DieTraces ==
    ASSUME LogInv, Die
    PROVE  Traced \subseteq Traced'
<1> USE DEF Die
<1>1. PICK cut \in SUBSET {s \in Stream : pipe[s] # <<>>} :
        pipe' = [s \in Stream |->
            IF s \in cut THEN [pipe[s] EXCEPT ![Len(pipe[s])].text = "cut"] ELSE pipe[s]]
  OBVIOUS
<1>2. ASSUME NEW s \in Stream PROVE reports(ToSet(pipe[s])) \subseteq reports(ToSet(pipe'[s]))
  <2>1. pipe[s] \in Seq(Line)
    BY DEF LogInv, TypeOK
  <2>2. CASE s \in cut
    <3>1. pipe[s] # <<>> /\ pipe'[s] = [pipe[s] EXCEPT ![Len(pipe[s])].text = "cut"]
      BY <1>1, <2>2
    <3> QED BY <2>1, <3>1, CutReports
  <2>3. CASE s \notin cut
    BY <1>1, <2>3
  <2> QED BY <2>2, <2>3
<1>3. \A s \in Stream : Way(s) \subseteq Way(s)'
  BY <1>2 DEF Way
<1> QED BY <1>3 DEF Traced

LEMMA JudgeTraces ==
    ASSUME LogInv, NEW s \in Stream, judge(s)
    PROVE  Traced \subseteq Traced'
<1> DEFINE line == Head(pipe[s])
<1>1. pipe[s] \in Seq(Line) /\ pipe[s] # <<>> /\ hand[s] = <<>> /\ Of(pipe[s], gen)
      /\ pipe \in [Stream -> Seq(Line)] /\ hand \in [Stream -> Seq(Line)]
  BY DEF judge, LogInv, TypeOK, LinesCurrent
<1>2. line \in Line /\ ToSet(pipe[s]) = {line} \cup ToSet(Tail(pipe[s]))
  BY <1>1, HeadTailLines, ToSetHeadTail
<1>3. reports(ToSet(pipe[s])) = reports({line}) \cup reports(ToSet(Tail(pipe[s])))
  BY <1>2, ReportsMonotone
<1>4. /\ pipe'[s] = Tail(pipe[s])
      /\ \A t \in Stream : t # s => pipe'[t] = pipe[t]
      /\ UNCHANGED <<todo, printed, lost, unlogged>>
  BY <1>1 DEF judge
<1>5. reports(ToSet(hand[s])) = {}
  BY <1>1, ToSetShort DEF reports
<1>6. CASE suppress(line)
  <2>1. hand' = hand
    BY <1>6 DEF judge
  <2>2. reports({line}) = {}
    BY <1>6 DEF suppress, reports
  <2>3. \A t \in Stream : Way(t) \subseteq Way(t)'
    BY <1>3, <1>4, <2>1, <2>2 DEF Way
  <2> QED BY <1>4, <2>3 DEF Traced
<1>7. CASE ~suppress(line)
  <2>1. hand'[s] = <<line>> /\ \A t \in Stream : t # s => hand'[t] = hand[t]
    BY <1>1, <1>7 DEF judge
  <2>2. reports(ToSet(hand'[s])) = reports({line})
    BY <1>2, <2>1, ToSetShort
  <2>3. \A t \in Stream : Way(t) \subseteq Way(t)'
    BY <1>3, <1>4, <1>5, <2>1, <2>2 DEF Way
  <2> QED BY <1>4, <2>3 DEF Traced
<1> QED BY <1>6, <1>7

LEMMA EmitTraces ==
    ASSUME LogInv, NEW s \in Stream, Emit(s)
    PROVE  Traced \subseteq Traced'
<1> USE DEF Emit
<1>1. \A t \in Stream : pipe'[t] = pipe[t] /\ (t # s => hand'[t] = hand[t])
  BY DEF LogInv, TypeOK
<1>2. reports(ToSet(hand[s])) \subseteq printed' /\ printed \subseteq printed'
  OBVIOUS
<1>3. \A t \in Stream : Way(t) \subseteq Way(t)' \cup printed'
  BY <1>1, <1>2 DEF Way
<1> QED BY <1>2, <1>3 DEF Traced

LEMMA SinkTraces ==
    ASSUME LogInv, NEW s \in Stream, SinkFails(s)
    PROVE  Traced \subseteq Traced'
<1> USE DEF SinkFails
<1>1. pipe[s] \in Seq(Line) /\ hand[s] \in Seq(Line)
  BY DEF LogInv, TypeOK
<1>2. \A t \in Stream : t # s => hand'[t] = hand[t] /\ pipe'[t] = pipe[t]
  BY DEF LogInv, TypeOK
<1>3. /\ ToSet(hand[s]) \subseteq ToSet(hand[s] \o pipe[s])
      /\ ToSet(pipe[s]) \subseteq ToSet(hand[s] \o pipe[s])
  BY <1>1, ToSetBoth
<1>4. /\ reports(ToSet(hand[s])) \subseteq reports(ToSet(hand[s] \o pipe[s]))
      /\ reports(ToSet(pipe[s])) \subseteq reports(ToSet(hand[s] \o pipe[s]))
  BY <1>3, ReportsMonotone
<1>5. Way(s) \subseteq lost' /\ lost \subseteq lost'
  BY <1>4 DEF Way
<1>6. \A t \in Stream : Way(t) \subseteq Way(t)' \cup lost'
  BY <1>2, <1>5 DEF Way
<1> QED BY <1>5, <1>6 DEF Traced

(* Nothing that was accounted for goes missing.                            *)
LEMMA StepTraced ==
    ASSUME LogInv, [Next]_vars
    PROVE  Traced \subseteq Traced'
<1>1. ASSUME UNCHANGED <<todo, pipe, hand, printed, lost, unlogged>>
      PROVE  Traced \subseteq Traced'
  BY <1>1 DEF Traced, Way
<1>2. CASE Process
  <2>1. CASE \E i \in Ids : Begin(i)
    BY <1>1, <2>1 DEF Begin, writerVars
  <2> QED BY <1>2, <2>1, FinishTraces, LogTraces DEF Process
<1>3. CASE Die
  BY <1>3, DieTraces
<1>4. CASE Restart
  BY <1>1, <1>4 DEF Restart
<1>5. CASE Tick
  BY <1>1, <1>5 DEF Tick
<1>6. CASE \E s \in Stream : Writer(s) \/ SinkFails(s)
  BY <1>6, JudgeTraces, EmitTraces, SinkTraces DEF Writer, Write, Flush
<1>7. CASE UNCHANGED vars
  BY <1>1, <1>7 DEF vars, writerVars
<1> QED BY <1>2, <1>3, <1>4, <1>5, <1>6, <1>7 DEF Next

LEMMA InitTraceInv == Init => TraceInv
BY InitLogInv DEF Init, TraceInv, FailuresTraced, CountersOfProcess

LEMMA StepTraceInv == TraceInv /\ [Next]_vars => TraceInv'
<1> SUFFICES ASSUME TraceInv, [Next]_vars PROVE TraceInv'
  OBVIOUS
<1>1. LogInv' /\ Traced \subseteq Traced'
  BY StepLogInv, StepTraced DEF TraceInv
<1>2. ASSUME UNCHANGED <<counter, gen>> PROVE FailuresTraced'
  BY <1>1, <1>2 DEF TraceInv, FailuresTraced
<1>3. ASSUME \A i \in Ids : counter'[i] = "none" PROVE FailuresTraced' /\ CountersOfProcess'
  BY <1>3 DEF FailuresTraced, CountersOfProcess
<1>4. ASSUME UNCHANGED <<counter, gen, up>> PROVE FailuresTraced' /\ CountersOfProcess'
  BY <1>2, <1>4 DEF TraceInv, CountersOfProcess
<1>5. CASE Process
  <2>1. CASE \E i \in Ids : Begin(i)
    BY <1>1, <1>4, <2>1 DEF Begin, TraceInv
  <2>2. ASSUME NEW i \in Ids, NEW tag \in Listeners, NEW end \in End, Finish(i, tag, end)
        PROVE  FailuresTraced' /\ CountersOfProcess'
    <3>1. /\ \A j \in Ids : counter'[j] = "err_total" =>
                               counter[j] = "err_total" \/ <<j, gen>> \in Traced'
          /\ LogInv
      BY <2>2, FinishTraces DEF TraceInv
    <3>2. gen' = gen /\ up'
      BY <2>2 DEF Finish
    <3> QED BY <1>1, <3>1, <3>2 DEF TraceInv, FailuresTraced, CountersOfProcess
  <2>3. ASSUME NEW s \in Stream, NEW line \in todo, Log(line, s)
        PROVE  FailuresTraced' /\ CountersOfProcess'
    BY <1>4, <2>3 DEF Log, processVars
  <2> QED BY <1>1, <1>5, <2>1, <2>2, <2>3 DEF Process, TraceInv
<1>6. CASE Die
  BY <1>1, <1>3, <1>6 DEF Die, forget, TraceInv
<1>7. CASE Restart
  <2>1. \A i \in Ids : counter'[i] = "none"
    BY <1>7 DEF Restart, TraceInv, CountersOfProcess
  <2> QED BY <1>1, <1>3, <2>1 DEF TraceInv
<1>8. CASE Tick
  BY <1>1, <1>4, <1>8 DEF Tick, processVars, TraceInv
<1>9. CASE \E s \in Stream : Writer(s) \/ SinkFails(s)
  BY <1>1, <1>4, <1>9 DEF Writer, Write, Flush, judge, Emit, SinkFails, processVars, TraceInv
<1>10. CASE UNCHANGED vars
  BY <1>1, <1>4, <1>10 DEF vars, processVars, TraceInv
<1> QED BY <1>5, <1>6, <1>7, <1>8, <1>9, <1>10 DEF Next

(* Every failure that err_total counts has its boundary report printed,    *)
(* lost with the process or with the output, or still on its way to the    *)
(* output (collector.Exec and the entry handler's log line): there is no   *)
(* failure that the metrics show and the log never will.                   *)
THEOREM CountedFailuresTraced == Spec => []FailuresTraced
<1>1. TraceInv => FailuresTraced
  BY DEF TraceInv
<1> QED BY <1>1, InitTraceInv, StepTraceInv, PTL DEF Spec

(* A boundary report that was once logged stays accounted for: neither the *)
(* deduper nor the end of a line, of the process or of the output makes    *)
(* one disappear (childLogWriter.Write, Flush and superviseChild).         *)
THEOREM ReportsConserved == Spec => [][Traced \subseteq Traced']_vars
<1>1. LogInv /\ [Next]_vars => [Traced \subseteq Traced']_vars
  BY StepTraced
<1> QED BY <1>1, Invariance, PTL DEF Spec
====
