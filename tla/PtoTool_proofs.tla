--------------------------- MODULE PtoTool_proofs ---------------------------
(***************************************************************************)
(* Proofs about the annotation pipeline of module PtoTool, for every value *)
(* of its constants that satisfies TraceAssumption.                     *)
(***************************************************************************)
EXTENDS PtoTool, TLAPS

\* The entry the current loop is at is an event of the universe.
LEMMA EntryType ==
  ASSUME TypeOK, pos <= Len(trace)
  PROVE  trace[pos] \in Event
BY TraceAssumption, ConstantsAssumption DEF TypeOK

(***************************************************************************)
(* Type correctness: every state of the pipeline has the types of TypeOK,  *)
(* in particular every annotation is a time or null and a Boolean, and     *)
(* every sent map and acked set is keyed by packet numbers.                *)
(***************************************************************************)
LEMMA TypeInit == Init => TypeOK
<1> SUFFICES ASSUME Init PROVE TypeOK
  OBVIOUS
<1>1. PICK n \in 0 .. MaxTraceLen : trace \in [1 .. n -> Events]
    BY DEF Init, Traces
<1>2. trace \in Seq(Events) /\ Len(trace) = n
  BY <1>1, TraceAssumption
<1>3. QED
  BY <1>2 DEF Init, TypeOK, Phase

LEMMA TypeNext == TypeOK /\ [Next]_vars => TypeOK'
<1> SUFFICES ASSUME TypeOK, [Next]_vars PROVE TypeOK'
  OBVIOUS
<1>1. CASE Load
  BY <1>1 DEF Load, TypeOK, Phase
<1>2. CASE Pass1Sent
  <2> DEFINE e == trace[pos]
  <2>1. pos <= Len(trace) /\ e \in Event
    BY <1>2, EntryType DEF Pass1Sent
  <2>2. e.pkn \in Pkn /\ e.time \in Time /\ e.frames \in SUBSET FrameToken
    BY <1>2, <2>1 DEF Pass1Sent, Event
  <2>3. [time |-> e.time, frames |-> e.frames] \in PTOInfos
    BY <2>2 DEF PTOInfos
  <2>6. get_pkn(e) \in Pkn
    <3>1. e \in Events
      BY <2>1 DEF TypeOK
    <3>2. QED
      BY <2>2, <3>1, ConstantsAssumption DEF get_pkn
  <2>4. sent' \in [KnownSpace -> [Pkn -> PTOInfos \cup {NoInfo}]]
    BY <1>2, <2>3, <2>6 DEF Pass1Sent, IndexSent, cond_pkn_space, TypeOK
  <2>5. QED
    BY <1>2, <2>1, <2>4 DEF Pass1Sent, TypeOK
<1>3. CASE Pass1Fatal
  BY <1>3 DEF Pass1Fatal, TypeOK, Phase
<1>4. CASE Pass1Skip
  BY <1>4 DEF Pass1Skip, TypeOK
<1>5. CASE Pass1Done
  BY <1>5 DEF Pass1Done, TypeOK, Phase
<1>6. CASE Pass2Annotate
  <2> DEFINE e == trace[pos]
             res == Parse(e.ranges)
             s == cond_pkn_space(e)
             d == Difference(acked_so_far[s], res.expanded)
  <2>1. pos <= Len(trace) /\ e \in Event /\ s \in KnownSpace
    BY <1>6, EntryType DEF Pass2Annotate
  <2>2. res \in ParseResult
    BY <1>6, <2>1, TraceAssumption DEF Pass2Annotate, Event
  <2>3. acked_so_far' \in [KnownSpace -> SUBSET Pkn]
    BY <1>6, <2>1, <2>2 DEF Pass2Annotate, Difference, AddRange, ParseResult, TypeOK
  <2>4. MaxAckSentTime(sent[s], res.max) \in Time \cup {Null}
    BY <2>1, <2>2 DEF MaxAckSentTime, ParseResult, PTOInfos, TypeOK
  <2>5. [time |-> MaxAckSentTime(sent[s], res.max),
         eliciting |-> ContainsAckEliciting(d.n, sent[s])] \in Annotation
    BY <2>4 DEF Annotation, ContainsAckEliciting
  <2>6. ann' \in [1 .. Len(trace) -> Annotation \cup {NoAnn}]
    BY <1>6, <2>1, <2>5 DEF Pass2Annotate, TypeOK
  <2>7. QED
    BY <1>6, <2>1, <2>3, <2>6 DEF Pass2Annotate, TypeOK
<1>7. CASE Pass2Skip
  BY <1>7 DEF Pass2Skip, TypeOK
<1>8. CASE Pass2Abort
  BY <1>8 DEF Pass2Abort, TypeOK, Phase
<1>9. CASE Pass2Done
  BY <1>9 DEF Pass2Done, TypeOK, Phase
<1>10. CASE Write
  BY <1>10 DEF Write, TypeOK, Phase
<1>11. CASE UNCHANGED vars
  BY <1>11 DEF vars, TypeOK
<1>12. QED
  BY <1>1, <1>2, <1>3, <1>4, <1>5, <1>6, <1>7, <1>8, <1>9, <1>10, <1>11 DEF Next

THEOREM TypeCorrect == Spec => []TypeOK
BY TypeInit, TypeNext, PTL DEF Spec

-----------------------------------------------------------------------------
(***************************************************************************)
(* The acked sets are the history of the replayed acknowledgements.        *)
(* AckedIsHistory is inductive together with the types only: the step that *)
(* adds to a set reads sent and Parse at the entry, which TypeOK types.    *)
(***************************************************************************)
AckedInv == TypeOK /\ AckedIsHistory

\* What one more replayed entry adds to the history of a space.
LEMMA AckedBeforeStep ==
  ASSUME NEW s, NEW n \in Nat \ {0}
  PROVE  AckedBefore(s, n + 1) =
           AckedBefore(s, n) \cup
             (IF AckOf(s, n) THEN Parse(trace[n].ranges).expanded ELSE {})
<1>1. {k \in 1 .. (n + 1) - 1 : AckOf(s, k)} =
        {k \in 1 .. n - 1 : AckOf(s, k)} \cup (IF AckOf(s, n) THEN {n} ELSE {})
  OBVIOUS
<1>2. QED
  BY <1>1 DEF AckedBefore

THEOREM AckedHistory == Spec => []AckedIsHistory
<1>1. Init => AckedInv
  BY TypeInit DEF Init, AckedInv, AckedIsHistory
<1>2. AckedInv /\ [Next]_vars => AckedInv'
  <2> SUFFICES ASSUME AckedInv, [Next]_vars PROVE AckedInv'
    OBVIOUS
  <2> DEFINE Replay  == {"pass2", "write", "done"}
             History == \A s \in KnownSpace : acked_so_far'[s] = AckedBefore(s, pos')
  <2>1. TypeOK /\ TypeOK'
    BY TypeNext DEF AckedInv
  <2>2. trace' = trace
    BY DEF Next, vars, Load, Pass1Sent, Pass1Fatal, Pass1Skip, Pass1Done,
           Pass2Annotate, Pass2Skip, Pass2Abort, Pass2Done, Write
  <2>3. AckedIsHistory' <=> (phase' \in Replay => History)
    BY <2>2 DEF AckedIsHistory, AckedBefore, AckOf
  <2>4. phase' \in Replay => History
    <3>1. CASE Pass1Done
      <4>1. \A s \in KnownSpace : AckedBefore(s, 1) = {}
        BY DEF AckedBefore
      <4>2. QED
        BY <3>1, <4>1 DEF Pass1Done
    <3>2. CASE Pass2Annotate
      <4> DEFINE e == trace[pos]
                 res == Parse(e.ranges)
                 t == cond_pkn_space(e)
      <4>1. pos \in 1 .. Len(trace) /\ t \in KnownSpace /\ phase = "pass2"
        BY <2>1, <3>2 DEF Pass2Annotate, TypeOK
      <4>2. acked_so_far' = [acked_so_far EXCEPT ![t] = acked_so_far[t] \cup res.expanded]
        BY <3>2 DEF Pass2Annotate, AddRange, Difference
      <4>3. AckOf(t, pos) /\ \A s \in KnownSpace \ {t} : ~AckOf(s, pos)
        BY <3>2 DEF Pass2Annotate, AckOf, cond_name_received, cond_pkn_space
      <4>4. ASSUME NEW s \in KnownSpace
            PROVE  acked_so_far'[s] = AckedBefore(s, pos + 1)
        <5>1. acked_so_far[s] = AckedBefore(s, pos)
          BY <4>1 DEF AckedInv, AckedIsHistory
        <5>2. AckedBefore(s, pos + 1) =
                AckedBefore(s, pos) \cup
                  (IF AckOf(s, pos) THEN Parse(trace[pos].ranges).expanded ELSE {})
          BY <4>1, AckedBeforeStep
        <5>3. QED
          BY <2>1, <4>2, <4>3, <5>1, <5>2 DEF TypeOK
      <4>5. QED
        BY <3>2, <4>1, <4>4 DEF Pass2Annotate
    <3>3. CASE Pass2Skip
      <4>1. pos \in 1 .. Len(trace) /\ phase = "pass2"
        BY <2>1, <3>3 DEF Pass2Skip, TypeOK
      <4>2. ASSUME NEW s \in KnownSpace
            PROVE  acked_so_far[s] = AckedBefore(s, pos + 1)
        <5>1. AckOf(s, pos) => Parse(trace[pos].ranges).expanded = {}
          BY <3>3 DEF Pass2Skip, AckOf, cond_name_received, EmptyAckRange
        <5>2. AckedBefore(s, pos + 1) =
                AckedBefore(s, pos) \cup
                  (IF AckOf(s, pos) THEN Parse(trace[pos].ranges).expanded ELSE {})
          BY <4>1, AckedBeforeStep
        <5>3. QED
          BY <4>1, <5>1, <5>2 DEF AckedInv, AckedIsHistory
      <4>3. QED
        BY <3>3, <4>1, <4>2 DEF Pass2Skip
    <3>4. CASE ~Pass1Done /\ ~Pass2Annotate /\ ~Pass2Skip
      <4>1. UNCHANGED acked_so_far
            /\ (phase' \in Replay => phase \in Replay /\ pos' = pos)
        <5>1. CASE Load
          BY <5>1 DEF Load
        <5>2. CASE Pass1Sent
          BY <5>2 DEF Pass1Sent
        <5>3. CASE Pass1Fatal
          BY <5>3 DEF Pass1Fatal
        <5>4. CASE Pass1Skip
          BY <5>4 DEF Pass1Skip
        <5>5. CASE Pass2Abort
          BY <5>5 DEF Pass2Abort
        <5>6. CASE Pass2Done
          BY <5>6 DEF Pass2Done
        <5>7. CASE Write
          BY <5>7 DEF Write
        <5>8. CASE UNCHANGED vars
          BY <5>8 DEF vars
        <5>9. QED
          BY <3>4, <5>1, <5>2, <5>3, <5>4, <5>5, <5>6, <5>7, <5>8 DEF Next
      <4>2. QED
        BY <4>1 DEF AckedInv, AckedIsHistory
    <3>5. QED
      BY <3>1, <3>2, <3>3, <3>4
  <2>5. QED
    BY <2>1, <2>3, <2>4 DEF AckedInv
<1>3. QED
  BY <1>1, <1>2, PTL DEF Spec, AckedInv
-----------------------------------------------------------------------------
(***************************************************************************)
(* Which entries carry the derived fields.  AnnotatedExactly speaks only   *)
(* of the end of the second loop; the invariant that carries it through    *)
(* the loop says that before it nothing is annotated, and during and after *)
(* it exactly the entries before pos that the spec says to annotate are.   *)
(* A fatal error or a panic ends the run, so nothing is claimed of them.   *)
(***************************************************************************)
AnnShape ==
  /\ phase \in {"load", "io_error", "pass1"} =>
       \A i \in 1 .. Len(trace) : ann[i] = NoAnn
  /\ phase \in {"pass2", "write", "done", "hung"} =>
       \A i \in 1 .. Len(trace) : ann[i] # NoAnn <=> i < pos /\ ShouldAnnotate(i)
  /\ phase \in {"write", "done"} => pos = Len(trace) + 1

\* Whether the spec says to annotate an entry depends on the trace alone.
LEMMA ShouldAnnotateUnchanged ==
  ASSUME NEW i, trace' = trace
  PROVE  ShouldAnnotate(i)' = ShouldAnnotate(i)
BY DEF ShouldAnnotate

\* The fields Pass2Annotate writes are an annotation, never NoAnn.
LEMMA AnnotateType ==
  ASSUME TypeOK, Pass2Annotate
  PROVE  ann'[pos] \in Annotation
<1> DEFINE e   == trace[pos]
           res == Parse(e.ranges)
           s   == cond_pkn_space(e)
<1>1. pos \in 1 .. Len(trace) /\ e \in Event /\ s \in KnownSpace
  BY EntryType DEF Pass2Annotate, TypeOK
<1>2. res \in ParseResult
  BY <1>1, TraceAssumption DEF Pass2Annotate, Event
<1>3. MaxAckSentTime(sent[s], res.max) \in Time \cup {Null}
  BY <1>1, <1>2 DEF MaxAckSentTime, ParseResult, PTOInfos, TypeOK
<1>4. QED
  BY <1>1, <1>3 DEF Pass2Annotate, Annotation, ContainsAckEliciting, TypeOK

LEMMA AnnShapeInit == Init => AnnShape
BY DEF Init, AnnShape

LEMMA AnnShapeStep == TypeOK /\ AnnShape /\ [Next]_vars => AnnShape'
<1> SUFFICES ASSUME TypeOK, AnnShape, [Next]_vars PROVE AnnShape'
  OBVIOUS
<1>0. trace' = trace /\ \A i : ShouldAnnotate(i)' = ShouldAnnotate(i)
  <2>1. trace' = trace
    BY DEF Next, vars, Load, Pass1Sent, Pass1Fatal, Pass1Skip, Pass1Done,
           Pass2Annotate, Pass2Skip, Pass2Abort, Pass2Done, Write
  <2>2. QED
    BY <2>1, ShouldAnnotateUnchanged
<1>1. CASE Load
  BY <1>0, <1>1 DEF Load, AnnShape
<1>2. CASE Pass1Sent
  BY <1>0, <1>2 DEF Pass1Sent, AnnShape
<1>3. CASE Pass1Fatal
  BY <1>0, <1>3 DEF Pass1Fatal, AnnShape
<1>4. CASE Pass1Skip
  BY <1>0, <1>4 DEF Pass1Skip, AnnShape
<1>5. CASE Pass1Done
  BY <1>0, <1>5 DEF Pass1Done, AnnShape
<1>6. CASE Pass2Annotate
  <2>1. phase = "pass2" /\ phase' = "pass2" /\ pos \in 1 .. Len(trace) /\ pos' = pos + 1
    BY <1>6 DEF Pass2Annotate, TypeOK
  <2>2. ShouldAnnotate(pos)
    BY <1>6 DEF Pass2Annotate, ShouldAnnotate, cond_name_received,
                cond_pkn_space, EmptyAckRange
  <2>3. ann'[pos] # NoAnn
    BY <1>6, AnnotateType, TraceAssumption
  <2>4. \A i \in 1 .. Len(trace) \ {pos} : ann'[i] = ann[i]
    BY <1>6, <2>1 DEF Pass2Annotate, TypeOK
  <2>5. ASSUME NEW i \in 1 .. Len(trace)
        PROVE  ann'[i] # NoAnn <=> i < pos' /\ ShouldAnnotate(i)'
    <3>1. CASE i = pos
      BY <1>0, <2>1, <2>2, <2>3, <3>1
    <3>2. CASE i # pos
      BY <1>0, <2>1, <2>4, <3>2 DEF AnnShape
    <3>3. QED
      BY <3>1, <3>2
  <2>6. QED
    BY <1>0, <2>1, <2>5 DEF AnnShape
<1>7. CASE Pass2Skip
  <2>1. phase = "pass2" /\ pos \in 1 .. Len(trace)
    BY <1>7 DEF Pass2Skip, TypeOK
  <2>2. ~ShouldAnnotate(pos)
    BY <1>7 DEF Pass2Skip, ShouldAnnotate, cond_name_received, EmptyAckRange
  <2>3. QED
    BY <1>0, <1>7, <2>1, <2>2 DEF Pass2Skip, AnnShape
<1>8. CASE Pass2Abort
  BY <1>0, <1>8 DEF Pass2Abort, AnnShape
<1>9. CASE Pass2Done
  <2>1. pos = Len(trace) + 1
    BY <1>9 DEF Pass2Done, TypeOK
  <2>2. QED
    BY <1>0, <1>9, <2>1 DEF Pass2Done, AnnShape
<1>10. CASE Write
  BY <1>0, <1>10 DEF Write, AnnShape
<1>11. CASE UNCHANGED vars
  BY <1>0, <1>11 DEF vars, AnnShape
<1>12. QED
  BY <1>1, <1>2, <1>3, <1>4, <1>5, <1>6, <1>7, <1>8, <1>9, <1>10, <1>11 DEF Next

(***************************************************************************)
(* When the second loop is over, exactly the entries the spec says to      *)
(* annotate carry the derived fields: the "continue" on an empty range and *)
(* the space and name tests before entry.Set leave every other entry       *)
(* alone, and no entry is skipped.  No hypothesis on the float64 decoding  *)
(* is needed: which entries are annotated does not depend on sent.         *)
(***************************************************************************)
THEOREM AnnotatedExactlyCorrect == Spec => []AnnotatedExactly
<1>1. TypeOK /\ AnnShape => AnnotatedExactly
  BY DEF AnnShape, AnnotatedExactly, TypeOK
<1>2. QED
  BY <1>1, TypeInit, TypeNext, AnnShapeInit, AnnShapeStep, PTL DEF Spec
-----------------------------------------------------------------------------
(***************************************************************************)
(* What the loops have checked.  The first loop checks every send for its  *)
(* packet number, time and frame types, whatever its space; the second     *)
(* checks every acknowledgement for a range that is present and well       *)
(* formed, whatever its space, before the empty-range "continue".          *)
(***************************************************************************)
SendChecked(n) ==
  \A j \in 1 .. n - 1 :
    trace[j].name = qlog_name_sent => Absent \notin {trace[j].pkn, trace[j].time, trace[j].frames}
RcvChecked(n) ==
  \A j \in 1 .. n - 1 :
    trace[j].name = qlog_name_received =>
      trace[j].ranges # Absent /\ Parse(trace[j].ranges).outcome # "malformed"

ChecksInv ==
  /\ phase \in {"load", "pass1"} => SendChecked(pos)
  /\ phase \in {"pass2", "write", "done", "hung"} =>
       SendChecked(Len(trace) + 1) /\ RcvChecked(pos)
  /\ phase \in {"write", "done"} => pos = Len(trace) + 1

\* The checks of the entries before n read the trace alone.
LEMMA ChecksUnchanged ==
  ASSUME NEW n, trace' = trace
  PROVE  /\ SendChecked(n)' = SendChecked(n)
         /\ RcvChecked(n)' = RcvChecked(n)
BY DEF SendChecked, RcvChecked

LEMMA ChecksInit == Init => ChecksInv
BY DEF Init, ChecksInv, SendChecked

LEMMA ChecksStep == TypeOK /\ ChecksInv /\ [Next]_vars => ChecksInv'
<1> SUFFICES ASSUME TypeOK, ChecksInv, [Next]_vars PROVE ChecksInv'
  OBVIOUS
<1>0. trace' = trace /\ \A n : SendChecked(n)' = SendChecked(n) /\ RcvChecked(n)' = RcvChecked(n)
  <2>1. trace' = trace
    BY DEF Next, vars, Load, Pass1Sent, Pass1Fatal, Pass1Skip, Pass1Done,
           Pass2Annotate, Pass2Skip, Pass2Abort, Pass2Done, Write
  <2>2. QED
    BY <2>1, ChecksUnchanged
<1>1. CASE Load
  BY <1>0, <1>1 DEF Load, ChecksInv
<1>2. CASE Pass1Sent
  <2>1. phase = "pass1" /\ phase' = "pass1" /\ pos \in 1 .. Len(trace) /\ pos' = pos + 1
    BY <1>2 DEF Pass1Sent, TypeOK
  <2>2. Absent \notin {trace[pos].pkn, trace[pos].time, trace[pos].frames}
    BY <1>2 DEF Pass1Sent
  <2>3. SendChecked(pos + 1)
    BY <2>1, <2>2 DEF ChecksInv, SendChecked
  <2>4. QED
    BY <1>0, <2>1, <2>3 DEF ChecksInv
<1>3. CASE Pass1Fatal
  BY <1>0, <1>3 DEF Pass1Fatal, ChecksInv
<1>4. CASE Pass1Skip
  <2>1. phase = "pass1" /\ phase' = "pass1" /\ pos \in 1 .. Len(trace) /\ pos' = pos + 1
    BY <1>4 DEF Pass1Skip, TypeOK
  <2>2. trace[pos].name # qlog_name_sent
    BY <1>4 DEF Pass1Skip, cond_name_sent
  <2>3. SendChecked(pos + 1)
    BY <2>1, <2>2 DEF ChecksInv, SendChecked
  <2>4. QED
    BY <1>0, <2>1, <2>3 DEF ChecksInv
<1>5. CASE Pass1Done
  <2>1. phase = "pass1" /\ phase' = "pass2" /\ pos = Len(trace) + 1 /\ pos' = 1
    BY <1>5 DEF Pass1Done, TypeOK
  <2>2. RcvChecked(1)
    BY DEF RcvChecked
  <2>3. QED
    BY <1>0, <2>1, <2>2 DEF ChecksInv
<1>6. CASE Pass2Annotate
  <2>1. phase = "pass2" /\ phase' = "pass2" /\ pos \in 1 .. Len(trace) /\ pos' = pos + 1
    BY <1>6 DEF Pass2Annotate, TypeOK
  <2>2. trace[pos].ranges # Absent /\ Parse(trace[pos].ranges).outcome = "ok"
    BY <1>6 DEF Pass2Annotate
  <2>3. RcvChecked(pos + 1)
    BY <2>1, <2>2 DEF ChecksInv, RcvChecked
  <2>4. QED
    BY <1>0, <2>1, <2>3 DEF ChecksInv
<1>7. CASE Pass2Skip
  <2>1. phase = "pass2" /\ phase' = "pass2" /\ pos \in 1 .. Len(trace) /\ pos' = pos + 1
    BY <1>7 DEF Pass2Skip, TypeOK
  <2>2. trace[pos].name = qlog_name_received =>
          trace[pos].ranges # Absent /\ Parse(trace[pos].ranges).outcome = "ok"
    BY <1>7 DEF Pass2Skip, cond_name_received
  <2>3. RcvChecked(pos + 1)
    BY <2>1, <2>2 DEF ChecksInv, RcvChecked
  <2>4. QED
    BY <1>0, <2>1, <2>3 DEF ChecksInv
<1>8. CASE Pass2Abort
  BY <1>0, <1>8 DEF Pass2Abort, ChecksInv
<1>9. CASE Pass2Done
  <2>1. pos = Len(trace) + 1
    BY <1>9 DEF Pass2Done, TypeOK
  <2>2. QED
    BY <1>0, <1>9, <2>1 DEF Pass2Done, ChecksInv
<1>10. CASE Write
  BY <1>0, <1>10 DEF Write, ChecksInv
<1>11. CASE UNCHANGED vars
  BY <1>0, <1>11 DEF vars, ChecksInv
<1>12. QED
  BY <1>1, <1>2, <1>3, <1>4, <1>5, <1>6, <1>7, <1>8, <1>9, <1>10, <1>11 DEF Next

(***************************************************************************)
(* Spec section 7, the direction the code keeps: no trace with a send      *)
(* that lacks its packet number, time or frame types, or an               *)
(* acknowledgement that lacks its range or has a malformed one, is ever    *)
(* written out.  Both loops check every entry, of every space, before the *)
(* write; the theorem holds for every codec and every trace length.        *)
(***************************************************************************)
THEOREM FatalConditionsStop == Spec => []FatalStops
<1>1. ChecksInv => FatalStops
  <2> SUFFICES ASSUME ChecksInv, phase \in {"write", "done"},
                      NEW j \in 1 .. Len(trace), trace[j].space \in KnownSpace
               PROVE  LET e == trace[j] IN
                      ~ \/ e.name = qlog_name_sent /\ Absent \in {e.pkn, e.time, e.frames}
                        \/ e.name = qlog_name_received /\ e.ranges = Absent
                        \/ e.name = qlog_name_received /\ Parse(e.ranges).outcome = "malformed"
    BY DEF FatalStops, SpecFatal
  <2>1. SendChecked(Len(trace) + 1) /\ RcvChecked(Len(trace) + 1)
    BY DEF ChecksInv
  <2>2. QED
    BY <2>1 DEF SendChecked, RcvChecked
<1>2. QED
  BY <1>1, TypeInit, TypeNext, ChecksInit, ChecksStep, PTL DEF Spec
-----------------------------------------------------------------------------
(***************************************************************************)
(* The steps of run() outside the expansion loop are bounded.  What is     *)
(* left of them is the iterations of the two range loops still to come and *)
(* the steps around them: the load, the end of each loop and the write.    *)
(* The exits have nothing left, and so has "hung": there run() is stuck in *)
(* the expansion loop inside Parse (lines 142-144) and takes no further    *)
(* step of its own.                                                        *)
(***************************************************************************)
Rank(ph, p, n) ==
  CASE ph = "load"  -> 2 * n + 4
    [] ph = "pass1" -> (n + 1 - p) + n + 3
    [] ph = "pass2" -> (n + 1 - p) + 2
    [] ph = "write" -> 1
    [] OTHER        -> 0

StepsLeft == Rank(phase, pos, Len(trace))

\* Rank is a natural number, and lower in every later phase or position.
LEMMA RankOrder ==
  ASSUME NEW n \in Nat, NEW ph \in Phase, NEW p \in 1 .. n + 1,
         NEW ph2 \in Phase, NEW p2 \in 1 .. n + 1
  PROVE  /\ Rank(ph, p, n) \in Nat
         /\ ph = "load" /\ ph2 # "load" => Rank(ph2, p2, n) < Rank(ph, p, n)
         /\ ph = "pass1" /\ ph2 = "pass1" /\ p2 = p + 1 => Rank(ph2, p2, n) < Rank(ph, p, n)
         /\ ph = "pass1" /\ ph2 \notin {"load", "pass1"} => Rank(ph2, p2, n) < Rank(ph, p, n)
         /\ ph = "pass2" /\ ph2 = "pass2" /\ p2 = p + 1 => Rank(ph2, p2, n) < Rank(ph, p, n)
         /\ ph = "pass2" /\ ph2 \notin {"load", "pass1", "pass2"} /\ p <= n + 1
            => Rank(ph2, p2, n) < Rank(ph, p, n)
         /\ ph = "write" /\ ph2 \notin {"load", "pass1", "pass2", "write"}
            => Rank(ph2, p2, n) < Rank(ph, p, n)
  BY DEF Rank

\* The entry at i is a received event whose ack range the codec cannot
\* expand: the expansion loop of parse_ack_ranges never ends on it.
HangsAt(i) ==
  /\ cond_name_received(trace[i])
  /\ trace[i].ranges # Absent
  /\ Parse(trace[i].ranges).outcome = "hangs"

\* The run is stuck only on such an entry, the one the second loop is at.
HungOnHang == phase = "hung" => pos \in 1 .. Len(trace) /\ HangsAt(pos)

LEMMA HungOnHangInv == Spec => []HungOnHang
<1>1. Init => HungOnHang
  BY DEF Init, HungOnHang
<1>2. TypeOK /\ HungOnHang /\ [Next]_vars => HungOnHang'
  <2> SUFFICES ASSUME TypeOK, HungOnHang, [Next]_vars, phase' = "hung"
               PROVE  pos' \in 1 .. Len(trace') /\ HangsAt(pos)'
    BY DEF HungOnHang
  <2>1. CASE Pass2Abort
    <3>1. /\ trace' = trace /\ pos' = pos /\ pos \in 1 .. Len(trace)
          /\ cond_name_received(trace[pos])
          /\ trace[pos].ranges # Absent /\ Parse(trace[pos].ranges).outcome = "hangs"
      BY <2>1 DEF Pass2Abort, get_ack_range_fails, TypeOK
    <3>2. QED
      BY <3>1 DEF HangsAt
  <2>2. CASE UNCHANGED vars
    BY <2>2 DEF vars, HungOnHang, HangsAt
  <2>3. CASE ~Pass2Abort /\ ~UNCHANGED vars
    BY <2>3 DEF Next, Load, Pass1Sent, Pass1Fatal, Pass1Skip, Pass1Done,
                Pass2Annotate, Pass2Skip, Pass2Done, Write
  <2>4. QED
    BY <2>1, <2>2, <2>3
<1>3. QED
  BY <1>1, <1>2, TypeCorrect, PTL DEF Spec

(***************************************************************************)
(* run() either ends or hangs in the expansion loop of one entry: every   *)
(* step it takes lowers StepsLeft, a natural number that is               *)
(* 2 * Len(trace) + 4 at the start (each range loop visits every entry     *)
(* once and never goes back), and the one state with no step that is not  *)
(* an exit, "hung", is reached only at a received entry whose ack range   *)
(* the codec cannot expand.  So a trace without such an entry ends within *)
(* 2 * Len(trace) + 4 steps; which ranges hang (one ending at MaxUint64,  *)
(* line 142) is a property of the codec, model-checked by                  *)
(* hang_at_max_uint64.  That a step is taken while one is possible is the *)
(* fairness assumption, which is not proved here.                          *)
(***************************************************************************)
THEOREM RunEndsOrHangs ==
  Spec => /\ [](StepsLeft \in Nat)
          /\ [][StepsLeft' < StepsLeft]_vars
          /\ []HungOnHang
<1>1. TypeOK /\ TypeOK' /\ [Next]_vars => [StepsLeft' < StepsLeft]_vars
  <2> SUFFICES ASSUME TypeOK, TypeOK', [Next]_vars PROVE StepsLeft' < StepsLeft \/ UNCHANGED vars
    OBVIOUS
  <2>1. trace' = trace \/ UNCHANGED vars
    BY Zenon DEF Next, vars, Load, Pass1Sent, Pass1Fatal, Pass1Skip, Pass1Done,
                 Pass2Annotate, Pass2Skip, Pass2Abort, Pass2Done, Write
  <2>2. /\ Len(trace) \in Nat
        /\ phase \in Phase /\ pos \in 1 .. Len(trace) + 1
        /\ phase' \in Phase /\ pos' \in 1 .. Len(trace') + 1
    BY DEF TypeOK
  <2>0. /\ trace' = trace \/ UNCHANGED vars
        /\ Len(trace) \in Nat
        /\ phase \in Phase /\ pos \in 1 .. Len(trace) + 1
        /\ phase' \in Phase /\ pos' \in 1 .. Len(trace') + 1
    BY <2>1, <2>2
  <2> DEFINE n == Len(trace)
  <2>a. CASE UNCHANGED vars
    BY <2>a
  <2>b. CASE ~UNCHANGED vars
    <3>0. /\ trace' = trace /\ n \in Nat
          /\ phase \in Phase /\ pos \in 1 .. n + 1
          /\ phase' \in Phase /\ pos' \in 1 .. n + 1
          /\ StepsLeft = Rank(phase, pos, n) /\ StepsLeft' = Rank(phase', pos', n)
      BY <2>0, <2>b DEF StepsLeft
    <3>1. CASE Load
      BY <3>0, <3>1, RankOrder DEF Load
    <3>2. CASE Pass1Sent
      BY <3>0, <3>2, RankOrder DEF Pass1Sent
    <3>3. CASE Pass1Fatal
      BY <3>0, <3>3, RankOrder DEF Pass1Fatal
    <3>4. CASE Pass1Skip
      BY <3>0, <3>4, RankOrder DEF Pass1Skip
    <3>5. CASE Pass1Done
      BY <3>0, <3>5, RankOrder DEF Pass1Done
    <3>6. CASE Pass2Annotate
      BY <3>0, <3>6, RankOrder DEF Pass2Annotate
    <3>7. CASE Pass2Skip
      BY <3>0, <3>7, RankOrder DEF Pass2Skip
    <3>8. CASE Pass2Abort
      <4>1. phase = "pass2" /\ phase' \in {"fatal", "hung", "panic"} /\ pos' = pos
        BY <3>8 DEF Pass2Abort
      <4>2. QED
        BY <3>0, <4>1, RankOrder
    <3>9. CASE Pass2Done
      BY <3>0, <3>9, RankOrder DEF Pass2Done
    <3>10. CASE Write
      BY <3>0, <3>10, RankOrder DEF Write
    <3>11. QED
      BY <2>b, <3>1, <3>2, <3>3, <3>4, <3>5, <3>6, <3>7, <3>8, <3>9, <3>10 DEF Next
  <2>c. QED
    BY <2>a, <2>b
<1>2. TypeOK => StepsLeft \in Nat
  BY RankOrder DEF TypeOK, StepsLeft
<1>3. QED
  BY <1>1, <1>2, TypeCorrect, HungOnHangInv, PTL DEF Spec
=============================================================================
