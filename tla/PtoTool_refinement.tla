-------------------------- MODULE PtoTool_refinement --------------------------
(***************************************************************************)
(* Proofs that run() computes the annotations spec 4.6 determines, and     *)
(* that PtoTool implements the abstract annotator PtoAnnotator under the   *)
(* refinement mapping of PtoTool, for every value of the constants that    *)
(* satisfies TraceAssumption and ConstantsAssumption, on the hypothesis    *)
(* ExactPkn: the float64 round trip of get_pkn keeps the packet number of *)
(* every event (numbers below 2^53; run float_pkn_collision shows what     *)
(* goes wrong above).                                                      *)
(*                                                                         *)
(* The argument: after the first loop, sent holds for every (space,        *)
(* number) the fields of the LAST sent entry of the trace (SentInv); in    *)
(* the second loop the acked set is the history of the space               *)
(* (AckedIsHistory, module PtoTool_proofs); from the two, the fields       *)
(* Pass2Annotate writes are SpecAnnotation(pos) (AnnotateCorrect).         *)
(***************************************************************************)
EXTENDS PtoTool_proofs

\* The sent fields of entry j, as the first loop stores them.
InfoOf(j) == [time |-> trace[j].time, frames |-> trace[j].frames]

\* sent holds, for every known space and number, the fields of the last
\* entry before n that sends it, and NoInfo when there is none.
IndexedUpTo(n) ==
  \A s \in KnownSpace, p \in Pkn :
    LET S == SendsBefore(s, p, n) IN
    IF S = {} THEN sent[s][p] = NoInfo
    ELSE LastOf(S) \in S /\ sent[s][p] = InfoOf(LastOf(S))

\* Every sent entry before n carries time and frame types.
SentComplete(n) ==
  \A j \in 1 .. n - 1 :
    trace[j].name = qlog_name_sent => trace[j].time # Absent /\ trace[j].frames # Absent

\* Replay: the phases after the first loop in which the index is final.
Replay == {"pass2", "write", "done", "hung"}

SentInv ==
  /\ phase = "load" => pos = 1 /\ IndexedUpTo(1)
  /\ phase = "pass1" => IndexedUpTo(pos) /\ SentComplete(pos)
  /\ phase \in Replay => IndexedUpTo(Len(trace) + 1) /\ SentComplete(Len(trace) + 1)
  /\ phase \in {"write", "done"} => pos = Len(trace) + 1

\* The last of a set of numbers below n, and n, is n.
LEMMA LastOfAppend ==
  ASSUME NEW J \in SUBSET Nat, NEW n \in Nat, \A j \in J : j < n
  PROVE  LastOf(J \cup {n}) = n
<1>1. \A k \in J \cup {n} : k <= n
  OBVIOUS
<1>2. \A x \in J \cup {n} : (\A k \in J \cup {n} : k <= x) => x = n
  OBVIOUS
<1>3. QED
  BY <1>1, <1>2 DEF LastOf

\* One more entry that is not a send of p in s leaves the sends unchanged,
\* and a send of p in s at n is added.
LEMMA SendsBeforeStep ==
  ASSUME NEW s, NEW p, NEW n \in Nat \ {0}
  PROVE  SendsBefore(s, p, n + 1) =
           SendsBefore(s, p, n) \cup
             (IF trace[n].name = qlog_name_sent /\ trace[n].space = s /\ trace[n].pkn = p
              THEN {n} ELSE {})
BY DEF SendsBefore

LEMMA SentInvInit == Init => SentInv
BY DEF Init, SentInv, IndexedUpTo, SendsBefore, Replay

\* A step that leaves trace and sent alone keeps the index of any prefix.
LEMMA IndexedUnchanged ==
  ASSUME NEW n, trace' = trace, sent' = sent, IndexedUpTo(n)
  PROVE  IndexedUpTo(n)'
<1>1. \A s, p : SendsBefore(s, p, n)' = SendsBefore(s, p, n)
  BY DEF SendsBefore
<1>2. \A j : InfoOf(j)' = InfoOf(j)
  BY DEF InfoOf
<1>3. QED
  BY <1>1, <1>2 DEF IndexedUpTo

LEMMA SentCompleteUnchanged ==
  ASSUME NEW n, trace' = trace, SentComplete(n)
  PROVE  SentComplete(n)'
BY DEF SentComplete

\* One iteration of the first loop on a sent entry: the index of the
\* prefix up to pos becomes the index of the prefix up to pos + 1.
LEMMA IndexSentStep ==
  ASSUME ExactPkn, TypeOK, SentInv, Pass1Sent
  PROVE  IndexedUpTo(pos)' /\ SentComplete(pos)'
<1> DEFINE e == trace[pos]
           info == [time |-> e.time, frames |-> e.frames]
           SB(s, p) == SendsBefore(s, p, pos)
           SB1(s, p) == SendsBefore(s, p, pos + 1)
<1>1. /\ phase = "pass1" /\ pos \in 1 .. Len(trace) /\ e \in Event
      /\ e.name = qlog_name_sent /\ e.pkn \in Pkn
      /\ e.time # Absent /\ e.frames # Absent
      /\ trace' = trace /\ pos' = pos + 1
  BY EntryType DEF Pass1Sent, TypeOK, cond_name_sent, Event
<1>0. pos \in Nat \ {0} /\ get_pkn(e) = e.pkn
  BY <1>1 DEF ExactPkn, get_pkn, TypeOK
<1>2. IndexedUpTo(pos) /\ SentComplete(pos)
  BY <1>1 DEF SentInv
<1>3. SentComplete(pos)'
  BY <1>1, <1>2 DEF SentComplete
<1>4. \A s, p : SB1(s, p) = SB(s, p) \cup (IF e.space = s /\ e.pkn = p THEN {pos} ELSE {})
  <2> SUFFICES ASSUME NEW s, NEW p
               PROVE  SB1(s, p) = SB(s, p) \cup (IF e.space = s /\ e.pkn = p THEN {pos} ELSE {})
    OBVIOUS
  <2>1. SendsBefore(s, p, pos + 1) =
          SendsBefore(s, p, pos) \cup
            (IF trace[pos].name = qlog_name_sent /\ trace[pos].space = s /\ trace[pos].pkn = p
             THEN {pos} ELSE {})
    BY <1>0, SendsBeforeStep
  <2> QED
    BY <1>1, <2>1
<1>5. \A s, p : SB(s, p) \subseteq Nat /\ \A j \in SB(s, p) : j < pos
  BY <1>1 DEF SendsBefore
<1>6. SUFFICES ASSUME NEW s \in KnownSpace, NEW p \in Pkn
               PROVE  IF SB1(s, p) = {} THEN sent'[s][p] = NoInfo
                      ELSE LastOf(SB1(s, p)) \in SB1(s, p)
                           /\ sent'[s][p] = InfoOf(LastOf(SB1(s, p)))
  <2>1. \A s, p : SendsBefore(s, p, pos)' = SB1(s, p)
    BY <1>1 DEF SendsBefore
  <2>2. \A j : InfoOf(j)' = InfoOf(j)
    BY <1>1 DEF InfoOf
  <2> QED
    BY <1>3, <2>1, <2>2 DEF IndexedUpTo
<1>7. CASE e.space = s /\ e.pkn = p
  <2>1. sent'[s][p] = info
    BY <1>0, <1>1, <1>7 DEF Pass1Sent, cond_pkn_space, IndexSent, TypeOK
  <2>2. SB1(s, p) = SB(s, p) \cup {pos}
    BY <1>4, <1>7
  <2>3. LastOf(SB(s, p) \cup {pos}) = pos
    <3>1. SB(s, p) \in SUBSET Nat /\ \A j \in SB(s, p) : j < pos
      BY <1>5
    <3>2. QED
      BY <1>0, <3>1, LastOfAppend
  <2>4. QED
    BY <2>1, <2>2, <2>3 DEF InfoOf
<1>8. CASE ~(e.space = s /\ e.pkn = p)
  <2>1. sent'[s][p] = sent[s][p]
    BY <1>0, <1>1, <1>8 DEF Pass1Sent, cond_pkn_space, IndexSent, TypeOK
  <2>2. SB1(s, p) = SB(s, p)
    BY <1>4, <1>8
  <2>3. QED
    BY <1>2, <2>1, <2>2 DEF IndexedUpTo
<1>9. QED
  BY <1>7, <1>8

\* One iteration of the first loop on any other entry.
LEMMA IndexSkipStep ==
  ASSUME TypeOK, SentInv, Pass1Skip
  PROVE  IndexedUpTo(pos)' /\ SentComplete(pos)'
<1>1. /\ phase = "pass1" /\ pos \in Nat \ {0} /\ trace[pos].name # qlog_name_sent
      /\ trace' = trace /\ sent' = sent /\ pos' = pos + 1
  BY DEF Pass1Skip, TypeOK, cond_name_sent
<1>2. IndexedUpTo(pos) /\ SentComplete(pos)
  BY <1>1 DEF SentInv
<1>3. \A s, p : SendsBefore(s, p, pos)' = SendsBefore(s, p, pos)
  <2> SUFFICES ASSUME NEW s, NEW p
               PROVE  SendsBefore(s, p, pos)' = SendsBefore(s, p, pos)
    OBVIOUS
  <2>1. SendsBefore(s, p, pos + 1) = SendsBefore(s, p, pos)
    BY <1>1, SendsBeforeStep
  <2>2. SendsBefore(s, p, pos)' = SendsBefore(s, p, pos + 1)
    BY <1>1 DEF SendsBefore
  <2>3. QED
    BY <2>1, <2>2
<1>4. \A j : InfoOf(j)' = InfoOf(j)
  BY <1>1 DEF InfoOf
<1>5. IndexedUpTo(pos)'
  BY <1>1, <1>2, <1>3, <1>4 DEF IndexedUpTo
<1>6. SentComplete(pos)'
  BY <1>1, <1>2 DEF SentComplete
<1>7. QED
  BY <1>5, <1>6

\* A step of the second loop or of the write: trace and index are left
\* alone, and the run stays in the replay or stops.
LEMMA ReplayStep ==
  ASSUME TypeOK, SentInv, phase \in Replay,
         trace' = trace, sent' = sent,
         phase' \in Replay \cup {"fatal", "panic"},
         phase' \in {"write", "done"} => pos' = Len(trace) + 1
  PROVE  SentInv'
<1>1. IndexedUpTo(Len(trace) + 1) /\ SentComplete(Len(trace) + 1)
  BY DEF SentInv
<1>2. IndexedUpTo(Len(trace) + 1)' /\ SentComplete(Len(trace) + 1)'
  BY <1>1, IndexedUnchanged, SentCompleteUnchanged
<1>3. QED
  BY <1>2 DEF SentInv, Replay

LEMMA SentInvStep ==
  ASSUME ExactPkn
  PROVE  TypeOK /\ SentInv /\ [Next]_vars => SentInv'
<1> SUFFICES ASSUME TypeOK, SentInv, [Next]_vars PROVE SentInv'
  OBVIOUS
<1>1. CASE Load
  <2>1. phase = "load" /\ pos = 1 /\ IndexedUpTo(1) /\ pos' = pos
        /\ trace' = trace /\ sent' = sent /\ phase' \in {"pass1", "io_error"}
    BY <1>1 DEF Load, SentInv
  <2>2. IndexedUpTo(1)'
    BY <2>1, IndexedUnchanged
  <2>3. SentComplete(1)'
    BY DEF SentComplete
  <2>4. QED
    BY <2>1, <2>2, <2>3 DEF SentInv, Replay
<1>2. CASE Pass1Sent
  BY <1>2, IndexSentStep DEF Pass1Sent, SentInv, Replay
<1>3. CASE Pass1Skip
  BY <1>3, IndexSkipStep DEF Pass1Skip, SentInv, Replay
<1>4. CASE Pass1Fatal
  BY <1>4 DEF Pass1Fatal, SentInv, Replay
<1>5. CASE Pass1Done
  <2>1. /\ phase = "pass1" /\ pos = Len(trace) + 1
        /\ trace' = trace /\ sent' = sent /\ phase' = "pass2"
    BY <1>5 DEF Pass1Done, TypeOK
  <2>2. IndexedUpTo(Len(trace) + 1) /\ SentComplete(Len(trace) + 1)
    BY <2>1 DEF SentInv
  <2>3. IndexedUpTo(Len(trace) + 1)' /\ SentComplete(Len(trace) + 1)'
    BY <2>1, <2>2, IndexedUnchanged, SentCompleteUnchanged
  <2>4. QED
    BY <2>1, <2>3 DEF SentInv, Replay
<1>6. CASE Pass2Annotate
  BY <1>6, ReplayStep DEF Pass2Annotate, Replay
<1>7. CASE Pass2Skip
  BY <1>7, ReplayStep DEF Pass2Skip, Replay
<1>8. CASE Pass2Abort
  BY <1>8, ReplayStep DEF Pass2Abort, Replay
<1>9. CASE Pass2Done
  <2>1. pos = Len(trace) + 1
    BY <1>9 DEF Pass2Done, TypeOK
  <2>2. QED
    BY <1>9, <2>1, ReplayStep DEF Pass2Done, Replay
<1>10. CASE Write
  <2>1. pos = Len(trace) + 1
    BY <1>10 DEF Write, SentInv
  <2>2. QED
    BY <1>10, <2>1, ReplayStep DEF Write, Replay
<1>11. CASE UNCHANGED vars
  <2>1. trace' = trace /\ sent' = sent /\ pos' = pos /\ phase' = phase
    BY <1>11 DEF vars
  <2>2. \A n : IndexedUpTo(n) => IndexedUpTo(n)'
    BY <2>1, IndexedUnchanged
  <2>3. \A n : SentComplete(n) => SentComplete(n)'
    BY <2>1, SentCompleteUnchanged
  <2>4. QED
    BY <2>1, <2>2, <2>3 DEF SentInv
<1>12. QED
  BY <1>1, <1>2, <1>3, <1>4, <1>5, <1>6, <1>7, <1>8, <1>9, <1>10, <1>11 DEF Next

-----------------------------------------------------------------------------
(* The fields an iteration of the second loop writes. *)

\* With the index final, a lookup in sent finds the last send, or nothing.
LEMMA LookupLastSend ==
  ASSUME TypeOK, SentInv, phase = "pass2",
         NEW s \in KnownSpace, NEW p \in Pkn
  PROVE  /\ SendsOf(s, p) = {} => sent[s][p] = NoInfo
         /\ SendsOf(s, p) # {} =>
              /\ sent[s][p] # NoInfo
              /\ sent[s][p].time = trace[LastOf(SendsOf(s, p))].time
              /\ sent[s][p].frames = trace[LastOf(SendsOf(s, p))].frames
<1> DEFINE S == SendsOf(s, p)
<1>1. IndexedUpTo(Len(trace) + 1) /\ SentComplete(Len(trace) + 1)
  BY DEF SentInv, Replay
<1>2. S = {} => sent[s][p] = NoInfo
  BY <1>1 DEF IndexedUpTo, SendsOf
<1>3. S # {} => LastOf(S) \in S /\ sent[s][p] = InfoOf(LastOf(S))
  BY <1>1 DEF IndexedUpTo, SendsOf
<1>4. ASSUME S # {} PROVE InfoOf(LastOf(S)) \in PTOInfos
  <2> DEFINE j == LastOf(S)
  <2>1. j \in 1 .. Len(trace) /\ trace[j].name = qlog_name_sent
    BY <1>3, <1>4 DEF SendsOf, SendsBefore
  <2>2. trace[j] \in Event
    BY <2>1, TraceAssumption DEF TypeOK
  <2>3. trace[j].time # Absent /\ trace[j].frames # Absent
    BY <1>1, <2>1 DEF SentComplete
  <2>4. QED
    BY <2>2, <2>3 DEF Event, InfoOf, PTOInfos
<1>5. QED
  BY <1>2, <1>3, <1>4, ConstantsAssumption DEF InfoOf

\* Pass2Annotate writes into entry pos exactly the annotation spec 4.6
\* determines for it.
LEMMA AnnotateCorrect ==
  ASSUME TypeOK, SentInv, AckedIsHistory, Pass2Annotate
  PROVE  ann'[pos] = SpecAnnotation(pos)
<1> DEFINE e   == trace[pos]
           res == Parse(e.ranges)
           s   == e.space
           d   == Difference(acked_so_far[s], res.expanded)
<1>1. /\ phase = "pass2" /\ pos \in 1 .. Len(trace) /\ s \in KnownSpace
      /\ e.ranges # Absent
      /\ ann'[pos] = [time      |-> MaxAckSentTime(sent[s], res.max),
                      eliciting |-> ContainsAckEliciting(d.n, sent[s])]
  BY DEF Pass2Annotate, TypeOK, cond_pkn_space
<1>2. e \in Event
  BY <1>1, TraceAssumption DEF TypeOK
<1>3. res \in ParseResult
  BY <1>1, <1>2, TraceAssumption DEF Event
<1>4. MaxAckSentTime(sent[s], res.max) = SpecTime(pos)
  <2>1. res.max \in Pkn
    BY <1>3 DEF ParseResult
  <2>2. QED
    BY <1>1, <2>1, LookupLastSend DEF MaxAckSentTime, SpecTime
<1>5. ContainsAckEliciting(d.n, sent[s]) = SpecEliciting(pos)
  <2>1. d.n = res.expanded \ AckedBefore(s, pos)
    BY <1>1 DEF Difference, AckedIsHistory
  <2>2. res.expanded \subseteq Pkn
    BY <1>3 DEF ParseResult
  <2>3. \A p \in res.expanded \ AckedBefore(s, pos) :
          (sent[s][p] # NoInfo /\ cond_contains_ack_eliciting_frame(sent[s][p]))
          <=> (SendsOf(s, p) # {} /\ SpecElicits(trace[LastOf(SendsOf(s, p))].frames))
    <3> SUFFICES ASSUME NEW p \in res.expanded \ AckedBefore(s, pos)
                 PROVE  (sent[s][p] # NoInfo /\ cond_contains_ack_eliciting_frame(sent[s][p]))
                        <=> (SendsOf(s, p) # {} /\ SpecElicits(trace[LastOf(SendsOf(s, p))].frames))
      OBVIOUS
    <3>1. p \in Pkn
      BY <2>2
    <3>2. QED
      BY <1>1, <3>1, LookupLastSend DEF cond_contains_ack_eliciting_frame, SpecElicits
  <2>4. QED
    BY <2>1, <2>3 DEF ContainsAckEliciting, SpecEliciting
<1>6. QED
  BY <1>1, <1>4, <1>5 DEF SpecAnnotation

\* The index invariant, with the type invariant it rests on.
THEOREM SentIndexed ==
  ASSUME ExactPkn
  PROVE  Spec => [](TypeOK /\ SentInv)
<1>1. TypeOK /\ SentInv /\ [Next]_vars => SentInv'
  BY SentInvStep
<1>2. QED
  BY <1>1, TypeInit, TypeNext, SentInvInit, PTL DEF Spec

\* Every entry that carries the derived fields carries the ones spec 4.6
\* determines for it.
AnnCorrect == \A i \in 1 .. Len(trace) : ann[i] # NoAnn => ann[i] = SpecAnnotation(i)

\* What an entry's annotation must be depends on the trace alone.
LEMMA SpecAnnotationUnchanged ==
  ASSUME NEW i, trace' = trace
  PROVE  SpecAnnotation(i)' = SpecAnnotation(i)
<1>1. \A s, p, n : SendsBefore(s, p, n)' = SendsBefore(s, p, n)
  BY DEF SendsBefore
<1>2. \A s, n : AckedBefore(s, n)' = AckedBefore(s, n)
  BY DEF AckedBefore, AckOf
<1>3. SpecTime(i)' = SpecTime(i)
  BY <1>1 DEF SpecTime, SendsOf
<1>4. SpecEliciting(i)' = SpecEliciting(i)
  BY <1>1, <1>2 DEF SpecEliciting, SendsOf
<1>5. QED
  BY <1>3, <1>4 DEF SpecAnnotation

LEMMA AnnCorrectStep ==
  TypeOK /\ SentInv /\ AckedIsHistory /\ AnnCorrect /\ [Next]_vars => AnnCorrect'
<1> SUFFICES ASSUME TypeOK, SentInv, AckedIsHistory, AnnCorrect, [Next]_vars
             PROVE  AnnCorrect'
  OBVIOUS
<1>1. trace' = trace
  BY DEF Next, vars, Load, Pass1Sent, Pass1Fatal, Pass1Skip, Pass1Done,
         Pass2Annotate, Pass2Skip, Pass2Abort, Pass2Done, Write
<1>2. \A i : SpecAnnotation(i)' = SpecAnnotation(i)
  BY <1>1, SpecAnnotationUnchanged
<1>3. CASE Pass2Annotate
  <2>1. pos \in 1 .. Len(trace) /\ ann \in [1 .. Len(trace) -> Annotation \cup {NoAnn}]
    BY <1>3 DEF Pass2Annotate, TypeOK
  <2>2. ann' = [ann EXCEPT ![pos] = ann'[pos]]
    BY <1>3 DEF Pass2Annotate
  <2>3. ann'[pos] = SpecAnnotation(pos)
    BY <1>3, AnnotateCorrect
  <2>4. QED
    BY <1>1, <1>2, <2>1, <2>2, <2>3 DEF AnnCorrect
<1>4. CASE ~Pass2Annotate
  <2>1. ann' = ann
    BY <1>4 DEF Next, vars, Load, Pass1Sent, Pass1Fatal, Pass1Skip, Pass1Done,
                Pass2Skip, Pass2Abort, Pass2Done, Write
  <2>2. QED
    BY <1>1, <1>2, <2>1 DEF AnnCorrect
<1>5. QED
  BY <1>3, <1>4

\* The derived fields the tool writes are correct: it is the conjunction of
\* the two theorems below.
THEOREM AnnotationsCorrect ==
  ASSUME ExactPkn
  PROVE  Spec => []AnnCorrect
<1>0. Spec => [](TypeOK /\ SentInv)
  BY SentIndexed
<1>1. Init => AnnCorrect
  BY DEF Init, AnnCorrect
<1>2. QED
  BY <1>0, <1>1, AckedHistory, AnnCorrectStep, PTL DEF Spec

(***************************************************************************)
(* cc_newly_acked_ack_eliciting is TRUE iff a number the entry newly       *)
(* acknowledges in its space was last sent with an ack-eliciting frame     *)
(* (Difference against acked_so_far, ContainsAckEliciting over sent).      *)
(***************************************************************************)
THEOREM ElicitingCorrect ==
  ASSUME ExactPkn
  PROVE  Spec => []ElicitingIsNewlyAcked
<1>0. Spec => []AnnCorrect
  BY AnnotationsCorrect
<1>1. AnnCorrect => ElicitingIsNewlyAcked
  <2> SUFFICES ASSUME AnnCorrect, NEW i \in 1 .. Len(trace), ann[i] # NoAnn
               PROVE  ann[i].eliciting = SpecEliciting(i)
    BY DEF ElicitingIsNewlyAcked
  <2>1. ann[i] = SpecAnnotation(i)
    BY DEF AnnCorrect
  <2>2. SpecAnnotation(i).eliciting = SpecEliciting(i)
    BY DEF SpecAnnotation
  <2>3. QED
    BY <2>1, <2>2
<1>2. QED
  BY <1>0, <1>1, PTL

(***************************************************************************)
(* cc_max_ack_sent_time is the time of the last send, anywhere in the      *)
(* trace, of the largest acknowledged number, or null (the overwrite in    *)
(* the first loop and the lookup sent.X[max_acked].Time).                  *)
(***************************************************************************)
THEOREM SentTimeCorrect ==
  ASSUME ExactPkn
  PROVE  Spec => []SentTimeIsLastSend
<1>0. Spec => []AnnCorrect
  BY AnnotationsCorrect
<1>1. AnnCorrect => SentTimeIsLastSend
  <2> SUFFICES ASSUME AnnCorrect, NEW i \in 1 .. Len(trace), ann[i] # NoAnn
               PROVE  ann[i].time = SpecTime(i)
    BY DEF SentTimeIsLastSend
  <2>1. ann[i] = SpecAnnotation(i)
    BY DEF AnnCorrect
  <2>2. SpecAnnotation(i).time = SpecTime(i)
    BY DEF SpecAnnotation
  <2>3. QED
    BY <2>1, <2>2
<1>2. QED
  BY <1>0, <1>1, PTL


-----------------------------------------------------------------------------
(***************************************************************************)
(* PtoTool implements PtoAnnotator.  Under the mapping of PtoTool, the     *)
(* loader, the first loop, Pass1Done, Pass2Done and the hang are           *)
(* stuttering steps; Pass2Annotate and Pass2Skip are Annotate (with the    *)
(* annotation AnnotateCorrect gives, and ShouldAnnotate decided by their   *)
(* guards); Write is Finish, at pos = Len(trace) + 1 by SentInv; and a     *)
(* failed load, log.Fatal or a panic is Abort.                             *)
(***************************************************************************)

\* The spec's operators read the same trace in both modules.
LEMMA AbsSameSpec ==
  ASSUME NEW i
  PROVE  /\ Abs!ShouldAnnotate(i) = ShouldAnnotate(i)
         /\ Abs!SpecAnnotation(i) = SpecAnnotation(i)
<1>1. \A s, p, n : Abs!SendsBefore(s, p, n) = SendsBefore(s, p, n)
  BY DEF Abs!SendsBefore, SendsBefore, Abs!qlog_name_sent, qlog_name_sent
<1>2. \A s, p : Abs!SendsOf(s, p) = SendsOf(s, p)
  BY <1>1 DEF Abs!SendsOf, SendsOf
<1>3. \A s, n : Abs!AckedBefore(s, n) = AckedBefore(s, n)
  BY DEF Abs!AckedBefore, AckedBefore, Abs!AckOf, AckOf,
         Abs!qlog_name_received, qlog_name_received
<1>4. \A J : Abs!LastOf(J) = LastOf(J)
  BY DEF Abs!LastOf, LastOf
<1>5. \A f : Abs!SpecElicits(f) = SpecElicits(f)
  BY DEF Abs!SpecElicits, SpecElicits
<1>6. Abs!SpecTime(i) = SpecTime(i)
  BY <1>2, <1>4 DEF Abs!SpecTime, SpecTime
<1>7. Abs!SpecEliciting(i) = SpecEliciting(i)
  BY <1>2, <1>3, <1>4, <1>5 DEF Abs!SpecEliciting, SpecEliciting
<1>8. Abs!ShouldAnnotate(i) = ShouldAnnotate(i)
  BY DEF Abs!ShouldAnnotate, ShouldAnnotate, Abs!qlog_name_received,
         qlog_name_received, Abs!KnownSpace, KnownSpace
<1>9. QED
  BY <1>6, <1>7, <1>8 DEF Abs!SpecAnnotation, SpecAnnotation

\* The steps that are stutters of the abstract annotator.
LEMMA StutterStep ==
  ASSUME trace' = trace, ann' = ann, AbsNext' = AbsNext,
         phase \in {"load", "pass1", "pass2", "write"},
         phase' \in {"load", "pass1", "pass2", "write", "hung"}
  PROVE  UNCHANGED Abs!avars
<1>1. AbsAnnotation' = AbsAnnotation
  BY DEF AbsAnnotation, Aborted
<1>2. AbsStatus' = AbsStatus
  BY DEF AbsStatus, Aborted
<1>3. QED
  BY <1>1, <1>2 DEF Abs!avars

\* The steps that end the process with log.Fatal, a panic or an I/O error.
LEMMA AbortStep ==
  ASSUME trace' = trace, phase \in {"load", "pass1", "pass2"},
         phase' \in {"io_error", "fatal", "panic"}
  PROVE  Abs!Abort
BY DEF Abs!Abort, AbsAnnotation, AbsNext, AbsStatus, Aborted

LEMMA RefinementStep ==
  TypeOK /\ SentInv /\ AckedIsHistory /\ [Next]_vars => [Abs!Next]_Abs!avars
<1> SUFFICES ASSUME TypeOK, SentInv, AckedIsHistory, [Next]_vars
             PROVE  [Abs!Next]_Abs!avars
  OBVIOUS
<1>1. CASE Load
  <2>1. CASE phase' = "pass1"
    BY <1>1, <2>1, StutterStep DEF Load, AbsNext
  <2>2. CASE phase' = "io_error"
    BY <1>1, <2>2, AbortStep DEF Load, Abs!Next
  <2>3. QED
    BY <1>1, <2>1, <2>2 DEF Load
<1>2. CASE Pass1Sent \/ Pass1Skip \/ Pass1Done
  BY <1>2, StutterStep DEF Pass1Sent, Pass1Skip, Pass1Done, AbsNext
<1>3. CASE Pass1Fatal
  BY <1>3, AbortStep DEF Pass1Fatal, Abs!Next
<1>4. CASE Pass2Annotate
  <2>1. /\ phase = "pass2" /\ phase' = "pass2" /\ trace' = trace
        /\ pos \in 1 .. Len(trace) /\ pos' = pos + 1
        /\ ShouldAnnotate(pos)
        /\ ann \in [1 .. Len(trace) -> Annotation \cup {NoAnn}]
        /\ ann' = [ann EXCEPT ![pos] = ann'[pos]]
    BY <1>4 DEF Pass2Annotate, TypeOK, ShouldAnnotate, cond_name_received,
                cond_pkn_space, EmptyAckRange
  <2>2. ann'[pos] = SpecAnnotation(pos)
    BY <1>4, AnnotateCorrect
  <2>3. Abs!Annotate
    BY <2>1, <2>2, AbsSameSpec DEF Abs!Annotate, AbsAnnotation, AbsNext, AbsStatus, Aborted
  <2>4. QED
    BY <2>3 DEF Abs!Next
<1>5. CASE Pass2Skip
  <2>1. /\ phase = "pass2" /\ phase' = "pass2" /\ trace' = trace /\ ann' = ann
        /\ pos \in 1 .. Len(trace) /\ pos' = pos + 1
        /\ ~ShouldAnnotate(pos)
    BY <1>5 DEF Pass2Skip, TypeOK, ShouldAnnotate, cond_name_received, EmptyAckRange
  <2>2. Abs!Annotate
    BY <2>1, AbsSameSpec DEF Abs!Annotate, AbsAnnotation, AbsNext, AbsStatus, Aborted
  <2>3. QED
    BY <2>2 DEF Abs!Next
<1>6. CASE Pass2Abort
  <2>1. CASE phase' = "hung"
    BY <1>6, <2>1, StutterStep DEF Pass2Abort, AbsNext
  <2>2. CASE phase' # "hung"
    BY <1>6, <2>2, AbortStep DEF Pass2Abort, Abs!Next
  <2>3. QED
    BY <2>1, <2>2
<1>7. CASE Pass2Done
  BY <1>7, StutterStep DEF Pass2Done, AbsNext
<1>8. CASE Write
  <2>1. /\ phase = "write" /\ phase' = "done" /\ trace' = trace /\ ann' = ann
        /\ pos = Len(trace) + 1 /\ pos' = pos
    BY <1>8 DEF Write, SentInv
  <2>2. Abs!Finish
    BY <2>1 DEF Abs!Finish, AbsAnnotation, AbsNext, AbsStatus, Aborted
  <2>3. QED
    BY <2>2 DEF Abs!Next
<1>9. CASE UNCHANGED vars
  BY <1>9 DEF vars, Abs!avars, AbsAnnotation, AbsNext, AbsStatus, Aborted
<1>10. QED
  BY <1>1, <1>2, <1>3, <1>4, <1>5, <1>6, <1>7, <1>8, <1>9 DEF Next

(***************************************************************************)
(* run() implements what the tool promises: every behaviour of PtoTool,    *)
(* under the mapping, is a behaviour of PtoAnnotator, in which the entries *)
(* are handled in order, each gets the annotation spec 4.6 determines, and *)
(* the run finishes with all of them handled or aborts with none kept.     *)
(***************************************************************************)
THEOREM RefinementCorrect ==
  ASSUME ExactPkn
  PROVE  Spec => Refinement
<1>0. Spec => [](TypeOK /\ SentInv)
  BY SentIndexed
<1>1. Init => Abs!Init
  BY DEF Init, Abs!Init, Traces, Abs!Traces, AbsAnnotation, AbsNext, AbsStatus, Aborted
<1>2. QED
  BY <1>0, <1>1, AckedHistory, RefinementStep, PTL DEF Spec, Refinement, Abs!Spec

-----------------------------------------------------------------------------
(***************************************************************************)
(* The written file.  os.WriteFile is the last step: after it the output   *)
(* is the annotated trace or a partial file (its error is dropped).        *)
(***************************************************************************)
OutputWritten == phase = "done" => output \in {ann, Partial}

LEMMA OutputWrittenInv == Spec => []OutputWritten
<1>1. Init => OutputWritten
  BY DEF Init, OutputWritten
<1>2. OutputWritten /\ [Next]_vars => OutputWritten'
  <2> SUFFICES ASSUME OutputWritten, [Next]_vars PROVE OutputWritten'
    OBVIOUS
  <2>1. CASE Write
    BY <2>1 DEF Write, OutputWritten
  <2>2. CASE ~Write
    <3>1. phase' = "done" => phase = "done" /\ output' = output /\ ann' = ann
      BY <2>2 DEF Next, vars, Load, Pass1Sent, Pass1Fatal, Pass1Skip, Pass1Done,
                  Pass2Annotate, Pass2Skip, Pass2Abort, Pass2Done
    <3>2. QED
      BY <3>1 DEF OutputWritten
  <2>3. QED
    BY <2>1, <2>2
<1>3. QED
  BY <1>1, <1>2, PTL DEF Spec

(***************************************************************************)
(* Spec section 5, end to end: a run that exits 0 with the file written    *)
(* has written, for every entry, the derived fields spec 4.6 determines    *)
(* when the spec says to annotate it and nothing otherwise.  It combines   *)
(* which entries are annotated (AnnShape, module PtoTool_proofs), what     *)
(* they carry (AnnCorrect) and the final write (OutputWritten).            *)
(***************************************************************************)
THEOREM OutputCorrect ==
  ASSUME ExactPkn
  PROVE  Spec => []OutputIsSpecified
<1>0. Spec => [](TypeOK /\ AnnShape /\ AnnCorrect /\ OutputWritten)
  <2>1. Spec => [](TypeOK /\ AnnShape)
    BY TypeInit, TypeNext, AnnShapeInit, AnnShapeStep, PTL DEF Spec
  <2>2. QED
    BY <2>1, AnnotationsCorrect, OutputWrittenInv, PTL
<1>1. TypeOK /\ AnnShape /\ AnnCorrect /\ OutputWritten => OutputIsSpecified
  <2> SUFFICES ASSUME TypeOK, AnnShape, AnnCorrect, OutputWritten,
                      phase = "done", output # Partial, NEW i \in 1 .. Len(trace)
               PROVE  output[i] = IF ShouldAnnotate(i) THEN SpecAnnotation(i) ELSE NoAnn
    BY DEF OutputIsSpecified
  <2>1. output = ann
    BY DEF OutputWritten
  <2>2. ann[i] # NoAnn <=> ShouldAnnotate(i)
    BY DEF AnnShape, TypeOK
  <2>3. ann[i] # NoAnn => ann[i] = SpecAnnotation(i)
    BY DEF AnnCorrect
  <2>4. QED
    BY <2>1, <2>2, <2>3
<1>2. QED
  BY <1>0, <1>1, PTL
=============================================================================
