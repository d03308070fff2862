------------------------------- MODULE PtoTool -------------------------------
(***************************************************************************)
(* The annotation pipeline of the PTO tool (src/04-go-pto-tool/main.go,    *)
(* function run).  The tool loads a qlog trace (a JSON array of events),   *)
(* indexes every "packet_sent" event per packet-number space in a first    *)
(* pass, replays every "packet_received" event in a second pass against    *)
(* per-space sets of acknowledged packet numbers, writes two derived       *)
(* fields into each such event, and writes the trace back out.             *)
(*                                                                         *)
(* One step of the model is one iteration of one of the two loops over     *)
(* jsonData.Children(); the annotated fields are kept in ann, apart from   *)
(* the (immutable) input trace.  The ack-range codec is a parameter Parse, *)
(* instantiated with parse_ack_ranges of module AckRangeCodec.             *)
(***************************************************************************)
EXTENDS PtoTrace

CONSTANTS
  NoInfo,       \* a packet number missing from a sent map
  NoOutput,     \* the output file was not written
  Partial,      \* the output file was written only in part
  JsonPkn(_)    \* what uint64(val.(float64)) gives for a JSON packet number

\* gabs decodes every JSON number to a float64, so the packet number the
\* first loop uses as key is the number after a round trip through float64;
\* it is a packet number again for the numbers the trace carries.
ASSUME ConstantsAssumption ==
  /\ NoInfo \notin PTOInfos
  /\ \A e \in Events : e.pkn \in Pkn => JsonPkn(e.pkn) \in Pkn

\* The float64 round trip keeps the packet number of every event (true of
\* uint64 values below 2^53, false above).  The proofs of
\* PtoTool_refinement assume it.
ExactPkn == \A e \in Events : e.pkn \in Pkn => JsonPkn(e.pkn) = e.pkn

\* The phases of run(): the loader, the two loops, the final write, and how
\* the process ends (exit 0, log.Fatal or panic, or never).
Phase == {"load", "io_error", "pass1", "pass2", "write", "done", "fatal", "panic", "hung"}

VARIABLES
  phase,         \* where run() is
  pos,           \* the index of the entry the current loop is at
  sent,          \* sent: Packets, one map per known space
  acked_so_far,  \* acked_so_far: Acked, one set per known space
  ann,           \* the cc_* fields written into each entry, or NoAnn
  output         \* the content of the output file

vars == <<trace, phase, pos, sent, acked_so_far, ann, output>>

-----------------------------------------------------------------------------
(* Event classifier *)

cond_name_sent(e) == e.name = qlog_name_sent
cond_name_received(e) == e.name = qlog_name_received

\* A faulty variant (mutation analysis): the 1RTT branch picks the
\* Initial map, a copy-paste slip in one of the if-else chains.
cond_pkn_space_1RTT_as_initial(e) == IF e.space = "1RTT" THEN "initial" ELSE e.space

\* The space an event's map is selected by, for a known space tag.
cond_pkn_space(e) == e.space

\* get_pkn on a numeric data_header_packet_number (the float64 case).
get_pkn(e) == JsonPkn(e.pkn)

(* Acked-set tracker and ack-eliciting classifier *)

(* Faulty variants of the definitions below, for mutation analysis of the  *)
(* properties: each is a plausible slip in the corresponding Go code.      *)
DifferenceNoFilter(acked, new_ack_range) ==
  [acked |-> acked \cup new_ack_range, n |-> new_ack_range]
MaxAckSentTimeWholeInfo(sentS, max_acked) ==
  IF sentS[max_acked] # NoInfo THEN sentS[max_acked] ELSE Null
IndexSentKeepFirst(sentS, pkn, info) ==
  IF sentS[pkn] = NoInfo THEN [sentS EXCEPT ![pkn] = info] ELSE sentS
EmptyAckRangeUnchecked(res) == FALSE

\* Difference: the newly acked numbers, and acked with them added.
Difference(acked, new_ack_range) ==
  [acked |-> acked \cup (new_ack_range \ acked),
   n     |-> new_ack_range \ acked]

\* "Add current range": current[k] = v for every expanded k.
AddRange(current, expanded) == current \cup expanded

\* Frame types left after deleting "ack", "padding" and "," are non-empty.
cond_contains_ack_eliciting_frame(infos) == infos.frames \ {"ack", "padding"} # {}

ContainsAckEliciting(candidates, sentS) ==
  \E key \in candidates :
     sentS[key] # NoInfo /\ cond_contains_ack_eliciting_frame(sentS[key])

\* sent.X[max_acked].Time: the zero PTOInfos has Time nil, written as null.
MaxAckSentTime(sentS, max_acked) ==
  IF sentS[max_acked] # NoInfo THEN sentS[max_acked].time ELSE Null

\* The map a step writes: the one of the event's own space.
IndexSent(sentS, pkn, info) == [sentS EXCEPT ![pkn] = info]

\* Don't do anything if ack_range is empty.
EmptyAckRange(res) == res.expanded = {}

-----------------------------------------------------------------------------

Init ==
  /\ trace \in Traces
  /\ phase = "load"
  /\ pos = 1
  /\ sent = [s \in KnownSpace |-> [p \in Pkn |-> NoInfo]]
  /\ acked_so_far = [s \in KnownSpace |-> {}]
  /\ ann = [i \in 1 .. Len(trace) |-> NoAnn]
  /\ output = NoOutput

\* os.Open, io.ReadAll and gabs.ParseJSON succeed, or one fails (log.Fatal).
Load ==
  /\ phase = "load"
  /\ phase' \in {"pass1", "io_error"}
  /\ UNCHANGED <<trace, pos, sent, acked_so_far, ann, output>>

(* First pass: the index of sent packets. *)

\* A sent entry with packet number, time and frame types: indexed under its
\* space if that is a known one, skipped otherwise.
Pass1Sent ==
  LET e == trace[pos] IN
  /\ phase = "pass1" /\ pos <= Len(trace)
  /\ cond_name_sent(e)
  /\ e.pkn # Absent /\ e.time # Absent /\ e.frames # Absent
  /\ sent' = IF cond_pkn_space(e) \in KnownSpace
             THEN [sent EXCEPT ![cond_pkn_space(e)] =
                     IndexSent(@, get_pkn(e), [time |-> e.time, frames |-> e.frames])]
             ELSE sent
  /\ pos' = pos + 1
  /\ UNCHANGED <<trace, phase, acked_so_far, ann, output>>

\* A sent entry without packet number (get_pkn panics on val.(uint64)), or
\* without time or frame types (log.Fatalf).
Pass1Fatal ==
  LET e == trace[pos] IN
  /\ phase = "pass1" /\ pos <= Len(trace)
  /\ cond_name_sent(e)
  /\ \/ e.pkn = Absent /\ phase' = "panic"
     \/ e.pkn # Absent /\ (e.time = Absent \/ e.frames = Absent) /\ phase' = "fatal"
  /\ UNCHANGED <<trace, pos, sent, acked_so_far, ann, output>>

Pass1Skip ==
  /\ phase = "pass1" /\ pos <= Len(trace)
  /\ ~cond_name_sent(trace[pos])
  /\ pos' = pos + 1
  /\ UNCHANGED <<trace, phase, sent, acked_so_far, ann, output>>

\* A faulty variant (mutation analysis): the second loop does not start
\* again at the first entry.
Pass1DoneNoRewind ==
  /\ phase = "pass1" /\ pos > Len(trace)
  /\ phase' = "pass2"
  /\ acked_so_far' = [s \in KnownSpace |-> {}]
  /\ UNCHANGED <<trace, pos, sent, ann, output>>

\* The first loop is over: the second starts with empty acked sets.
Pass1Done ==
  /\ phase = "pass1" /\ pos > Len(trace)
  /\ phase' = "pass2" /\ pos' = 1
  /\ acked_so_far' = [s \in KnownSpace |-> {}]
  /\ UNCHANGED <<trace, sent, ann, output>>

(* Second pass: annotation of received acknowledgements. *)

\* A received entry whose ranges parse to a non-empty set, in a known space:
\* reconcile with the space's acked set, then write both derived fields.
Pass2Annotate ==
  LET e   == trace[pos]
      res == Parse(e.ranges)
      s   == cond_pkn_space(e)
      d   == Difference(acked_so_far[s], res.expanded)
  IN
  /\ phase = "pass2" /\ pos <= Len(trace)
  /\ cond_name_received(e) /\ e.ranges # Absent
  /\ res.outcome = "ok" /\ ~EmptyAckRange(res)
  /\ s \in KnownSpace
  /\ acked_so_far' = [acked_so_far EXCEPT ![s] = AddRange(d.acked, res.expanded)]
  /\ ann' = [ann EXCEPT ![pos] =
               [time      |-> MaxAckSentTime(sent[s], res.max),
                eliciting |-> ContainsAckEliciting(d.n, sent[s])]]
  /\ pos' = pos + 1
  /\ UNCHANGED <<trace, phase, sent, output>>

\* A faulty variant (mutation analysis): an entry without ack_range is
\* passed over ("continue") instead of ending the run.
Pass2SkipNoRange ==
  LET e == trace[pos] IN
  /\ phase = "pass2" /\ pos <= Len(trace)
  /\ \/ ~cond_name_received(e)
     \/ e.ranges = Absent
     \/ e.ranges # Absent /\ Parse(e.ranges).outcome = "ok"
        /\ EmptyAckRange(Parse(e.ranges))
  /\ pos' = pos + 1
  /\ UNCHANGED <<trace, phase, sent, acked_so_far, ann, output>>

\* An entry that is not a received one, or whose ranges expand to nothing.
Pass2Skip ==
  LET e == trace[pos] IN
  /\ phase = "pass2" /\ pos <= Len(trace)
  /\ \/ ~cond_name_received(e)
     \/ e.ranges # Absent /\ Parse(e.ranges).outcome = "ok"
        /\ EmptyAckRange(Parse(e.ranges))
  /\ pos' = pos + 1
  /\ UNCHANGED <<trace, phase, sent, acked_so_far, ann, output>>

\* log.Fatal in the second loop: no ack_range, or an odd count in a group.
get_ack_range_fails(e) ==
  IF e.ranges = Absent THEN TRUE ELSE Parse(e.ranges).outcome = "malformed"

\* The entry stops the run: no ack_range (log.Fatal), an odd count in a
\* group (log.Fatal), a range ending at MaxUint64 (the loop never ends), or
\* an unknown space with a non-empty range (current is a nil map, and
\* Difference assigns into it: panic).
Pass2Abort ==
  LET e == trace[pos] IN
  /\ phase = "pass2" /\ pos <= Len(trace)
  /\ cond_name_received(e)
  /\ \/ get_ack_range_fails(e) /\ phase' = "fatal"
     \/ e.ranges # Absent /\ Parse(e.ranges).outcome = "hangs" /\ phase' = "hung"
     \/ e.ranges # Absent /\ Parse(e.ranges).outcome = "ok"
        /\ ~EmptyAckRange(Parse(e.ranges))
        /\ cond_pkn_space(e) \notin KnownSpace /\ phase' = "panic"
  /\ UNCHANGED <<trace, pos, sent, acked_so_far, ann, output>>

Pass2Done ==
  /\ phase = "pass2" /\ pos > Len(trace)
  /\ phase' = "write"
  /\ UNCHANGED <<trace, pos, sent, acked_so_far, ann, output>>

\* A faulty variant (mutation analysis): the bytes read at load time are
\* written back instead of jsonData.String().
WriteInput ==
  /\ phase = "write"
  /\ phase' = "done"
  /\ \/ output' = [i \in 1 .. Len(trace) |-> NoAnn]
     \/ output' = Partial
  /\ UNCHANGED <<trace, pos, sent, acked_so_far, ann>>

\* os.WriteFile; its error is not checked, so the process exits 0 either way.
Write ==
  /\ phase = "write"
  /\ phase' = "done"
  /\ \/ output' = ann
     \/ output' = Partial
  /\ UNCHANGED <<trace, pos, sent, acked_so_far, ann>>

Next ==
  \/ Load
  \/ Pass1Sent \/ Pass1Fatal \/ Pass1Skip \/ Pass1Done
  \/ Pass2Annotate \/ Pass2Skip \/ Pass2Abort \/ Pass2Done
  \/ Write

Spec == Init /\ [][Next]_vars

\* The tool is one sequential goroutine: it keeps running while a step is
\* possible.
FairSpec == Spec /\ WF_vars(Next)

-----------------------------------------------------------------------------
(***************************************************************************)
(* Refinement mapping onto the abstract annotator.  The first pass and the *)
(* end of the second are stuttering steps; an iteration of the second loop *)
(* handles entry pos; log.Fatal, a panic and the I/O failure of the loader *)
(* are the abstract Abort (the process ends and the derived fields are     *)
(* lost with it); the hung loop stays "running" forever.                   *)
(***************************************************************************)
Aborted == phase \in {"io_error", "fatal", "panic"}

AbsAnnotation == IF Aborted THEN [i \in 1 .. Len(trace) |-> NoAnn] ELSE ann
AbsNext == IF phase \in {"pass2", "write", "done", "hung"} THEN pos ELSE 1
AbsStatus == CASE phase = "done" -> "finished"
               [] Aborted        -> "aborted"
               [] OTHER          -> "running"

Abs == INSTANCE PtoAnnotator
         WITH annotation <- AbsAnnotation, next <- AbsNext, status <- AbsStatus

-----------------------------------------------------------------------------
(***************************************************************************)
(* Properties.  They read the input trace directly (e.space, not the       *)
(* classifier) so that they state what the annotation must be in terms of  *)
(* the trace alone.                                                        *)
(***************************************************************************)

TypeOK ==
  /\ trace \in Seq(Events)
  /\ phase \in Phase
  /\ pos \in 1 .. Len(trace) + 1
  /\ sent \in [KnownSpace -> [Pkn -> PTOInfos \cup {NoInfo}]]
  /\ acked_so_far \in [KnownSpace -> SUBSET Pkn]
  /\ ann \in [1 .. Len(trace) -> Annotation \cup {NoAnn}]
  /\ output \in {NoOutput, Partial} \cup [1 .. Len(trace) -> Annotation \cup {NoAnn}]

(***************************************************************************)
(* The acked set of a space, during and after the second loop, is exactly  *)
(* the union of the ranges of the received entries of that space already  *)
(* replayed: Difference, the merge of the expanded range and the choice of *)
(* the space's map in run() together keep this.                           *)
(***************************************************************************)
AckedIsHistory ==
  phase \in {"pass2", "write", "done"} =>
    \A s \in KnownSpace : acked_so_far[s] = AckedBefore(s, pos)

(***************************************************************************)
(* cc_newly_acked_ack_eliciting of an annotated entry is TRUE iff a packet *)
(* number that the entry acknowledges, and no EARLIER received entry of    *)
(* the same space acknowledged, was last sent with an ack-eliciting frame. *)
(* (Difference in run(), and ContainsAckEliciting.)                        *)
(***************************************************************************)
ElicitingIsNewlyAcked ==
  \A i \in 1 .. Len(trace) : ann[i] # NoAnn => ann[i].eliciting = SpecEliciting(i)

(***************************************************************************)
(* cc_max_ack_sent_time of an annotated entry is the time of the LAST sent *)
(* entry, anywhere in the trace, of the largest acknowledged number in the *)
(* entry's space, and null when there is none (the first pass, the         *)
(* overwrite sent.X[pkn] = info, and the lookup sent.X[max_acked].Time).   *)
(***************************************************************************)
SentTimeIsLastSend ==
  \A i \in 1 .. Len(trace) : ann[i] # NoAnn => ann[i].time = SpecTime(i)

(***************************************************************************)
(* When the second loop is over, exactly the received entries of a known   *)
(* space whose ranges are non-empty carry the derived fields; every other  *)
(* entry passes through untouched (the "continue" on an empty range, and   *)
(* the space tests before entry.Set).                                      *)
(***************************************************************************)
AnnotatedExactly ==
  phase \in {"write", "done"} =>
    \A i \in 1 .. Len(trace) : ann[i] # NoAnn <=> ShouldAnnotate(i)

(***************************************************************************)
(* The run ends: the process exits, successfully or not (the two loops     *)
(* over a finite array, and the inner expansion loop, all terminate).      *)
(***************************************************************************)
Termination == <>(phase \in {"done", "io_error", "fatal", "panic"})

\* The trace has a condition spec section 7 makes fatal: a recognised sent
\* event without packet number, time or frame types, or a recognised
\* received event without, or with a malformed, ack range.
SpecFatal ==
  \E j \in 1 .. Len(trace) :
    LET e == trace[j] IN
    /\ e.space \in KnownSpace
    /\ \/ e.name = qlog_name_sent /\ Absent \in {e.pkn, e.time, e.frames}
       \/ e.name = qlog_name_received /\ e.ranges = Absent
       \/ e.name = qlog_name_received /\ Parse(e.ranges).outcome = "malformed"

(***************************************************************************)
(* Spec sections 4.2 and 7: the run stops on a trace only for a condition  *)
(* the spec makes fatal; an event of an unrecognised space is passed       *)
(* through, not fatal (run() selects no map for it, then Difference writes *)
(* into the nil map).                                                      *)
(***************************************************************************)
AbortsOnlyWhenSpecFatal == phase \in {"fatal", "panic"} => SpecFatal

(***************************************************************************)
(* Spec section 7, the other direction: a trace with a condition the spec  *)
(* makes fatal is never written out.  run() reaches os.WriteFile only once *)
(* the first loop has checked every send (get_pkn, get_time,               *)
(* get_frame_types) and the second every acknowledgement (get_ack_range    *)
(* and the odd-count test).                                                *)
(***************************************************************************)
FatalStops == phase \in {"write", "done"} => ~SpecFatal

(***************************************************************************)
(* Spec sections 5 and 7: a run that exits successfully has written the    *)
(* complete annotated trace (the error of os.WriteFile is dropped).        *)
(***************************************************************************)
OutputOnSuccess == phase = "done" => output = ann

(***************************************************************************)
(* Spec section 5, end to end: when the run exits 0 and os.WriteFile has   *)
(* written the file, every entry of the written trace carries the derived  *)
(* fields spec 4.6 determines exactly when the spec says to annotate it,   *)
(* and no other entry carries any (both loops, the sent index, Difference, *)
(* the entry.Set calls and the write, together).                           *)
(***************************************************************************)
OutputIsSpecified ==
  phase = "done" /\ output # Partial =>
    \A i \in 1 .. Len(trace) :
      output[i] = IF ShouldAnnotate(i) THEN SpecAnnotation(i) ELSE NoAnn

(***************************************************************************)
(* run() implements the abstract annotator: the two loops over the trace,  *)
(* the sent index, Difference and the acked sets, and the entry.Set calls  *)
(* together hand out, entry by entry and in trace order, exactly the       *)
(* annotations spec 4.6 determines, and the run either finishes having     *)
(* handled every entry or stops with nothing kept.                         *)
(***************************************************************************)
Refinement == Abs!Spec
=============================================================================
