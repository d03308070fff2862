------------------------------- MODULE PtoTrace -------------------------------
(***************************************************************************)
(* The input of the PTO tool (src/04-go-pto-tool/main.go): a qlog trace,   *)
(* an array of flattened events, reduced to the fields the tool reads; and *)
(* what the annotation of each entry must be, as a function of the trace   *)
(* (spec sections 4.3 to 4.6).  The tool (PtoTool) and the abstract        *)
(* annotator it implements (PtoAnnotator) both extend this module.         *)
(***************************************************************************)
EXTENDS Naturals, Sequences

CONSTANTS
  Pkn,          \* packet numbers (uint64, scaled down)
  Time,         \* opaque "time" values of events
  FrameToken,   \* frame-type names that occur in frame_frame_type
  SpaceTag,     \* values of data_header_packet_type that occur in the trace
  OtherName,    \* event names other than the two the tool matches
  RangeText,    \* frame_acked_ranges values (see AckRangeCodec)
  Events,       \* the events traces are made of
  MaxTraceLen,  \* the longest trace
  Parse(_),     \* parse_ack_ranges
  Absent,       \* a field the event does not carry
  Null,         \* the JSON null written for a missing send time
  NoAnn         \* an entry without the derived fields

qlog_name_sent     == "transport:packet_sent"
qlog_name_received == "transport:packet_received"

\* The three spaces the tool keeps maps for (cond_initial, cond_handshake,
\* cond_1RTT).
KnownSpace == {"initial", "handshake", "1RTT"}

\* A TraceEvent, reduced to the fields the tool reads.
Event == [name   : {qlog_name_sent, qlog_name_received} \cup OtherName,
          space  : SpaceTag,
          pkn    : Pkn \cup {Absent},
          time   : Time \cup {Absent},
          frames : (SUBSET FrameToken) \cup {Absent},
          ranges : RangeText \cup {Absent}]

\* PTOInfos
PTOInfos == [time : Time, frames : SUBSET FrameToken]

\* What parse_ack_ranges returns, and the annotation written into an event.
ParseResult == [expanded : SUBSET Pkn, max : Pkn,
                outcome : {"ok", "malformed", "hangs"}]
Annotation == [time : Time \cup {Null}, eliciting : BOOLEAN]

ASSUME TraceAssumption ==
  /\ Events \subseteq Event
  /\ MaxTraceLen \in Nat
  /\ \A r \in RangeText : Parse(r) \in ParseResult
  /\ Null \notin Time
  /\ NoAnn \notin Annotation

Traces == UNION {[1 .. n -> Events] : n \in 0 .. MaxTraceLen}

VARIABLE trace   \* the input array, jsonData.Children()

-----------------------------------------------------------------------------
(* What the annotation of an entry must be (spec 4.3 to 4.6).  These read  *)
(* the trace directly (e.space, not the tool's classifier).                *)

\* Entry j is a received acknowledgement of space s that carries ranges.
AckOf(s, j) ==
  /\ trace[j].name = qlog_name_received
  /\ trace[j].space = s
  /\ trace[j].ranges # Absent

\* Every packet number of space s that the entries before n acknowledge.
AckedBefore(s, n) ==
  UNION {Parse(trace[j].ranges).expanded : j \in {k \in 1 .. n - 1 : AckOf(s, k)}}

\* The entries before n that send packet p in space s.
SendsBefore(s, p, n) ==
  {j \in 1 .. n - 1 : /\ trace[j].name = qlog_name_sent
                      /\ trace[j].space = s /\ trace[j].pkn = p}

\* The entries that send packet p in space s.
SendsOf(s, p) == SendsBefore(s, p, Len(trace) + 1)

LastOf(J) == CHOOSE j \in J : \A k \in J : k <= j

\* A frame-type list with a frame that is neither ack nor padding.
SpecElicits(frames) == \E f \in frames : f \notin {"ack", "padding"}

\* Entry i is one the tool must annotate (spec 4.6).
ShouldAnnotate(i) ==
  /\ trace[i].name = qlog_name_received
  /\ trace[i].space \in KnownSpace
  /\ trace[i].ranges # Absent
  /\ Parse(trace[i].ranges).expanded # {}

\* max_ack_sent_time: the time of the last send of the largest acknowledged
\* number in the entry's space (last write wins), or null.
SpecTime(i) ==
  LET S == SendsOf(trace[i].space, Parse(trace[i].ranges).max)
  IN IF S = {} THEN Null ELSE trace[LastOf(S)].time

\* newly_acked_ack_eliciting: a number the entry acknowledges, and no
\* earlier entry of its space did, was last sent with an eliciting frame.
SpecEliciting(i) ==
  LET s == trace[i].space IN
  \E p \in Parse(trace[i].ranges).expanded \ AckedBefore(s, i) :
     SendsOf(s, p) # {} /\ SpecElicits(trace[LastOf(SendsOf(s, p))].frames)

SpecAnnotation(i) == [time |-> SpecTime(i), eliciting |-> SpecEliciting(i)]
=============================================================================
