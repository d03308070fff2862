----------------------------- MODULE MC_PtoTool -----------------------------
(***************************************************************************)
(* Model-checking instance of PtoTool with the code's ack-range codec and  *)
(* the float64 decoding of packet numbers (FloatMantissa >= PknWidth keeps *)
(* every number, as float64 keeps those below 2^53).                      *)
(* Packet numbers are 0..3 (PknWidth = 2), so 3 plays math.MaxUint64 and   *)
(* 4 a number strconv.ParseUint rejects.  The event universe holds one     *)
(* event for each case the two loops distinguish.                          *)
(***************************************************************************)
EXTENDS PtoTool, AckRangeCodec, JsonNumber, TLC

CONSTANTS t1, t2

MCPkn == 0 .. MaxPkn
MCTime == {t1, t2}

Snd(sp, p, t, f) ==
  [name |-> qlog_name_sent, space |-> sp, pkn |-> p, time |-> t,
   frames |-> f, ranges |-> Absent]
Rcv(sp, r) ==
  [name |-> qlog_name_received, space |-> sp, pkn |-> Absent, time |-> t1,
   frames |-> Absent, ranges |-> r]

\* The frame_acked_ranges texts of the events, as character sequences.
Txt_empty == <<"[", "]">>                                   \* "[]"
Txt_1     == <<"[", "[", "1", "]", "]">>                     \* "[[1]]"
Txt_1_2   == <<"[", "[", "1", ",", "2", "]", "]">>           \* "[[1,2]]"
Txt_0__1  == <<"[", "[", "0", "]", ",", "[", "1", "]", "]">> \* "[[0],[1]]"
Txt_big   == <<"[", "[", "9", "]", "]">>                     \* beyond uint64
Txt_2_3   == <<"[", "[", "2", ",", "3", "]", "]">>           \* ends at MaxUint64

Txt_4     == <<"[", "[", "4", "]", "]">>                     \* "[[4]]"

MCRangeText == {Txt_empty, Txt_1, Txt_1_2, Txt_0__1, Txt_big, Txt_2_3}

\* Events without the range that ends at MaxUint64.
MCEventsNoHang ==
  { Snd("1RTT", 1, t1, {"stream"}),
    Snd("1RTT", 1, t2, {"ack"}),            \* packet 1 sent again
    Snd("1RTT", 2, t1, {"ack", "padding"}),
    Snd("initial", 1, t2, {"stream"}),
    Snd("1RTT", 2, Absent, {"stream"}),      \* no time: log.Fatalf
    Snd("1RTT", Absent, t1, {"stream"}),     \* no packet number: panic
    Rcv("1RTT", Txt_1),
    Rcv("1RTT", Txt_1_2),
    Rcv("1RTT", Txt_0__1),
    Rcv("initial", Txt_1),
    Rcv("1RTT", Txt_empty),
    Rcv("1RTT", Txt_big),
    Rcv("0RTT", Txt_1),                  \* a space the tool has no map for
    Rcv("1RTT", Absent),                     \* no ack_range: log.Fatal
    [name |-> "transport:parameters_set", space |-> "1RTT", pkn |-> Absent,
     time |-> t1, frames |-> Absent, ranges |-> Absent] }

MCEvents == MCEventsNoHang \cup {Rcv("1RTT", Txt_2_3)}

\* With PknWidth = 3 and FloatMantissa = 2, packet numbers 4 and 5 decode
\* to the same float, as 2^53 and 2^53 + 1 do: two sends and an
\* acknowledgement of the first.
MCRangeTextFloat == {Txt_4}
MCEventsFloat ==
  { Snd("1RTT", 4, t1, {"stream"}),
    Snd("1RTT", 5, t2, {"ack"}),
    Rcv("1RTT", Txt_4) }

(***************************************************************************)
(* Spec section 3 and property 3: the acked set of a space is the union of *)
(* all ranges acknowledged so far, every group of a multi-range            *)
(* acknowledgement included (decoded by the reference SpecExpand).         *)
(***************************************************************************)
AckedIsSpecHistory ==
  phase \in {"pass2", "write", "done"} =>
    \A s \in KnownSpace :
      acked_so_far[s] =
        UNION {SpecExpand(trace[j].ranges) : j \in {k \in 1 .. pos - 1 : AckOf(s, k)}}
=============================================================================
