-------------------------- MODULE MC_AckRangeText --------------------------
(***************************************************************************)
(* The ack-range codec on every text of up to MaxTextLen characters over a *)
(* small alphabet, checked against spec testable property 4: a group that  *)
(* holds an odd number of boundary integers (after a singleton is paired)  *)
(* is malformed input and fatal.                                           *)
(***************************************************************************)
EXTENDS AckRangeCodec, FiniteSets, TLC

CONSTANTS Alphabet, MaxTextLen

VARIABLE text

Init == text \in UNION {[1 .. n -> Alphabet] : n \in 0 .. MaxTextLen}

Next == UNCHANGED text

Spec == Init /\ [][Next]_text

\* The contents of the bracket-delimited groups of the text: what lies
\* between a "[" and the next "]" with no bracket in between.
BracketGroups(t) ==
  {SubSeq(t, i + 1, j - 1) :
     <<i, j>> \in {<<i, j>> \in (1 .. Len(t)) \X (1 .. Len(t)) :
                     /\ i < j /\ t[i] = "[" /\ t[j] = "]"
                     /\ \A k \in i + 1 .. j - 1 : t[k] \notin {"[", "]"}}}

\* The number of integers a group holds: its runs of digits.
IntCount(c) == Cardinality({k \in 1 .. Len(c) : IsDigit(c, k) /\ ~IsDigit(c, k - 1)})

(***************************************************************************)
(* Spec 4.1, 7 and testable property 4: a text with a group of an odd      *)
(* number (three or more) of integers, e.g. "[1,2,3]", is rejected as      *)
(* malformed (the log.Fatal in parse_ack_ranges).                          *)
(***************************************************************************)
OddGroupRejected ==
  (\E c \in BracketGroups(text) : IntCount(c) > 1 /\ IntCount(c) % 2 = 1)
    => parse_ack_ranges(text).outcome = "malformed"
=============================================================================
