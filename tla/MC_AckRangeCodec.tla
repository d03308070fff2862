-------------------------- MODULE MC_AckRangeCodec --------------------------
(***************************************************************************)
(* The ack-range codec on its own, checked against spec section 4.1 and    *)
(* testable property 1 (range round-trip): every sequence of up to         *)
(* MaxGroups groups of one or two packet numbers is encoded in both        *)
(* notations the spec allows, "[[a,b],[c]]" and "[a,b],[c]", and decoded.  *)
(* One state per input: the model has no steps.                            *)
(***************************************************************************)
EXTENDS AckRangeCodec, TLC

CONSTANT MaxGroups

VARIABLES groups, nested

vars == <<groups, nested>>

\* The groups the spec allows, over packet numbers written as one digit.
SpecGroup == {<<a>> : a \in 0 .. MaxPkn} \cup {<<a, b>> : a, b \in 0 .. MaxPkn}

NumChar(n) == <<"0", "1", "2", "3", "4", "5", "6", "7", "8", "9">>[n + 1]

\* "[a,b]" or "[a]".
EncodeGroup(g) ==
  IF Len(g) = 1 THEN <<"[", NumChar(g[1]), "]">>
  ELSE <<"[", NumChar(g[1]), ",", NumChar(g[2]), "]">>

\* The groups joined by ",", inside one more pair of brackets if nested.
Encode(gs, nest) ==
  LET join[k \in 0 .. Len(gs)] ==
        IF k = 0 THEN <<>>
        ELSE join[k - 1] \o (IF k = 1 THEN <<>> ELSE <<",">>) \o EncodeGroup(gs[k])
  IN IF nest THEN <<"[">> \o join[Len(gs)] \o <<"]">> ELSE join[Len(gs)]

Text == Encode(groups, nested)

Init ==
  /\ groups \in UNION {[1 .. n -> SpecGroup] : n \in 0 .. MaxGroups}
  /\ nested \in BOOLEAN

Next == UNCHANGED vars

Spec == Init /\ [][Next]_vars

(***************************************************************************)
(* The regular expression of parse_ack_ranges recovers exactly the groups  *)
(* of a well-formed text, in order, in both notations: the optional        *)
(* doubled brackets, the optional comma and second number, and the "],["   *)
(* between groups are matched without losing or splitting a group.         *)
(***************************************************************************)
ScanRoundTrip == FindAllStringSubmatch(Text) = groups

(***************************************************************************)
(* Testable property 1, the maximum: a well-formed text is never reported  *)
(* malformed, and when the decoding ends, max_acked is the largest number  *)
(* written (0 for no groups): every number reaches int_ranges and          *)
(* slices.Max.                                                             *)
(***************************************************************************)
MaxRoundTrip ==
  LET res == parse_ack_ranges(Text)
      nums == UNION {{groups[k][i] : i \in DOMAIN groups[k]} : k \in DOMAIN groups}
  IN /\ res.outcome # "malformed"
     /\ res.outcome = "ok" =>
          res.max = IF groups = <<>> THEN 0
                    ELSE CHOOSE m \in nums : \A n \in nums : n <= m
=============================================================================
