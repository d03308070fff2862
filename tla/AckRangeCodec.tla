--------------------------- MODULE AckRangeCodec ---------------------------
(***************************************************************************)
(* The ack-range codec of the PTO tool (src/04-go-pto-tool/main.go,        *)
(* strSliceToInt and parse_ack_ranges).                                    *)
(*                                                                         *)
(* The textual field frame_acked_ranges, e.g. "[[1,2],[5,6]]", is a      *)
(* sequence of one-character strings.  It is scanned by the regular        *)
(* expression \[?\[?(\d+,?(\d+)?)]?]? as regexp.FindAllStringSubmatch     *)
(* does (leftmost match, greedy optional parts, each match starting where  *)
(* the previous one ended).  Every match captures one "group": a run of    *)
(* digits, optionally followed by a comma and a second run.  A run is kept *)
(* as its decimal value; every value above MaxPkn (the scaled-down         *)
(* math.MaxUint64) is represented by MaxPkn + 1, the value on which        *)
(* strconv.ParseUint fails with a range error.                             *)
(*                                                                         *)
(* Packet numbers are uint64 in the code; here they are                    *)
(* 0 .. 2^PknWidth - 1 so that the wrap-around of the expansion loop's     *)
(* counter is kept.                                                        *)
(***************************************************************************)
EXTENDS Naturals, Sequences

CONSTANT PknWidth

ASSUME PknWidthAssumption == PknWidth \in Nat \ {0}

\* The largest packet number, standing for math.MaxUint64.
MaxPkn == 2^PknWidth - 1

\* strconv.ParseUint(a, 10, 64) succeeds.
ParseUintOK(a) == a <= MaxPkn

\* strSliceToInt: the numbers of a group that parse, others are skipped.
strSliceToInt(g) == SelectSeq(g, ParseUintOK)

\* A faulty variant (mutation analysis): the last boundary, not the largest.
SeqMaxLast(s) == s[Len(s)]

\* The largest element of a non-empty sequence (slices.Max).
SeqMax(s) == CHOOSE m \in {s[i] : i \in DOMAIN s} : \A i \in DOMAIN s : s[i] <= m

\* The characters of the text, and the value of a decimal digit.
DigitChar == {"0", "1", "2", "3", "4", "5", "6", "7", "8", "9"}
DigitValue == [c \in DigitChar |->
                 CHOOSE n \in 0 .. 9 : <<"0", "1", "2", "3", "4", "5", "6", "7", "8", "9">>[n + 1] = c]
Char == DigitChar \cup {"[", "]", ","}

IsDigit(t, i) == i \in 1 .. Len(t) /\ t[i] \in DigitChar
IsChar(t, i, c) == i \in 1 .. Len(t) /\ t[i] = c

\* The last index of the run of digits that starts at i (\d+ is greedy).
RunEnd(t, i) ==
  CHOOSE j \in i .. Len(t) : (\A k \in i .. j : IsDigit(t, k)) /\ ~IsDigit(t, j + 1)

\* The value of the digits t[i..j] (leading zeros allowed), MaxPkn + 1 when
\* ParseUint would fail: the number whose decimal digits, padded with
\* zeros on the left, are exactly t[i..j].
RunValue(t, i, j) ==
  LET Spells(n) == /\ n < 10^(j - i + 1)
                   /\ \A k \in i .. j : DigitValue[t[k]] = (n \div 10^(j - k)) % 10
  IN IF \E n \in 0 .. MaxPkn : Spells(n) THEN CHOOSE n \in 0 .. MaxPkn : Spells(n)
     ELSE MaxPkn + 1

(* A faulty variant of the match below (mutation analysis): the pattern    *)
(* without ",?", so that "1,2" is captured as two groups.                  *)
reRangesMatchNoComma(t, p) ==
  LET q == CASE IsDigit(t, p) -> p
             [] IsChar(t, p, "[") /\ IsDigit(t, p + 1) -> p + 1
             [] IsChar(t, p, "[") /\ IsChar(t, p + 1, "[") /\ IsDigit(t, p + 2) -> p + 2
             [] OTHER -> 0
  IN IF q = 0 THEN [found |-> FALSE, last |-> p, group |-> <<>>]
     ELSE LET r == RunEnd(t, q)
              e == IF IsChar(t, r + 1, "]")
                   THEN IF IsChar(t, r + 2, "]") THEN r + 2 ELSE r + 1 ELSE r
          IN [found |-> TRUE, last |-> e, group |-> <<RunValue(t, q, r)>>]

(***************************************************************************)
(* The rest of the match of \[?\[?(\d+,?(\d+)?)]?]? whose first run of     *)
(* digits is t[q..r1]: the optional parts after it are all taken when      *)
(* present.  group is r[1] split at "," (strings.Split): "n" gives one     *)
(* part, "n,m" two, and "n," the parts "n" and "", where "" is a part      *)
(* ParseUint rejects (MaxPkn + 1).  (A function, so that its arguments     *)
(* are computed once.)                                                     *)
(***************************************************************************)
MatchFrom[t \in Seq(Char), q \in Nat, r1 \in Nat] ==
  LET c  == IF IsChar(t, r1 + 1, ",") THEN r1 + 1 ELSE r1
      r2 == IF c > r1 /\ IsDigit(t, c + 1) THEN RunEnd(t, c + 1) ELSE c
      e  == IF IsChar(t, r2 + 1, "]")
            THEN IF IsChar(t, r2 + 2, "]") THEN r2 + 2 ELSE r2 + 1 ELSE r2
      g  == CASE r2 > c  -> <<RunValue(t, q, r1), RunValue(t, c + 1, r2)>>
              [] c > r1  -> <<RunValue(t, q, r1), MaxPkn + 1>>
              [] OTHER   -> <<RunValue(t, q, r1)>>
  IN [found |-> TRUE, last |-> e, group |-> g]

\* The match that starts at p, if any: it needs a digit at p, or after one
\* or two "[" at p.
reRangesMatch(t, p) ==
  LET q == CASE IsDigit(t, p) -> p
             [] IsChar(t, p, "[") /\ IsDigit(t, p + 1) -> p + 1
             [] IsChar(t, p, "[") /\ IsChar(t, p + 1, "[") /\ IsDigit(t, p + 2) -> p + 2
             [] OTHER -> 0
  IN IF q = 0 THEN [found |-> FALSE, last |-> p, group |-> <<>>]
     ELSE MatchFrom[t, q, RunEnd(t, q)]

\* reRanges.FindAllStringSubmatch(ranges, -1): the groups of successive,
\* non-overlapping matches, left to right.
FindAllStringSubmatch(t) ==
  LET fa[p \in 1 .. Len(t) + 1] ==
        IF p > Len(t) THEN <<>>
        ELSE LET m == reRangesMatch(t, p)
             IN IF m.found THEN <<m.group>> \o fa[m.last + 1] ELSE fa[p + 1]
  IN fa[1]

(***************************************************************************)
(* parse_ack_ranges.  The loop state is int_ranges (ints), expanded, and   *)
(* how the loop has ended so far: "ok", "malformed" (log.Fatal on an odd  *)
(* count) or "hangs" (the inner loop "for it := minimum; it <= maximum;    *)
(* it += 1" never ends when maximum is MaxUint64, since it wraps to 0).    *)
(***************************************************************************)
LoopState == [ints : Seq(Nat), expanded : SUBSET Nat,
              outcome : {"ok", "malformed", "hangs"}]

(***************************************************************************)
(* One iteration of "for _, r := range bracket_ranges" on the group r.     *)
(* Note that the pair loop indexes int_ranges, the ranges of ALL groups so *)
(* far, with the offset of new_range: that is what the code does, and it   *)
(* is kept.                                                                *)
(***************************************************************************)
RangeStep[prev \in LoopState, r \in Seq(Nat)] ==
  LET Paired(nr) == IF Len(nr) = 1 THEN nr \o <<nr[1]>> ELSE nr
      nr   == Paired(strSliceToInt(r))
      ints == prev.ints \o nr
      \* i = 0, 2, ... while i + 1 <= len(new_range), made 1-based
      lows == {i \in 1 .. Len(nr) : i % 2 = 1}
  IN CASE prev.outcome # "ok" -> prev
       [] Len(nr) % 2 # 0 -> [prev EXCEPT !.outcome = "malformed"]
       [] \E i \in lows : ints[i] <= ints[i + 1] /\ ints[i + 1] = MaxPkn ->
            [prev EXCEPT !.outcome = "hangs"]
       [] OTHER ->
            [ints |-> ints,
             expanded |-> prev.expanded \cup UNION {ints[i] .. ints[i + 1] : i \in lows},
             outcome |-> "ok"]

\* The loop over the matches, then slices.Max of int_ranges (0 if empty).
DecodeRanges[ranges \in Seq(Seq(Nat))] ==
  LET st[k \in 0 .. Len(ranges)] ==
        IF k = 0 THEN [ints |-> <<>>, expanded |-> {}, outcome |-> "ok"]
        ELSE RangeStep[st[k - 1], ranges[k]]
      res == st[Len(ranges)]
  IN [expanded |-> res.expanded,
      max      |-> IF res.ints = <<>> THEN 0 ELSE SeqMax(res.ints),
      outcome  |-> res.outcome]

parse_ack_ranges(text) == DecodeRanges[FindAllStringSubmatch(text)]

(***************************************************************************)
(* The reference decoding of spec section 4.1: every group, paired when   *)
(* it is a singleton, denotes the inclusive interval [min, max], and the   *)
(* decoded set is the union of all of them.                                *)
(***************************************************************************)
SpecExpand(text) ==
  LET ranges == FindAllStringSubmatch(text) IN
  UNION {LET nr == strSliceToInt(ranges[k])
         IN IF nr = <<>> THEN {} ELSE nr[1] .. nr[Len(nr)] : k \in DOMAIN ranges}
=============================================================================
