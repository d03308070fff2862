# Verification of the PTO annotation tool

This directory holds TLA+ models of the Go program in
`src/04-go-pto-tool/main.go`, TLC configurations that check them, and TLAPS
proofs. The program reads a qlog trace (a JSON array of flattened events).
For every `packet_received` entry that acknowledges packets, it adds two fields:

- `cc_max_ack_sent_time`: when the largest acknowledged packet was sent;
- `cc_newly_acked_ack_eliciting`: whether the acknowledgement newly covers an
  ack-eliciting packet.

## 1. Inventory

### Parts of the system

| Part | Code | State | Operations |
|---|---|---|---|
| Ack-range codec | `strSliceToInt`, `parse_ack_ranges` (104-152) | none, a pure function | decode `"[[1,2],[5,6]]"` into the expanded set, the flat list and the maximum |
| Event classifier | `cond*`, `get_*` (23-102) | none | name test, packet-number space test, field accessors |
| Sent-packet index | first loop of `run` (210-238) | `sent_pkn_space[space][pkn] = PTOInfos` | index a sent entry, last write wins |
| Acked-set tracker | `Difference`, second loop (173-184, 271-276) | `acked_so_far[space]` | compute newly acked, merge the range into the acked set |
| Ack-eliciting classifier | `cond_contains_ack_eliciting_frame`, `ContainsAckEliciting` (154-171) | none | does a newly acked packet carry a frame other than ack or padding |
| Annotation pipeline | `run`, `main` (186-301) | the JSON tree, output file | load, pass 1, pass 2, `entry.Set` twice, `os.WriteFile` |
| QUIC interop server | `src/01-quic-go-instant-ack/interop/server/main.go` | none kept | not modelled (see section 6) |
| Profiling examples, generated mocks | `src/01-quic-go-instant-ack/example/...`, `*mock*_test.go` | none | not modelled |

### How the parts interact

The program is one goroutine. There are no threads, callbacks or messages, so
the only ordering is the order of trace entries.

1. Pass 1 builds the sent index of the whole trace.
2. Pass 2 replays the received entries in order against that index and the
   acked sets.

As a result, an acknowledgement can see a send that comes later in the trace.

### What makes it hard

- **Ordering.** Within a space, the acked set decides what is "newly acked".
  Duplicate sends of one packet number overwrite each other in the index.
- **Numeric edges.** The expansion counter is a `uint64`, so it wraps at
  `MaxUint64`. Numbers that are too large are silently dropped. Packet
  numbers pass through a `float64`, which is exact only below 2^53.
- **Partial failure.** Some aborts happen mid-run: `log.Fatal`, a nil-map
  panic, a type-assertion panic. The write error is ignored.
- **Termination.** The inner expansion loop must end.

## 2. Modules

| Module | Models |
|---|---|
| `AckRangeCodec` | the codec, from the text of `frame_acked_ranges` to the result of `parse_ack_ranges` |
| `JsonNumber` | `get_pkn`'s float64 round trip of a JSON packet number |
| `PtoTrace` | the input trace, and what spec 4.3 to 4.6 say each annotation must be |
| `PtoTool` | the whole of `run`, with the refinement mapping onto `PtoAnnotator` |
| `PtoAnnotator` | the abstract annotator: what the tool promises |
| `MC_PtoTool`, `MC_AckRangeCodec`, `MC_AckRangeText` | TLC instances |
| `PtoTool_proofs`, `PtoTool_refinement` | TLAPS proofs |

### `AckRangeCodec`: the codec

- The text is a sequence of one-character strings. The regular expression
  `\[?\[?(\d+,?(\d+)?)]?]?` is modelled as `FindAllStringSubmatch` applies it:
  - `reRangesMatch(t, p)` is the match that starts at `p`. It needs a digit,
    or one or two `[` and a digit. The greedy optional parts are then taken:
    the comma, the second run of digits, and up to two `]`.
  - The next match starts after the last character of this one.
  - The capture is split at the comma, as `strings.Split` does.
- A run of digits is read in decimal. Numbers are in `0 .. MaxPkn` with
  `MaxPkn = 2^PknWidth - 1`, the scaled-down `MaxUint64`. Every larger value,
  and the empty part of `"n,"`, is `MaxPkn + 1`, the value `ParseUint`
  rejects.
- `parse_ack_ranges` is `DecodeRanges` applied to the matches. It folds
  `RangeStep` over them. `RangeStep` is the loop body and follows the code:
  - singleton pairing;
  - the odd-count fatal;
  - `int_ranges` accumulation;
  - the pair loop, which reads `int_ranges[i]` with `new_range`'s offset;
  - the outcome `"hangs"` when a non-empty range ends at `MaxPkn`;
  - `slices.Max`.
- `MatchFrom`, `RangeStep` and `DecodeRanges` are functions, not operators.
  TLC evaluates a function's arguments once, so the match and the loop state
  are not recomputed at every use. That matters with coverage on, since TLC
  then does not cache `LET` values.
- `SpecExpand` is the decoding that spec 4.1 describes. It is the reference
  used by the run `multi_range_expansion`.

### `JsonNumber`: packet numbers

`gabs.ParseJSON` decodes every JSON number to a `float64`, and `get_pkn`
converts it back with `uint64(val.(float64))`.

- `Float64ToUint64(n)` rounds `n` to `FloatMantissa` significant bits, ties
  to even, as decoding does with 53 bits.
- The instances scale this down. With `FloatMantissa >= PknWidth` every
  number survives, as numbers below 2^53 do.
- With `PknWidth = 3` and `FloatMantissa = 2`, 5 rounds to 4, as 2^53 + 1
  rounds to 2^53.

### `PtoTrace`: the input and the specification of the annotation

- `Event` is a trace entry reduced to the fields the tool reads.
- `SpecTime(i)` is the time of the last send, anywhere in the trace, of the
  largest number entry `i` acknowledges, or `Null`.
- `SpecEliciting(i)` says whether some number that entry `i` acknowledges,
  and no earlier entry of its space acknowledged, was last sent with a frame
  other than ack and padding.
- `ShouldAnnotate(i)` says whether entry `i` is a received entry of a known
  space with a non-empty decoded range.

### `PtoTool`: the whole `run`

State:

| Variable | Code |
|---|---|
| `trace` | the loaded array |
| `phase` | where `run` is; the end phases are `done`, `io_error`, `fatal`, `panic` and `hung` |
| `pos` | the loop index |
| `sent` | `sent_pkn_space` |
| `acked_so_far` | the acked sets |
| `ann` | the fields set on each entry |
| `output` | the file on disk |

Actions:

| Action | Code |
|---|---|
| `Load` | `os.ReadFile` and `gabs.ParseJSON`, which can fail |
| `Pass1Sent` | an iteration of the first loop that indexes a send under `get_pkn`'s key |
| `Pass1Skip` | an iteration of the first loop on an entry that is not a send |
| `Pass1Fatal` | an iteration of the first loop on a send with a missing field |
| `Pass1Done` | between the loops; it creates the three empty acked maps |
| `Pass2Annotate` | an iteration of the second loop that annotates |
| `Pass2Skip` | an iteration of the second loop that passes the entry through |
| `Pass2Abort` | an iteration of the second loop that ends the run: `log.Fatalf`, the hang, or the nil-map panic of an unknown space |
| `Pass2Done` | after the second loop |
| `Write` | `os.WriteFile`, either complete or failed; the failure is ignored |

`Pass2Annotate` is the whole loop body:

- parse the range;
- check for an empty range;
- check the space;
- compute `Difference`;
- merge the range;
- evaluate both `entry.Set` expressions.

Other modelling choices:

- The codec is a constant operator `Parse(_)`. The float round trip is a
  constant operator `JsonPkn(_)`. `MC_PtoTool` binds them to
  `parse_ack_ranges` and `Float64ToUint64`. This way the proofs hold for any
  codec whose results are sets of packet numbers.
- Frame types are a set of tokens. Removing the substrings `ack`, `padding`
  and `,` is modelled by its effect on lists of qlog frame names.
- Times are model values.

### `PtoAnnotator` and the refinement

`PtoAnnotator` handles the entries in order, with no index and no acked sets.

- `Annotate` gives the next entry `SpecAnnotation` if `ShouldAnnotate` holds,
  and otherwise leaves it alone.
- `Finish` ends the run once every entry is handled.
- `Abort` ends the run and discards everything.

`PtoTool` maps onto it as follows:

- The annotation is `ann`. After `log.Fatal`, a panic or an I/O error it is
  all `NoAnn`, because the process dies with its output.
- `next` is `pos` from the second loop on, and 1 before.
- `status` is `finished` in `done`, `aborted` in the three failure phases, and
  `running` otherwise. That includes `hung`: a hung run is one that never
  finishes.
- The first loop, `Pass1Done`, `Pass2Done` and a hang are stutters.
  `Pass2Annotate` and `Pass2Skip` are `Annotate`. `Write` is `Finish`.

### `MC_PtoTool`: the instance

- Two bits of packet number: `MaxPkn = 3`.
- `FloatMantissa = 2`: every number survives the float round trip.
- Three spaces: `initial`, `1RTT`, and the unknown `0RTT`.
- Three frame tokens and two times.
- Traces of at most 3 entries, drawn from 16 events, including:
  - a duplicate send;
  - a send with only ack and padding frames;
  - sends with missing fields;
  - the ranges `[[1]]`, `[[1,2]]`, `[[0],[1]]`, `[]`, `[[9]]` (out of range)
    and `[[2,3]]`;
  - a received entry with no ranges;
  - a received entry of an unknown space;
  - an entry of another name.

Three entries are enough for every ordered pair and triple of a send, a
resend and one or two acknowledgements. `[[2,3]]` reaches `MaxPkn`, so the
annotation run also reaches the hang. `MC_FloatPkn.cfg` uses three other events:
sends of 4 and 5, and the acknowledgement `[[4]]`.

`MC_AckRangeCodec` encodes every sequence of up to three groups of one or two
one-digit numbers, in both notations `[[a,b],[c]]` and `[a,b],[c]`.
`MC_AckRangeText` enumerates every text of up to 7 characters over `[`, `]`,
`,` and `1`.

## 3. Runs

| Run | cfg | Expect | What it shows |
|---|---|---|---|
| annotation | `MC_PtoTool.cfg` | pass | `TypeOK`; `AckedIsHistory` (each acked set equals the union of the decoded ranges of the entries of that space replayed so far); `ElicitingIsNewlyAcked` (the flag is true iff some packet not acknowledged by an earlier entry of the space is ack-eliciting per its last send); `SentTimeIsLastSend` (the time is that of the last send of the maximum, or null); `AnnotatedExactly` (exactly the received entries of a known space with a non-empty decoded range are annotated); `OutputIsSpecified` (a run that exits 0 with the file written has written, for every entry, exactly the fields spec 4.6 determines, and none on entries the spec leaves alone); `FatalStops` (a trace with a condition spec section 7 makes fatal never reaches the write) |
| refinement | `MC_Refinement.cfg` | pass | `Refinement`: every behaviour is, under the mapping, a behaviour of `PtoAnnotator` |
| codec_round_trip | `MC_AckRangeCodec.cfg` | pass | `ScanRoundTrip`: the regex recovers exactly the groups of a well-formed text; `MaxRoundTrip`: such a text is never malformed and its maximum is returned |
| hang_at_max_uint64 | `MC_Hang.cfg` | violation | `Termination` fails: `[[2,3]]` with `MaxPkn = 3` loops forever |
| multi_range_expansion | `MC_SpecExpand.cfg` | violation | `AckedIsSpecHistory` fails: `[[0],[1]]` acknowledges only 0 |
| unknown_space_panics | `MC_UnknownSpace.cfg` | violation | `AbortsOnlyWhenSpecFatal` fails: a `0RTT` acknowledgement panics |
| write_error_ignored | `MC_WriteError.cfg` | violation | `OutputOnSuccess` fails: the run ends "done" with a partial output |
| odd_group_accepted | `MC_AckRangeText.cfg` | violation | `OddGroupRejected` fails: `[1,1,1]` is read as `[1,1],[1]`, not rejected |
| float_pkn_collision | `MC_FloatPkn.cfg` | violation | `SentTimeIsLastSend` fails: with a 2-bit mantissa, 5 rounds to 4. Entry 1 acknowledges 4, then entry 2 sends 5 at t2 and is indexed under key 4, so the acknowledgement gets t2 |

Each property of a passing run has a mutant in `PROJECT.json`: a plausible
bug in the mapped definition that TLC catches. The mutants are:

- a `Difference` that does not filter;
- a first-write-wins index;
- a wrong space test;
- a dropped empty-range check;
- a wrongly typed time lookup;
- the bytes read at load time written back instead of `jsonData.String()`;
- a regex without `,?`;
- the last boundary taken for `slices.Max`;
- an entry without `ack_range` passed over instead of ending the run;
- a second loop that does not start again at the first entry (this breaks
  the refinement).

**Fairness.** `FairSpec` adds `WF_vars(Next)`. The program is a single
sequential goroutine with no blocking, so while it has a next step it takes
one. Only `hang_at_max_uint64` uses it. Without a `MaxUint64` range,
termination is not a question the runs ask: the two loops are `range` loops
over a finite array, and `RunEndsOrHangs` proves the step bound for every
trace.

## 4. Proofs (checked by `tlapm`)

`PtoTool_proofs`:

- **`TypeCorrect`: `Spec => []TypeOK`.**
  - It rests on `TraceAssumption` and `ConstantsAssumption`: the events are
    well formed, `Parse` returns packet-number sets, and the float round trip
    of a trace's packet number is a packet number.
  - `TypeOK` is inductive by itself. There is one case per action.
- **`AckedHistory`: `Spec => []AckedIsHistory`.** The inductive invariant is
  `TypeOK /\ AckedIsHistory`. Lemma `AckedBeforeStep` unfolds the history by
  one entry, and `Pass2Annotate` adds exactly that entry's range.
- **`AnnotatedExactlyCorrect`: `Spec => []AnnotatedExactly`.**
  - It needs no hypothesis on the float round trip. Which entries get
    annotated does not depend on `sent`.
  - `AnnotatedExactly` only speaks of the end of the second loop, so it is
    not inductive. The inductive invariant is `TypeOK /\ AnnShape`:
    - before the second loop, no entry is annotated;
    - during and after it, an entry is annotated iff it comes before `pos`
      and `ShouldAnnotate` holds of it;
    - in `write` and `done`, `pos = Len(trace) + 1`.
  - Nothing is claimed after `fatal` or `panic`. They are final states,
    reached from either loop.
  - In the `Pass2Annotate` case, lemma `AnnotateType` shows that the fields
    written are an `Annotation`, so they are not `NoAnn`. The guards of
    `Pass2Annotate` and `Pass2Skip` decide `ShouldAnnotate(pos)`.
- **`FatalConditionsStop`: `Spec => []FatalStops`.** A trace with a
  condition spec section 7 makes fatal is never written out.
  - The inductive invariant is `TypeOK /\ ChecksInv`:
    - in the first loop, every sent entry before `pos` has its packet
      number, time and frame types (`SendChecked(pos)`);
    - from the second loop on, that holds for the whole trace, and every
      received entry before `pos` has a well-formed ack range
      (`RcvChecked(pos)`);
    - in `write` and `done`, `pos = Len(trace) + 1`.
  - Each loop step either checks its entry or stops the run. Stopping is
    `Pass1Fatal` or `Pass2Abort`.
- **`RunEndsOrHangs`: `Spec => [](StepsLeft \in Nat) /\ [][StepsLeft' < StepsLeft]_vars /\ []HungOnHang`.**
  `run()` either ends within `2 * Len(trace) + 4` steps or is stuck in the
  expansion loop of one entry whose range the codec cannot expand.
  - `StepsLeft` counts the steps of `run()` outside the expansion loop: the
    iterations of each range loop still to come, the end of each loop, the
    load and the write. It is `2 * Len(trace) + 4` at the start. Lemma
    `RankOrder` shows that it drops with every phase change and every
    increment of `pos`. There is one case per action.
  - `hung` is the one state with no next step that is not an exit of the
    process. The rank does not bound it: there `run()` loops inside
    `Parse`. `HungOnHang` (lemma `HungOnHangInv`) says `hung` is reached
    only at the received entry at `pos`, whose range `Parse` reports as
    hanging.
  - So a trace without such an entry ends within the bound, whatever the
    codec. Which ranges hang is the codec's business. Lines 142-144 hang on
    a range that ends at `MaxUint64`, and `hang_at_max_uint64` shows it.
    That is not proved here.
  - That a step is taken while one is enabled is the fairness assumption,
    which is not proved.

`PtoTool_refinement` proves the following under the hypothesis `ExactPkn`:
the float round trip keeps the packet number of every event of the
universe, as it does below 2^53. Numbers that no event carries are left
unconstrained.

- **`SentIndexed`: `Spec => [](TypeOK /\ SentInv)`.**
  - `SentInv` says that while the first loop is at `pos`, `sent[s][p]` holds
    the fields of the last send of `p` in `s` before `pos`, or `NoInfo`.
    From the second loop on, that holds for the whole trace. Every send
    before `pos` has its time and frames.
  - `LastOfAppend` shows that appending a send makes it the last one. It
    needs no finiteness, because the maximum is unique.
- **`AnnotationsCorrect`: `Spec => []AnnCorrect`.** Every annotated entry
  carries `SpecAnnotation`.
  - `LookupLastSend` turns `SentInv` into what a lookup in `sent` returns.
  - `AnnotateCorrect` combines it with `AckedIsHistory`. `Difference`'s `n`
    is the set of numbers not acknowledged earlier, so both fields
    `Pass2Annotate` writes are the specified ones.
- **`ElicitingCorrect` and `SentTimeCorrect`.** These prove the run's
  `ElicitingIsNewlyAcked` and `SentTimeIsLastSend` for every trace.
- **`OutputCorrect`: `Spec => []OutputIsSpecified`.** This is the
  end-to-end statement: it covers both loops and the write. It combines
  three invariants:
  - `AnnShape` (which entries are annotated);
  - `AnnCorrect` (what they carry);
  - `OutputWritten`: after `Write`, the output is `ann` or a partial file.
- **`RefinementCorrect`: `Spec => Refinement`.**
  - `Init` maps to the abstract `Init`.
  - `RefinementStep` maps every step to `Annotate`, `Finish`, `Abort` or a
    stutter. `Finish` needs `pos = Len(trace) + 1` in `write`, from
    `SentInv`. `Annotate` needs `AnnotateCorrect`.

These hold for every trace length, every event universe, and every codec.
That includes the buggy `parse_ack_ranges`: the theorems are about what the
index and the tracker do with whatever the codec returns. `ExactPkn` is
needed: `float_pkn_collision` shows `SentTimeIsLastSend` fails without it.

**Only model-checked.**

- `Termination` is liveness. It needs `WF_vars(Next)` and `ENABLED`,
  which this prover does not handle. It is checked only where it fails, in
  `hang_at_max_uint64`.
- The codec properties `ScanRoundTrip` and `MaxRoundTrip` are about what
  the recursive functions of `AckRangeCodec` compute for every input.
  - `FindAllStringSubmatch`'s scan and `DecodeRanges`' fold over the
    matches are such functions.
  - Proving anything about them would need the recursion and induction
    theorems of `NaturalsInduction`. Those take an operator parameter,
    which the installed provers cannot instantiate.
  - This is induction over data, so these properties stay with TLC. This
    is also why `PtoTool` takes the codec as the constant `Parse`, so the
    proofs hold for any codec.

## 5. Findings

| Where | Finding |
|---|---|
| `main.go:141` | Every ack group after the first is expanded from the first group's bounds. |
| `main.go:180` | An unknown packet-number space makes `Difference` write into a nil map and panic. The spec says such events pass through. |
| `main.go:142` | A range ending at `MaxUint64` never terminates. |
| `main.go:293` | A failed write still reports success. |
| `main.go:120` | The regex captures at most two numbers per match, so `[1,2,3]` is read as `[1,2],[3]`. The odd-count fatal (line 135) is unreachable, while spec 4.1 and testable property 4 require rejection. |
| `main.go:81` | Packet numbers above 2^53 are rounded by the float64 decoding. Two packets then share one index key, and an acknowledgement gets the other packet's send time and frames. |

## 6. Not modelled

- **Memory.** Expanding a wide range allocates one map entry per number
  (line 143). Memory is not state of the model.
- **The string case of `get_pkn`.** qlog writes packet numbers as JSON
  numbers, so the `string` and `int64` cases are not reached from `gabs`.
- **Interop server.** The quic-go interop server is start-up wiring around
  the quic-go library, which is not in this repository. It produces traces
  and does not interact with the tool.
- **Examples and mocks.** The profiling examples are benchmark loops over
  quic-go, and the mocks are generated. Neither has behaviour of its own.
