----------------------------- MODULE PtoAnnotator -----------------------------
(***************************************************************************)
(* What the PTO tool promises (spec sections 2, 4.6, 5 and 7), without the *)
(* two passes, the sent index or the acked sets: the entries of the trace  *)
(* are taken in order, each entry the spec says to annotate gets the       *)
(* annotation SpecAnnotation determines from the trace, and the run either *)
(* finishes with every entry handled or aborts with nothing produced.      *)
(***************************************************************************)
EXTENDS PtoTrace

VARIABLES
  annotation,   \* the derived fields produced so far, or NoAnn
  next,         \* the first entry not handled yet
  status        \* "running", "finished" or "aborted"

avars == <<trace, annotation, next, status>>

Init ==
  /\ trace \in Traces
  /\ annotation = [i \in 1 .. Len(trace) |-> NoAnn]
  /\ next = 1
  /\ status = "running"

\* The next entry is handled: annotated if the spec says so, else left as is.
Annotate ==
  /\ status = "running" /\ next <= Len(trace)
  /\ annotation' = IF ShouldAnnotate(next)
                   THEN [annotation EXCEPT ![next] = SpecAnnotation(next)]
                   ELSE annotation
  /\ next' = next + 1
  /\ UNCHANGED <<trace, status>>

\* Every entry is handled: the annotated trace is the result.
Finish ==
  /\ status = "running" /\ next > Len(trace)
  /\ status' = "finished"
  /\ UNCHANGED <<trace, annotation, next>>

\* A fatal condition ends the run: nothing of the work is kept.
Abort ==
  /\ status = "running"
  /\ status' = "aborted"
  /\ annotation' = [i \in 1 .. Len(trace) |-> NoAnn]
  /\ next' = 1
  /\ UNCHANGED trace

Next == Annotate \/ Finish \/ Abort

Spec == Init /\ [][Next]_avars
=============================================================================
