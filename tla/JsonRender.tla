------------------------------ MODULE JsonRender ------------------------------
(***************************************************************************)
(* ProcRes::fatal (compiletest runtest.rs) and json::extract_rendered      *)
(* (json.rs), which it applies to the stdout and the stderr of a failed    *)
(* tool run before it unwinds the test.                                    *)
(*                                                                         *)
(* A line of tool output is abstracted to what extract_rendered tells      *)
(* apart: whether it starts with '{' and, for a JSON object, the set of    *)
(* its keys, whether its `rendered` member is a string, and the items of   *)
(* a `future_incompat_report` array (each the key set and rendered flag of *)
(* the item's `diagnostic`).  serde_json decoding into a derived struct    *)
(* succeeds when every field that is not an Option is present: unknown    *)
(* keys are ignored and a missing Option field is None.  Text is kept as   *)
(* the piece it stands for: the line itself, a rendered diagnostic, or a   *)
(* report of future-breakage diagnostics.                                  *)
(***************************************************************************)
EXTENDS Integers, Sequences, SequencesExt

CONSTANTS
  Outputs    (* the stdout/stderr contents a tool run can produce         *)

VARIABLES
  stdout, stderr,
  pc,        (* "fatal", "unwound" or "panicked"                          *)
  report     (* what fatal printed: [out, err] pieces, or <<>>            *)

vars == <<stdout, stderr, pc, report>>

\* The non-Option fields of the derived structs, under the names serde
\* looks for.
DiagnosticRequired == {"_message", "_level", "_children"}
ReportRequired     == {"future_incompat_report"}
ArtifactRequired   == {"artifact"}

Decodes(obj, required) == required \subseteq obj.keys

\* serde_json::from_str::<Diagnostic>, ::<FutureIncompatReport> (every item's
\* `diagnostic` must decode too) and ::<ArtifactNotification>.
IsDiagnostic(l) == Decodes(l, DiagnosticRequired)
IsReport(l) == Decodes(l, ReportRequired) /\ \A i \in DOMAIN l.items : IsDiagnostic(l.items[i])
IsArtifact(l) == Decodes(l, ArtifactRequired)

\* The closure of filter_map (lines 52-90): a non-JSON line is kept, a
\* diagnostic gives its rendered text if any, a non-empty report gives one
\* piece naming, per item, its rendered text or "Not rendered", an artifact
\* notification gives nothing, and any other '{' line panics.
Piece(l) ==
  IF ~l.brace THEN <<[k |-> "text", line |-> l]>>
  ELSE IF IsDiagnostic(l) THEN (IF l.rendered THEN <<[k |-> "rendered", line |-> l]>> ELSE <<>>)
  ELSE IF IsReport(l)
       THEN IF l.items = <<>> THEN <<>>
            ELSE <<[k |-> "report", line |-> l, items |-> [i \in DOMAIN l.items |-> l.items[i].rendered]]>>
  ELSE IF IsArtifact(l) THEN <<>>
  ELSE <<[k |-> "panic"]>>

Panics(out) == \E i \in DOMAIN out : Piece(out[i]) = <<[k |-> "panic"]>>

\* extract_rendered (lines 49-92): the pieces of the lines, in order.
ExtractRendered(out) ==
  [i \in 1 .. Len(out) |-> Piece(out[i])]

Init ==
  /\ stdout \in Outputs
  /\ stderr \in Outputs
  /\ pc = "fatal"
  /\ report = <<>>

\* ProcRes::fatal (runtest.rs 426-451) as fatal_proc_rec calls it: the
\* print! arguments render stdout, then stderr; a panic there unwinds before
\* anything is printed; otherwise the report is printed, on_failure runs
\* (a no-op) and resume_unwind ends the test.
Fatal ==
  /\ pc = "fatal"
  /\ IF Panics(stdout) \/ Panics(stderr)
       THEN pc' = "panicked" /\ UNCHANGED report
       ELSE /\ pc' = "unwound"
            /\ report' = [out |-> ExtractRendered(stdout), err |-> ExtractRendered(stderr)]
  /\ UNCHANGED <<stdout, stderr>>

Next == Fatal

Spec == Init /\ [][Next]_vars

(***************************************************************************)
(* Properties.                                                             *)
(***************************************************************************)

\* The compiler's own JSON lines (diagnostics, future-incompatibility
\* reports, artifact notifications) never make the failure report panic.
CompilerJsonNeverPanics == pc # "panicked"

=============================================================================
