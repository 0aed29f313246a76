----------------------------- MODULE MCJsonRender -----------------------------
(***************************************************************************)
(* Bounds for JsonRender: stdout and stderr of up to two lines each, over  *)
(* the lines the compiler prints under --error-format=json: plain text (an *)
(* ICE), and the JSON lines of rustc_errors::json: a diagnostic with and   *)
(* without rendered text, an artifact notification, and a                  *)
(* future-incompatibility report with one diagnostic.                      *)
(***************************************************************************)
EXTENDS JsonRender

Line(brace, keys, rendered, items) ==
  [brace |-> brace, keys |-> keys, rendered |-> rendered, items |-> items]

\* The members rustc_errors::json::Diagnostic serialises.
RustcDiagnosticKeys == {"message", "code", "level", "spans", "children", "rendered"}

Plain          == Line(FALSE, {}, FALSE, <<>>)
Diagnostic     == Line(TRUE, RustcDiagnosticKeys, TRUE, <<>>)
UnrenderedDiag == Line(TRUE, RustcDiagnosticKeys, FALSE, <<>>)
Artifact       == Line(TRUE, {"artifact", "emit"}, FALSE, <<>>)
OneItemReport  == Line(TRUE, {"future_incompat_report"}, FALSE,
                       <<[keys |-> RustcDiagnosticKeys, rendered |-> TRUE]>>)

\* What the compiler itself emits under --error-format=json.
CompilerLines == {Plain, Diagnostic, UnrenderedDiag, Artifact, OneItemReport}
MCCompilerOutputs == BoundedSeq(CompilerLines, 2)
=============================================================================
