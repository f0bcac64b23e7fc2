----------------------------- MODULE MCRedactor -----------------------------
(* A literal inside another one: the end of the first, or the middle.      *)
EXTENDS Redactor

CONSTANTS a, b, c, d

Nested == {<<a, b, c, d>>, <<b, c>>}
Overlapping == {<<a, b, c>>, <<b, c, d>>, <<c, c>>}
=============================================================================
