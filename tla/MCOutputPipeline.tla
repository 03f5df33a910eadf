--------------------------- MODULE MCOutputPipeline ---------------------------
(* TLC instance of OutputPipeline: two letters, markers of two and three   *)
(* bytes, the longer one not an extension of the shorter.                  *)
EXTENDS OutputPipeline

CONSTANTS x, y

MCLetters == {x, y}
MCMarkers == {<<x, y>>, <<y, y, x>>}
MCWide == {y}
=============================================================================
