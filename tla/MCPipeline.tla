----------------------------- MODULE MCPipeline -----------------------------
(***************************************************************************)
(* Pipeline for TLC: two paths, chunks of two bytes, and files that are    *)
(* empty, exactly one chunk long, or one chunk and a rest; the rest of the *)
(* long file is the start of the short one, so contents share chunks.      *)
(***************************************************************************)
EXTENDS Pipeline

MCContent == {<<>>, <<1, 2>>, <<1, 2, 1>>}
=============================================================================
