----------------------------- MODULE MCGlobMatch -----------------------------
(* Instances of GlobMatch for TLC: characters are one-letter strings. *)
EXTENDS GlobMatch

Globs        == {"a", "b", "*", "?"}
Letters      == {"a", "A", "b"}
LettersStars == {"a", "*"}
=============================================================================
