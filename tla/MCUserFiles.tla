--------------------------- MODULE MCUserFiles ---------------------------
(* UserFiles for TLC: an empty text, one of one chunk and one of two.     *)
EXTENDS UserFiles, TLC

MCChunks == {"a", "b", "c"}
MCContents == {<<>>, <<"a">>, <<"b", "c">>}
MCOutsideText == <<"b", "c">>

Symmetry == Permutations(Requests)

=============================================================================
