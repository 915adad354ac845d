----------------------------- MODULE MCStringCow -----------------------------
EXTENDS StringCow, TLC

\* One letter, one two-byte character whose trail byte is that letter, and one
\* that is broken off.
MCTexts == {<<>>, <<65>>, <<130, 65>>, <<130>>}
MCChars == {<<65>>, <<130, 65>>}

\* Handles are interchangeable, and so are the addresses malloc can return.
Symmetry == Permutations(Handle) \cup Permutations(Obj \ {Empty})
=============================================================================
