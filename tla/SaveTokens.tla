----------------------------- MODULE SaveTokens -----------------------------
(***************************************************************************)
(* The files the savefile formats are read from (struct buffer as          *)
(* src/src/savefile.c uses it): a sequence of tokens, each a 32-bit        *)
(* integer or a string, and the position of the reader.  An offset is a    *)
(* number of tokens instead of a number of bytes.                          *)
(*                                                                         *)
(* Reading past the end is an ERROR, which ends the program; and where a   *)
(* damaged count makes the parser take a string for an integer, or the     *)
(* other way round, what follows is not modelled.  Both end parsing in the *)
(* phase "off", of which nothing is claimed.                               *)
(***************************************************************************)
EXTENDS Integers, SequencesExt

VARIABLES file,     \* the file's tokens
          damaged,  \* have they been changed since they were written?
          phase,    \* what is parsed next, or how parsing ended
          pos       \* tokens read

I32(v)    == [kind |-> "int", v |-> v]
Text(v)   == [kind |-> "str", v |-> v]
I32s(seq) == [i \in 1 .. Len(seq) |-> I32(seq[i])]

Map(Op(_), seq) == [i \in 1 .. Len(seq) |-> Op(seq[i])]

Kinds(n) == [i \in 1 .. n |-> "int"]

Readable(kinds) ==
  /\ pos + Len(kinds) <= Len(file)
  /\ \A i \in 1 .. Len(kinds) : file[pos + i].kind = kinds[i]

Tok(i) == file[pos + i].v
Toks(i, n) == [k \in 1 .. n |-> Tok(i + k - 1)]

\* One integer of the file becomes v before it is read.
DamageToken(k, v) ==
  /\ phase = "idle" /\ ~damaged
  /\ k \in 1 .. Len(file) /\ file[k].kind = "int" /\ file[k].v # v
  /\ file' = [file EXCEPT ![k] = I32(v)]
  /\ damaged' = TRUE
=============================================================================
