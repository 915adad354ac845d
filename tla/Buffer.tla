-------------------------------- MODULE Buffer --------------------------------
(***************************************************************************)
(* The byte buffers of src/src/buffer.c: a growing buffer that is written, *)
(* and then read from the start, in the order it was written or in any     *)
(* other.  An ERROR ends the program.  Memory outside the buffer may be    *)
(* read where a length, a terminator or an offset in the data is trusted.  *)
(* The index is a size_t: below 0 it stands for a number that wraps around.*)
(***************************************************************************)
EXTENDS Integers, Sequences

CONSTANTS Ints,       \* integers that are written
          Strings,    \* texts that are written, as bytes without a 0
          FirstSize,  \* the size of a new buffer (64 in the code)
          MaxItems,   \* bound on the items written
          Offsets,    \* offsets a reader goes to, inside the data and outside
          MaxIndex,   \* bound on the position a read begins at
          Undefined,  \* a byte that was never written, or outside
          NULL

INT32_MAX == 2147483647

BufferAssumption ==
  /\ Ints \subseteq (-INT32_MAX - 1) .. INT32_MAX
  /\ \A t \in Strings : t \in Seq(1 .. 255) /\ Len(t) <= INT32_MAX
  /\ FirstSize \in Nat \ {0}
  /\ Offsets \subseteq Int
  /\ Undefined \notin Int

VARIABLES phase,    \* "write", "read" or "error"
          buf,      \* the allocation; r->size is its length
          index,    \* r->index
          items,    \* what was written: [kind, value, at]
          got,      \* what the last read returned
          matched,  \* items read back in their order, or -1 after another read
          trusted,  \* a length, text or offset in the data went out of it
          outside   \* memory outside the buffer was accessed

vars == <<phase, buf, index, items, got, matched, trusted, outside>>

readVars == <<got, matched, trusted>>

Size == Len(buf)

Radix == <<1, 256, 256 * 256, 256 * 256 * 256>>

Bytes(v, n) == [i \in 1 .. n |-> (v \div Radix[i]) % 256]

\* One to four bytes as an unsigned number, or as a signed one if they are four.
Number(bs) ==
  LET n   == Len(bs)
      top == IF n = 4 /\ bs[n] >= 128 THEN bs[n] - 256 ELSE bs[n]
      Digit(i) == IF i < n THEN bs[i] * Radix[i] ELSE IF i = n THEN top * Radix[i] ELSE 0
  IN  IF \E i \in DOMAIN bs : bs[i] = Undefined THEN Undefined
      ELSE Digit(1) + Digit(2) + Digit(3) + Digit(4)

\* The bytes of an item of each kind.
Encoded(kind, v) ==
  CASE kind = "int32"  -> Bytes(v, 4)
    [] kind = "int16"  -> Bytes(v, 2)
    [] kind = "int8"   -> Bytes(v, 1)
    [] kind = "bytes"  -> v
    [] kind = "string" -> v \o <<0>>
    [] kind = "pascal" -> Bytes(Len(v), 4) \o v

IntKinds == {"int32", "int16", "int8"}
-----------------------------------------------------------------------------
(* Writing.                                                                *)

\* alloc_buffer: more than n bytes from position p on.
Doubled(size, needed) ==
  LET d[k \in 0 .. needed + 1] == IF k = 0 THEN size ELSE 2 * d[k - 1]
  IN  d[CHOOSE k \in DOMAIN d : d[k] > needed /\ \A j \in 0 .. k - 1 : d[j] <= needed]

Allocated_NoIndex(p, n) ==
  IF n < Size THEN Size ELSE Doubled(IF Size = 0 THEN FirstSize ELSE Size, p + n)

Allocated(p, n) ==
  IF p + n < Size THEN Size ELSE Doubled(IF Size = 0 THEN FirstSize ELSE Size, p + n)

\* Bytes bs at position p of the buffer, which keeps what it had.
Put(p, bs) ==
  /\ buf' = [i \in 1 .. Allocated(p, Len(bs)) |->
               IF i \in p + 1 .. p + Len(bs) THEN bs[i - p]
               ELSE IF i \in DOMAIN buf THEN buf[i] ELSE Undefined]
  /\ outside' = (outside \/ p + Len(bs) > Allocated(p, Len(bs)))

\* buffer_write_int32, _int16, _int8, _float, _bytes, _string, _cstring,
\* _cstringz, _pascal_cstring and _pascal_string.
Write(kind, v) ==
  /\ phase = "write" /\ Len(items) < MaxItems
  /\ Put(index, Encoded(kind, v))
  /\ index' = index + Len(Encoded(kind, v))
  /\ items' = Append(items, [kind |-> kind, value |-> v, at |-> index])
  /\ UNCHANGED <<phase, readVars>>

\* buffer_write_int32_at, of an integer that was written.
WriteInt32At(k, v) ==
  /\ phase = "write" /\ items[k].kind = "int32" /\ items[k].value # v
  /\ Put(items[k].at, Bytes(v, 4))
  /\ items' = [items EXCEPT ![k].value = v]
  /\ UNCHANGED <<phase, index, readVars>>

\* buffer_init on what was written.
StartReading ==
  /\ phase = "write"
  /\ buf' = SubSeq(buf, 1, index) /\ index' = 0
  /\ phase' = "read" /\ matched' = 0
  /\ UNCHANGED <<items, got, trusted, outside>>
-----------------------------------------------------------------------------
(* Reading.                                                                *)

\* What is in memory from the index on.
Memory(n) == [i \in 1 .. n |-> IF index + i \in DOMAIN buf THEN buf[index + i] ELSE Undefined]

\* buffer_remaining is unsigned: past the end, nearly everything remains.
Fewer(n) == index <= Size /\ Size - index < n

\* buffer_skip stops at the end.
Skipped(n) == IF index + n \in 0 .. Size THEN index + n ELSE Size

\* Are the next n bytes in the buffer?
Inside(n) == n = 0 \/ (index >= 0 /\ index + n <= Size)

\* The reader asks for the next item, as it was written.
Expects(kind, n) ==
  /\ matched \in 0 .. Len(items) - 1
  /\ items[matched + 1].kind = kind
  /\ kind = "bytes" => Len(items[matched + 1].value) = n

Returns(kind, n, v) ==
  /\ got' = v
  /\ matched' = IF Expects(kind, n) THEN matched + 1 ELSE -1

Touches(n) == /\ outside' = (outside \/ ~Inside(n))
              /\ UNCHANGED <<buf, items>>

Error == phase' = "error" /\ UNCHANGED <<buf, index, items, readVars, outside>>

\* A read may begin at any position, up to a bound.
Reading == phase = "read" /\ index <= MaxIndex

\* buffer_read_int32, _u16, _u8 and _float.
ReadInt(kind, n) ==
  /\ Reading
  /\ IF index + n \notin 0 .. Size THEN Error
     ELSE /\ Returns(kind, n, Number(Memory(n))) /\ Touches(n)
          /\ index' = index + n
          /\ UNCHANGED <<phase, trusted>>

\* The length of the text at the index, to its 0 or to where the buffer ends.
Ends == {n \in 0 .. Size - index - 1 : buf[index + n + 1] = 0}
Strlen == IF Ends = {} THEN Size - index ELSE CHOOSE n \in Ends : \A m \in Ends : n <= m

\* What a reader does that reads outside the data: it may return anything,
\* and be anywhere afterwards.
Astray(places) == /\ got' = NULL /\ matched' = -1
                  /\ index' \in places
                  /\ outside' = TRUE
                  /\ UNCHANGED <<phase, buf, items, trusted>>

\* A text outside the data, after which buffer_skip is at the end at last; one
\* before the data can end in it.
ReadStringAstray == /\ Reading /\ index \notin 0 .. Size
                    /\ Astray(IF index < 0 THEN 0 .. Size ELSE {Size})

\* buffer_read_string and buffer_skip_string.
ReadString ==
  /\ Reading /\ index \in 0 .. Size
  /\ Returns("string", Strlen, Memory(Strlen))
  /\ Touches(Strlen + 1)
  /\ trusted' = (trusted \/ Ends = {})
  /\ index' = Skipped(Strlen + 1)
  /\ UNCHANGED phase

\* Both readers of pascal strings, if the length is not all in the data.
ReadPascalAstray ==
  /\ Reading /\ ~Inside(4)
  /\ IF index + 4 \notin 0 .. Size THEN Error ELSE Error \/ Astray(Offsets)

\* buffer_read_pascal_string moves by the length, also past the end.
ReadPascalString ==
  LET n == Number(Memory(4)) IN
  /\ Reading /\ Inside(4)
  /\ IF n < 0 THEN Error
     ELSE /\ Returns("pascal", n, IF index + 4 + n > Size THEN NULL
                                  ELSE SubSeq(buf, index + 5, index + 4 + n))
          /\ Touches(4 + n)
          /\ trusted' = (trusted \/ index + 4 + n > Size)
          /\ index' = index + 4 + n
          /\ UNCHANGED phase

\* buffer_conv_pascal_string has no text for a negative length, and stops at the end.
ConvPascalString ==
  LET n == Number(Memory(4)) IN
  /\ Reading /\ Inside(4)
  /\ Returns("pascal", n, IF n < 0 \/ index + 4 + n > Size THEN NULL
                          ELSE SubSeq(buf, index + 5, index + 4 + n))
  /\ Touches(IF n < 0 THEN 4 ELSE 4 + n)
  /\ trusted' = (trusted \/ index + 4 + n > Size)
  /\ index' = IF n < 0 THEN index + 4 ELSE Skipped(4 + n)
  /\ UNCHANGED phase

\* buffer_read_bytes of as many as the shortest text has.
ReadBytes(n) ==
  /\ Reading
  /\ IF Fewer(n) THEN Error
     ELSE /\ Returns("bytes", n, Memory(n)) /\ Touches(n)
          /\ index' = index + n
          /\ UNCHANGED <<phase, trusted>>

\* buffer_check_bytes: do these bytes follow?  Outside the data they may.
CheckBytes(bs) ==
  /\ Reading
  /\ \/ Fewer(Len(bs)) /\ Returns("bytes", Len(bs), NULL) /\ Touches(0)
     \/ /\ ~Fewer(Len(bs)) /\ Touches(Len(bs))
        /\ \E v \in {bs, NULL} :
             /\ Inside(Len(bs)) => (v = bs <=> Memory(Len(bs)) = bs)
             /\ Returns("bytes", Len(bs), v)
  /\ index' = Skipped(Len(bs))
  /\ UNCHANGED <<phase, trusted>>

\* buffer_skip, over what some text would take.
Skip(n) ==
  /\ Reading
  /\ index' = Skipped(n) /\ matched' = -1 /\ got' = NULL
  /\ UNCHANGED <<phase, buf, items, trusted, outside>>

\* buffer_seek and buffer_align, to any offset; where an item begins, a reader
\* can go on in order.
Seek(off) ==
  LET there == {k \in DOMAIN items : items[k].at = off}
  IN  /\ Reading
      /\ index' = off /\ got' = NULL
      /\ matched' \in IF there = {} THEN {-1} ELSE {k - 1 : k \in there}
      /\ trusted' = (trusted \/ off \notin 0 .. Size)
      /\ UNCHANGED <<phase, buf, items, outside>>
-----------------------------------------------------------------------------
Init == /\ phase = "write"
        /\ buf = <<>> /\ index = 0 /\ items = <<>>
        /\ got = NULL /\ matched = -1 /\ trusted = FALSE /\ outside = FALSE

Next == \/ \E k \in IntKinds, v \in Ints :
             (k # "int32" => v \in 0 .. 255) /\ Write(k, v)
        \/ \E k \in {"bytes", "string", "pascal"}, v \in Strings : Write(k, v)
        \/ \E k \in DOMAIN items, v \in Ints : WriteInt32At(k, v)
        \/ StartReading
        \/ ReadInt("int32", 4) \/ ReadInt("int16", 2) \/ ReadInt("int8", 1)
        \/ ReadString \/ ReadPascalString \/ ConvPascalString
        \/ ReadStringAstray \/ ReadPascalAstray
        \/ \E v \in Strings : ReadBytes(Len(v)) \/ CheckBytes(v) \/ Skip(Len(v))
        \/ \E off \in Offsets : Seek(off)

Spec == Init /\ [][Next]_vars
-----------------------------------------------------------------------------
(* No write goes past the allocation, and no read leaves the data, before  *)
(* a length, a text without its terminator or an offset was trusted that   *)
(* leads out of it: until then every reader and writer asks for the bytes  *)
(* it needs.  After it, what remains can be huge, and every check pass:    *)
(* buffer_seek (dcf.c:90, 124; pcf.c:74, 95 set the index alike),          *)
(* buffer_align (flat.c:207) and buffer_read_pascal_string (buffer.c:81)   *)
(* let the index out.                                                      *)
StaysInside == outside \/ index \notin 0 .. Size => trusted

(* Items read in the order they were written, from the start or from one   *)
(* the reader went to, are what was written, with the integers patched     *)
(* later by buffer_write_int32_at.                                         *)
ReadsBack == matched > 0 /\ got # NULL => got = items[matched].value

BufferKeepsData == StaysInside /\ ReadsBack
=============================================================================
