# A TLA+ development of libsys4

libsys4 is the C library that xsystem4 and alice-tools share: it reads and writes the files of
the System 4 game engine. It is sequential: it has no threads and starts no callbacks of its own
except the one a caller gives to `archive_for_each`. What is hard about it is the *order of
calls*: objects shared by reference counts, descriptors that outlive the iteration they come
from, data that may or may not be owned, indexes beside the tables they were made from, slots
handed out of buckets that move, tables checked before they are read, and texts indexed by
character whose size is in bytes. The models therefore let a client make the library's calls in
every order, on small sets of handles, and let reads fail and files be damaged where the code
handles that.

Paths below are relative to the repository root (`src/string.c`, `include/system4/archive.h`).

## 1. Inventory

| part | state it keeps | operations | what must hold |
|---|---|---|---|
| strings (`string.c`) | objects with a 24-bit count, a copy-on-write flag and a text; handles point to them | make, dup, ref, free, append, push/pop, erase, set char, clear | counts are exact; a shared object is never written under its other holders; the static empty string is intact |
| Shift-JIS text (`string.c`, `utfsjis.c`) | bytes | index, count, cut, erase, replace, find | byte-level edits do to the text what they mean on characters |
| archives (`archive.h`, `archive.c` and one file per format) | the table of files, descriptors with a data pointer, the progress of an iteration | get, load, release, copy, free, for_each, free archive | data is owned once and freed once; a descriptor shows its own file; every file is visited once; loading ends |
| saves (`savefile.c`) | tables that refer to each other by index | write, parse, free, the `gsave_add_` builders | what was written is read back; what was accepted can be followed; what is refused is cleaned up |
| EX documents (`ex.c`) | blocks, tables, lists and trees with shared strings; a static guess of the table layout | read, append, extract, replace, look up, free | counts of shared strings are exact; edits say what their inputs said; what was appended can be looked up; tables are not misread |
| AIN images (`ain.c`, `instructions.c`) | tables of functions, structures, globals, strings, ..., with hash indexes built from some; which sections are present; a global instruction table | open, `ain_new`, `ain_add_`, duplicate, infer owners, look up, `ain_free_` | a file of any version is read as it was written; indexes agree with tables; what was added is in a section that is written; nothing is freed twice |
| disassembly (`dasm.c`) | a place in the code, a stack of functions | open, jump, step | the cursor is on an instruction and knows its function |
| hash tables (`hashtable.c`) | buckets of key/value slots | put (first put wins, returns the slot), get, free | the slot handed out is the one that a search finds; a key has one slot |
| INI files (`ini.c` and its grammar) | entries; lists gathered from entries with a position | parse, free | entries are what the file assigns; every string has one owner |
| buffers (`buffer.c`) | bytes, position, capacity | read, write, patch an integer, seek | what was written is read back; reads and writes stay inside |
| images (`cg.c`, `qnt.c`, `pms.c`, `dcf.c`, `pcf.c`, `webp.c`, ...) | a picture; the images that wait for their base | encode, decode, load through an archive | decoding gives what was written; an image over a base shows both; loading ends |
| fonts (`fnl.c`) | faces with glyphs by index | index of a character and back | the index counts the characters |
| tables (`acx.c`), generator (`mt19937int.c`), system (`file.c`, `system.c`) | - | - | not modelled, see 5 |

How they meet: every format keeps its names and values in strings; AFA, AAR and AIN index their
tables with hash tables, and rely on the first of equal keys winning; the save and EX formats
read and write through `struct buffer`; images are loaded from archives, and one that has a base
loads that first; the disassembly cursor depends on the instruction table that opening an AIN
image changes. Errors that the code calls `ERROR` end the process, so a model gives the offending
call no step (or a last step, where a property is about it).

The hazards, each at its line, are listed in `PROJECT.json`.

## 2. The modules

`A <- B` means that B extends or instantiates A.

```
SjisText <- StringValues                           abstract: every handle has a text of its own
SjisText <- StringCow <- StringCowProofs           counts, and that StringCow implements StringValues

ArchiveContract                                    abstract: what archive.h promises
ArchiveMemory <- TableArchive (ALK, DLF), AfaArchive, AldArchive, FlatArchive, AarArchive
ArchiveMemory, the five formats <- Archive         the calls of archive.h (implements ArchiveContract)
Archive <- ArchiveProofs                           who owns which block

SaveTokens <- GsaveFile, RsaveFile <- Saves        writer and parser of the two kinds of save
Saves <- SavesProofs                               what an accepted save refers to and came from, what comes back

ExDocument, ExTableLayout <- ExDocuments           documents as values; a client with counted strings
                                                   (ExTableLayout: the sticky order of table sizes, proved)

PutMap                                             abstract: the map of first puts
HashTable                                          buckets that move (implements PutMap)
HashTable, Buffer, IniFile <- Containers <- ContainersProofs

AinTables                                          functions, structures, enumerations, indexes
AinTables, AinReader, Dasm <- Ain                  an image and those who work on it
Ain <- AinProofs                                   tables, strings, sections and the cursor

SjisText <- SjisTextCheck <- SjisTextProofs        byte operations against sequences of characters
SjisTextCheck, Qnt, Pms, CgLoad, Fnl <- Media      what a game shows (Fnl: the index of characters, proved)
```

`Archive`, `Saves`, `ExDocuments`, `Containers`, `Ain` and `Media` put together parts that a
program uses side by side. Where parts share state (the open archive and its heap, the file a
save is in) the composition shares the variables. Where they share none, a behaviour is that of
one part, named by a variable that never changes (`format`, `user`, `work`, ...): interleaving
them would multiply the states and show nothing, as no step of one can be seen by another.

**Strings.** `StringCow` has the handles' pointers (`ptr`), and for each address its count
(`ref`), flag (`cow`) and text. An address with count 0 is free, and `malloc` and `realloc` may
return any free one. Each public function of `string.c` is an action; they are put together from
five effects on memory: a new object (`Alloc`), one more reference (`StringRefObj`), one less
(`FreeString`), and a write, which `cow_check` turns into a copy (`WriteCopy`), a write in place
(`WriteInPlace`) or, after `xrealloc`, a write at another address (`WriteMoved`). The functions
that format numbers come down to `make_string`. `StringAppend` leaves out one call: a string
appended to itself when it is its only reference, where the code reads `b` after `*a` may have
moved. Nothing in the repository makes that call. `StringErase` and `StringSetChar` leave out the
characters of which only the lead byte is there (`BrokenOff`).

**Archives.** `ArchiveMemory` has the open archive (`ar`), what each of the client's handles
points to (`desc`), the heap blocks of data (`heap`: which file's bytes a block holds), the
index of the iteration (`visit`) and `fault`, which is set by freeing what is not an allocated
block or by using a descriptor that is gone, and ends the behaviour. One handle, `Iter`, is the
descriptor lent to the callback of `archive_for_each`; while the callback runs, the client can
make any other call. A block is allocated at any free address, so address reuse is covered. The
format modules add their `struct archive_ops`; `Archive` opens one archive after another, of any
format, and dispatches on `ar->ops`. Following an AAR link is a step of its own, which is what
lets a run say whether loading comes to an end. Raw AAR entries may lie anywhere, also at the end of
the map or behind it, and `aar_release_file` decides by the pointer (`InMap`), as in the code.

**Saves.** A file is a sequence of tokens (`SaveTokens`): 32-bit integers and strings, with
offsets counted in tokens. `GsaveFile` and `RsaveFile` define the file the writer makes of a save
(`FileOf`) and the parser as a machine that reads one entry, or one field of a heap object, per
step and can end in any of them; `phase` says where it is, or how it ended ("done", "invalid",
"unsupported", "off"). One integer of the file can be replaced before it is read. `RsaveFile` has
both readers (everything; comments only) and writes back what it read.

**EX documents.** `ExDocument` has the functions of `ex.c` on documents as values. Strings are
objects with an identity, and every operation returns which of them it takes references to,
which it frees and which it overwrites without freeing; children of trees carry `moved`, whether
the pointer beside them is older than their place. `ExDocuments` is a client that reads, appends,
extracts, replaces, takes out strings and frees, with the count of every string; in its other
behaviours it reads files with tables of any shape (`ExTableLayout`), with the one piece of global
state of `ex.c`, the static `table_layout`.

**AIN images.** `AinTables` has the tables that know of each other: functions, structures and
enumerations, `_func_ht` (the list of numbers of each name) and `_struct_ht`, with adding,
duplicating, inferring the owners of functions from their names, indexing (one function per step)
and freeing whole tables; `stale` is a ghost that remembers whose index was left behind by
`ain_free_...`. `Ain` itself has the string table, whose index is made when first asked for, and
`ain_new` with the sections that the `ain_add_...` functions bring back. `AinReader` is
`ain_open`: a machine over tokens that reads a section per step, guided by the layout that each
kind of entry has in the version (`Layout`, `reading`), guesses the minor version from names of functions, reads enumerations out of code and
strings, and gives globals their initial values. `Dasm` is the cursor over the code with the
stack of functions, and the table of instructions that a newer image changes for all.

**Containers.** `HashTable` has the buckets, each of which may move when it grows (`home` counts
the moves), and the slot that the last `ht_put` returned, through which a client stores; string
and integer keys differ in the hash only, which is a constant. `Buffer` is at the level of bytes:
growth by doubling, all the writers and readers, the position that can be set anywhere, and each
reader's own check of the bounds. `IniFile` takes the entries that the (generated, external)
lexer and grammar find, and builds, gathers and frees them, strings by identity.

**Media.** `SjisText` is the byte arithmetic: `SjisIndex` walks lead bytes, `Erase`, `SetChar`,
`PopBack`, `CopyText`, `FindText` and `CountChar` are the functions' results; `SjisTextCheck`
carries a text and the sequence of its characters side by side through the mutators. `Qnt` has
both directions of the codec as functions over pictures. `Pms` has the decoder; its writer is
external and may, at each place, take any command that says what comes next. `CgLoad` has the
recursion of `cg_load_internal` as a stack, with the laying of DCF, WebP and PCF images over
their bases, whole and by chunks. `Fnl` counts through all 16-bit codes.

## 3. What the runs show

Passing runs; distinct states in parentheses.

| run | bounds | shows |
|---|---|---|
| `string_cow` (6193, symmetry) | 3 handles, 4 addresses and the static object, texts of up to 3 bytes, a broken-off lead byte among them, counts mod 16 | counts exact, shared strings flagged, the empty string intact, and `ImplementsValues`: each handle behaves as if its text were its own, `string_clear` excepted, which empties all handles of the object |
| `archives` (136199) | 2 handles and the iterator, 3 heap addresses, archives of 3 to 6 files (see `MCArchive`), with reads that fail and a file at the end of the map | `BlocksOwned`, `ShowsItsFile`, `SizesMatch`; `FaultsHaveCause`: the AFA read failure and the AAR file past the map, both below, are the only ways to misuse memory; `LoadReturns`; `ImplementsContract` |
| `saves` (222710) | a save with every kind of reference, an object of every tag, and an empty one, per version; each integer of the file replaced by each of a set of values | `RoundTrip`: written saves are read back; `AcceptedIsClosed`: what is accepted of a damaged global save has no reference that leads nowhere among those the code checks; `Lossless`: an accepted resume save, damaged or not, is exactly what the writer would make of the result |
| `ex_documents` (3965, symmetry) | 3 documents that meet in every way, 3 handles, 2 edits, 1 string held outside; tables of 0 to 3 rows and fields | `RefExact`, `AppendMerges`, `ReplaceOfExtract`, `AppendedIsFound`, `LookupsLive`; `NeverMisread`, `FailsOnlyOnMixedFiles` of the table layout |
| `ain` (76160) | tables of up to 3 functions and 2 structures, with one owner that is a structure and an enumeration; string tables of up to 5; files of 12 versions from 1.0 to 14.1, encrypted or not, with an unknown section at the end or none; 16 versions of new images; a program with functions in functions, deeper than the cursor's stack of 2 | `FunctionsFound`, `StructuresFound`, `StringsFound`: indexes agree with tables; `OwnersInferred`, `FreedOnce`, `NothingDropped`; `OpenedAsWritten`: the version is guessed right, every section is read as written, and the recorded places of sections tile the file; `CursorOnInstruction`, `FunctionIsInnermost` |
| `containers` (46093) | 4 keys in 2 buckets; buffers that grow from 2 bytes, 2 items of every kind, sought to offsets before, at and far past the end; ini files of up to 3 entries | `SlotLive`, `KeysOnce`, `ImplementsMap`; `BufferKeepsData`: what was written is read back, and no access leaves the buffer unless a length, a missing terminator or an offset in the data led there; `IniAsWritten`: entries gather as the file says, and every string is freed once or lost |
| `media` (97356) | texts of up to 4 characters of 4 classes; QNT pictures of every parity of both sides, with sound and damaged planes of alpha; PMS pictures where each command has a place; archives with chains, circles and misfits of bases, and PCF images at every edge of their canvas; all 65536 codes | `TextEncodesChars`: no series of mutators splits a character or takes a trail byte for one; `QueriesSeeCharacters`: queries answer what the character sequence answers, also for indices outside the text; `ImagesDecoded`, `LoadEnds`, `IndexIsOrdinal` |

Why the bounds are enough. *Strings*: sharing, copying and moving involve two holders of one
object and one bystander; the three handles give all of them, and a fourth address leaves
`realloc` somewhere to go. *Archives*: descriptors do not interact except through the heap and
the iterator; two handles and the iterator with three addresses let each own a block and leave
room for reuse only after a free. For both, the theorems below remove the bounds. *Saves*: the
parser's checks concern one token and the counts of the header, so single replacements reach each
check from both sides. *EX*: two edits let a document that was appended to be copied, extracted
from or appended again. *AIN*: the files have every section that a version has, with none, one
and several entries, and the versions are those at which the format changes, on both sides; three
functions let an index have a list with a neighbour (the theorems hold for any tables).
*Containers*: two keys that collide and one that does not give each case of `ht_put`; two items
let the second begin before, at and after the point where the buffer grows. *Text*: every
decision in the code looks at one byte and its successor, so four characters of the four classes
give every pair in every position. *Images*: a QNT prediction looks at the left, upper and upper
left neighbour, which 3 by 3 pixels have inside and at each border.

`CHECK_DEADLOCK FALSE` is set where the system stops: a fault ends the archives' behaviour, a
parsed file ends a save's or an image's, an `ERROR` ends a reader's, and the last code ends the
font's.

Fairness is assumed twice: of the steps of an `aar_load_file` that has been called (`Archive`),
and of those of a `cg_load` that has been called (`Media`). Each runs to its end in one thread,
so it cannot rest between two links or two bases. Nothing obliges the client to make a call.

### Disagreements with the documentation

Each is a run that TLC must find violated, with one property that states what the documentation
says.

| run | source | what happens |
|---|---|---|
| `afa_mixed_ids` | `afa.c:139` | a descriptor found by name is loaded through its number. When an entry without an id takes its table index as number and another entry has that id, the data of the other file is returned |
| `afa_empty_file` | `afa.c:152` | reading an empty file fails, `afa_load_file` frees the descriptor, and its caller frees it again |
| `aar_empty_file` | `aar.c:189` | `aar_release_file` takes data whose pointer is not inside the map for a block of the heap. The data of an empty last file of a mapped archive is at the end of the map, so that map memory is freed |
| `gsave_refused` | `savefile.c:355` | `nr_flat_arrays` is stored before the array is refused, and `gsave_free` walks that many of a null pointer |
| `rsave_refused` | `savefile.c:664` | when a heap object is refused, `rsave_free` reads the tags of the objects that were never read |

The other properties are stated so that they name these cases: `FaultsHaveCause` allows a
fault in a failing AFA read and for an AAR file at or behind the end of the map only, `ShowsItsFile` is checked with AFA numbers that do not collide,
and FLAT archives are left out of `ImplementsContract`: `flat_get` points every descriptor at the
stored bytes, also those that `flat_for_each` passes on (`flat.c:99`), while `archive.h:153` says
that they are initially unloaded. Further deviations met while modelling are named where the
property excludes them:

- strings: a lead byte broken off at the end of a text counts as two bytes; what `string_erase`
  (`string.c:251`) and `string_set_char` (`string.c:323`) then do is undefined, and the models stop
  there (`BrokenOff`);
- archives: the name a copied descriptor gets (`archive.c:53`) is never freed (the models have
  blocks of file data only); the header of a file of an unmapped ALD archive is read unchecked
  (`ald.c:252`), so that a file can be found under another name (`MayHaveName`), and its volume is
  kept in a `char` (`ald.c:151`), so that the files of volumes from 129 on count as absent (`Signed`;
  the contract takes from the format which files there are);

- saves: the structure of a record and the value of a key-value of version 7 are stored unchecked
  (`savefile.c:291`), as are the values of `Unchecked` types; a resume save of a version without comments, read for comments only, is written back as
  a file that cannot be read (`Hollow` in `RsaveFile`);
- EX: `ex_append` overwrites a string without freeing it (`lost` in `ExDocuments`); a subtree
  that got another child leaves stale pointers in its value array (`grown`, `moved`); `ex_get`
  compares as many bytes as the given name has, so that a longer name earlier in the document
  hides the one asked for (`InSight`);
- AIN: `ain_free_functions`, `ain_free_structures` and `ain_free_strings` leave their index
  behind (`stale`, `fresh`); a duplicated function shares the pointer to a default text, which is
  freed twice (`duplicated`); in version 12 and later, initial values and file names that are
  added to a new image are not written (`NothingDropped`); the minor version of a 14.0 image
  without the marker functions is guessed as 1 (`VersionKnown`); opening an image of version 11
  or later changes the instruction table under the cursors of older ones (`modern`);
- INI: a position assigned twice in a list, or below the name of a value, loses strings (`lost`);
- buffers: `buffer_read_pascal_string` and its like trust a length in the data, strings trust that
  there is a terminator, and `dcf.c:90`, `dcf.c:124`, `pcf.c:74` and `pcf.c:95` seek to offsets that
  the data gives; an index beyond the end makes the remaining size huge, every later check passes,
  and an addition to the index may wrap (`trusted`, `outside`, `Astray`);
- images: the first alpha byte of a QNT picture one pixel wide is never set, and a plane of alpha
  that does not inflate (`qnt.c:172`) leaves whatever its memory held (`Undefined`); the pixels of a
  PCF image that its header puts outside of the canvas (`pcf.c:143-147`) come out in the next row or
  outside of the allocation (`Overruns`), which `ImagesDecoded` excepts (`PartsFit`); a DCF whose
  changes do not fit its base is that base, of whatever size (`IsItsBase`); WebP and DCF bases that run in a circle
  are followed for ever (`Circular`);
- fonts: the way from an index back to a character adds 31 for the invalid first bytes from 0xa0
  on, of which there are 64 (`fnl.c:83`, where the comment gives 31 as their number), and is wrong
  from 0xe000 on; `IndexIsOrdinal` speaks of the way back below that.

## 4. What is proved

TLAPS proves these for every value of the constants.

*`StringCowProofs`*, under `CowAssumption` (finitely many handles, texts are texts, `Empty` is an
address, and the count is wide enough for one reference per handle and the static one): the
inductive invariant is `IInv == TypeOK /\ RefCountExact /\ SharedIsCow /\ EmptyStringIntact`. The
parts need each other: that counting does not wrap (`TypeOK`) needs exact counts, that writing in
place leaves other handles alone needs shared objects to be flagged, and that the empty string is
not written needs its flag together with a count above one whenever a handle has it. `Effect`
reduces the fourteen actions to seven effects on memory, and there is one lemma per effect; the
counting argument is `Retarget` (moving one handle changes two counts by one) from the library's
facts about cardinalities. The theorems are `TypeCorrect`, `RefCountsAreExact`,
`SharedStringsAreCow` and `EmptyStringNeverWritten`, and from the same invariant
`StringCowImplementsValues`: a write in place can only be seen by its own handle, because an
object whose flag or second reference is missing has one holder (`SoleHolder`); every other
effect changes one handle (`OneValueChanges`).

*`ArchiveProofs`*, for archives of all six formats with tables of any size, any handles and any
heap, under `ArchiveAssumption` (which TLC evaluates) and `Distinguished` (an address, a place in
an archive, a descriptor and the content of a block cannot be mixed up; it quantifies over
everything, so it is a hypothesis of the theorems). None of the properties is inductive, because
whether an operation frees, and what a load reads, depends on the format, on whether the archive
is mapped, and on what the descriptor says of itself. `IInv` ties these together: `Good` is how a
descriptor of each format knows whether it owns its data, `OneOwner` that the descriptors' blocks
are the allocated ones, one to one, `Truthful` what a descriptor and its bytes say of its file,
and `LoadInv` that an AAR load under way is for the file of the handle it will fill, which owns
nothing. Every step of every format shows, owns or drops the data of one handle (`Effect`), or
opens or frees the archive; there is one lemma per effect, one per shared operation and one per
format. From `IInv` follow `BlocksAlwaysOwned`, `FaultsNeedACause`, `SizesAreRight` (of FLAT
archives) and `FilesAreShown`. The last needs two things more. AAR links are followed one by one
and may run in circles, while `ShowsItsFile` speaks of where they end: `Path` is the recursive
function of the property, and that it is settled after as many steps as there are files
(`AarLinks`) is proved by induction over the steps, the pigeonhole principle being
`FS_Injection` of the library. And AFA archives look up a file by its number alone, so the
numbers must differ (`UniqueNumbers`); run `afa_mixed_ids` shows what happens when they do not.

`ContractHolds` is the refinement: archives of every format but FLAT do what `ArchiveContract`
says. The invariant is `IInv` with `Visiting` (the iteration is inside the table and lends its
descriptor only there; the load under way is for the file its handle has). Each format maps its
lookups to the entries the contract speaks of (`TableContract`, `AfaContract`, `AldContract`,
`AarContract`), what a step does to one handle is a call of the contract (`Contracts`), and the
steps of an AAR load before the last are stutters. `NullApart` is the hypothesis that the null
pointer is no state of a handle.

*`ContainersProofs`*, of the hash table, for any keys, values, hash and number of buckets, under
`TableAssumption`: `LastSlotIsLive`, `KeysAreOnce` and, from `IInv == TypeOK /\ SlotLive /\ KeysOnce`,
`HashTableImplementsMap`, the refinement of `PutMap`. That a key has one slot needs that it is in
the bucket its hash says, and that a store through the slot is a store to the map needs both.

Of byte buffers, for any integers of 32 bits, any texts without a zero of less than 2^31 bytes and
any first size, under `BytesAssumption`: `BuffersKeepData`. `BufferInv` adds to the property that
the items are one after the other (`Spaced`), that the bytes of each are where it was written,
patched or not, and nothing behind them was left out (`Stored`), and where a reader is that went in
order (`InOrder`). A write keeps the items before it because it begins where the last one ends,
whether the buffer moved or not (`alloc_buffer` doubles until the need is met: `DoubledExceeds`); patching
an integer touches the bytes of no other item. A read gives back what was written because numbers
and bytes are inverse to each other for every 32-bit value, with its sign
(`NumberOfBytes`), and because the first zero after a text is its end. The index may be moved to any
offset of `Offsets`, negative ones included (an unsigned index near its limit); what a read finds
there is left open, and the invariant is that the index or an access is outside only when an offset,
a missing terminator or a length has led it there (`trusted`).

Of ini files, under `IniFilesAssumption` (what the grammar yields: values are no entries, and every
text is a string of its own): `IniEntriesAsWritten`, for files of any length, lists of any length
and values nested to any bound. `IniInv` has two parts. `Meant` says which line made which entry:
the entries are those of the lines that open one, in order, and an entry is its line, unless it is
the first of its name and a list (`Gathers`); then its list is what the assignments so far made of
it, the last to each position counting (`ListIs`). That the code's search for the first entry of a
name finds just that one is `FirstOfName`. `Shared` says that the strings of the lines parsed are
in one place each: in one entry that is not freed yet, once among the freed, or lost. A line's
strings are new (`NextTaken`); `AssignedStrings` is what an assignment to a list does to them: those
of the new value come in, those of the position leave.

*`AinProofs`*, for images of any size, under `AinTablesAssumption` and `AinAssumption`:
`FunctionsAreFound`, `StructuresAreFound`, `OwnersAreInferred` and `FunctionsAreFreedOnce` of the
tables; `StringsAreFound`, `NothingIsDropped`, `CursorStaysOnInstructions` and
`FunctionStaysInnermost` of those who work on an image. `FunctionsFound` is strengthened by
`IndexInv`: the list of a name has only functions of that name, in order, and all of them up to
the place that indexing has reached. Owners need the index of structures (`OwnedInv`), since one
side looks there and the other searches the table. The index of strings is inductive with the
types of the table and of the index (`StringsInv`). The cursor needs that the
table of instruction sizes it steps by is that of the image (`CursorInv`), which a second image
of another version breaks, and that the places of instructions are those reached from the start
of the code. That the function of the cursor is the innermost one needs `StackInv`: the current
function and the stack below it hold the last functions entered, as far down as the stack has not
lost them (`Remembers`), and zeros below those (`ZeroBelow`).

*`SavesProofs`*, for any saves with fields of the right types and any damage to one integer, under
`SavesAssumption` (which the run `saves` evaluates): `AcceptedSavesAreClosed`. `gsave_parse` checks references while it reads,
against the counts in the header, before most of what they refer to is there; the property is
about what was read. `GlobalInv` connects them: `Progress` says that the tables before the one
under way are as long as the header says, that the one under way lacks `left` entries and that
those after it are empty; `Checked` that every entry taken passed its check; `SaveShape` that the
tables are sequences. That the header of any written file has eleven integers (`FileTyped`) comes
from the types of the save, through the library's `FlattenSeq`, a recursive function whose
existence is proved in `Flattened`.

`ResumeSavesAreLossless`, under the same assumption (a resume save is a `struct rsave` with the
fields its version and the tags of its objects give it: `IsResumeSave`), says that an accepted file
is what `rsave_write` makes of the save that was parsed from it. That is about the end of the parse;
what is inductive is that at every point the tokens read so far are what the writer makes of the
save so far (`ResumeInv`). `HasRead` gives this for each phase of the parser: the file up to `pos`
is a head of the written file (`HeadIp`, `HeadStack`, ..., `HeadHeap`), in which the counts of lists
under way are what the list has plus what is `left`, and for a heap object under way its tag and as
many of its fields as were read. `Under` says which fields are still untouched, so that reading one
field changes no token of what is before it. Writer and parser list the fields of an object each in
its own way (`Written`, `Layout`); that both agree for every tag and version is `LayoutMatches`
and what rests on it. The parser drops values it only checks (the zeros, the flag of a string, the
-1 of the globals' function), and counts method calls where the writer leaves the other frames out
(`FramesWritten`): there the theorem needs each check that the code makes.

`ResumeSavesComeBack` is the other direction, and the half of `RoundTrip` that is about resume
saves: an undamaged file is never refused, and what is read of it is what was written, again and
again (`Rewrite`). It needs `ResumeInv`, which says how much of the file was read, and `ComesBack`,
which says what the parser has made of it: in each phase the fields read so far are those of the
save that was written (`Agrees`), and the save itself is still one that the writer takes, since a
rewritten one was read. What lies ahead of the parser then follows from the file (`Ahead`,
`HeapAhead`): at `pos` are the tokens of the next field, and the lemmas that end in `There` say that
each reader takes exactly those and returns the value they were made of. The one exception is in
the property: a save of version 4 or 6 that was read for its comments is written as its version
alone (`IsHollow`), and cannot be read again.

*`SjisTextProofs`*, of the client of `SjisTextCheck`, for any alphabet of one- and two-byte
characters and texts of any length, under `CharsAssumption` (a character has the bytes that its
first byte announces; the run `media` evaluates it): `TextIsEncoding` and `QueriesAreRight`. The
first property is inductive once the characters are known to be of the alphabet (`Encoded`); the
second follows from it in every state. What both rest on is unique decoding. Encoding turns joined
sequences into joined texts (`EncodeConcat`), so that a text is what is before a character, its
bytes, and what is after it (`Halves`, `Around`). The scan of `sjis_index`, which sees only bytes,
is at the starts of the characters and nowhere else (`IndexIs`), because the byte at a start says
where the next one is (`NextStart`); that makes erasing, replacing and cutting at such a place the
same operation on the characters. `string_find` compares bytes, and finds only whole characters,
because texts that agree from a start agree character by character (`Begins`).

*`Fnl`* holds its own proof, for faces of any size with any glyphs missing, under `FacesAssumption`:
`IndicesCountCharacters`. The number of characters below a code has a closed form over its two bytes
(`CharsBelow`), and one more code counts one more exactly if it is a character (`OneMore`);
`fnl_char_to_index` and `fnl_index_to_char` are inverse to that form (`IndexIsBelow`,
`BelowIsIndex`), which the run shows by going through the codes.

*`ExTableLayout`* holds its own proofs, for tables of any size: `TablesAreNeverMisread` and
`OneOrderNeverFails`. The properties are not inductive; `LayoutWasSeen` is added, which says that
the layout is only ever set by a file of that order.

Where a proof needs induction, it is over a set of numbers: `Counting` (a set of naturals that
has 0 and with each number the next is all of them) follows from the library's least-element
theorem, so that the theorems which take an operator as a parameter are not needed; and a
recursive function is resolved by showing that one with its equations exists (`Repeating`,
`Flattened`, `CountsExist`).

Only model-checked, and why:

- `LoadReturns` and `LoadEnds`: liveness, out of the prover's reach.
- The half of `RoundTrip` that is about global saves, and `OpenedAsWritten`: that what was written
  is never refused and gives the same save or image again. For global saves it holds of those that
  are closed (`AcceptedIsClosed` is what the parser checks), which the saves of the run are.
- `ImagesDecoded` and the other properties of `ExDocuments`: byte arithmetic and recursions over
  data; `CgLoad`, `ExDocument` and `ExDocuments` are written with recursive operators, which the
  prover does not take.

## 5. What is not modelled

- `png.c`, `jpeg.c`, `webp.c`'s decoder and `ajp.c` hand their data to libraries or turn them by a
  constant mask; `acx.c` is a straight read of a table, and its model would restate it.
- The conversion tables between Shift-JIS, Unicode and UTF-8 (`s2utbl.h`) are data, as are the
  tables of instructions, system calls and type names (`instructions.c`); half- and full-width
  numbers are formatting.
- How archives are opened: the headers of ALK, DLF, ALD, FLAT and AAR files and the dictionary of
  AFA version 3. The archive modules start from a table of files.
- The byte layout of EX files and its cipher, tables in tables, and the lookup of rows by value.
- Formations inside formations in ini files, which the grammar allows (`ini_parser.y:142`):
  `IniFile` has those of plain entries and lists.
- Compressed AAR entries outside of the archive, whose inflating reads other memory.
- The encryption and compression around saves, and the `gsave_add_` builders.
- Of AIN images: looking up globals, enumerations and library functions by name (plain searches),
  the writer (which is not in this library), and files that do not keep the promises of their
  counts, where the code stops or reads on.
- `dasm_peek` and the readers of one argument, which change nothing; opening a font and
  decompressing its glyphs.
- `mt19937int.c`, a published generator with 624 words of state, and `file.c` and `system.c`,
  which call the operating system.

## 6. Plan

What would come next, by how much depends on it:

1. Proofs: `RoundTrip` for global saves of any size, as `ResumeSavesComeBack` does it for resume
   saves, then `OpenedAsWritten`.
2. `GsaveTables`: the `gsave_add_` builders with their counts and capacities, and that what they
   build is a save that `GsaveFile` can write.
3. The dictionary of AFA version 3 and the cipher of EX as functions against reference
   definitions, and with them the opening of archives.
