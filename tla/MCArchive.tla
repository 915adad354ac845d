------------------------------ MODULE MCArchive ------------------------------
(* Archives of every format, with what is special about each: holes and    *)
(* empty files in ALK and DLF tables; AFA numbers in another order than    *)
(* the table's, or none; ALD volumes that were not given, two files of one *)
(* name, a volume beyond 127; FLAT files that do not inflate; and AAR      *)
(* links over one and two steps, to nothing, and in a circle, and an empty *)
(* file at the end.                                                        *)
EXTENDS Archive, TLC

Slot(off, size) == [off |-> off, size |-> size]

Tables == {[format |-> f, mmapped |-> m, files |-> t] :
             f \in {"alk", "dlf"}, m \in BOOLEAN,
             t \in {<<Slot(0, 0), Slot(1, 1), Slot(2, 1)>>,
                    <<Slot(1, 1), Slot(2, 0), Slot(2, 1)>>}}

AfaFile(name, base, id, size) == [name |-> name, base |-> base, id |-> id, size |-> size]

AfaFiles(i, j, k) ==
  <<AfaFile("a.x", "a", i, 1), AfaFile("b.x", "b", j, 0), AfaFile("A.y", "a", k, 1)>>

Afas == {[format |-> "afa", mmapped |-> m, hasNumber |-> n, files |-> t] :
           m \in BOOLEAN, n \in BOOLEAN, t \in {AfaFiles(3, 1, 2), AfaFiles(0, 0, 0)}}

Place(disk, slot) == [disk |-> disk, slot |-> slot]

AldFiles == <<Place(1, 1), Place(0, 0), Place(129, 1), Place(2, 1), Place(1, 3), Place(1, 2)>>

AldVolumes == {0 :> <<256, 512, 768, 768>>,
               0 :> <<256, 512, 768, 768>> @@ 1 :> <<256, 512>> @@ 128 :> <<256, 512>>}

AldNames == 0 :> (256 :> "A" @@ 512 :> "B" @@ 768 :> "C") @@ 1 :> (256 :> "B")
            @@ 128 :> (256 :> "A")

Alds == {[format |-> "ald", files |-> AldFiles, volumes |-> v, names |-> AldNames,
          allNames |-> {"A", "B"}, mmapped |-> m] : v \in AldVolumes, m \in BOOLEAN}

Flats == {[format |-> "flat",
           files |-> <<[stored |-> 1, real |-> 1, zlib |-> FALSE, good |-> TRUE],
                       [stored |-> 2, real |-> 4, zlib |-> TRUE, good |-> TRUE],
                       [stored |-> 3, real |-> 5, zlib |-> TRUE, good |-> FALSE]>>]}

Data(type, name, off, size, real) ==
  [type |-> type, name |-> name, target |-> "", off |-> off, size |-> size, real |-> real]

Link(name, target) ==
  [type |-> "link", name |-> name, target |-> target, off |-> 0, size |-> 0, real |-> 0]

EndOfFile == 8

AarWith(m, t) == [format |-> "aar", mmapped |-> m, fileSize |-> EndOfFile, files |-> t]

EmptyLast == <<Link("L", "E"), Data("raw", "A", 6, 2, 2), Data("raw", "E", EndOfFile, 0, 0)>>

Aars == {AarWith(m, t) :
           m \in BOOLEAN,
           t \in {<<Link("L", "M"), Link("M", "A"), Data("raw", "A", 5, 2, 2), Data("zlb", "A", 7, 1, 3)>>,
                  <<Data("zlb", "A", 6, 1, 3), Link("L", "A"), Link("O", "X"), Data("bad", "B", 7, 1, 3)>>,
                  <<Link("L", "M"), Link("M", "L"), Data("raw", "A", 6, 2, 2)>>,
                  EmptyLast}}

\* A version 1 AFA table of which only some ids are 0.
MCMixedIds == {[format |-> "afa", mmapped |-> TRUE, hasNumber |-> TRUE, files |-> AfaFiles(0, 0, 2)]}

\* A mapped AAR archive whose last file is empty.
MCEmptyFile == {AarWith(TRUE, EmptyLast)}

MCArchives == Tables \cup Afas \cup Alds \cup Flats \cup Aars
=============================================================================
