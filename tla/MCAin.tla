------------------------------- MODULE MCAin -------------------------------
(* An image with a function of no owner, one of an owner that is both a    *)
(* structure and an enumeration, with a default text, and an image without *)
(* those; string tables with repeats; files of every version where the     *)
(* format changes; and a program with functions nested deeper than the     *)
(* cursor's stack.                                                         *)
EXTENDS Ain, TLC
Sx == INSTANCE SequencesExt

Name(o, m) == [owner |-> o, member |-> m]

MCImages ==
  {[functions |-> <<[name |-> Name(NULL, "f"), default |-> FALSE],
                    [name |-> Name("S", "f"), default |-> TRUE]>>,
    structures |-> <<"S">>, enums |-> <<"S">>],
   [functions |-> <<[name |-> Name(NULL, "f"), default |-> FALSE]>>,
    structures |-> <<>>, enums |-> <<>>]}

MCStringTables == {<<"a">>, <<"a", "b", "a">>}

NewVersions == [major : {1, 4, 5, 6, 7, 11, 12, 14}, minor : {0, 1}]

O(op, arg) == [op |-> op, arg |-> arg]

MCPrograms ==
  [version : {4, 11},
   code : {<<O("FUNC", 1), O("CALLHLL", 0), O("FUNC", 2), O("NEW", 0), O("FUNC", 3),
             O("ENDFUNC", 3), O("PUSH", 0), O("ENDFUNC", 2), O("POP", 0), O("ENDFUNC", 1),
             O("POP", 0)>>}]
-----------------------------------------------------------------------------
(* A writer of each section, by the version.                               *)
I(x) == <<<<"int", x>>>>
S(x) == <<<<"string", x>>>>
Each(items, W(_)) == Sx!FlattenSeq([i \in DOMAIN items |-> W(items[i])])
Count(items, W(_)) == I(Len(items)) \o Each(items, W)
Since(v, a, tokens) == IF v.major >= a THEN tokens ELSE <<>>
WInts(xs) == Each(xs, I)
WType(v, t) == Each(t, WInts)
WReturn(v, t) == IF v.major >= 11 THEN WType(v, t) ELSE WInts(t)
WHllType(v, t) == IF v.major >= 14 THEN WType(v, t) ELSE I(t)
WInitval(type, x) == IF x = NULL THEN I(0)
                     ELSE I(1) \o (CASE type[1][1] = 12 -> S(x) [] type[1][1] \in {18, 79} -> <<>> [] OTHER -> I(x))
WVariable(v, x) == S(x[1]) \o Since(v, 12, S(x[2])) \o WType(v, x[3]) \o Since(v, 8, WInitval(x[3], x[4]))
WGlobal(v, g) == S(g[1]) \o Since(v, 12, S(g[2])) \o WType(v, g[3]) \o Since(v, 5, I(g[4]))
WFunction(v, f) ==
  I(f[1]) \o (IF f[1] = 1 THEN <<<<"junk", 255>>>> ELSE <<>>) \o S(f[2])
    \o (IF v.major \in 2 .. 6 THEN I(f[3]) ELSE <<>>) \o WReturn(v, f[4]) \o I(f[5]) \o I(f[6])
    \o Since(v, 11, I(f[7])) \o Since(v, 2, I(f[8])) \o Each(f[9], LAMBDA x : WVariable(v, x))
WStruct(v, s) ==
  S(s[1]) \o Since(v, 11, Count(s[2], WInts)) \o WInts(s[3]) \o Count(s[4], LAMBDA x : WVariable(v, x))
    \o (IF v.major > 14 \/ (v.major = 14 /\ v.minor = 1) THEN Count(s[5], I) ELSE <<>>)
WArgument(v, a) == S(a[1]) \o WHllType(v, a[2])
WHllFunction(v, f) == WArgument(v, f) \o Count(f[3], LAMBDA a : WArgument(v, a))
WLibrary(v, l) == S(l[1]) \o Count(l[2], LAMBDA f : WHllFunction(v, f))
WSwitch(s) == WInts(s[1]) \o Count(s[2], WInts)
WFuncType(v, t) == S(t[1]) \o WReturn(v, t[2]) \o I(t[3]) \o I(Len(t[4])) \o Each(t[4], LAMBDA x : WVariable(v, x))
WInit(x) == I(x[1]) \o I(x[2]) \o (IF x[2] = 12 THEN S(x[3]) ELSE I(x[3]))
WMessage(m) == I(Len(m)) \o <<<<"masked", [i \in DOMAIN m |-> (m[i] + i - 1 + 96) % 256]>>>>

(* What an image of each version has.                                      *)
Ty(v, d) == IF v.major >= 11 THEN <<<<d, -1, 0>>>> ELSE <<<<d, -1, 2>>>>
Array(v) == IF v.major >= 11 THEN <<<<79, 3, 1>>, <<79, 3, 1>>, <<13, 3, 0>>>> ELSE <<<<17, 3, 2>>>>
Ret(v) == IF v.major >= 11 THEN Array(v) ELSE <<13, 3>>
Hll(v) == IF v.major >= 14 THEN Array(v) ELSE 13
Var(v, n, t, x) == <<n, IF v.major >= 12 THEN "x" ELSE NULL, t, IF v.major >= 8 THEN x ELSE NULL>>
Locals(v) == <<Var(v, "a", Array(v), IF v.major >= 11 THEN 0 ELSE 5), Var(v, "b", Ty(v, 12), "t"), Var(v, "c", Ty(v, 18), 0),
             Var(v, "d", Ty(v, 10), NULL)>>
Fun(v, name, address, xs) ==
  <<address, name, IF v.major \in 2 .. 6 THEN 0 ELSE NULL, Ret(v), 1, Len(xs),
    IF v.major >= 11 THEN 0 ELSE NULL, IF v.major >= 2 THEN 7 ELSE NULL, xs>>
ToStr(v) == IF v.major < 14 THEN "E@String" ELSE "E::ToString"
Game(v) == IF v.marked THEN {"_ALICETOOLS_AINV14_00"} ELSE {"g"}
Funs(v) == <<Fun(v, "0", 0, <<>>), Fun(v, ToStr(v), 1, Locals(v)),
             Fun(v, CHOOSE n \in Game(v) : TRUE, 5, <<>>)>>
Ins(op, arg) == [op |-> op, arg |-> arg]
Code == <<Ins("RETURN", 0), Ins("S_PUSH", 2), Ins("S_PUSH", 0), Ins("S_PUSH", 1), Ins("ENDFUNC", 1), Ins("S_PUSH", 3)>>
Structs(v) == <<<<"S", IF v.major >= 11 THEN <<<<0, 0>>>> ELSE NULL, <<1, -1>>, Locals(v),
                  IF v.major = 14 /\ v.minor = 1 THEN <<1, 2>> ELSE NULL>>,
                <<"T", IF v.major >= 11 THEN <<>> ELSE NULL, <<-1, -1>>, <<>>,
                  IF v.major = 14 /\ v.minor = 1 THEN <<>> ELSE NULL>>>>
Inits == <<<<1, 12, "t">>, <<0, 10, 3>>>>
Strs == <<"", "B", "A", "C">>
Glob(v, n, d, group) == <<n, IF v.major >= 12 THEN "x" ELSE NULL, Ty(v, d), IF v.major >= 5 THEN group ELSE NULL>>
Globs(v) == <<Glob(v, "g", 10, 0), Glob(v, "h", 12, 1)>>
Libs(v) == <<<<"L", <<<<"f", Hll(v), <<<<"a", Hll(v)>>, <<"b", Hll(v)>>>>>>>>>>, <<"M", <<>>>>>>
Switches == <<<<<<2, -1>>, <<<<1, 10>>, <<2, 20>>>>>>, <<<<4, 9>>, <<>>>>>>
Labels == <<<<"s", 4>>>>
Types(v) == <<<<"ft", Ret(v), 1, Locals(v)>>>>
Msgs == <<<<200, 3>>, <<>>, <<255>>>>
WithMsg1(v) == v.major > 6 \/ (v.major = 6 /\ v.minor > 0)

Tags == Sections \cup {"VERS", "CODE", "FUNC", "MAIN", "MSGF", "GVER", "STR0"}

\* The sections of a file, in the order of the files: tag, contents, tokens.
Sect(tag, value, tokens) == [tag |-> tag, value |-> value, tokens |-> tokens]
SectionsOf(v) ==
  LET when(c, s) == IF c THEN <<s>> ELSE <<>>
      num(tag) == Sect(tag, 9, I(9))
      strs(tag, xs) == Sect(tag, xs, Count(xs, S))
  IN  <<Sect("VERS", v.major, I(v.major))>> \o when(v.major < 12, num("KEYC"))
      \o <<Sect("CODE", Code, <<<<"code", Code>>>>),
           Sect("FUNC", Funs(v), Count(Funs(v), LAMBDA f : WFunction(v, f))),
           Sect("GLOB", Globs(v), Count(Globs(v), LAMBDA g : WGlobal(v, g)))>>
      \o when(v.major < 12, Sect("GSET", Inits, Count(Inits, WInit)))
      \o <<Sect("STRT", Structs(v), Count(Structs(v), LAMBDA s : WStruct(v, s)))>>
      \o when(WithMsg1(v), Sect("MSG1", Msgs, I(Len(Msgs)) \o I(0) \o Each(Msgs, WMessage)))
      \o when(~WithMsg1(v), strs("MSG0", <<"m">>))
      \o <<num("MAIN")>> \o when(v.major < 12, num("MSGF"))
      \o <<Sect("HLL0", Libs(v), Count(Libs(v), LAMBDA l : WLibrary(v, l))), Sect("SWI0", Switches, Count(Switches, WSwitch)), num("GVER")>>
      \o when(v.major = 1, Sect("SLBL", Labels, Count(Labels, LAMBDA l : S(l[1]) \o I(l[2]))))
      \o <<strs("STR0", Strs)>> \o when(v.major < 12, strs("FNAM", <<"f", "g">>)) \o when(v.major < 7, num("OJMP"))
      \o when(v.major < 7, Sect("FNCT", Types(v), I(4) \o Count(Types(v), LAMBDA t : WFuncType(v, t))))
      \o when(v.major >= 7, Sect("DELG", Types(v), I(4) \o Count(Types(v), LAMBDA t : WFuncType(v, t))))
      \o when(v.major >= 5, strs("OBJG", <<"o">>))
      \o when(v.major >= 12, Sect("ENUM", <<[name |-> "E", symbols |-> <<"A", "B">>], [name |-> "F", symbols |-> <<>>]>>,
                                  Count(<<"E", "F">>, S)))

\* The globals with the initial values that ain_open gives them.
WithInits(v, globs) ==
  IF v.major < 12 THEN <<Append(globs[1], 3), Append(globs[2], "t")>> ELSE globs

File(v, raw, end) ==
  LET ss == SectionsOf(v) IN
  [raw |-> raw, major |-> v.major, minor |-> v.minor, marked |-> v.marked,
   tokens |-> Each(ss, LAMBDA s : <<<<"tag", s.tag>>>> \o s.tokens) \o end,
   image |-> [t \in Tags |-> IF \E i \in DOMAIN ss : ss[i].tag = t
                             THEN LET c == ss[CHOOSE i \in DOMAIN ss : ss[i].tag = t].value
                                  IN  IF t = "GLOB" THEN WithInits(v, c) ELSE c
                             ELSE <<>>]]

V(a, b, m) == [major |-> a, minor |-> b, marked |-> m]
MCVersions == {V(1, 0, FALSE), V(4, 0, FALSE), V(5, 0, FALSE), V(6, 0, FALSE), V(6, 1, FALSE), V(7, 0, FALSE),
               V(8, 0, FALSE), V(11, 0, FALSE), V(12, 0, FALSE), V(14, 0, TRUE), V(14, 0, FALSE), V(14, 1, FALSE)}

MCFiles == {File(v, "encrypted", <<>>) : v \in MCVersions}
           \cup {File(v, "AI2", <<<<"tag", "JUNK">>, <<"int", 0>>>>) : v \in MCVersions}
           \cup {[raw |-> r, major |-> -1, minor |-> 0, marked |-> FALSE, tokens |-> <<>>, image |-> <<>>] :
                   r \in {"missing", "broken", "other", "AI2"}}
=============================================================================
