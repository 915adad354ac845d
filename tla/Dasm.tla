-------------------------------- MODULE Dasm --------------------------------
(***************************************************************************)
(* The disassembly cursor of src/src/dasm.c.  It walks the code of an      *)
(* image instruction by instruction, and keeps the function it is in by    *)
(* the FUNC and ENDFUNC instructions it passes.  How many arguments an     *)
(* instruction has is in one table for the whole program, which opening an *)
(* image of version 11 or later changes for good (src/src/ain.c).          *)
(***************************************************************************)
EXTENDS Integers, Sequences

CONSTANTS Programs,     \* [version, code]: the opcode and the argument of each instruction
          StackSize,    \* DASM_FUNC_STACK_SIZE
          Garbage,      \* the argument of what is no instruction
          NULL

VARIABLES modern,       \* was an image of version 11 or later opened?
          ain,          \* the image of the cursor, or NULL
          addr,         \* the byte the cursor is at
          instr,        \* the instruction there
          func,         \* dasm->func
          func_stack,   \* dasm->func_stack
          entered,      \* the functions entered and not left since the walk began
          depth,        \* the most of them at any time
          walked        \* did the walk begin at the start of the code, in a new cursor?

vars == <<modern, ain, addr, instr, func, func_stack, entered, depth, walked>>

Opcodes == {"PUSH", "POP", "FUNC", "ENDFUNC", "CALLHLL", "NEW"}

\* nr_args in the table; the compiler of an image uses that of its own version.
NrArgs(op, new) == CASE op = "POP"     -> 0
                     [] op = "CALLHLL" -> IF new THEN 3 ELSE 2
                     [] op = "NEW"     -> IF new THEN 2 ELSE 0
                     [] OTHER          -> 1

Width(op, new) == 2 + 4 * NrArgs(op, new)

\* Where the compiler put the instructions of each image, and the end.
Layout ==
  [a \in Programs |->
     LET at[k \in 1 .. Len(a.code) + 1] ==
           IF k = 1 THEN 0 ELSE at[k - 1] + Width(a.code[k - 1].op, a.version >= 11)
     IN  at]

CodeSize(a) == Layout[a][Len(a.code) + 1]
Places(a)   == {Layout[a][k] : k \in DOMAIN a.code}

\* instructions[0], for the end of the code and for what is no opcode.
First == [op |-> "PUSH", arg |-> 0]

\* What can be at a byte of the code: inside an instruction, anything.
At(a, p) ==
  IF p >= CodeSize(a) THEN {First}
  ELSE IF p \in Places(a) THEN {a.code[CHOOSE k \in DOMAIN a.code : Layout[a][k] = p]}
  ELSE [op : Opcodes, arg : {Garbage}]
-----------------------------------------------------------------------------
EnterFunction(f) ==
  /\ func_stack' = <<func>> \o SubSeq(func_stack, 1, StackSize - 1)
  /\ func' = f

LeaveFunction_KeepsStack ==
  /\ func' = func_stack[1]
  /\ UNCHANGED func_stack

\* The last entry stays where it is.
LeaveFunction ==
  /\ func' = func_stack[1]
  /\ func_stack' = Tail(func_stack) \o <<func_stack[StackSize]>>

\* What a cursor that went straight from the start of the walk has entered.
Entered(before, i) == CASE i.op = "FUNC"                          -> Append(before, i.arg)
                        [] i.op = "ENDFUNC" /\ before # <<>>      -> SubSeq(before, 1, Len(before) - 1)
                        [] OTHER                                  -> before

\* dasm_update at address p, after a move that leaves the functions in `before`.
Update(a, p, before, most) ==
  \E i \in At(a, p) :
    /\ addr' = p /\ instr' = i
    /\ CASE i.op = "FUNC"    -> EnterFunction(i.arg)
         [] i.op = "ENDFUNC" -> LeaveFunction
         [] OTHER            -> UNCHANGED <<func, func_stack>>
    /\ entered' = Entered(before, i)
    /\ depth' = IF Len(entered') > most THEN Len(entered') ELSE most

Init == /\ modern = FALSE
        /\ ain = NULL /\ addr = 0 /\ instr = First
        /\ func = 0 /\ func_stack = [i \in 1 .. StackSize |-> 0]
        /\ entered = <<>> /\ depth = 0 /\ walked = FALSE

\* ain_open of any image: read_tag changes the table, and nothing changes it back.
OpenImage ==
  /\ \E a \in Programs : modern' = (modern \/ a.version >= 11)
  /\ UNCHANGED <<ain, addr, instr, func, func_stack, entered, depth, walked>>

\* dasm_open: the cursor is zeroed, then jumps to the start.
DasmOpen ==
  /\ ain = NULL
  /\ \E a \in Programs : /\ a.version >= 11 => modern
                         /\ ain' = a /\ Update(a, 0, <<>>, 0)
  /\ walked' = TRUE
  /\ UNCHANGED modern

\* dasm_init on a cursor in use: it jumps, and keeps the functions it had.
DasmInit ==
  /\ ain # NULL
  /\ \E a \in Programs : /\ a.version >= 11 => modern
                         /\ ain' = a /\ Update(a, 0, <<>>, 0)
  /\ walked' = FALSE
  /\ UNCHANGED modern

\* dasm_jump to an instruction.
DasmJump ==
  /\ ain # NULL
  /\ \E p \in Places(ain) : Update(ain, p, <<>>, 0)
  /\ walked' = FALSE
  /\ UNCHANGED <<modern, ain>>

DasmNext_OldWidth ==
  /\ ain # NULL /\ addr \in Places(ain)
  /\ Update(ain, addr + Width(instr.op, FALSE), entered, depth)
  /\ UNCHANGED <<modern, ain, walked>>

\* dasm_next; callers stop at the end of the code, and the model where the
\* cursor is inside an instruction.
DasmNext ==
  /\ ain # NULL /\ addr \in Places(ain)
  /\ Update(ain, addr + Width(instr.op, modern), entered, depth)
  /\ UNCHANGED <<modern, ain, walked>>

DasmClose ==
  /\ ain # NULL
  /\ ain' = NULL /\ addr' = 0 /\ instr' = First
  /\ func' = 0 /\ func_stack' = [i \in 1 .. StackSize |-> 0]
  /\ entered' = <<>> /\ depth' = 0 /\ walked' = FALSE
  /\ UNCHANGED modern

Next == OpenImage \/ DasmOpen \/ DasmInit \/ DasmJump \/ DasmNext \/ DasmClose

Spec == Init /\ [][Next]_vars
-----------------------------------------------------------------------------
(* The cursor is at an instruction of its image or at the end, never       *)
(* between two, whatever was opened before, unless the table is for newer  *)
(* images than its own (ain.c:1131).                                       *)
CursorOnInstruction ==
  ain # NULL /\ (modern => ain.version >= 11) =>
    addr \in Places(ain) \cup {CodeSize(ain)}

(* dasm_function is the innermost function entered and not left, also      *)
(* after functions in functions have ended, while no more of them have     *)
(* been left out than the stack holds; and 0, which is also the first      *)
(* function, where a new cursor has left them all.                         *)
FunctionIsInnermost ==
  ain # NULL /\ (modern => ain.version >= 11) /\ depth - Len(entered) <= StackSize =>
    /\ entered # <<>> => func = entered[Len(entered)]
    /\ walked /\ entered = <<>> => func = 0
=============================================================================
