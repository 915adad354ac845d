---------------------------- MODULE ExTableLayout ----------------------------
(***************************************************************************)
(* Reading the sizes of EX tables (ex_read_table of src/src/ex.c).  Files  *)
(* from before and since Evenicle give the two sizes in different orders.  *)
(* The reader finds out which from the number of fields, and keeps what it *)
(* found in a static variable, for all the files the process reads.        *)
(***************************************************************************)
EXTENDS Integers, TLAPS

CONSTANTS Sizes    \* the numbers of rows and of fields of tables

ASSUME SizesAssumption == Sizes \subseteq Nat

Orders == {"columns_first", "rows_first"}   \* of a file

VARIABLES table_layout,   \* "default" or "rows_first"; nothing sets a third value
          table,          \* the table last read: its columns and rows, or "none"
          truth,          \* the same table as it was written
          failed,         \* the program has ended with an ERROR
          seen            \* ghost: orders of the files with tables that are not square

vars == <<table_layout, table, truth, failed, seen>>

Init == /\ table_layout = "default"
        /\ table = "none" /\ truth = "none"
        /\ failed = FALSE
        /\ seen = {}

Shape(columns, rows) == [columns |-> columns, rows |-> rows]

\* The first and the second number of a file's table.
Written(order, t) == IF order = "rows_first" THEN <<t.rows, t.columns>> ELSE <<t.columns, t.rows>>

Taken(w) == IF table_layout = "rows_first" THEN Shape(w[2], w[1]) ELSE Shape(w[1], w[2])

Accept(t, layout) == table' = t /\ table_layout' = layout /\ UNCHANGED failed

Fail == failed' = TRUE /\ UNCHANGED <<table, table_layout>>

\* A table of as many columns as it has fields, in a file of either order.
ReadTable_SwapsAnyway(order, t) ==
  LET r == Taken(Written(order, t)) IN
  /\ ~failed
  /\ truth' = t
  /\ seen' = IF t.rows = t.columns THEN seen ELSE seen \cup {order}
  /\ IF r.columns = t.columns THEN Accept(r, table_layout)
     ELSE IF table_layout = "default" THEN Accept(Shape(r.rows, r.columns), "rows_first")
     ELSE Accept(r, table_layout)

ReadTable_SwitchesOnSquare(order, t) ==
  LET r == Taken(Written(order, t)) IN
  /\ ~failed
  /\ truth' = t
  /\ seen' = IF t.rows = t.columns THEN seen ELSE seen \cup {order}
  /\ IF table_layout = "default" /\ r.rows = t.columns
     THEN Accept(Shape(r.rows, r.columns), "rows_first")
     ELSE IF r.columns = t.columns THEN Accept(r, table_layout)
     ELSE Fail

ReadTable(order, t) ==
  LET r == Taken(Written(order, t)) IN
  /\ ~failed
  /\ truth' = t
  /\ seen' = IF t.rows = t.columns THEN seen ELSE seen \cup {order}
  /\ IF r.columns = t.columns THEN Accept(r, table_layout)
     ELSE IF table_layout = "default" /\ r.rows = t.columns
     THEN Accept(Shape(r.rows, r.columns), "rows_first")
     ELSE Fail

Next == \E order \in Orders, t \in [columns : Sizes, rows : Sizes] : ReadTable(order, t)

Spec == Init /\ [][Next]_vars
-----------------------------------------------------------------------------
(* Whatever files were read before, a table is never taken with its rows   *)
(* for columns: it is read as it was written, or the program ends.         *)
NeverMisread == ~failed => table = truth

(* The program ends over a well-formed table only after it has read files  *)
(* of both orders: no set of files of one game can make it.                *)
FailsOnlyOnMixedFiles == failed => seen = Orders
-----------------------------------------------------------------------------
(* Proofs, for tables of every size.                                       *)
Tables == [columns : Sizes, rows : Sizes]

TypeOK == /\ table_layout \in {"default", "rows_first"}
          /\ failed \in BOOLEAN
          /\ seen \subseteq Orders

(* What the layout stands for: it was found by a file of that order.       *)
LayoutWasSeen == table_layout = "rows_first" => "rows_first" \in seen

IInv == TypeOK /\ LayoutWasSeen /\ NeverMisread /\ FailsOnlyOnMixedFiles

(* A table of the order that is expected is taken as it is, and of the     *)
(* other order with its sizes exchanged (ex_read_table).                   *)
LEMMA TakenIsTableOrItsTranspose ==
  ASSUME NEW t \in Tables, NEW order \in Orders, TypeOK
  PROVE  Taken(Written(order, t)) =
           IF (table_layout = "rows_first") <=> (order = "rows_first")
           THEN t ELSE Shape(t.rows, t.columns)
<1>1. t = [columns |-> t.columns, rows |-> t.rows]
  BY DEF Tables
<1>2. CASE order = "rows_first"
  <2>1. Written(order, t) = <<t.rows, t.columns>>
    BY <1>2 DEF Written
  <2> QED BY <1>1, <1>2, <2>1 DEF Taken, Shape, TypeOK
<1>3. CASE order = "columns_first"
  <2>1. Written(order, t) = <<t.columns, t.rows>>
    BY <1>3 DEF Written
  <2> QED BY <1>1, <1>3, <2>1 DEF Taken, Shape, TypeOK
<1> QED BY <1>2, <1>3 DEF Orders

LEMMA InitIsInv == Init => IInv
BY DEF Init, IInv, TypeOK, LayoutWasSeen, NeverMisread, FailsOnlyOnMixedFiles, Orders

(* A step of the reader preserves the invariant: by whether the file's     *)
(* order is the expected one, and whether the table is square.             *)
LEMMA StepKeepsInv == IInv /\ [Next]_vars => IInv'
<1> SUFFICES ASSUME IInv, [Next]_vars PROVE IInv'
  OBVIOUS
<1>1. CASE UNCHANGED vars
  BY <1>1 DEF vars, IInv, TypeOK, LayoutWasSeen, NeverMisread, FailsOnlyOnMixedFiles
<1>2. CASE Next
  <2>1. PICK order \in Orders, t \in Tables : ReadTable(order, t)
    BY <1>2 DEF Next, Tables
  <2> DEFINE r == Taken(Written(order, t))
             expected == (table_layout = "rows_first") <=> (order = "rows_first")
  <2>2. /\ ~failed
        /\ truth' = t
        /\ seen' = IF t.rows = t.columns THEN seen ELSE seen \cup {order}
    BY <2>1 DEF ReadTable
  <2>3. r = IF expected THEN t ELSE Shape(t.rows, t.columns)
    BY TakenIsTableOrItsTranspose DEF IInv
  <2>4. CASE expected \/ t.rows = t.columns
    <3>1. r = t /\ r.columns = t.columns
      <4>1. t = [columns |-> t.columns, rows |-> t.rows]
        BY DEF Tables
      <4> QED BY <2>3, <2>4, <4>1 DEF Shape
    <3>2. table' = t /\ table_layout' = table_layout /\ failed' = failed
      BY <2>1, <3>1 DEF ReadTable, Accept
    <3> QED
      BY <2>2, <3>2 DEF IInv, TypeOK, LayoutWasSeen, NeverMisread, FailsOnlyOnMixedFiles
  <2>5. CASE ~expected /\ t.rows # t.columns
    <3>1. r = Shape(t.rows, t.columns) /\ r.columns # t.columns /\ r.rows = t.columns
      BY <2>3, <2>5 DEF Shape
    <3>2. seen' = seen \cup {order}
      BY <2>2, <2>5
    <3>3. CASE table_layout = "default"
      <4>1. order = "rows_first"
        BY <2>5, <3>3 DEF Orders
      <4>2. Shape(r.rows, r.columns) = t
        <5>1. t = [columns |-> t.columns, rows |-> t.rows]
          BY DEF Tables
        <5> QED BY <3>1, <5>1 DEF Shape
      <4>3. table' = t /\ table_layout' = "rows_first" /\ failed' = failed
        BY <2>1, <3>1, <3>3, <4>2 DEF ReadTable, Accept
      <4> QED
        BY <2>2, <3>2, <4>1, <4>3
        DEF IInv, TypeOK, LayoutWasSeen, NeverMisread, FailsOnlyOnMixedFiles, Orders
    <3>4. CASE table_layout = "rows_first"
      <4>1. order = "columns_first"
        BY <2>5, <3>4 DEF Orders
      <4>2. failed' = TRUE /\ table_layout' = table_layout
        BY <2>1, <3>1, <3>4 DEF ReadTable, Fail
      <4> QED
        BY <3>2, <3>4, <4>1, <4>2
        DEF IInv, TypeOK, LayoutWasSeen, NeverMisread, FailsOnlyOnMixedFiles, Orders
    <3> QED BY <3>3, <3>4 DEF IInv, TypeOK
  <2> QED BY <2>4, <2>5
<1> QED BY <1>1, <1>2

LEMMA AlwaysInv == Spec => []IInv
BY InitIsInv, StepKeepsInv, PTL DEF Spec

(* In any order of files of any sizes, a table that is read has the rows   *)
(* and the columns it was written with (ex_read_table).                    *)
THEOREM TablesAreNeverMisread == Spec => []NeverMisread
<1>1. IInv => NeverMisread
  BY DEF IInv
<1> QED BY AlwaysInv, <1>1, PTL

(* The reader ends the program over a well-formed table only if it has     *)
(* read files of both orders (ex_read_table).                              *)
THEOREM OneOrderNeverFails == Spec => []FailsOnlyOnMixedFiles
<1>1. IInv => FailsOnlyOnMixedFiles
  BY DEF IInv
<1> QED BY AlwaysInv, <1>1, PTL
=============================================================================
