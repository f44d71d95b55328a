------------------------------ MODULE Bytecode ------------------------------
(***************************************************************************)
(* The bytecode store (cbits/nn_bytecode.c) and the compiler that fills it *)
(* (Compile.hs): instructions and a buffer of operand words, both doubled  *)
(* by realloc, that only grow until the store is destroyed.                *)
(*                                                                         *)
(* Three shapes of expression stand for the nineteen: a variable carries   *)
(* its operands in the instruction, an application names its children's    *)
(* instructions (as if, with, assert and the operators do), and a list     *)
(* keeps them in the buffer (as strings, paths, sets and lets do), their   *)
(* number too where short_arg cannot hold it.  Each append is a step, and  *)
(* a refused one ends the compilation where it stands.                     *)
(***************************************************************************)
EXTENDS CMemory, Sequences

CONSTANTS Exprs,          \* the expressions compiled, parts included
          OpCapacity,     \* the capacities the store starts with
          DataCapacity,
          Spilled         \* 0xFFFF: the count is the payload's first word

ASSUME BytecodeSizes ==
  /\ OpCapacity \in Nat /\ OpCapacity >= 5
  /\ DataCapacity \in Nat \ {0}
  /\ Spilled \in Nat \ {0}

Var(level, idx) == [op |-> "var", level |-> level, idx |-> idx]
App(op, f, x) == [op |-> op, kids |-> <<f, x>>]
List(kids) == [op |-> "list", kids |-> kids]

\* Expressions are trees of the three shapes, and come with their parts.
ASSUME ExprsAreTrees ==
  \A expr \in Exprs :
    \/ expr.op = "var" /\ expr = Var(expr.level, expr.idx)
    \/ expr.op = "list" /\ expr.kids \in Seq(Exprs) /\ expr = List(expr.kids)
    \/ /\ expr.op \notin {"var", "list"} /\ expr.kids \in Exprs \X Exprs
       /\ expr = App(expr.op, expr.kids[1], expr.kids[2])

VARIABLES
  ops, opCount,       \* g_ops, as many as it has room for, and g_op_count
  data, dataCount,
  compiling,          \* the compilation in progress, or None
  code                \* the expressions compiled, and the indices answered

bytecodeVars == <<ops, opCount, data, dataCount, compiling, code>>

-----------------------------------------------------------------------------
Instruction(op, short, arg1, arg2) ==
  [op |-> op, short_arg |-> short, arg1 |-> arg1, arg2 |-> arg2]

nn_bytecode_live == SizeOf(ops) > 0

\* The code of every deferred application of one and of two arguments.
g_reserved_ops == <<Instruction("var", 0, 0, 0), Instruction("var", 0, 0, 1),
                    Instruction("deferred", 0, 0, 1), Instruction("var", 0, 0, 2),
                    Instruction("deferred", 0, 2, 3)>>
Apply1 == App("deferred", Var(0, 0), Var(0, 1))
Apply2 == App("deferred", Apply1, Var(0, 2))

-----------------------------------------------------------------------------
(* Lifecycle.                                                               *)

NoBytecode == /\ ops = << >> /\ opCount = 0 /\ data = << >> /\ dataCount = 0
              /\ compiling = None /\ code = {}

nn_bytecode_init ==
  /\ ops' = [i \in 0 .. OpCapacity - 1 |->
               IF i < Len(g_reserved_ops) THEN g_reserved_ops[i + 1] ELSE Junk]
  /\ opCount' = Len(g_reserved_ops)
  /\ data' = NewBlock(DataCapacity, Junk) /\ dataCount' = 0
  /\ compiling' = None
  /\ code' = {[idx |-> 2, expr |-> Apply1], [idx |-> 4, expr |-> Apply2]}

nn_bytecode_destroy ==
  /\ ops' = << >> /\ opCount' = 0 /\ data' = << >> /\ dataCount' = 0
  /\ compiling' = None /\ code' = {}

-----------------------------------------------------------------------------
(* Appending.                                                               *)

Full(block, count) == count >= SizeOf(block)

\* Mutant: a doubling that wraps is taken.
ensure_space_Wraps(block, count) ==
  IF Full(block, count) THEN {Resized(block, Wrapped(2 * SizeOf(block)))} ELSE {block}

\* Doubling that would wrap is refused, and any doubling may be.
ensure_space(block, count) ==
  LET doubled == Wrapped(2 * SizeOf(block))
  IN  IF ~ Full(block, count) THEN {block}
      ELSE IF doubled < SizeOf(block) THEN {} ELSE {Resized(block, doubled)}

\* A write past the block is lost on others.
WithAt(block, i, content) ==
  [w \in DOMAIN block |-> IF w = i THEN content ELSE block[w]]

nn_bc_emit(instruction) ==
  /\ nn_bytecode_live
  /\ \E room \in ensure_space(ops, opCount) : ops' = WithAt(room, opCount, instruction)
  /\ opCount' = opCount + 1
  /\ UNCHANGED <<data, dataCount>>

nn_bc_emit_data(word) ==
  /\ nn_bytecode_live
  /\ \E room \in ensure_space(data, dataCount) : data' = WithAt(room, dataCount, word)
  /\ dataCount' = dataCount + 1
  /\ UNCHANGED <<ops, opCount>>

-----------------------------------------------------------------------------
(* Compiling: the tasks left, and the indices of the children compiled.     *)

Go(expr) == [do |-> "go", expr |-> expr]
Emit(expr, off) == [do |-> "emit", expr |-> expr, off |-> off]
EmitWords(expr, words, off) ==
  [do |-> "words", expr |-> expr, words |-> words, off |-> off]

Task == Head(compiling.todo)
LastDone(n) == SubSeq(compiling.done, Len(compiling.done) - n + 1, Len(compiling.done))

compileExpr(expr) ==
  /\ compiling = None /\ nn_bytecode_live
  /\ compiling' = [expr |-> expr, todo |-> <<Go(expr)>>, done |-> << >>]
  /\ UNCHANGED <<ops, opCount, data, dataCount, code>>

\* Children first, in order.
Descend ==
  /\ compiling # None /\ compiling.todo # << >> /\ Task.do = "go"
  /\ LET expr == Task.expr
         kids == IF expr.op = "var" THEN << >> ELSE expr.kids
         last == IF expr.op = "list" THEN EmitWords(expr, << >>, None) ELSE Emit(expr, None)
     IN  compiling' = [compiling EXCEPT
           !.todo = [i \in 1 .. Len(kids) |-> Go(kids[i])] \o <<last>> \o Tail(@)]
  /\ UNCHANGED <<ops, opCount, data, dataCount, code>>

\* emitCounted: the payload is the children's indices, after their number
\* where that does not fit; its offset is that of its first word, or 0.
Payload(n) == IF n < Spilled THEN LastDone(n) ELSE <<n>> \o LastDone(n)

AppendWord ==
  /\ compiling # None /\ compiling.todo # << >> /\ Task.do = "words"
  /\ LET payload == Payload(Len(Task.expr.kids))
         sent == Len(Task.words)
         off == IF sent = 0 THEN dataCount ELSE Task.off
     IN  \/ /\ sent < Len(payload)
            /\ nn_bc_emit_data(payload[sent + 1])
            /\ compiling' = [compiling EXCEPT
                 !.todo[1] = EmitWords(Task.expr, SubSeq(payload, 1, sent + 1), off)]
         \/ /\ sent = Len(payload)
            /\ compiling' = [compiling EXCEPT
                 !.todo[1] = Emit(Task.expr, IF sent = 0 THEN 0 ELSE Task.off)]
            /\ UNCHANGED <<ops, opCount, data, dataCount>>
  /\ UNCHANGED code

\* The instruction of an expression whose children are done.
Encoded(expr, off) ==
  CASE expr.op = "var" -> Instruction("var", 0, expr.level, expr.idx)
    [] expr.op = "list" -> LET n == Len(expr.kids)
                           IN  Instruction("list", IF n < Spilled THEN n ELSE Spilled, off, 0)
    [] OTHER -> Instruction(expr.op, 0, LastDone(2)[1], LastDone(2)[2])

AppendOp ==
  /\ compiling # None /\ compiling.todo # << >> /\ Task.do = "emit"
  /\ nn_bc_emit(Encoded(Task.expr, Task.off))
  /\ LET n == IF Task.expr.op = "var" THEN 0 ELSE Len(Task.expr.kids)
     IN  compiling' = [compiling EXCEPT
           !.todo = Tail(@),
           !.done = Append(SubSeq(@, 1, Len(@) - n), opCount)]
  /\ UNCHANGED code

Compiled ==
  /\ compiling # None /\ compiling.todo = << >>
  /\ code' = code \cup {[idx |-> compiling.done[1], expr |-> compiling.expr]}
  /\ compiling' = None
  /\ UNCHANGED <<ops, opCount, data, dataCount>>

\* An append that needs a larger block is refused: checkedEmit throws, and
\* what was appended stays.
CompileRefused ==
  /\ compiling # None /\ compiling.todo # << >>
  /\ \/ Task.do = "emit" /\ Full(ops, opCount)
     \/ /\ Task.do = "words" /\ Full(data, dataCount)
        /\ Len(Task.words) < Len(Payload(Len(Task.expr.kids)))
  /\ compiling' = None
  /\ UNCHANGED <<ops, opCount, data, dataCount, code>>

BytecodeNext ==
  \/ \E expr \in Exprs : compileExpr(expr)
  \/ Descend \/ AppendWord \/ AppendOp \/ Compiled \/ CompileRefused

-----------------------------------------------------------------------------
(* Properties.                                                              *)

\* cbcCountedPayload, and the words it leads to.
CountedPayload(instruction) ==
  LET spilled == instruction.short_arg = Spilled
      start == IF spilled THEN instruction.arg1 + 1 ELSE instruction.arg1
      n == IF spilled THEN data[instruction.arg1] ELSE instruction.short_arg
  IN  [k \in 1 .. n |-> data[start + k - 1]]

\* What evaluation takes the code at an index for.  Children lie before it.
Decoded ==
  LET code_at[i \in 0 .. opCount - 1] ==
        LET o == ops[i]
            Child(j) == IF j \in 0 .. i - 1 THEN code_at[j] ELSE Junk
        IN  CASE o.op = "var" -> Var(o.arg1, o.arg2)
              [] o.op = "list" -> LET kids == CountedPayload(o)
                                  IN  List([k \in DOMAIN kids |-> Child(kids[k])])
              [] OTHER -> App(o.op, Child(o.arg1), Child(o.arg2))
  IN  code_at

\* Every index a compilation answered decodes to its expression for as long
\* as the store lives, the reserved applications included, whatever was
\* appended, grown, or abandoned half way since.
CodeDecodes ==
  nn_bytecode_live =>
    /\ opCount <= SizeOf(ops) /\ dataCount <= SizeOf(data)
    /\ \A c \in code : Decoded[c.idx] = c.expr

=============================================================================
