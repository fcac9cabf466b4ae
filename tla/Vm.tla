--------------------------------- MODULE Vm ---------------------------------
(***************************************************************************)
(* VirtualMachine::execute on the code Codegen emits: one action per       *)
(* opcode group, a stack of StackFrames, the error flag.  The functions of *)
(* a program are compiled into one module whose string constants were      *)
(* relocated; execute_function runs main with one argument.                *)
(***************************************************************************)
EXTENDS Codegen

CONSTANTS MaxRegisters,   \* MAX_REGISTERS (34 in the source)
          Programs,       \* the programs: functions, the argument of main
          StringsBase     \* where the string pool is loaded

VARIABLES prog,           \* the program
          image,          \* code and constants of each script function
          frames,         \* StackFrames, current_frame last
          vm              \* running, returned with a value, or an error

vars == <<prog, image, frames, vm>>

Natives(p) == {f \in DOMAIN p.fns : p.fns[f].native}

\* The functions in the order their module lays them out share one string
\* pool; only main of these programs has string constants.
Compile(p) ==
    [f \in DOMAIN p.fns \ Natives(p) |->
        LET fn == EmitBody(p.fns[f].params, p.fns[f].body, <<>>, Natives(p))
        IN [code |-> fn.code, pool |-> fn.pool, strings |-> fn.strings]]

\* StackFrame(lambda, parent): registers null, pc 0.
NewFrame(f, ret, args) ==
    [f |-> f, pc |-> 0, ret |-> ret, argc |-> Len(args),
     regs |-> [i \in 0 .. MaxRegisters - 1 |->
                 IF i - ArgRegisters + 1 \in DOMAIN args THEN args[i - ArgRegisters + 1]
                 ELSE Null]]

Running == [s |-> "running"]
Returned(v) == [s |-> "returned", v |-> v]
Failed(kind) == [s |-> "failed", kind |-> kind]

Init ==
    /\ prog \in Programs
    /\ image = Compile(prog)
    /\ frames = <<NewFrame("main", 0, <<Num(prog.arg)>>)>>
    /\ vm = Running

(***************************************************************************)
(* One instruction.                                                        *)
(***************************************************************************)
Top == Last(frames)
Code == image[Top.f].code
In == Code[Top.pc + 1]
R(i) == Top.regs[i]

\* get_next_instruction: pc is inside the code and every operand register
\* exists; execute stops once the error flag is set.
Fetch(ops) ==
    /\ vm = Running
    /\ Top.pc < Len(Code)
    /\ In.op \in ops

\* The instruction wrote v to the register r; pc moved on.
Wrote(r, v) == [frames EXCEPT ![Len(frames)].regs[r] = v, ![Len(frames)].pc = @ + 1]
Skipped == [frames EXCEPT ![Len(frames)].pc = @ + 1]
Jumped(t) == [frames EXCEPT ![Len(frames)].pc = t]

\* set_error leaves the frames for the host to inspect.
Error(kind) == vm' = Failed(kind) /\ frames' = Skipped /\ UNCHANGED <<prog, image>>

Continue == vm' = Running /\ UNCHANGED <<prog, image>>

\* Variant::to_int: a null register cannot be converted, a pointer is its
\* address.
IsPointer(v) == v.t \in {"str", "fn", "wild"}
IsNumber(v) == v.t = "int" \/ IsPointer(v)
ToInt(v) == IF v.t \in {"int", "wild"} THEN v.n ELSE StringsBase

ReturnOp ==
    /\ Fetch({"Return"})
    /\ LET v == R(In.a)
           n == Len(frames)
       IN IF n = 1
          THEN frames' = <<>> /\ vm' = Returned(v)
          ELSE /\ frames' = [SubSeq(frames, 1, n - 1) EXCEPT ![n - 1].regs[Top.ret] = v]
               /\ vm' = Running
    /\ UNCHANGED <<prog, image>>

MoveOp == Fetch({"Move"}) /\ frames' = Wrote(In.a, R(In.b)) /\ Continue

BranchOp ==
    /\ Fetch({"Branch", "BranchIfNot"})
    /\ frames' = IF In.op = "Branch" \/ ~Truthy(R(In.a)) THEN Jumped(In.b) ELSE Skipped
    /\ Continue

Source(op) == CHOOSE s \in DOMAIN Opcode : Opcode[s] = op

BinaryOps == {Opcode[s] : s \in {"+", "-", "*", "/", "%", "==", "!=", "<", "<=", ">", ">="}}

\* A division by zero is logged and leaves the destination as it was; a
\* pointer plus a number is a pointer.  Numbers are those that an i32 holds: the
\* divisor is cut to that width in the code.
BinaryOp ==
    /\ Fetch(BinaryOps)
    /\ LET a == R(In.b)
           b == R(In.c)
           op == Source(In.op)
       IN IF ~IsNumber(a) \/ ~IsNumber(b) THEN Error("TypeMismatch")
          ELSE /\ frames' = IF Divides(op) /\ ToInt(b) = 0 THEN Skipped
                            ELSE LET n == Apply2(op, ToInt(a), ToInt(b))
                                 IN Wrote(In.a, IF op = "+" /\ IsPointer(a) # IsPointer(b)
                                                THEN [t |-> "wild", n |-> n] ELSE Num(n))
               /\ Continue

UnaryOp ==
    /\ Fetch({"INeg", "IAbs", "OpLogNot", "OpBitNot"})
    /\ LET a == R(In.b)
       IN IF In.op # "OpLogNot" /\ ~IsNumber(a) THEN Error("TypeMismatch")
          ELSE /\ frames' = Wrote(In.a, Num(Apply1(Source(In.op),
                                       IF In.op = "OpLogNot" THEN a ELSE Num(ToInt(a)))))
               /\ Continue

\* A STRING slot was relocated to the address of its string, any other
\* slot holds the value as it was written.
Slot == image[Top.f].pool[In.b]

LoadStaticOp ==
    /\ Fetch({"LoadStaticI64Imm", "LoadStaticPointer"})
    /\ frames' = Wrote(In.a,
         IF In.op = "LoadStaticPointer"
         THEN IF Slot.kind = "STRING"
              THEN StrAt(image[Top.f].strings[(Slot.v \div 2) + 1])
              ELSE [t |-> "wild", n |-> Slot.v]
         ELSE Num(IF Slot.kind = "STRING" THEN StringsBase + Slot.v ELSE Slot.v))
    /\ Continue

\* LookupPointer: a native function first, then a symbol of Globals.
LookupPointerOp ==
    /\ Fetch({"LookupPointer"})
    /\ frames' = Wrote(In.a, [t |-> "fn", f |-> CHOOSE f \in DOMAIN prog.fns :
                                                   Sid[f] = Slot.v])
    /\ Continue

\* push_call_frame: the argument registers are copied into a new frame.  A
\* register with no function in it: an unknown SID, null, a wild pointer.
CallOp ==
    /\ Fetch({"Call"})
    /\ LET callee == R(In.b)
       IN IF callee.t # "fn"
          THEN Error(IF callee.t = "int" THEN "UndefinedFunction"
                     ELSE IF callee.t = "null" THEN "TypeMismatch" ELSE "Wild")
          ELSE /\ frames' = Append(Skipped,
                    NewFrame(callee.f, In.a, [i \in 1 .. In.c |-> R(ArgRegisters + i - 1)]))
               /\ Continue

\* The native reads its arguments in place; an exception it throws is
\* recorded as a TypeMismatch.  Without a native to call the stack is dropped.
CallFfOp ==
    /\ Fetch({"CallFf"})
    /\ LET a == R(ArgRegisters)
           b == R(ArgRegisters + 1)
       IN IF R(In.b).t # "fn"
          THEN frames' = <<>> /\ vm' = Failed("NoNative") /\ UNCHANGED <<prog, image>>
          ELSE IF ~IsNumber(a) \/ ~IsNumber(b) THEN Error("TypeMismatch")
          ELSE /\ frames' = Wrote(In.a, Num(Apply2(prog.fns[R(In.b).f].op, ToInt(a), ToInt(b))))
               /\ Continue

Next ==
    \/ ReturnOp \/ MoveOp \/ BranchOp \/ BinaryOp \/ UnaryOp
    \/ LoadStaticOp \/ LookupPointerOp \/ CallOp \/ CallFfOp

\* execute runs its loop on the caller's thread until it returns.
Spec == Init /\ [][Next]_vars /\ WF_vars(Next)

(***************************************************************************)
(* Properties.                                                             *)
(***************************************************************************)
\* The stack is a sequence of frames of script functions (a native never
\* gets one), every register of them holding a tagged value.
TypeOK ==
    /\ \A i \in DOMAIN frames :
          /\ frames[i].f \in DOMAIN image
          /\ frames[i].pc \in Nat
          /\ \A r \in 0 .. MaxRegisters - 1 :
                frames[i].regs[r].t \in {"null", "int", "str", "wild", "fn"}
    /\ vm.s \in {"running", "returned", "failed"}

Reference == Eval(prog.fns["main"].body, Bind(Unbound, <<prog.fns["main"].params[1]>>,
                                              <<Num(prog.arg)>>), prog.fns)

\* Compiled code computes what the program means: when main has ended, and
\* the language fixes its value, it returned that value and no error.  The
\* generator never frees a register and lets nodes share registers, labels
\* and constants, so this is about how emitted pieces fit together
\* (BinaryNode, IfNode, LetNode, CallNode::emit; VirtualMachine::execute).
ResultMatches ==
    LET ref == Reference
    IN vm # Running /\ ref.ok /\ ref.v # NoClaim => vm = Returned(ref.v)

\* The program counter of every frame stays inside its function's code:
\* get_code_size is the constant 1024, so the VM itself would run past the
\* end (StackFrame::get_next_instruction).
PcInCode == \A i \in DOMAIN frames : frames[i].pc < Len(image[frames[i].f].code)

\* The frames of the VM hold tagged values, and run inside their code.
FramesSound == TypeOK /\ PcInCode

\* Every program ends: the branches of ifs and loops are patched to where
\* control must go on (resolve_branches).
Terminates == <>(vm # Running)
=============================================================================
