-------------------------- MODULE ContractExecution --------------------------
(***************************************************************************)
(* Method contracts against the VM.  Once the contracts are inferred the   *)
(* methods are lowered with them (method_body.rs) and the script runs: a   *)
(* call stack of frames, static slots, and a heap of arrays and structs    *)
(* that variables, slots and other collections refer to.                   *)
(***************************************************************************)
EXTENDS MethodContracts

VARIABLES
  points,     \* method -> block -> the builder's facts before each instruction
  frames,     \* the call stack, the running method last
  heap,       \* the collections made so far: [kind, items]
  globals,    \* static slot -> value
  strayed     \* a collection was changed through an alias the builder cannot see

runVars == <<points, frames, heap, globals, strayed>>
vars == <<inferenceVars, runVars>>

(* Values.                                                                 *)
IntValue(n) == <<"int", n>>
Null == <<"null", 0>>
Ref(k) == <<"ref", k>>
IsRef(v) == v[1] = "ref"
Object(v) == heap[v[2]]

StaticSlots == UNION {{StaticIndex(InstructionAt(program, at)) : at \in Sites(program, m)} :
                        m \in Methods} \ {-1}

-----------------------------------------------------------------------------
(* Lowering: every method built with the final contracts.  The C# planner  *)
(* also makes a jump to another method a tail call, with the value of the  *)
(* method that jumps.                                                      *)
ReturnValueOption(c) ==
  CASE c.behavior = "Value" -> "yes" [] c.behavior = "Void" -> "no" [] c.behavior = "Unknown" -> "unknown"
TailCalls(m) ==
  {at \in Sites(program, m) : /\ InstructionAt(program, at).op = "jmp"
                              /\ contracts[InstructionAt(program, at).n].returns}
TailContract(m, target) ==
  [InternalContract(contracts[target]) EXCEPT !.value = contracts[m].behavior # "Void"]
AttachedCalls(m) ==
  [at \in TailCalls(m) |-> TailContract(m, InstructionAt(program, at).n)] @@ Calls(contracts)
FinalContext(m) ==
  Context(contracts[m], AttachedCalls(m), ReturnValueOption(contracts[m]),
          contracts[m].arguments, statics)
HeldBy(root, s) == IF root = NoVar THEN {} ELSE s.defs[root].statics
Point(s) ==
  [ok |-> s.ok, stack |-> [k \in DOMAIN s.stack |-> FactsOf(s.stack[k], s)],
   held |-> [k \in DOMAIN s.stack |-> HeldBy(CollectionFactRoot(s.stack[k], s.defs), s)],
   roots |-> [k \in DOMAIN s.stack |-> CollectionFactRoot(s.stack[k], s.defs)[1]]]
Points(built) == [b \in DOMAIN built |-> [k \in DOMAIN built[b] |-> Point(built[b][k])]]
Lowered(m) ==
  Points(Build(m, CutMethod(m, AttachedCalls(m)), FinalContext(m)))

Owner(m, args) ==
  [m |-> m, args |-> args,
   items |-> [k \in DOMAIN args |-> IF IsRef(args[k]) THEN Object(args[k]).items ELSE <<>>]]
FrameAt(m, args, owners) ==
  [m |-> m, b |-> 1, k |-> 1, stack |-> <<>>, owners |-> owners,
   slots |-> [x \in {<<"arg", j - 1>> : j \in DOMAIN args} |-> args[x[2] + 1]]
             @@ [x \in {<<"loc", j - 1>> : j \in 1 .. program[m].locals} |-> Null]]

ExecInit == Init /\ points = <<>> /\ frames = <<>> /\ heap = <<>> /\ globals = <<>>
            /\ strayed = FALSE

Start ==
  /\ stage = "inferred" /\ stage' = "running"
  /\ points' = [m \in Methods |-> Lowered(m)]
  /\ \E m \in {x \in Methods : program[x].abi /\ program[x].args = 0} :
       frames' = <<FrameAt(m, <<>>, <<Owner(m, <<>>)>>)>>
  /\ globals' = [i \in StaticSlots |-> Null]
  /\ UNCHANGED <<program, round, contracts, seeds, statics, heap, strayed>>

-----------------------------------------------------------------------------
Frame == Last(frames)
Code == program[Frame.m].code[Frame.b].code
Instruction == Code[Frame.k]
AtEnd == Frame.k > Len(Code)
Value(k) == Top(Frame.stack, k)

(* The running frame after an instruction that leaves this stack.          *)
Goto(stack, slots) ==
  frames' = Append(Front(frames), [Frame EXCEPT !.k = @ + 1, !.stack = stack, !.slots = slots])
Leave(k, values) == Goto(Popped(Frame.stack, k) \o values, Frame.slots)

(* A struct is copied when it is stored in a collection.                   *)
CopyOf(v, h) == IF IsRef(v) /\ h[v[2]].kind = "struct" THEN Append(h, h[v[2]]) ELSE h
Stored(v, h) == IF IsRef(v) /\ h[v[2]].kind = "struct" THEN Ref(Len(h) + 1) ELSE v

Doing(ops) == stage = "running" /\ ~AtEnd /\ Instruction.op \in ops
Quiet == UNCHANGED <<inferenceVars, points>>
Pure == Quiet /\ UNCHANGED strayed

(* The aliases the builder cannot see: a collection inside a collection,   *)
(* one in a static slot that the receiver is not known to be in, and an    *)
(* argument that the receiver is not known to be.                          *)
Elements == UNION {Range(heap[k].items) : k \in DOMAIN heap}
Stray(v, depth, resizes) ==
  LET known == points[Frame.m][Frame.b][Frame.k]
      at == Len(known.stack) - depth + 1
      statically == {i \in DOMAIN globals : globals[i] = v}
  IN \/ resizes /\ v \in Elements
     \/ IF at \notin DOMAIN known.stack THEN statically \ LoadedStatics(Frame.m) # {}
        ELSE \/ statically \ known.held[at] # {}
             \/ /\ v \in Range(Last(Frame.owners).args)
                /\ known.roots[at] \notin {"arg", "none"}

PushValue ==
  /\ Doing({"literal", "null", "pusha", "dup", "drop", "convert"})
  /\ CASE Instruction.op \in {"literal", "pusha"} -> Leave(0, <<IntValue(Instruction.n)>>)
       [] Instruction.op = "null" -> Leave(0, <<Null>>)
       [] Instruction.op = "dup" -> Leave(0, <<Value(1)>>)
       [] Instruction.op = "drop" -> Leave(1, <<>>)
       [] Instruction.op = "convert" -> Leave(0, <<>>)
  /\ Pure /\ UNCHANGED <<heap, globals>>

LoadSlot ==
  /\ Doing({"load"})
  /\ Leave(0, <<IF Instruction.slot[1] = "static" THEN globals[Instruction.slot[2]]
                ELSE Frame.slots[Instruction.slot]>>)
  /\ Pure /\ UNCHANGED <<heap, globals>>

StoreValue ==
  /\ Doing({"store"})
  /\ IF Instruction.slot[1] = "static"
     THEN Leave(1, <<>>) /\ globals' = [globals EXCEPT ![Instruction.slot[2]] = Value(1)]
     ELSE /\ Goto(Popped(Frame.stack, 1), [Frame.slots EXCEPT ![Instruction.slot] = Value(1)])
          /\ UNCHANGED globals
  /\ Pure /\ UNCHANGED heap

MakeCollection ==
  /\ Doing({"pack"})
  /\ LET count == Value(1)[2]
     IN /\ heap' = Append(heap, [kind |-> Instruction.kind,
                                 items |-> [k \in 1 .. count |-> Value(k + 1)]])
        /\ Leave(count + 1, <<Ref(Len(heap) + 1)>>)
  /\ Pure /\ UNCHANGED globals

(* An instruction that needs a collection faults without one.              *)
ReceiverDepth ==
  CASE Instruction.op \in {"unpack", "clone", "reverseitems", "popitem"} -> 1
    [] Instruction.op \in {"pickitem", "append"} -> 2
    [] Instruction.op = "setitem" -> 3
Receiver == Value(ReceiverDepth)
Items == Object(Receiver).items
Selector == IF Instruction.op = "setitem" THEN Value(2) ELSE Value(1)
Index == Selector[2] + 1
Works ==
  /\ IsRef(Receiver)
  /\ Instruction.op = "popitem" => Items # <<>>
  /\ Instruction.op \in {"pickitem", "setitem"} =>
       Selector[1] = "int" /\ Index \in DOMAIN Items
OnCollection(ops) == Doing(ops) /\ Works

Fault ==
  /\ Doing({"unpack", "clone", "reverseitems", "popitem", "pickitem", "append", "setitem"})
  /\ ~Works
  /\ stage' = "halted"
  /\ UNCHANGED <<program, round, contracts, seeds, statics, runVars>>

ReadCollection ==
  /\ OnCollection({"unpack", "pickitem", "clone"})
  /\ CASE Instruction.op = "unpack" ->
            /\ Leave(1, Append(Reverse(Items), IntValue(Len(Items))))
            /\ UNCHANGED heap
       [] Instruction.op = "pickitem" -> Leave(2, <<Items[Index]>>) /\ UNCHANGED heap
       [] Instruction.op = "clone" ->
            /\ heap' = Append(heap, [kind |-> "struct", items |-> Items])
            /\ Leave(1, <<Ref(Len(heap) + 1)>>)
  /\ Pure /\ UNCHANGED globals

Mutate(h, items) == heap' = [h EXCEPT ![Receiver[2]].items = items]
WriteCollection ==
  /\ OnCollection({"setitem", "reverseitems", "append", "popitem"})
  /\ CASE Instruction.op = "setitem" ->
            /\ Mutate(CopyOf(Value(1), heap), [Items EXCEPT ![Index] = Stored(Value(1), heap)])
            /\ Leave(3, <<>>)
       [] Instruction.op = "reverseitems" -> Mutate(heap, Reverse(Items)) /\ Leave(1, <<>>)
       [] Instruction.op = "append" ->
            /\ Mutate(CopyOf(Value(1), heap), Append(Items, Stored(Value(1), heap)))
            /\ Leave(2, <<>>)
       [] Instruction.op = "popitem" -> Mutate(heap, Front(Items)) /\ Leave(1, <<Last(Items)>>)
  /\ strayed' = (strayed \/ Stray(Receiver, ReceiverDepth, Instruction.op \in Resizing))
  /\ Quiet /\ UNCHANGED globals

(* A call of a method: INITSLOT takes the arguments off the stack.         *)
Enter(m, pointers) ==
  LET args == [k \in 1 .. program[m].args |-> Value(k + pointers)]
      rest == Popped(Frame.stack, Len(args) + pointers)
  IN frames' = Append(Append(Front(frames), [Frame EXCEPT !.k = @ + 1, !.stack = rest]),
                      FrameAt(m, args, <<Owner(m, args)>>))
CallMethod ==
  /\ Doing({"call", "calla", "opaque"})
  /\ Len(frames) < 4      \* depth of the call stack
  /\ Enter(Instruction.n, IF Instruction.op = "call" THEN 0 ELSE 1)
  /\ Pure /\ UNCHANGED <<heap, globals>>

JumpToMethod ==
  /\ Doing({"jmp"})
  /\ LET m == Instruction.n
         args == [k \in 1 .. program[m].args |-> Value(k)]
     IN frames' = Append(Front(frames),
                         FrameAt(m, args, Append(Frame.owners, Owner(m, args))))
  /\ Pure /\ UNCHANGED <<heap, globals>>

(* Another contract may resize what it is passed, and answers a number.    *)
CallToken ==
  /\ Doing({"token"})
  /\ LET args == {Value(k) : k \in 1 .. Instruction.n}
     IN \E grown \in SUBSET {v \in args : IsRef(v)} :
          heap' = [k \in DOMAIN heap |->
                     IF Ref(k) \in grown THEN [heap[k] EXCEPT !.items = Append(@, Null)]
                     ELSE heap[k]]
  /\ strayed' = (strayed \/ \E k \in 1 .. Instruction.n : Stray(Value(k), k, TRUE))
  /\ Leave(Instruction.n, <<IntValue(0)>>)
  /\ Quiet /\ UNCHANGED globals

ReturnToCaller ==
  /\ Doing({"ret"})
  /\ IF Len(frames) = 1
     THEN stage' = "halted" /\ UNCHANGED frames
     ELSE /\ UNCHANGED stage
          /\ LET caller == frames[Len(frames) - 1]
             IN frames' = Append(SubSeq(frames, 1, Len(frames) - 2),
                                 [caller EXCEPT !.stack = @ \o Frame.stack])
  /\ UNCHANGED <<program, round, contracts, seeds, statics, points, heap, globals, strayed>>

Throw ==
  /\ Doing({"throw"}) /\ stage' = "halted"
  /\ UNCHANGED <<program, round, contracts, seeds, statics, runVars>>

NextBlock ==
  /\ stage = "running" /\ (~AtEnd => Instruction.op = "branch")
  /\ \E b \in program[Frame.m].code[Frame.b].succs :
       frames' = Append(Front(frames),
                        [Frame EXCEPT !.b = b, !.k = 1,
                           !.stack = IF AtEnd THEN @ ELSE Popped(@, 1)])
  /\ Pure /\ UNCHANGED <<heap, globals>>

Next ==
  \/ Infer /\ UNCHANGED runVars
  \/ Start
  \/ PushValue \/ LoadSlot \/ StoreValue \/ MakeCollection \/ ReadCollection \/ WriteCollection
  \/ Fault \/ CallMethod \/ JumpToMethod \/ CallToken \/ ReturnToCaller \/ Throw \/ NextBlock

Spec == ExecInit /\ [][Next]_vars /\ WF_vars(Infer /\ UNCHANGED runVars)

-----------------------------------------------------------------------------
(* Facts about a value.  A slot that has not been written holds null, so   *)
(* facts speak of values other than null.                                  *)
HasShape(v, shape) ==
  \/ v = Null \/ shape = NoShape
  \/ IsRef(v) /\ Object(v).kind = shape[1] /\ Len(Object(v).items) = shape[2]
Holds(facts, v) ==
  /\ HasShape(v, facts.shape)
  /\ IsRef(v) => \A i \in DOMAIN facts.indexed :
                   i + 1 \in DOMAIN Object(v).items
                     => HasShape(Object(v).items[i + 1], facts.indexed[i])

(* The facts the builder holds of the values on its symbolic stack are     *)
(* true of the values on the VM's stack whenever the instruction runs, in  *)
(* every method the builder follows completely: UNPACK then pushes what    *)
(* the lowered code names.                                                 *)
FactsHold ==
  stage = "running" /\ ~strayed /\ points[Frame.m][Frame.b][Frame.k].ok =>
    LET known == points[Frame.m][Frame.b][Frame.k].stack
    IN /\ Len(known) = Len(Frame.stack)
       /\ \A k \in DOMAIN known : Holds(known[k], Frame.stack[k])

(* The contracts are kept by the methods and by their callers: every call  *)
(* passes what argument_collection_facts say, a static slot always holds   *)
(* what static_collection_facts say, and a method that returns was said to *)
(* return, leaves a value exactly if it was said to, returns the shape it  *)
(* was said to return, and has done to its arguments what their effect and *)
(* field writes say.                                                       *)
ArgumentKept(c, owner, k) ==
  IsRef(owner.args[k]) =>
    /\ c.effects[k] = "ReadOnly" => Object(owner.args[k]).items = owner.items[k]
    /\ c.effects[k] = "PreservesShape" =>
         /\ Len(Object(owner.args[k]).items) = Len(owner.items[k])
         /\ Holds(Facts(NoShape, c.fields[k]), owner.args[k])
ReturnKept(owner) ==
  LET c == contracts[owner.m]
  IN /\ c.returns
     /\ c.behavior = "Void" /\ program[owner.m].declared = "Unknown" => Frame.stack = <<>>
     /\ Frame.stack # <<>> => Holds(c.facts, Last(Frame.stack))
     /\ \A k \in DOMAIN owner.args : ArgumentKept(c, owner, k)
ContractsHold ==
  stage = "running" /\ ~strayed =>
    /\ \A i \in DOMAIN statics : Holds(statics[i], globals[i])
    /\ Frame.b = 1 /\ Frame.k = 1 =>
         \A k \in 1 .. contracts[Frame.m].args :
           Holds(contracts[Frame.m].arguments[k], Frame.slots[<<"arg", k - 1>>])
    /\ ~AtEnd /\ Instruction.op = "ret" =>
         \A o \in DOMAIN Frame.owners : ReturnKept(Frame.owners[o])

(* The inference reaches its fixpoints with rounds to spare: no stage ends *)
(* because its rounds ran out, which would throw away what it had found,   *)
(* and the loop over return behaviour, which has no limit, is bounded.     *)
RoundsSuffice ==
  /\ stage = "returns" => round <= 2 * Len(program)
  /\ stage = "fields" => round + 1 < FieldRounds
  /\ stage = "entries" => round + 1 < EntryRounds
=============================================================================
