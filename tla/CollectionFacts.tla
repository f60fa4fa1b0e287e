--------------------------- MODULE CollectionFacts ---------------------------
(***************************************************************************)
(* What the SSA builder knows about the collections of a method            *)
(* (cfg/ssa/builder/collection.rs, joins.rs, pipeline.rs, instructions.rs, *)
(* instructions/calls.rs, instructions/special.rs).                        *)
(*                                                                         *)
(* While it executes a method symbolically the builder keeps, for every    *)
(* variable, the expression that defined it and the collection shape that  *)
(* follows from it, and forgets what a mutation or a call may change.      *)
(* UNPACK takes the number of values it pushes from those shapes.          *)
(*                                                                         *)
(* A method is a sequence of blocks [code, succs] in topological order, so *)
(* one pass of the builder over them is its fixpoint; loops and the rest   *)
(* of the symbolic stack are module SsaBuilder.  The state s of the        *)
(* symbolic execution has the fields of Fresh below.                       *)
(***************************************************************************)
EXTENDS Integers, Sequences, SequencesExt, FiniteSets, FiniteSetsExt, Functions, TLC

S == INSTANCE Strict

-----------------------------------------------------------------------------
(* Shapes, facts, expressions and variables <<kind, index, version>>.      *)
NoShape == <<"none", 0>>
Facts(shape, indexed) == [shape |-> shape, indexed |-> indexed]
NoFacts == Facts(NoShape, <<>>)

Initial(kind, i) == <<kind, i, 0>>
Unknown == Initial("?", 0)
VmNull == Initial("null", 0)
NoVar == Initial("none", 0)

Expr(op, args, n) == [op |-> op, args |-> args, n |-> n]
Opaque == Expr("opaque", <<>>, 0)
IsCollectionFact(e) == e.op \in {"array", "struct"}

(* Mutations that keep the length, and those that change it.               *)
ShapePreserving == {"setitem", "reverseitems"}
Resizing == {"append", "popitem"}

(* static_load_index, static_store_index; -1 for any other instruction.    *)
StaticIndex(i) == IF i.op \in {"load", "store"} /\ i.slot[1] = "static" THEN i.slot[2] ELSE -1

(* A mapping without one key, and with the keys of another taking over.    *)
Without(f, x) == Restrict(f, DOMAIN f \ {x})

(* The items of a sequence: the item at depth k from the top.              *)
Top(stack, k) == IF k <= Len(stack) THEN stack[Len(stack) - k + 1] ELSE Unknown
Popped(stack, k) == SubSeq(stack, 1, Max({0, Len(stack) - k}))

-----------------------------------------------------------------------------
(* Roots: the variable a value was copied from.  A copy that names a       *)
(* static slot is a root of its own.                                       *)
RECURSIVE CollectionFactRoot(_, _)
CollectionFactRoot(v, defs) ==
  IF v \notin DOMAIN defs THEN NoVar
  ELSE IF defs[v].statics # {} THEN v
  ELSE IF defs[v].value.op = "var" THEN CollectionFactRoot(defs[v].value.args[1], defs)
  ELSE IF \/ IsCollectionFact(defs[v].value)
          \/ defs[v].shape # NoShape
          \/ defs[v].root
       THEN v ELSE NoVar

RECURSIVE ResolveCollectionShape(_, _, _)
ResolveCollectionShape(v, defs, invalid) ==
  IF v \in invalid \/ v \notin DOMAIN defs THEN NoShape
  ELSE IF defs[v].value.op = "var"
       THEN ResolveCollectionShape(defs[v].value.args[1], defs, invalid)
  ELSE defs[v].shape

(* The literal a collection was built with, while its contents are known.  *)
RECURSIVE ResolveCollectionFact(_, _)
ResolveCollectionFact(v, s) ==
  IF v \in s.contents \cup s.shapes \/ v \notin DOMAIN s.defs THEN Opaque
  ELSE IF s.defs[v].value.op = "var" THEN ResolveCollectionFact(s.defs[v].value.args[1], s)
  ELSE IF IsCollectionFact(s.defs[v].value) THEN s.defs[v].value
  ELSE Opaque

(* -1: not a nonnegative integer literal.                                  *)
RECURSIVE ResolveNonnegativeLiteral(_, _)
ResolveNonnegativeLiteral(v, defs) ==
  IF v \notin DOMAIN defs THEN -1
  ELSE IF defs[v].value.op = "var" THEN ResolveNonnegativeLiteral(defs[v].value.args[1], defs)
  ELSE IF defs[v].value.op = "literal" /\ defs[v].value.n >= 0 THEN defs[v].value.n
  ELSE -1

RECURSIVE ResolvesToNull(_, _)
ResolvesToNull(v, defs) ==
  /\ v \in DOMAIN defs
  /\ \/ defs[v].value.op = "null"
     \/ defs[v].value.op = "var" /\ ResolvesToNull(defs[v].value.args[1], defs)

IndexedOf(root, s) == IF root \in DOMAIN s.indexed THEN s.indexed[root] ELSE s.defs[root].indexed

(* collection_shape_facts_for_variable                                     *)
FactsWithRoot(v, root, s) ==
  IF root = NoVar \/ root \in s.shapes THEN NoFacts
  ELSE Facts(ResolveCollectionShape(v, s.defs, s.shapes), IndexedOf(root, s))
FactsOf(v, s) == FactsWithRoot(v, CollectionFactRoot(v, s.defs), s)

(* indexed_collection_shapes_for_elements: what is known of each element.  *)
IndexedShapesForElements(elements, s) ==
  LET known == {i \in DOMAIN elements : FactsOf(elements[i], s).shape # NoShape}
  IN [i \in {j - 1 : j \in known} |-> FactsOf(elements[i + 1], s).shape]

(* indexed_collection_shape_for_access: the shape at a constant index, or  *)
(* the shape all elements share.                                           *)
SharedShape(facts) ==
  IF /\ facts.shape # NoShape
     /\ facts.shape[2] > 0
     /\ DOMAIN facts.indexed = 0 .. facts.shape[2] - 1
     /\ \A i \in DOMAIN facts.indexed : facts.indexed[i] = facts.indexed[0]
  THEN facts.indexed[0] ELSE NoShape
ShapeForAccess(facts, index) ==
  IF index = -1 THEN SharedShape(facts)
  ELSE IF index \in DOMAIN facts.indexed THEN facts.indexed[index]
  ELSE NoShape

-----------------------------------------------------------------------------
(* record_definition_facts, for one assignment: what the expression says   *)
(* of its target.  `returned` are the facts a call's contract promises and *)
(* `seeded` those of a static slot that is read before it is written.      *)
InferredFacts(e, s, returned) ==
  CASE IsCollectionFact(e) -> Facts(<<e.op, Len(e.args)>>, IndexedShapesForElements(e.args, s))
    [] e.op = "var" -> FactsOf(e.args[1], s)
    [] e.op = "index" ->
         Facts(ShapeForAccess(FactsOf(e.args[1], s),
                              IF Len(e.args) = 2
                              THEN ResolveNonnegativeLiteral(e.args[2], s.defs) ELSE e.n),
               <<>>)
    [] e.op = "call" -> returned
    [] OTHER -> NoFacts

InheritedStatics(e, s) ==
  LET root == IF e.op = "var" THEN CollectionFactRoot(e.args[1], s.defs) ELSE NoVar
  IN IF root = NoVar THEN {} ELSE s.defs[root].statics

Definition(e, facts, static, statics) ==
  [value |-> e, shape |-> facts.shape, indexed |-> facts.indexed,
   root |-> static # -1 \/ (facts # NoFacts /\ e.op # "var"),
   statics |-> statics \cup ({static} \ {-1})]

DefinitionFacts(e, s, returned, seeded) ==
  IF seeded = NoFacts \/ (e.op = "var" /\ e.args[1] \in DOMAIN s.defs)
  THEN InferredFacts(e, s, returned) ELSE seeded

RecordDefinition(stmt, s, returned, seeded, static) ==
  [s EXCEPT !.defs = (stmt.target :>
      Definition(stmt.value, DefinitionFacts(stmt.value, s, returned, seeded),
                 static, InheritedStatics(stmt.value, s))) @@ @]

(* The assignments an instruction added to the block, in order.            *)
RecordDefinitions(s, from, returned, seeded, static) ==
  FoldLeft(LAMBDA acc, stmt : IF stmt.op = "assign"
                              THEN RecordDefinition(stmt, acc, returned, seeded, static) ELSE acc,
           s, SubSeq(s.stmts, from + 1, Len(s.stmts)))

-----------------------------------------------------------------------------
(* Statements.                                                             *)
Stmt(op, target, value) == [op |-> op, target |-> target, value |-> value]
Say(s, op, value) == [s EXCEPT !.stmts = Append(@, Stmt(op, NoVar, value))]

(* A fresh variable of a base takes the value; the caller places it.       *)
FreshVar(base, s) == <<base[1], base[2], s.n>>
Assign(s, base, value) ==
  [s EXCEPT !.n = @ + 1, !.stmts = Append(@, Stmt("assign", FreshVar(base, s), value))]
Push(s, base, value) ==
  [Assign(s, base, value) EXCEPT !.stack = Append(@, FreshVar(base, s))]
PushTemp(s, value) == Push(s, <<"t", 0>>, value)

Incomplete(s) == [s EXCEPT !.ok = FALSE]
Pop(s, k) == [s EXCEPT !.stack = Popped(@, k)]

(* The value of an instruction the builder cannot follow: the stack below  *)
(* it is given up.                                                         *)
GiveUp(s, value) == PushTemp([Incomplete(s) EXCEPT !.stack = <<>>], value)

-----------------------------------------------------------------------------
(* Forgetting.                                                             *)
InvalidateContents(root, s) ==
  IF root = NoVar THEN s ELSE [s EXCEPT !.contents = @ \cup {root}]
(* Mutant of InvalidateAliases: a resize only forgets the contents.        *)
InvalidateAliasesMutant(root, s) == InvalidateContents(root, s)
InvalidateAliases(root, s) ==
  IF root = NoVar THEN s ELSE [s EXCEPT !.contents = @ \cup {root}, !.shapes = @ \cup {root}]

Roots(s) == {CollectionFactRoot(v, s.defs) : v \in DOMAIN s.defs} \ {NoVar}

(* invalidate_all_collection_facts_except                                  *)
InvalidateAllExcept(s, preserved) ==
  [s EXCEPT !.contents = @ \cup Roots(s), !.shapes = @ \cup (Roots(s) \ preserved)]

SetIndexed(root, indexed, s) ==
  IF root = NoVar THEN s ELSE [s EXCEPT !.indexed = (root :> indexed) @@ @]

(* update_indexed_shape_for_setitem                                        *)
UpdateIndexedShape(root, index, shape, s) ==
  IF root = NoVar THEN s
  ELSE SetIndexed(root, IF index = -1 THEN <<>>
                        ELSE IF shape = NoShape THEN Without(IndexedOf(root, s), index)
                        ELSE (index :> shape) @@ IndexedOf(root, s), s)

(* record_static_alias_mutation: a static slot that may hold the receiver  *)
(* has been written with what is still known of it.                        *)
StaticWrite(i, facts, null, provisional) ==
  [index |-> i, facts |-> facts, null |-> null, provisional |-> provisional]
RecordStaticAliasMutation(v, root, preserves, provisional, s) ==
  IF root = NoVar THEN s
  ELSE [s EXCEPT
         !.statics = @ \cup s.defs[root].statics,
         !.writes = @ \cup {StaticWrite(i, IF preserves THEN FactsOf(v, s) ELSE NoFacts,
                                        FALSE, provisional) : i \in s.defs[root].statics}]
StaticAliasMutation(v, preserves, provisional, s) ==
  RecordStaticAliasMutation(v, CollectionFactRoot(v, s.defs), preserves, provisional, s)

(* mark_static_collection_alias                                            *)
MarkStaticAlias(root, i, s) ==
  IF root = NoVar THEN s ELSE [s EXCEPT !.defs[root].statics = @ \cup {i}]

-----------------------------------------------------------------------------
(* Collections.                                                            *)
(* PACK and PACKSTRUCT: the count must be a literal and the values there.  *)
PackValues(s, op, count) ==
  IF count = -1 THEN GiveUp(s, Expr("intrinsic", <<Top(s.stack, 1)>>, 0))
  ELSE IF Len(s.stack) - 1 < count THEN GiveUp(s, Expr("intrinsic", Reverse(s.stack), 0))
  ELSE PushTemp(Pop(s, count + 1),
                Expr(op, [k \in 1 .. count |-> Top(s.stack, k + 1)], 0))
Pack(s, i) ==
  PackValues(s, i.kind, ResolveNonnegativeLiteral(Top(s.stack, 1), s.defs))

(* UNPACK: the elements of an unmodified literal, else reads of as many    *)
(* elements as the shape has, the first on top, and their number.          *)
ReadElements(s, item, count) ==
  FoldLeft(LAMBDA acc, k : Assign(acc, <<"t", 0>>, Expr("index", <<item>>, k)),
           s, [k \in 1 .. count |-> k - 1])
UnpackFrom(s, item, fact, shape) ==
  IF IsCollectionFact(fact)
  THEN PushTemp([s EXCEPT !.stack = @ \o Reverse(fact.args)],
                Expr("literal", <<>>, Len(fact.args)))
  ELSE IF shape # NoShape
  THEN PushTemp([ReadElements(s, item, shape[2]) EXCEPT
                   !.stack = @ \o [k \in 1 .. shape[2] |-> <<"t", 0, s.n + shape[2] - k>>]],
                Expr("literal", <<>>, shape[2]))
  ELSE GiveUp(s, Expr("intrinsic", <<item>>, 0))
Unpack(s) ==
  UnpackFrom(Pop(s, 1), Top(s.stack, 1), ResolveCollectionFact(Top(s.stack, 1), s),
             ResolveCollectionShape(Top(s.stack, 1), s.defs, s.shapes))

(* UNPACK directly before PACKSTRUCT copies the collection.                *)
UnpackPackstruct(s) == PushTemp(Pop(s, 1), Expr("intrinsic", <<Top(s.stack, 1)>>, 0))

(* The mutations.  The receiver is the deepest operand.                    *)
SetItem(s, receiver, index, value) ==
  Say(StaticAliasMutation(receiver, TRUE, FALSE,
        InvalidateContents(CollectionFactRoot(receiver, s.defs),
          UpdateIndexedShape(CollectionFactRoot(receiver, s.defs),
                             ResolveNonnegativeLiteral(index, s.defs),
                             FactsOf(value, s).shape, s))),
      "expr", Expr("setitem", <<receiver, index, value>>, 0))
ReverseItems(s, receiver) ==
  Say(StaticAliasMutation(receiver, TRUE, FALSE,
        InvalidateContents(CollectionFactRoot(receiver, s.defs),
          SetIndexed(CollectionFactRoot(receiver, s.defs), <<>>, s))),
      "expr", Expr("reverseitems", <<receiver>>, 0))
Resize(s, receiver) ==
  StaticAliasMutation(receiver, FALSE, FALSE,
    InvalidateAliases(CollectionFactRoot(receiver, s.defs), s))

-----------------------------------------------------------------------------
(* Slots.                                                                  *)
(* A load reads the reaching version of the slot; without one it makes a   *)
(* snapshot that later loads reuse.  Only statics may be read unwritten.   *)
Load(s, slot) ==
  IF slot \in DOMAIN s.slots THEN Push(s, slot, Expr("var", <<s.slots[slot]>>, 0))
  ELSE [Push(IF slot[1] = "static" THEN s ELSE Incomplete(s), slot, Opaque)
          EXCEPT !.slots = (slot :> FreshVar(slot, s)) @@ @]

StoreStatic(s, i, v) ==
  MarkStaticAlias(CollectionFactRoot(v, s.defs), i,
    [s EXCEPT !.statics = @ \ {i},
              !.writes = @ \cup {StaticWrite(i, FactsOf(v, s),
                                             ResolvesToNull(v, s.defs), FALSE)}])
StoreSlot(s, slot, v) ==
  [Assign(s, slot, Expr("var", <<v>>, 0)) EXCEPT !.slots = (slot :> FreshVar(slot, s)) @@ @]
Store(s, slot, v) ==
  StoreSlot(IF slot[1] = "static" THEN StoreStatic(s, slot[2], v) ELSE s, slot, v)

-----------------------------------------------------------------------------
(* Calls.                                                                  *)
(* A contract of a call site: [internal, args, value, returns, facts,      *)
(* effects, fields]; `facts` are return_facts, `fields` the field writes.  *)
EffectOn(root, effect, s) ==
  CASE effect = "ReadOnly" -> s
    [] effect = "PreservesShape" -> SetIndexed(root, <<>>, InvalidateContents(root, s))
    [] effect = "Unknown" -> InvalidateAliases(root, s)

PreservedRoots(roots, contract) ==
  {roots[k] : k \in {j \in DOMAIN roots : contract.effects[j] # "Unknown"}} \ {NoVar}

(* A returned collection may be one of the arguments.                      *)
CallInvalidations(s, contract, roots) ==
  IF ~contract.internal THEN s
  ELSE InvalidateAllExcept(s, IF contract.facts.shape # NoShape THEN {}
                              ELSE PreservedRoots(roots, contract))

(* apply_argument_field_writes, record_static_call_argument_effects        *)
ApplyFieldWrites(s, contract, roots) ==
  FoldLeft(LAMBDA acc, k :
             IF contract.effects[k] # "PreservesShape" \/ roots[k] = NoVar THEN acc
             ELSE SetIndexed(roots[k],
                    contract.fields[k] @@ (IF roots[k] \in DOMAIN acc.indexed
                                           THEN acc.indexed[roots[k]] ELSE <<>>), acc),
           s, [k \in DOMAIN roots |-> k])
StaticCallEffects(s, contract, roots) ==
  FoldLeft(LAMBDA acc, k :
             CASE contract.effects[k] = "ReadOnly" -> acc
               [] contract.effects[k] = "PreservesShape" ->
                    StaticAliasMutation(roots[k], TRUE, FALSE, acc)
               [] contract.effects[k] = "Unknown" ->
                    StaticAliasMutation(roots[k], FALSE, contract.internal, acc),
           s, [k \in DOMAIN roots |-> k])

(* What a call does to the facts, the arguments taken off the stack.       *)
Arguments(s, contract) == [k \in 1 .. contract.args |-> Top(s.stack, k)]
CallEffects(s, at, contract, roots) ==
  StaticCallEffects(
    ApplyFieldWrites(
      CallInvalidations(
        FoldLeft(LAMBDA acc, k : EffectOn(roots[k], contract.effects[k], acc),
                 [Pop(s, contract.args) EXCEPT
                    !.callFacts = (at :> [k \in 1 .. contract.args |->
                                           FactsOf(Top(s.stack, k), s)]) @@ @,
                    !.ok = @ /\ Len(s.stack) >= contract.args],
                 [k \in DOMAIN roots |-> k]),
        contract, roots),
      contract, roots),
    contract, roots)
ArgumentRoots(s, contract) ==
  [k \in 1 .. contract.args |-> CollectionFactRoot(Top(s.stack, k), s.defs)]

CallResult(s, contract, call) ==
  IF contract.value /\ contract.returns THEN PushTemp(s, call) ELSE Say(s, "expr", call)
ApplyKnownCall(s, at, contract) ==
  CallResult(CallEffects(s, at, contract, ArgumentRoots(s, contract)), contract,
             Expr("call", Arguments(s, contract), 0))

(* apply_known_tail_call: `value` is the caller's own return behaviour.    *)
TailCallResult(s, returns, value, call) ==
  IF ~returns THEN Say(s, "expr", call)
  ELSE IF value THEN Say(s, "return", call)
  ELSE Say(Say(s, "expr", call), "return", Opaque)
ApplyKnownTailCall(s, at, contract, value) ==
  TailCallResult(CallEffects(s, at, contract, ArgumentRoots(s, contract)), contract.returns,
                 IF value = "unknown" THEN contract.value ELSE value = "yes",
                 Expr("call", Arguments(s, contract), 0))

ApplyOpaqueCall(s) ==
  GiveUp(InvalidateAllExcept(s, {}), Expr("call", <<Top(s.stack, 1)>>, 0))

-----------------------------------------------------------------------------
(* apply_instruction, for the instruction at offset `at`.                  *)
Return(s, value) ==
  IF value = "no" \/ (value = "unknown" /\ s.stack = <<>>) THEN Say(s, "return", Opaque)
  ELSE Say([s EXCEPT !.ok = @ /\ Top(s.stack, 1) # Unknown], "return",
           Expr("var", <<Top(s.stack, 1)>>, 0))

ApplyInstruction(s, i, at, context) ==
  CASE i.op = "literal" -> PushTemp(s, Expr("literal", <<>>, i.n))
    [] i.op = "null" -> PushTemp(s, Expr("null", <<>>, 0))
    [] i.op = "pusha" -> PushTemp(s, Opaque)
    [] i.op = "convert" -> PushTemp(Pop(s, 1), Expr("convert", <<Top(s.stack, 1)>>, 0))
    [] i.op = "dup" -> [s EXCEPT !.stack = Append(@, Top(@, 1))]
    [] i.op \in {"drop", "branch"} -> Pop(s, 1)
    [] i.op = "load" -> Load(s, i.slot)
    [] i.op = "store" -> Store(Pop(s, 1), i.slot, Top(s.stack, 1))
    [] i.op = "pack" -> Pack(s, i)
    [] i.op = "unpack" -> Unpack(s)
    [] i.op = "clone" -> UnpackPackstruct(s)
    [] i.op = "pickitem" ->
         PushTemp(Pop(s, 2), Expr("index", <<Top(s.stack, 2), Top(s.stack, 1)>>, 0))
    [] i.op = "setitem" ->
         SetItem(Pop(s, 3), Top(s.stack, 3), Top(s.stack, 2), Top(s.stack, 1))
    [] i.op = "reverseitems" -> ReverseItems(Pop(s, 1), Top(s.stack, 1))
    [] i.op = "append" ->
         Say(Resize(Pop(s, 2), Top(s.stack, 2)), "expr",
             Expr("intrinsic", <<Top(s.stack, 2), Top(s.stack, 1)>>, 0))
    [] i.op = "popitem" ->
         PushTemp(Resize(Pop(s, 1), Top(s.stack, 1)),
                  Expr("intrinsic", <<Top(s.stack, 1)>>, 0))
    [] i.op \in {"call", "token"} -> ApplyKnownCall(s, at, context.calls[at])
    [] i.op = "calla" -> ApplyKnownCall(Pop(s, 1), at, context.calls[at])
    [] i.op = "jmp" -> IF at \in DOMAIN context.calls
                       THEN ApplyKnownTailCall(s, at, context.calls[at], context.value) ELSE s
    [] i.op = "opaque" -> ApplyOpaqueCall(Pop(s, 1))
    [] i.op = "throw" -> Say(Pop(s, 1), "throw", Expr("var", <<Top(s.stack, 1)>>, 0))
    [] i.op = "ret" -> Return(s, context.value)

(* static_collection_facts_for_instruction                                 *)
SeededFacts(i, s, context) ==
  IF i.op = "load" /\ StaticIndex(i) \in DOMAIN context.statics \ s.statics
  THEN context.statics[StaticIndex(i)] ELSE NoFacts

(* One instruction of execute_block, facts included.                       *)
Execute(s, i, at, context) ==
  S!Apply(LAMBDA t :
            RecordDefinitions(t, Len(s.stmts),
              IF at \in DOMAIN context.calls THEN context.calls[at].facts ELSE NoFacts,
              SeededFacts(i, t, context), StaticIndex(i)),
          ApplyInstruction(s, i, at, context))

-----------------------------------------------------------------------------
(* Joins of the predecessors' exits.                                       *)
(* compute_join_collection_invalidations                                   *)
JoinIndexed(maps) ==
  [root \in UNION {DOMAIN f : f \in maps} |->
     IF \A f, g \in maps : root \in DOMAIN f /\ root \in DOMAIN g /\ f[root] = g[root]
     THEN (CHOOSE f \in maps : TRUE)[root] ELSE <<>>]

(* compute_join_slots, compute_join_entry: a phi where the exits disagree. *)
AbsentSlotValue(slot) == IF slot[1] = "static" THEN Initial("static", slot[2]) ELSE Unknown
SlotAt(exit, slot) == IF slot \in DOMAIN exit.slots THEN exit.slots[slot] ELSE AbsentSlotValue(slot)
Phi(b, slot) == <<slot[1], slot[2], -b>>

JoinSlots(b, exits, slots) ==
  [slot \in slots |->
     IF Cardinality({SlotAt(e, slot) : e \in exits}) = 1
     THEN SlotAt(CHOOSE e \in exits : TRUE, slot) ELSE Phi(b, slot)]
JoinStack(b, exits) ==
  LET depth == Len((CHOOSE e \in exits : TRUE).stack)
  IN [k \in 1 .. depth |->
        IF Cardinality({e.stack[k] : e \in exits}) = 1
        THEN (CHOOSE e \in exits : TRUE).stack[k] ELSE <<"p", b, k>>]
JoinPhis(b, exits, slots) ==
  {[target |-> Phi(b, slot), operands |-> {SlotAt(e, slot) : e \in exits}] :
     slot \in {x \in slots : Cardinality({SlotAt(e, x) : e \in exits}) > 1}}

(* The state at the entry of a block; `before` is the pass so far, whose   *)
(* versions, definitions and findings go on.                               *)
Join(b, exits, before) ==
  LET slots == UNION {DOMAIN e.slots : e \in exits}
  IN [before EXCEPT
       !.stack = JoinStack(b, exits), !.slots = JoinSlots(b, exits, slots),
       !.phis = @ \cup JoinPhis(b, exits, slots),
       !.contents = UNION {e.contents : e \in exits},
       !.shapes = UNION {e.shapes : e \in exits},
       !.statics = UNION {e.statics : e \in exits},
       !.indexed = JoinIndexed({e.indexed : e \in exits})]

(* reserve_argument_versions, seed_context_collection_facts: arguments are *)
(* roots, and so are the statics something is known of.                    *)
SeededDefinition(facts, statics) ==
  [value |-> Opaque, shape |-> facts.shape, indexed |-> facts.indexed,
   root |-> TRUE, statics |-> statics]
SeedContext(context) ==
  [v \in {Initial("arg", k - 1) : k \in 1 .. context.args} |->
     SeededDefinition(context.arguments[v[2] + 1], {})]
  @@ [v \in {Initial("static", i) : i \in DOMAIN context.statics} |->
        SeededDefinition(context.statics[v[2]], {v[2]})]

(* The entry of a method: INITSLOT has moved the arguments to their slots  *)
(* and set the locals to null.                                             *)
Fresh(context, locals) ==
  [stack |-> <<>>,
   slots |-> [x \in {<<"arg", k - 1>> : k \in 1 .. context.args} |-> Initial("arg", x[2])]
             @@ [x \in {<<"loc", k - 1>> : k \in 1 .. locals} |-> VmNull],
   stmts |-> <<>>, phis |-> {}, defs |-> SeedContext(context),
   contents |-> {}, shapes |-> {}, statics |-> {}, indexed |-> <<>>,
   writes |-> {}, callFacts |-> <<>>, ok |-> TRUE, n |-> 1,
   returns |-> {}]

-----------------------------------------------------------------------------
(* execute_block: what a block's return says, with the facts at its end.   *)
ReturnFacts(stmt, s) ==
  IF stmt.value.op = "var" THEN FactsOf(stmt.value.args[1], s) ELSE NoFacts
ReturnsOf(s, from, args) ==
  {[facts |-> ReturnFacts(s.stmts[k], s), bare |-> s.stmts[k].value = Opaque,
    fields |-> [j \in 1 .. args |-> FactsOf(Initial("arg", j - 1), s).indexed]] :
     k \in {j \in from + 1 .. Len(s.stmts) : s.stmts[j].op = "return"}}

(* The states before each instruction of a block and after the last one.   *)
RECURSIVE BlockStates(_, _, _, _)
BlockStates(states, block, at, context) ==
  IF Len(states) > Len(block.code) THEN states
  ELSE BlockStates(Append(states, Execute(Last(states), block.code[Len(states)],
                                          Append(at, Len(states)), context)),
                   block, at, context)

(* unanimous_collection_facts, unanimous_argument_field_writes             *)
UnanimousFacts(returns) ==
  IF Cardinality({r.facts : r \in returns}) = 1
     /\ (CHOOSE r \in returns : TRUE).facts.shape # NoShape
  THEN (CHOOSE r \in returns : TRUE).facts ELSE NoFacts
UnanimousFields(returns, args) ==
  IF returns = {} THEN [k \in 1 .. args |-> <<>>]
  ELSE [k \in 1 .. args |->
          LET first == (CHOOSE r \in returns : TRUE).fields[k]
          IN Restrict(first, {f \in DOMAIN first :
                                \A r \in returns : /\ f \in DOMAIN r.fields[k]
                                                   /\ r.fields[k][f] = first[f]})]

(* The end of the pass over the blocks built so far.                       *)
Report(built) == Last(built[Max(DOMAIN built)])

(* build_ssa_blocks: the reachable blocks in order.                        *)
Sealed(s, from, args) == [s EXCEPT !.returns = @ \cup ReturnsOf(s, from, args)]
BuildBlock(m, b, built, entry, context, method) ==
  S!Apply(LAMBDA states :
            (b :> Append(Front(states), Sealed(Last(states), Len(entry.stmts), context.args)))
            @@ built,
          BlockStates(<<entry>>, method.code[b], <<m, b>>, context))
Exits(b, built, method) ==
  {Last(built[p]) : p \in {q \in DOMAIN built : b \in method.code[q].succs}}
RECURSIVE BuildFrom(_, _, _, _, _)
BuildFrom(m, b, built, context, method) ==
  IF b > Len(method.code) THEN built
  ELSE IF Exits(b, built, method) = {} THEN BuildFrom(m, b + 1, built, context, method)
  ELSE BuildFrom(m, b + 1,
                 BuildBlock(m, b, built, Join(b, Exits(b, built, method), Report(built)),
                            context, method), context, method)
Build(m, method, context) ==
  BuildFrom(m, 2, BuildBlock(m, 1, <<>>, Fresh(context, method.locals), context, method),
            context, method)
=============================================================================
