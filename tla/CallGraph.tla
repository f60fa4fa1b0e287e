------------------------------ MODULE CallGraph ------------------------------
(***************************************************************************)
(* Methods and calls of a script (analysis/methods.rs, call_graph.rs, its  *)
(* pointers modules, helpers/methods.rs).                                  *)
(*                                                                         *)
(* An offset is the position of its instruction.  Function pointers come   *)
(* from PUSHA and reach CALLA over the stack, locals, statics, arrays and  *)
(* arguments; they are traced backwards through the instructions.  The     *)
(* method table and the call graph each resolve the pointers passed as     *)
(* arguments, with a loop of their own.                                    *)
(***************************************************************************)
EXTENDS Integers, Sequences, FiniteSets, FiniteSetsExt, SequencesExt

CONSTANTS
  Contracts,  (* [script, abi]: instructions [op, n], TRY with the place of    *)
              (* its finally block too, and the ABI method offsets         *)
  Tokens,     (* the number of method tokens of the NEF file               *)
  None

ASSUME TokensAssumption == Tokens \in Nat

VARIABLES
  script, abi,
  pointer,    (* instruction -> the pointer it pushes, as far as traced    *)
  argument,   (* instruction -> the argument it pushes, as far as traced   *)
  stage,      (* "starts", "arguments", "spans", "edges", "pointers", "done" *)
  starts,     (* offsets at which methods start                            *)
  callers,    (* callers_by_target: <<target, call>>                       *)
  edges,      (* call instruction -> its target                            *)
  methods,    (* the methods of the call graph                             *)
  sites       (* the CALLAs of an argument, with the method each is in     *)

analysisVars == <<script, abi, pointer, argument, stage, starts, callers, edges, methods, sites>>

S == INSTANCE Strict

-----------------------------------------------------------------------------
(* Instructions.                                                           *)
Offsets == DOMAIN script
Op(i) == script[i].op
Operand(i) == script[i].n
At(ops) == {i \in Offsets : Op(i) \in ops}
Valid(t) == t \in Offsets

InOrder(is) ==
  [k \in 1 .. Cardinality(is) |-> CHOOSE i \in is : Cardinality({j \in is : j < i}) = k - 1]

(* previous_non_nop_index; 0 when there is none.                           *)
PreviousNonNop(i) == Max({j \in 1 .. i : Op(j) # "nop"} \cup {0})

(* The slot a load reads and a store writes.                               *)
Slot(domain, n) == [domain |-> domain, n |-> n]
LoadDomain(i) == CASE Op(i) = "ldloc" -> Slot("local", Operand(i))
                   [] Op(i) = "ldsfld" -> Slot("static", Operand(i))
                   [] OTHER -> None
SlotStoreDomain(i) == CASE Op(i) = "stloc" -> Slot("local", Operand(i))
                        [] Op(i) = "stsfld" -> Slot("static", Operand(i))
                        [] OTHER -> None

(* is_pointer_resolution_boundary                                          *)
Boundaries == {"ret", "throw", "abort", "initslot", "initsslot"}

(* find_slot_store_before: the nearest store above, for a local within its *)
(* method; 0 when there is none.                                           *)
FindSlotStoreBefore(i, slot) ==
  LET store == Max({j \in 1 .. i - 1 : SlotStoreDomain(j) = slot} \cup {0})
      walls == {j \in store .. i - 1 : j > 0 /\ Op(j) \in Boundaries}
  IN IF slot.domain = "local" /\ walls # {} THEN 0 ELSE store
ValueStored(i, slot) ==
  LET store == FindSlotStoreBefore(i, slot)
  IN IF store = 0 THEN 0 ELSE PreviousNonNop(store - 1)

-----------------------------------------------------------------------------
(* Tracing a pointer backwards (pointers.rs).                              *)

(* stack_effect: what an instruction pops and pushes, when that is known.  *)
StackEffect(i) ==
  CASE Op(i) = "nop" -> <<0, 0>>
    [] Op(i) \in {"push", "pusha", "newarray", "ldloc", "ldsfld", "ldarg"} -> <<0, 1>>
    [] Op(i) \in {"stloc", "stsfld", "starg"} -> <<1, 0>>
    [] Op(i) = "append" -> <<2, 0>>
    [] Op(i) = "pickitem" -> <<2, 1>>
    [] Op(i) = "dup" -> <<1, 2>>
    [] OTHER -> None

(* trace_stack_value_producer_before: which instruction put there the      *)
(* value at a depth of the stack; 0 when that cannot be told.              *)
StackValueProducer[before \in 1 .. Len(script), depth \in 0 .. 2 * Len(script)] ==
  LET i == before - 1
  IN IF i = 0 THEN 0
     ELSE IF StackEffect(i) = None THEN 0
     ELSE IF depth < StackEffect(i)[2] THEN i
     ELSE StackValueProducer[i, depth + StackEffect(i)[1] - StackEffect(i)[2]]

(* trace_container_domain_from_value_source: the slot an array lives in.   *)
ContainerDomain[i \in 0 .. Len(script)] ==
  LET source == ValueStored(i, LoadDomain(i))
  IN CASE i = 0 -> None
       [] i > 0 /\ Op(i) = "dup" -> ContainerDomain[PreviousNonNop(i - 1)]
       [] i > 0 /\ LoadDomain(i) # None ->
            IF FindSlotStoreBefore(i, LoadDomain(i)) = 0 THEN LoadDomain(i)
            ELSE IF source = 0 THEN None
            ELSE IF Op(source) = "dup" \/ LoadDomain(source) # None THEN ContainerDomain[source]
            ELSE LoadDomain(i)
       [] OTHER -> None

(* resolve_constant_static_pointer_target: every store of the static puts  *)
(* the same PUSHA there.                                                   *)
ConstantPointer[i \in 0 .. Len(script)] ==
  CASE i = 0 -> None
    [] i > 0 /\ Op(i) = "dup" -> ConstantPointer[PreviousNonNop(i - 1)]
    [] i > 0 /\ Op(i) = "pusha" -> Operand(i)
    [] OTHER -> None
ConstantStatic(slot) ==
  LET stored == {ConstantPointer[PreviousNonNop(j - 1)] :
                   j \in {j \in Offsets : SlotStoreDomain(j) = slot}}
  IN IF Cardinality(stored) = 1 THEN CHOOSE t \in stored : TRUE ELSE None

(* trace_pointer_target_from_value_source and, for PICKITEM,               *)
(* resolve_pickitem_pointer_target: every value appended to the array so   *)
(* far is the same pointer.                                                *)
PointerTarget[i \in 0 .. Len(script)] ==
  LET container == ContainerDomain[PreviousNonNop(PreviousNonNop(i - 1) - 1)]
      from == IF container.domain = "local"
                THEN Max({j \in 1 .. i - 1 : Op(j) \in Boundaries} \cup {0}) ELSE 0
      appends == {j \in from + 1 .. i - 1 : Op(j) = "append"}
      known == \A j \in appends : StackValueProducer[j, 0] # 0 /\ StackValueProducer[j, 1] # 0
      mine == {j \in appends : ContainerDomain[StackValueProducer[j, 1]] = container}
      picked == {PointerTarget[StackValueProducer[j, 0]] : j \in mine}
  IN CASE i = 0 -> None
       [] i > 0 /\ Op(i) = "dup" -> PointerTarget[PreviousNonNop(i - 1)]
       [] i > 0 /\ Op(i) = "pusha" -> Operand(i)
       [] i > 0 /\ Op(i) = "pickitem" ->
            IF container = None THEN None
            ELSE IF known /\ Cardinality(picked) = 1 THEN CHOOSE t \in picked : TRUE ELSE None
       [] i > 0 /\ LoadDomain(i) # None ->
            IF FindSlotStoreBefore(i, LoadDomain(i)) # 0
              THEN PointerTarget[ValueStored(i, LoadDomain(i))]
            ELSE IF LoadDomain(i).domain = "static" THEN ConstantStatic(LoadDomain(i))
            ELSE None
       [] OTHER -> None

(* calla_target_from_pusha                                                 *)
CallaTargetFromPusha(i) == pointer[PreviousNonNop(i - 1)]

(* trace_argument_index_from_value_source: the argument a value came from. *)
ArgumentIndex[i \in 0 .. Len(script)] ==
  CASE i = 0 -> None
    [] i > 0 /\ Op(i) = "dup" -> ArgumentIndex[PreviousNonNop(i - 1)]
    [] i > 0 /\ Op(i) = "ldarg" -> Operand(i)
    [] i > 0 /\ LoadDomain(i) # None -> ArgumentIndex[ValueStored(i, LoadDomain(i))]
    [] OTHER -> None
CallaLdargIndex(i) == argument[PreviousNonNop(i - 1)]

-----------------------------------------------------------------------------
(* Pointers passed as arguments.                                           *)
InitslotArgCount(m, default) == IF Op(m) = "initslot" THEN Operand(m) ELSE default

(* trace_call_arg_source: one instruction per argument, the first argument *)
(* last; CALLA takes its pointer from above them.                          *)
Target(t) == [target |-> t, m |-> None, arg |-> None]
Argument(m, a) == [target |-> None, m |-> m, arg |-> a]
NthNonNopBefore(call, n) ==
  LET source == {i \in 1 .. call - 1 : Op(i) # "nop" /\
                   Cardinality({j \in i + 1 .. call - 1 : Op(j) # "nop"}) = n}
  IN IF source = {} THEN 0 ELSE CHOOSE i \in source : TRUE
SourceAt(i, method) ==
  LET target == IF i > 0 /\ (Op(i) = "pusha" \/ LoadDomain(i) # None) THEN pointer[i] ELSE None
      index == IF i > 0 /\ (Op(i) = "ldarg" \/ LoadDomain(i) # None) THEN argument[i] ELSE None
  IN IF target # None THEN <<Target(target)>>
     ELSE IF index # None THEN <<Argument(method, index)>> ELSE <<>>

(* Mutant of ArgumentPosition: the pointer CALLA pops is not counted.      *)
ArgumentPositionMutant(call, arg) == NthNonNopBefore(call, arg)

ArgumentPosition(call, arg) ==
  NthNonNopBefore(call, IF Op(call) = "calla" THEN arg + 1 ELSE arg)

CallArgSource(call, arg, count, method) ==
  IF arg >= count THEN <<>>
  ELSE S!Apply(LAMBDA i : SourceAt(i, method), ArgumentPosition(call, arg))

(* largest_le                                                              *)
MethodOf(i, begins) == Max({m \in begins : m <= i})

(* resolve_argument_target_recursive and resolve_argument_target_for_method: *)
(* depth first over the call sites, the first pointer found is taken.        *)
RECURSIVE ResolveArgument(_)
ResolveArgument(search) ==
  LET goal == Head(search.open)
      seen == <<goal.m, goal.arg>> \in search.visited
      from == IF seen THEN {} ELSE {c[2] : c \in {c \in search.calls : c[1] = goal.m}}
      Expand(acc, call) ==
        acc \o CallArgSource(call, goal.arg, InitslotArgCount(goal.m, goal.arg + 1),
                             MethodOf(call, search.begins))
  IN IF search.open = <<>> THEN None
     ELSE IF goal.target # None THEN goal.target
     ELSE S!Apply(ResolveArgument,
                  [search EXCEPT !.open = S!Fold(Expand, <<>>, InOrder(from)) \o Tail(@),
                                 !.visited = @ \cup {<<goal.m, goal.arg>>}])

PassedPointer(m, a, calls, begins) ==
  S!Apply(ResolveArgument, [open |-> <<Argument(m, a)>>, visited |-> {},
                            calls |-> calls, begins |-> begins])

-----------------------------------------------------------------------------
(* MethodTable::new                                                        *)

(* collect_initslot_offsets                                                *)
CollectInitslotOffsets == {i \in At({"initslot"}) : i = 1 \/ Op(i - 1) # "initsslot"}
(* collect_call_targets                                                    *)
CollectCallTargets == {Operand(i) : i \in {i \in At({"call"}) : Valid(Operand(i))}}

(* The CALLAs whose pointer is traced to an instruction.                   *)
PointerCalls == {i \in At({"calla"}) : Valid(CallaTargetFromPusha(i))}

Init ==
  /\ \E c \in Contracts : script = c.script /\ abi = c.abi
  /\ pointer = PointerTarget /\ argument = ArgumentIndex
  /\ stage = "starts"
  /\ starts = {} /\ callers = {} /\ methods = {} /\ sites = {}
  /\ edges = <<>>

(* Mutant of CollectStarts: calls through a pointer are not callers.       *)
CollectStartsMutant ==
  /\ stage = "starts"
  /\ starts' = {1} \cup CollectInitslotOffsets \cup CollectCallTargets
                 \cup {CallaTargetFromPusha(i) : i \in PointerCalls}
  /\ callers' = {<<Operand(i), i>> : i \in At({"call"})}
  /\ stage' = "arguments"
  /\ UNCHANGED <<script, abi, pointer, argument, edges, methods, sites>>

CollectStarts ==
  /\ stage = "starts"
  /\ starts' = {1} \cup CollectInitslotOffsets \cup CollectCallTargets
                 \cup {CallaTargetFromPusha(i) : i \in PointerCalls}
  /\ callers' = {<<CallaTargetFromPusha(i), i>> : i \in PointerCalls}
                  \cup {<<Operand(i), i>> : i \in At({"call"})}
  /\ stage' = "arguments"
  /\ UNCHANGED <<script, abi, pointer, argument, edges, methods, sites>>

(* One round of the fixed point: callers found in it count at once, method *)
(* starts in the next round.                                               *)
ResolveArguments ==
  LET Resolve(acc, i) ==
        LET t == PassedPointer(MethodOf(i, starts), CallaLdargIndex(i), acc.callers, starts)
        IN IF CallaLdargIndex(i) = None \/ t = None THEN acc
           ELSE [starts |-> acc.starts \cup {t}, callers |-> acc.callers \cup {<<t, i>>}]
  IN /\ stage = "arguments"
     /\ \E next \in {S!Fold(Resolve, [starts |-> starts, callers |-> callers],
                            InOrder(At({"calla"})))} :
          /\ starts' = next.starts /\ callers' = next.callers
          /\ stage' = IF next = [starts |-> starts, callers |-> callers] THEN "spans"
                                                                         ELSE "arguments"
     /\ UNCHANGED <<script, abi, pointer, argument, edges, methods, sites>>

BuildSpans ==
  /\ stage = "spans"
  /\ starts' = starts \cup abi
  /\ stage' = "edges"
  /\ UNCHANGED <<script, abi, pointer, argument, callers, edges, methods, sites>>

-----------------------------------------------------------------------------
(* build_call_graph                                                        *)
Edge(i, kind, m) == [caller |-> MethodOf(i, starts), kind |-> kind, m |-> m]

EdgeOf(i) ==
  CASE Op(i) = "syscall" -> Edge(i, "syscall", None)
    [] Op(i) = "call" -> IF Valid(Operand(i)) THEN Edge(i, "internal", Operand(i))
                                              ELSE Edge(i, "unresolved", None)
    [] Op(i) = "callt" -> Edge(i, IF Operand(i) < Tokens THEN "token" ELSE "indirect", None)
    [] Op(i) = "calla" -> IF i \in PointerCalls THEN Edge(i, "internal", CallaTargetFromPusha(i))
                                                ELSE Edge(i, "indirect", None)

BuildEdges ==
  LET calls == At({"syscall", "call", "callt", "calla"})
  IN /\ stage = "edges"
     /\ \E graph \in {[i \in calls |-> EdgeOf(i)]} :
          /\ edges' = graph
          /\ \E known \in {starts \cup {graph[i].m : i \in {i \in calls : graph[i].kind = "internal"}}} :
               /\ methods' = known
               /\ sites' = {[call |-> i, arg |-> CallaLdargIndex(i), m |-> MethodOf(i, known)] :
                              i \in {i \in At({"calla"}) : /\ graph[i].kind = "indirect"
                                                            /\ CallaLdargIndex(i) # None}}
     /\ stage' = "pointers"
     /\ UNCHANGED <<script, abi, pointer, argument, starts, callers>>

(* Mutant of OpenSites: a resolved call is resolved again.                 *)
OpenSitesMutant == sites

(* The sites of resolve_ldarg_calla_targets that are still indirect.       *)
OpenSites == {s \in sites : edges[s.call].kind = "indirect"}

(* One round of resolve_ldarg_calla_targets: the callers are those of the  *)
(* round's beginning, the methods grow at once, a site keeps the method it *)
(* was found in.                                                           *)
ResolvePointers ==
  LET calls == {<<edges[i].m, i>> : i \in {i \in DOMAIN edges : edges[i].kind = "internal"}}
      Resolve(acc, i) ==
        LET site == CHOOSE s \in sites : s.call = i
            t == PassedPointer(site.m, site.arg, calls, acc.methods)
        IN IF ~Valid(t) THEN acc
           ELSE [edges |-> [acc.edges EXCEPT ![i].kind = "internal", ![i].m = t],
                 methods |-> acc.methods \cup {t}, progress |-> TRUE]
  IN /\ stage = "pointers"
     /\ \E next \in {S!Fold(Resolve, [edges |-> edges, methods |-> methods, progress |-> FALSE],
                            InOrder({s.call : s \in OpenSites}))} :
          /\ edges' = next.edges /\ methods' = next.methods
          /\ stage' = IF next.progress THEN "pointers" ELSE "done"
     /\ UNCHANGED <<script, abi, pointer, argument, starts, callers, sites>>

Next == CollectStarts \/ ResolveArguments \/ BuildSpans \/ BuildEdges \/ ResolvePointers

-----------------------------------------------------------------------------
(* helpers/methods.rs: inferred_method_starts, for presentation.           *)

(* Mutant of JumpTargets: a TRY only leads to its catch block.             *)
JumpTargetsMutant(i) == {Operand(i)}

(* A TRY leads to its catch and to its finally block.  One that it has not *)
(* is at distance 0: the TRY is then a target of itself.                   *)
JumpTargets(i) == {Operand(i)} \cup (IF Op(i) = "try" THEN {script[i].finally} ELSE {})

(* collect_control_flow_edges                                              *)
ControlFlowEdges ==
  {e \in At({"jmp", "jmpif", "endtry", "try"}) \X Offsets : e[2] \in JumpTargets(e[1])}

(* collect_post_ret_method_offsets: what follows a terminator and is not   *)
(* reached from its own method, nor any place after it, or is reached from *)
(* another method.                                                         *)
PostRetOffsets(baseline) ==
  LET Span(i) == LET m == MethodOf(i, baseline)
                 IN m .. Min({b \in baseline : b > m} \cup {Len(script) + 1}) - 1
      Detached(next) ==
        LET own == Span(next - 1)
            incoming == {e \in ControlFlowEdges : e[2] = next}
            later == {e \in ControlFlowEdges : e[1] \in own /\ e[2] <= Max(own) /\ e[2] > next}
        IN \/ \E e \in incoming : e[1] \notin own
           \/ (\A e \in incoming : e[1] \notin own) /\ later = {}
  IN {i \in 2 .. Len(script) : Op(i - 1) \in {"ret", "throw", "abort"} /\ Detached(i)}

InferredMethodStarts ==
  LET baseline == {1} \cup abi \cup CollectInitslotOffsets \cup CollectCallTargets
  IN baseline \cup PostRetOffsets(baseline)
=============================================================================
