--------------------------- MODULE MethodContracts ---------------------------
(***************************************************************************)
(* Inference of the contracts of a script's methods                        *)
(* (analysis/method_contracts.rs, method_contracts/calls.rs, collection.rs *)
(* and collection/effects.rs).                                             *)
(*                                                                         *)
(* Each method is analysed with the contracts of the methods it calls, and *)
(* contracts are refined round by round: whether a method returns and with *)
(* a value, what it does to its arguments, the shape it returns, the       *)
(* fields of its arguments it fills, and the collections that all callers  *)
(* pass and all writes to a static slot store.  A round reads the          *)
(* contracts of the previous one for every method.                         *)
(***************************************************************************)
EXTENDS CollectionFacts

CONSTANT Programs   \* sequences of methods

(* A method: [args, locals, abi, declared, code].  Its instructions are    *)
(* [op, n, slot, kind]; n of a call is the method called, of a token call  *)
(* its number of arguments.                                                *)
ASSUME ProgramsAssumption ==
  \A p \in Programs : \A m \in DOMAIN p :
    /\ p[m].args \in Nat /\ p[m].locals \in Nat /\ p[m].abi \in BOOLEAN
    /\ p[m].declared \in {"Value", "Void", "Unknown"}
    /\ \A b \in DOMAIN p[m].code : \A s \in p[m].code[b].succs :
         s \in b + 1 .. Len(p[m].code)

VARIABLES
  program,
  stage,      \* "returns", "effects", "facts", "fields", "entries", "inferred"
  round,      \* rounds of this stage so far
  contracts,  \* of each method
  seeds,      \* static_seed_facts: slot -> facts, provisional writes left out
  statics     \* static_facts

inferenceVars == <<program, stage, round, contracts, seeds, statics>>

Methods == DOMAIN program

-----------------------------------------------------------------------------
(* The calls of the script.                                                *)
Sites(p, m) ==
  UNION {{<<m, b, k>> : k \in DOMAIN p[m].code[b].code} : b \in DOMAIN p[m].code}
InstructionAt(p, at) == p[at[1]].code[at[2]].code[at[3]]
CallSites(p, ops) ==
  {at \in UNION {Sites(p, m) : m \in DOMAIN p} : InstructionAt(p, at).op \in ops}
Uses(p, m, ops) == \E at \in Sites(p, m) : InstructionAt(p, at).op \in ops

(* build_call_contracts.  A jump out of a method is no call here.          *)
InternalContract(c) ==
  [internal |-> TRUE, args |-> c.args, value |-> c.behavior # "Void", returns |-> c.returns,
   facts |-> c.facts, effects |-> c.effects, fields |-> c.fields]
TokenContract(n) ==
  [internal |-> FALSE, args |-> n, value |-> TRUE, returns |-> TRUE, facts |-> NoFacts,
   effects |-> [k \in 1 .. n |-> "Unknown"], fields |-> [k \in 1 .. n |-> <<>>]]
ContractAt(i, cs) == IF i.op = "token" THEN TokenContract(i.n) ELSE InternalContract(cs[i.n])
Calls(cs) ==
  [at \in CallSites(program, {"call", "calla", "token"}) |-> ContractAt(InstructionAt(program, at), cs)]

-----------------------------------------------------------------------------
(* The method with the blocks cut behind calls that do not return.         *)
Cut(block, at, calls) ==
  LET stops == {k \in DOMAIN block.code :
                  Append(at, k) \in DOMAIN calls /\ ~calls[Append(at, k)].returns}
  IN IF stops = {} THEN block
     ELSE [code |-> SubSeq(block.code, 1, Min(stops)), succs |-> {}]
CutMethod(m, calls) ==
  [program[m] EXCEPT !.code = [b \in DOMAIN @ |-> Cut(@[b], <<m, b>>, calls)]]

RECURSIVE ReachableFrom(_, _)
ReachableFrom(blocks, code) ==
  LET next == blocks \cup UNION {code[b].succs : b \in blocks}
  IN IF next = blocks THEN blocks ELSE ReachableFrom(next, code)

(* A MethodContext and the SSA built in it.                                *)
Context(c, calls, value, arguments, staticFacts) ==
  [args |-> c.args, calls |-> calls, value |-> value,
   arguments |-> arguments, statics |-> staticFacts]
NoArguments(c) == [k \in 1 .. c.args |-> NoFacts]
DeclaredValue(c) == IF c.behavior # "Void" THEN "yes" ELSE "no"
Analyse(m, c, calls, value, arguments, staticFacts) ==
  Report(Build(m, CutMethod(m, calls), Context(c, calls, value, arguments, staticFacts)))

(* method_may_return, method_has_only_bare_returns                         *)
ReturnTerminator(block) == block.code # <<>> /\ Last(block.code).op \in {"ret", "jmp"}
MethodMayReturn(m, calls) ==
  LET code == CutMethod(m, calls).code
  IN \E b \in ReachableFrom({1}, code) : ReturnTerminator(code[b])
OnlyBare(returns) == returns # {} /\ \A r \in returns : r.bare
HasOnlyBareReturns(m, calls) ==
  OnlyBare(Analyse(m, contracts[m], calls, "unknown",
                   NoArguments(contracts[m]), <<>>).returns)

-----------------------------------------------------------------------------
(* method_argument_effects: which argument each variable may be, and what  *)
(* happens to it.                                                          *)
RECURSIVE Origins(_, _)
Origins(origins, r) ==
  LET fromPhis == {p \in r.phis : /\ p.operands \subseteq DOMAIN origins
                                  /\ Cardinality({origins[v] : v \in p.operands}) = 1}
      copies == {s \in Range(r.stmts) : /\ s.op = "assign" /\ s.value.op \in {"var", "convert"}
                                        /\ s.value.args[1] \in DOMAIN origins}
      next == [v \in {p.target : p \in fromPhis} |->
                 origins[CHOOSE o \in (CHOOSE p \in fromPhis : p.target = v).operands : TRUE]]
              @@ [v \in {s.target : s \in copies} |->
                    origins[(CHOOSE s \in copies : s.target = v).value.args[1]]]
  IN IF DOMAIN next \subseteq DOMAIN origins THEN origins ELSE Origins(origins @@ next, r)

OriginsOf(vs, origins) == {origins[v] : v \in vs \cap DOMAIN origins}

(* The arguments a statement lets escape.                                  *)
Escapes(s, origins) ==
  CASE s.op = "assign" ->
         IF s.value.op = "var" /\ s.target[1] # "static" THEN {}
         ELSE IF s.value.op \in {"var", "call", "array", "struct"}
         THEN OriginsOf(Range(s.value.args), origins) ELSE {}
    [] s.value.op = "setitem" -> OriginsOf({s.value.args[3]}, origins)
    [] s.value.op = "reverseitems" -> {}
    [] OTHER -> OriginsOf(Range(s.value.args), origins)

UnsafeArguments(r, origins) ==
  UNION {Escapes(s, origins) : s \in Range(r.stmts)}
  \cup UNION {OriginsOf(p.operands, origins) :
                p \in {q \in r.phis : q.target \notin DOMAIN origins}}
Receivers(r, origins) ==
  UNION {OriginsOf({s.value.args[1]}, origins) :
           s \in {t \in Range(r.stmts) : t.op = "expr" /\ t.value.op \in ShapePreserving}}

EffectsFrom(r, origins, args) ==
  [k \in 1 .. args |-> IF k - 1 \in UnsafeArguments(r, origins) THEN "Unknown"
                       ELSE IF k - 1 \in Receivers(r, origins) THEN "PreservesShape"
                       ELSE "ReadOnly"]

(* Calls of the script and resizes are given up on.  The blocks are not    *)
(* cut behind calls.                                                       *)
MethodArgumentEffects(m, calls, arguments, staticFacts) ==
  LET c == contracts[m]
      own == [v \in {Initial("arg", k - 1) : k \in 1 .. c.args} |-> v[2]]
      unknown == [k \in 1 .. c.args |-> "Unknown"]
  IN IF c.args = 0 \/ Uses(program, m, {"call", "calla", "opaque"} \cup Resizing) THEN unknown
     ELSE S!Apply(LAMBDA r : IF r.ok THEN EffectsFrom(r, Origins(own, r), c.args) ELSE unknown,
                  Report(Build(m, program[m],
                               Context(c, calls, "unknown", arguments, staticFacts))))

-----------------------------------------------------------------------------
Init ==
  /\ program \in Programs
  /\ stage = "returns" /\ round = 0
  /\ contracts = [m \in DOMAIN program |->
        [args |-> program[m].args, behavior |-> program[m].declared, returns |-> TRUE,
         facts |-> NoFacts, effects |-> [k \in 1 .. program[m].args |-> "Unknown"],
         arguments |-> [k \in 1 .. program[m].args |-> NoFacts],
         fields |-> [k \in 1 .. program[m].args |-> <<>>]]]
  /\ seeds = <<>> /\ statics = <<>>

(* The undeclared methods some call resolves to.                           *)
Candidates ==
  {m \in Methods : /\ program[m].declared = "Unknown"
                   /\ \E at \in CallSites(program, {"call", "calla"}) :
                        InstructionAt(program, at).n = m}

NewlyNonReturning(calls) == {m \in Methods : contracts[m].returns /\ ~MethodMayReturn(m, calls)}
NewlyVoid(calls) ==
  {m \in Candidates : contracts[m].behavior = "Unknown" /\ HasOnlyBareReturns(m, calls)}

(* A round of the loop over return behaviour.                              *)
InferReturns ==
  /\ stage = "returns"
  /\ \E never \in {NewlyNonReturning(Calls(contracts))}, void \in {NewlyVoid(Calls(contracts))} :
       IF never \cup void = {}
       THEN stage' = "effects" /\ round' = 0 /\ UNCHANGED contracts
       ELSE /\ contracts' = [m \in Methods |->
                 [contracts[m] EXCEPT !.returns = @ /\ m \notin never,
                                      !.behavior = IF m \in void THEN "Void" ELSE @]]
            /\ round' = round + 1 /\ UNCHANGED stage
  /\ UNCHANGED <<program, seeds, statics>>

InferEffects ==
  /\ stage = "effects" /\ stage' = "facts"
  /\ contracts' = [m \in Methods |->
       [contracts[m] EXCEPT !.effects =
          MethodArgumentEffects(m, Calls(contracts), NoArguments(contracts[m]), <<>>)]]
  /\ UNCHANGED <<program, round, seeds, statics>>

(* One round: the shapes callees return are not used for their callers.    *)
InferReturnFacts ==
  /\ stage = "facts" /\ stage' = "fields"
  /\ contracts' = [m \in Methods |->
       IF ~contracts[m].returns \/ contracts[m].behavior = "Void" THEN contracts[m]
       ELSE [contracts[m] EXCEPT !.facts =
               UnanimousFacts(Analyse(m, contracts[m], Calls(contracts), "yes",
                                      NoArguments(contracts[m]), <<>>).returns)]]
  /\ UNCHANGED <<program, round, seeds, statics>>

(* infer_argument_field_writes, a round and its limit.                     *)
FieldWrites(c, r) ==
  [k \in 1 .. c.args |-> IF r.ok /\ c.effects[k] = "PreservesShape"
                         THEN UnanimousFields(r.returns, c.args)[k] ELSE <<>>]
FieldRounds == 2 * Len(program) + 4
WithFieldWrites(calls) ==
  [m \in Methods |->
     [contracts[m] EXCEPT !.fields =
        FieldWrites(contracts[m],
          Analyse(m, contracts[m], calls, DeclaredValue(contracts[m]),
                  NoArguments(contracts[m]), <<>>))]]

InferFieldWrites ==
  /\ stage = "fields"
  /\ \E updated \in {WithFieldWrites(Calls(contracts))} :
       IF updated = contracts
       THEN stage' = "entries" /\ round' = 0 /\ UNCHANGED contracts
       ELSE IF round + 1 = FieldRounds
       THEN /\ contracts' = [m \in Methods |->
                 [contracts[m] EXCEPT !.fields = [k \in DOMAIN @ |-> <<>>]]]
            /\ stage' = "entries" /\ round' = 0
       ELSE contracts' = updated /\ round' = round + 1 /\ UNCHANGED stage
  /\ UNCHANGED <<program, seeds, statics>>

-----------------------------------------------------------------------------
(* infer_entry_and_static_collection_facts.                                *)
(* The writes of a method that was not followed count as unknown, and so   *)
(* do the slots it reads.                                                  *)
LoadedStatics(m) ==
  {StaticIndex(InstructionAt(program, at)) :
     at \in {a \in Sites(program, m) : InstructionAt(program, a).op = "load"}} \ {-1}
WritesOf(m, r) ==
  IF r.ok THEN r.writes
  ELSE {[w EXCEPT !.facts = NoFacts] : w \in r.writes}
       \cup {StaticWrite(i, NoFacts, FALSE, FALSE) : i \in LoadedStatics(m)}

(* intersect_static_writes                                                 *)
IntersectWrites(facts) ==
  IF NoFacts \in facts THEN NoFacts
  ELSE LET first == CHOOSE f \in facts : TRUE
       IN Facts(IF \A f \in facts : f.shape = first.shape THEN first.shape ELSE NoShape,
                Restrict(first.indexed,
                         {i \in DOMAIN first.indexed :
                            \A f \in facts : /\ i \in DOMAIN f.indexed
                                             /\ f.indexed[i] = first.indexed[i]}))

WrittenFacts(writes, i) ==
  LET facts == {w.facts : w \in {x \in writes : x.index = i /\ ~x.null}}
  IN IF facts = {} THEN NoFacts ELSE IntersectWrites(facts)
HasOpaqueCall == CallSites(program, {"opaque"}) # {}
KnownStatics(writes) ==
  [i \in {j \in {w.index : w \in writes} : WrittenFacts(writes, j) # NoFacts} |->
     WrittenFacts(writes, i)]
StaticFacts(reports, provisional) ==
  IF HasOpaqueCall THEN <<>>
  ELSE KnownStatics({w \in UNION {WritesOf(m, reports[m]) : m \in Methods} :
                       provisional \/ ~w.provisional})

(* aggregate_private_argument_facts: what every call of a method that only *)
(* calls can enter passes.                                                 *)
IncomingCalls(m) ==
  {at \in CallSites(program, {"call", "calla"}) : InstructionAt(program, at).n = m}
AddressTaken == {InstructionAt(program, at).n : at \in CallSites(program, {"pusha"})}
(* Mutant of AgreedFacts: one call speaks for all of them.                 *)
AgreedFactsMutant(passed) == IF passed = {} THEN NoFacts ELSE CHOOSE f \in passed : TRUE
AgreedFacts(passed) ==
  IF Cardinality(passed) = 1 THEN CHOOSE f \in passed : TRUE ELSE NoFacts
PassedFacts(at, k, reports) ==
  LET r == reports[at[1]]
  IN IF r.ok /\ at \in DOMAIN r.callFacts THEN r.callFacts[at][k] ELSE NoFacts
PrivateArguments(m, reports) ==
  [k \in 1 .. contracts[m].args |->
     IF program[m].abi \/ m \in AddressTaken
        \/ \E at \in IncomingCalls(m) : InstructionAt(program, at).op = "calla" THEN NoFacts
     ELSE AgreedFacts({PassedFacts(at, k, reports) : at \in IncomingCalls(m)})]

(* Mutant of EntryRounds: one round per method.                            *)
EntryRoundsMutant == Len(program)
EntryRounds == 4 * Len(program) + 8

Reports(cs, calls, staticFacts) ==
  [m \in Methods |-> Analyse(m, cs[m], calls, DeclaredValue(cs[m]),
                             cs[m].arguments, staticFacts)]

(* A round: new effects, then with them new static and argument facts.     *)
EntryRound(newSeeds, newStatics, updated) ==
  IF newSeeds = seeds /\ newStatics = statics /\ updated = contracts
  THEN stage' = "inferred" /\ UNCHANGED <<round, contracts, seeds, statics>>
  ELSE IF round + 1 = EntryRounds
  THEN /\ stage' = "inferred" /\ round' = round + 1 /\ seeds' = <<>> /\ statics' = <<>>
       /\ contracts' = [m \in Methods |->
            [updated[m] EXCEPT !.arguments = NoArguments(updated[m])]]
  ELSE /\ round' = round + 1 /\ UNCHANGED stage
       /\ seeds' = newSeeds /\ statics' = newStatics /\ contracts' = updated

NewEffects(calls) ==
  [m \in Methods |->
     [contracts[m] EXCEPT !.effects =
        MethodArgumentEffects(m, calls, contracts[m].arguments, seeds)]]

InferEntryFacts ==
  /\ stage = "entries"
  /\ \E withEffects \in {NewEffects(Calls(contracts))} :
       \E reports \in {Reports(withEffects, Calls(withEffects), seeds)} :
         EntryRound(StaticFacts(reports, FALSE), StaticFacts(reports, TRUE),
                    [m \in Methods |-> [withEffects[m] EXCEPT
                                         !.arguments = PrivateArguments(m, reports)]])
  /\ UNCHANGED program

Infer == InferReturns \/ InferEffects \/ InferReturnFacts \/ InferFieldWrites \/ InferEntryFacts
=============================================================================
