------------------------- MODULE CallGraphExecution -------------------------
(***************************************************************************)
(* A script executed by the Neo VM next to its call graph.                 *)
(*                                                                         *)
(* A call opens a frame of its own and shares the evaluation stack;        *)
(* INITSLOT pops the arguments off it.  Values are pointers, references to *)
(* arrays, and anything else.                                              *)
(***************************************************************************)
EXTENDS CallGraph

CONSTANT
  MaxFrames   (* nested calls executed                                     *)

ASSUME MaxFramesAssumption == MaxFrames \in Nat \ {0}

VARIABLES
  frames,     (* the invocation stack, the current frame last              *)
  stack,      (* the evaluation stack, its top last                        *)
  statics,    (* the static fields written so far                          *)
  heap,       (* the arrays                                                *)
  raised      (* is an exception waiting for a finally block to end?       *)

vmVars == <<frames, stack, statics, heap, raised>>
vars == <<analysisVars, vmVars>>

Pointer(n) == [k |-> "ptr", n |-> n]
Array(n) == [k |-> "arr", n |-> n]
Other == [k |-> "other", n |-> 0]
Values == [k : {"ptr", "arr", "other"}, n : Nat]

Entered(m) == [ip |-> m, start |-> m, args |-> <<>>, locals |-> <<>>, tries |-> <<>>]
frame == Last(frames)
ip == frame.ip
instr == script[ip]

ExecInit == Init /\ frames = <<Entered(1)>> /\ stack = <<>> /\ statics = <<>> /\ heap = <<>>
            /\ raised = FALSE

Analyze == Next /\ UNCHANGED vmVars

-----------------------------------------------------------------------------
Running(ops) ==
  /\ stage = "done" /\ frames # <<>>
  /\ Valid(ip) /\ instr.op \in ops

Top(n) == stack[Len(stack) + 1 - n]
Has(n) == Len(stack) >= n
Drop(n) == SubSeq(stack, 1, Len(stack) - n)
Read(slots, n) == IF n \in DOMAIN slots THEN slots[n] ELSE Other
Write(slots, n, v) == (n :> v) @@ slots
GoTo(t) == frames' = [frames EXCEPT ![Len(frames)].ip = t]
Advance == GoTo(ip + 1)

Push ==
  /\ Running({"push", "pusha", "newarray", "ldloc", "ldsfld", "ldarg", "dup"})
  /\ instr.op = "dup" => Has(1)
  /\ stack' = Append(stack,
       CASE instr.op = "push" -> Other
         [] instr.op = "pusha" -> Pointer(instr.n)
         [] instr.op = "newarray" -> Array(Len(heap) + 1)
         [] instr.op = "ldloc" -> Read(frame.locals, instr.n)
         [] instr.op = "ldsfld" -> Read(statics, instr.n)
         [] instr.op = "ldarg" -> Read(frame.args, instr.n)
         [] instr.op = "dup" -> Top(1))
  /\ heap' = IF instr.op = "newarray" THEN Append(heap, <<>>) ELSE heap
  /\ Advance
  /\ UNCHANGED <<analysisVars, statics, raised>>

StoreSlot ==
  /\ Running({"stloc", "stsfld", "starg"}) /\ Has(1)
  /\ stack' = Drop(1)
  /\ statics' = IF instr.op = "stsfld" THEN Write(statics, instr.n, Top(1)) ELSE statics
  /\ frames' = [frames EXCEPT ![Len(frames)] =
       [@ EXCEPT !.ip = ip + 1,
                 !.locals = IF instr.op = "stloc" THEN Write(@, instr.n, Top(1)) ELSE @,
                 !.args = IF instr.op = "starg" THEN Write(@, instr.n, Top(1)) ELSE @]]
  /\ UNCHANGED <<analysisVars, heap, raised>>

(* APPEND; PICKITEM reads any of the items, as the index is not modelled.  *)
UseArray ==
  /\ Running({"append", "pickitem"}) /\ Has(2)
  /\ \/ /\ instr.op = "append" /\ Top(2).k = "arr"
        /\ heap' = [heap EXCEPT ![Top(2).n] = Append(@, Top(1))]
        /\ stack' = Drop(2)
     \/ /\ instr.op = "pickitem" /\ Top(2).k = "arr"
        /\ \E item \in Range(heap[Top(2).n]) : stack' = Append(Drop(2), item)
        /\ UNCHANGED heap
  /\ Advance
  /\ UNCHANGED <<analysisVars, statics, raised>>

(* INITSLOT takes the arguments off the stack, the first from its top.     *)
InitSlot ==
  /\ Running({"initslot", "initsslot", "nop"})
  /\ \/ /\ instr.op = "initslot" /\ Has(instr.n)
        /\ frames' = [frames EXCEPT ![Len(frames)].ip = ip + 1,
                        ![Len(frames)].args = [a \in 0 .. instr.n - 1 |-> Top(a + 1)]]
        /\ stack' = Drop(instr.n)
     \/ instr.op # "initslot" /\ Advance /\ UNCHANGED stack
  /\ UNCHANGED <<analysisVars, statics, heap, raised>>

Jump ==
  /\ Running({"jmp", "jmpif"})
  /\ \/ GoTo(instr.n) /\ UNCHANGED stack
     \/ instr.op = "jmpif" /\ Advance /\ UNCHANGED stack
  /\ UNCHANGED <<analysisVars, stack, statics, heap, raised>>

Call ==
  /\ Running({"call", "calla"}) /\ Len(frames) < MaxFrames
  /\ \/ /\ instr.op = "call" /\ Valid(instr.n)
        /\ frames' = Append([frames EXCEPT ![Len(frames)].ip = ip + 1], Entered(instr.n))
        /\ UNCHANGED stack
     \/ /\ instr.op = "calla" /\ Has(1) /\ Top(1).k = "ptr" /\ Valid(Top(1).n)
        /\ frames' = Append([frames EXCEPT ![Len(frames)].ip = ip + 1], Entered(Top(1).n))
        /\ stack' = Drop(1)
  /\ UNCHANGED <<analysisVars, statics, heap, raised>>

(* A system call or a method token: outside the script.                    *)
CallOut ==
  /\ Running({"syscall", "callt"})
  /\ Advance /\ stack' = Append(stack, Other)
  /\ UNCHANGED <<analysisVars, statics, heap, raised>>

Return ==
  /\ Running({"ret"})
  /\ frames' = Front(frames)
  /\ UNCHANGED <<analysisVars, stack, statics, heap, raised>>

(* A TRY pushes its context; ENDTRY leaves it, through the finally block   *)
(* when there is one; ENDFINALLY resumes what ENDTRY saved.  A handler that *)
(* a TRY has not is the TRY itself.                                        *)
Handler(t) == IF t = ip THEN 0 ELSE t
context == Last(frame.tries)
WithTries(tries, t) == [frames EXCEPT ![Len(frames)].tries = tries, ![Len(frames)].ip = t]

Try ==
  /\ Running({"try", "endtry", "endfinally"})
  /\ instr.op # "try" => frame.tries # <<>>
  /\ \/ /\ instr.op = "try" /\ {Handler(instr.n), Handler(instr.finally)} # {0}
        /\ frames' = WithTries(Append(frame.tries,
                        [catch |-> Handler(instr.n), finally |-> Handler(instr.finally),
                         state |-> "try", end |-> 0]), ip + 1)
     \/ /\ instr.op = "endtry" /\ context.state # "finally"
        /\ frames' = IF context.finally = 0 THEN WithTries(Front(frame.tries), instr.n)
                     ELSE WithTries(Append(Front(frame.tries),
                            [context EXCEPT !.state = "finally", !.end = instr.n]), context.finally)
     \/ /\ instr.op = "endfinally" /\ ~raised
        /\ frames' = WithTries(Front(frame.tries), context.end)
  /\ UNCHANGED <<analysisVars, stack, statics, heap, raised>>

(* An exception unwinds to the nearest context that catches it or has a    *)
(* finally block to run; ENDFINALLY raises it again.  Nothing handling it, *)
(* the execution ends.                                                     *)
Handles(c) == (c.state = "try" /\ c.catch # 0) \/ (c.state # "finally" /\ c.finally # 0)
Unwind(stacked) ==
  LET Handlers(f) == {k \in DOMAIN f.tries : Handles(f.tries[k])}
      handling == {n \in DOMAIN stacked : Handlers(stacked[n]) # {}}
      f == stacked[Max(handling)]
      c == f.tries[Max(Handlers(f))]
      catching == c.state = "try" /\ c.catch # 0
  IN IF handling = {} THEN frames' = <<>> /\ raised' = TRUE /\ UNCHANGED stack
     ELSE /\ frames' = Append(SubSeq(stacked, 1, Max(handling) - 1),
                 [f EXCEPT !.ip = IF catching THEN c.catch ELSE c.finally,
                           !.tries = Append(SubSeq(@, 1, Max(Handlers(f)) - 1),
                              [c EXCEPT !.state = IF catching THEN "catch" ELSE "finally"])])
          /\ raised' = ~catching
          /\ stack' = IF catching THEN Append(stack, Other) ELSE stack

Throw ==
  /\ \/ Running({"throw"}) /\ Unwind(frames)
     \/ /\ Running({"endfinally"}) /\ raised /\ frame.tries # <<>>
        /\ Unwind([frames EXCEPT ![Len(frames)].tries = Front(@)])
  /\ UNCHANGED <<analysisVars, statics, heap>>

ExecNext ==
  \/ Analyze \/ Push \/ StoreSlot \/ UseArray \/ InitSlot \/ Jump
  \/ Call \/ CallOut \/ Return \/ Try \/ Throw

(* The analysis is a plain loop of one thread: it takes its next step.     *)
ExecSpec == ExecInit /\ [][ExecNext]_vars /\ WF_vars(Analyze)

-----------------------------------------------------------------------------
Targets == Nat \cup {None}

(* A CALLA that the call graph resolves to a method never calls another    *)
(* one: the pointer on the stack when it runs is the one that was traced   *)
(* through slots, arrays, arguments and callers.                           *)
PointersSound ==
  Running({"calla"}) /\ edges[ip].kind = "internal" /\ Has(1) => Top(1) = Pointer(edges[ip].m)

(* The two resolutions of argument pointers, MethodTable::new and          *)
(* resolve_ldarg_calla_targets, find the same methods: every callee of the *)
(* graph has a span of its own, and every call is attributed to the span   *)
(* it lies in.                                                             *)
TargetsAreStarts ==
  stage = "done" =>
    /\ methods = starts
    /\ \A i \in DOMAIN edges : edges[i].caller = MethodOf(i, methods)

(* The starts inferred for presentation cut no method in two: a frame that *)
(* was entered at a call target, the entry or an exported method executes  *)
(* only instructions listed under that method.                             *)
FramesStayInside ==
  stage = "done" /\ frames # <<>> /\ Valid(ip) =>
    MethodOf(ip, InferredMethodStarts) = MethodOf(frame.start, InferredMethodStarts)

(* Both loops over the pointer arguments end: a call resolved in a round   *)
(* gives no further progress.                                              *)
CallGraphCompletes == <>(stage = "done")

=============================================================================
