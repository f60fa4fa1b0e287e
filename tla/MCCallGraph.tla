----------------------------- MODULE MCCallGraph -----------------------------
(* Scripts on which pointers are traced and executed.                      *)
EXTENDS CallGraphExecution

I(op) == [op |-> op, n |-> 0]
J(op, n) == [op |-> op, n |-> n]
TryAt(catch, finally) == [op |-> "try", n |-> catch, finally |-> finally]
Ret == <<I("ret")>>

(* Two callees that stand at the end of a script of the given length.      *)
Callees == <<I("push"), I("ret"), J("initslot", 0), I("ret")>>
First(body) == Len(body) + 1

(* Everything a few instructions can do with pointers and slots: every     *)
(* body of four instructions in front of a CALLA.  The callees are at 7    *)
(* and at 9.                                                               *)
Moves == {J("pusha", 7), J("pusha", 9), I("ldloc"), I("stloc"), I("ldsfld"), I("stsfld"),
          I("dup"), I("nop"), I("push")}
ShortBodies ==
  {<<a, b, c, d, I("calla"), I("ret")>> \o Callees :
     a \in {J("pusha", 7), J("pusha", 9), I("ldsfld")}, b \in Moves, c \in Moves, d \in Moves}

(* Pointers kept in an array: two appends, through the slot or an alias.   *)
Stores == {"stloc", "stsfld"}
LoadOf(store) == IF store = "stloc" THEN "ldloc" ELSE "ldsfld"
ArrayBody(x, y, p, q) ==
  <<I("newarray"), I(x), I(LoadOf(x)), I(y),
    I(LoadOf(x)), J("pusha", p), I("append"),
    I(LoadOf(y)), q, I("append"),
    I(LoadOf(x)), I("push"), I("pickitem"), I("calla"), I("ret")>> \o Callees
ArrayBodies ==
  {ArrayBody(x, y, p, q) : x \in Stores, y \in Stores, p \in {16, 18},
                           q \in {J("pusha", 16), J("pusha", 18), I("push")}}

(* Pointers passed as arguments: the entry calls F, directly, through a    *)
(* pointer or through G, which passes its own argument on; F keeps the     *)
(* argument in a local or not, and calls it.  F is at 9, G at 15, the      *)
(* callees at 20 and at 22.                                                *)
Entry(p, q, call) == <<J("initslot", 0), p, q, I("nop")>> \o call \o <<I("ret"), I("ret")>>
Calls == {<<I("nop"), J("call", 9)>>, <<J("pusha", 9), I("calla")>>, <<I("nop"), J("call", 15)>>}
TakesPointer(count, a, keep) ==
  <<J("initslot", count), J("ldarg", a)>>
    \o (IF keep THEN <<I("stloc"), I("ldloc")>> ELSE <<I("nop"), I("dup")>>)
    \o <<I("calla"), I("ret")>>
PassesOn(a) == <<J("initslot", 2), J("ldarg", a), J("ldarg", a), J("call", 9), I("ret")>>
Passed == {J("pusha", 20), J("pusha", 22), I("push")}
ArgumentBodies ==
  {Entry(p, q, call) \o TakesPointer(2, a, keep) \o PassesOn(b) \o Callees :
     p \in Passed, q \in Passed, call \in Calls, a \in {0, 1}, b \in {0, 1}, keep \in BOOLEAN}

(* A static delegate that a later initializer sets, used by the entry; the *)
(* other calls leave the script or name no instruction.                    *)
StaticBodies ==
  {<<J("call", 6), I("ldsfld"), I("calla"), out, I("ret"),
     I("initsslot"), J("initslot", 0), J("pusha", p), keep, I("stsfld"), I("ret")>> \o Callees :
     p \in {12, 14}, keep \in {I("nop"), I("dup")},
     out \in {I("syscall"), J("callt", 0), J("callt", 1), J("call", 99)}}

(* Control flow within the entry, which another method follows; a try      *)
(* block with a catch block, a finally block, or both.                     *)
Flow == {J("jmp", 2), J("jmp", 5), J("jmpif", 2), J("jmpif", 4), J("jmpif", 5), J("endtry", 4),
         J("endtry", 5), I("ret"), I("throw")}
Neighbour == <<J("initslot", 0), I("ret")>>
FlowBodies ==
  {<<a, b, c, d, e>> \o Neighbour :
     a \in {J("call", 6), J("jmpif", 3), J("jmpif", 4), TryAt(3, 1), TryAt(4, 1)},
     b \in Flow, c \in Flow, d \in Flow, e \in {I("ret"), J("jmp", 2)}}
FinallyFlow == {J("jmp", 5), J("endtry", 5), I("throw"), I("endfinally"), I("nop"), I("ret")}
FinallyBodies ==
  {<<a, b, c, d, e>> \o Neighbour :
     a \in {TryAt(1, 3), TryAt(1, 4), TryAt(3, 4), TryAt(4, 3)},
     b \in {J("endtry", 5), I("throw"), J("jmpif", 5), TryAt(4, 2), TryAt(2, 5)},
     c \in FinallyFlow, d \in FinallyFlow, e \in {I("ret"), I("endfinally")}}

Exporting(scripts, offsets) == {[script |-> s, abi |-> offsets] : s \in scripts}

AllContracts ==
  Exporting(ShortBodies, {}) \cup Exporting(ArrayBodies, {}) \cup Exporting(StaticBodies, {1, 6})
    \cup Exporting(ArgumentBodies, {15}) \cup Exporting(FlowBodies \cup FinallyBodies, {6})

=============================================================================
