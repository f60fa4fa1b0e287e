---------------------------- MODULE Disassembler ----------------------------
(***************************************************************************)
(* Decoding of a script into instructions                                  *)
(* (src/disassembler.rs, src/disassembler/operand.rs), with the length the *)
(* CFG builder recomputes from a decoded instruction                       *)
(* (src/decompiler/cfg/builder/offsets.rs).                                *)
(*                                                                         *)
(* Bytes are 0..(Base-1).  An encoding says how many operand bytes follow  *)
(* the opcode and how they are read: a signed or unsigned little-endian    *)
(* integer, raw bytes, or data behind a length prefix.                     *)
(***************************************************************************)
EXTENDS Integers, Sequences

CONSTANTS
    Base,           \* 256 in the program
    Encoding,       \* operand_encoding of each byte; "unknown": no such opcode
    MaxOperandLen,  \* MAX_OPERAND_LEN
    Scripts         \* the bytecode buffers under study

Byte == 0..(Base - 1)

\* "immediate" opcodes (PUSH0..PUSH16, PUSHT, ...) carry a constant of their
\* own and no operand bytes.
Kinds == {"none", "immediate", "signed", "unsigned", "bytes", "data", "unknown"}

\* OperandEncoding; `len` is the number of operand bytes, of prefix bytes for
\* "data".
OperandEncoding == [kind : Kinds, len : Nat]

ASSUME BaseAssumption == Base \in Nat \ {0}

ASSUME EncodingAssumption ==
    /\ Encoding \in [Byte -> OperandEncoding]
    /\ \A b \in Byte :
        /\ Encoding[b].kind \in {"none", "immediate"} => Encoding[b].len = 0
        /\ Encoding[b].kind = "data" => Encoding[b].len \in {1, 2, 4}

ASSUME LimitAssumption == MaxOperandLen \in Nat

ASSUME ScriptsAssumption == Scripts \subseteq Seq(Byte)

VARIABLES
    bytecode,
    permit,         \* UnknownHandling::Permit
    at,             \* the decoder's pc: bytes consumed so far
    instructions,
    warnings,       \* offsets of the unknown opcodes met
    result          \* "running", "ok" or the error

vars == <<bytecode, permit, at, instructions, warnings, result>>

-----------------------------------------------------------------------------
None == [kind |-> "none"]
Int_(v) == [kind |-> "int", value |-> v]
Bytes(s) == [kind |-> "bytes", bytes |-> s]

\* The constant an opcode stands for (immediate_constant); which constant it
\* is plays no part here.
Immediate(opcode) == [kind |-> "constant", opcode |-> opcode]

\* The slice read_slice returns, when it lies in the buffer.
Slice(start, len) == [i \in 1..len |-> bytecode[start + i]]

\* Mutant: the bound is strict.
FitsMutant(start, len) == start + len < Len(bytecode)

\* The range check of read_slice.
Fits(start, len) == start + len <= Len(bytecode)

\* read_u16_le, read_u32_le and the single-byte length.
Prefix(b) ==
    IF Len(b) = 1 THEN b[1]
    ELSE IF Len(b) = 2 THEN b[1] + Base * b[2]
    ELSE b[1] + Base * (b[2] + Base * (b[3] + Base * b[4]))

\* The number of values n bytes have.
Power[n \in Nat] == IF n = 0 THEN 1 ELSE Base * Power[n - 1]

\* Mutant: the bytes are taken in the other order.
BigEndianMutant(b) ==
    LET value[i \in 0..Len(b)] == IF i = 0 THEN 0 ELSE Base * value[i - 1] + b[i]
    IN  value[Len(b)]

\* from_le_bytes of any width.
LittleEndian(b) ==
    LET value[i \in 0..Len(b)] ==
            IF i = 0 THEN 0 ELSE Base * value[i - 1] + b[Len(b) - i + 1]
    IN  value[Len(b)]

\* The same as a signed integer: the upper half of the range is negative.
Signed(b) ==
    LET v == LittleEndian(b)
    IN  IF 2 * v >= Power[Len(b)] THEN v - Power[Len(b)] ELSE v

\* The opcode byte at the decoder's position, and its encoding.
Opcode == bytecode[at + 1]
Enc == Encoding[Opcode]

\* read_bytes_prefixed: the length of the data behind the prefix.
DataLen == Prefix(Slice(at + 1, Enc.len))

\* Operand bytes consumed; the prefix counts.
Consumed == IF Enc.kind = "data" THEN Enc.len + DataLen ELSE Enc.len

\* read_operand
Operand ==
    CASE Enc.kind = "none"      -> None
      [] Enc.kind = "immediate" -> Immediate(Opcode)
      [] Enc.kind = "signed"    -> Int_(Signed(Slice(at + 1, Enc.len)))
      [] Enc.kind = "unsigned"  -> Int_(LittleEndian(Slice(at + 1, Enc.len)))
      [] Enc.kind = "bytes"     -> Bytes(Slice(at + 1, Enc.len))
      [] OTHER                  -> Bytes(Slice(at + 1 + Enc.len, DataLen))

Instruction(offset, opcode, operand) ==
    [offset |-> offset, opcode |-> opcode, operand |-> operand]

\* CfgBuilder's bytes_len and instruction_len_fallback.
BytesLen(ins) == IF ins.operand.kind = "bytes" THEN Len(ins.operand.bytes) ELSE 0

InstructionLenFallback(ins) ==
    LET e == Encoding[ins.opcode]
    IN  IF e.kind = "data" THEN 1 + e.len + BytesLen(ins)
        ELSE IF e.kind = "unknown" THEN 1
        ELSE 1 + e.len

-----------------------------------------------------------------------------
Init ==
    /\ bytecode \in Scripts
    /\ permit \in BOOLEAN
    /\ at = 0
    /\ instructions = <<>>
    /\ warnings = <<>>
    /\ result = "running"

More == result = "running" /\ at < Len(bytecode)

\* An unknown byte becomes an instruction of its own, with a warning.
PermitUnknown ==
    /\ More
    /\ Enc.kind = "unknown"
    /\ permit
    /\ warnings' = Append(warnings, at)
    /\ instructions' = Append(instructions, Instruction(at, Opcode, None))
    /\ at' = at + 1
    /\ UNCHANGED <<bytecode, permit, result>>

\* Mutant: the loop goes on without the error and without advancing.
RejectUnknownMutant ==
    /\ More
    /\ Enc.kind = "unknown"
    /\ ~permit
    /\ UNCHANGED vars

\* UnknownHandling::Error ends the decoding.
RejectUnknown ==
    /\ More
    /\ Enc.kind = "unknown"
    /\ ~permit
    /\ result' = "UnknownOpcode"
    /\ UNCHANGED <<bytecode, permit, at, instructions, warnings>>

\* The prefix, or a fixed operand, runs past the end of the buffer.
PrefixMissing == ~Fits(at + 1, Enc.len)

TooLarge == Enc.kind = "data" /\ DataLen > MaxOperandLen

DataMissing == Enc.kind = "data" /\ ~Fits(at + 1 + Enc.len, DataLen)

\* Checks in the order read_operand makes them.
Eof ==
    /\ More
    /\ Enc.kind # "unknown"
    /\ IF PrefixMissing THEN TRUE ELSE ~TooLarge /\ DataMissing
    /\ result' = "UnexpectedEof"
    /\ UNCHANGED <<bytecode, permit, at, instructions, warnings>>

OperandTooLarge ==
    /\ More
    /\ Enc.kind # "unknown"
    /\ ~PrefixMissing
    /\ TooLarge
    /\ result' = "OperandTooLarge"
    /\ UNCHANGED <<bytecode, permit, at, instructions, warnings>>

\* Mutant: the prefix of a data operand is not skipped.
DecodeMutant ==
    /\ More
    /\ Enc.kind # "unknown"
    /\ ~PrefixMissing /\ ~TooLarge /\ ~DataMissing
    /\ instructions' = Append(instructions, Instruction(at, Opcode, Operand))
    /\ at' = at + 1 + (IF Enc.kind = "data" THEN DataLen ELSE Enc.len)
    /\ UNCHANGED <<bytecode, permit, warnings, result>>

\* decode_known_instruction
Decode ==
    /\ More
    /\ Enc.kind # "unknown"
    /\ ~PrefixMissing /\ ~TooLarge /\ ~DataMissing
    /\ instructions' = Append(instructions, Instruction(at, Opcode, Operand))
    /\ at' = at + 1 + Consumed
    /\ UNCHANGED <<bytecode, permit, warnings, result>>

\* Mutant: the loop condition leaves the last byte.
EndMutant ==
    /\ result = "running"
    /\ at >= Len(bytecode) - 1
    /\ result' = "ok"
    /\ UNCHANGED <<bytecode, permit, at, instructions, warnings>>

End ==
    /\ result = "running"
    /\ at >= Len(bytecode)
    /\ result' = "ok"
    /\ UNCHANGED <<bytecode, permit, at, instructions, warnings>>

Finished == result # "running" /\ UNCHANGED vars

Next == PermitUnknown \/ RejectUnknown \/ Eof \/ OperandTooLarge \/ Decode \/ End \/ Finished

Spec == Init /\ [][Next]_vars /\ WF_vars(Next)

-----------------------------------------------------------------------------
\* Shapes; the decoder never moves past the end of the buffer.
TypeOK ==
    /\ bytecode \in Scripts
    /\ permit \in BOOLEAN
    /\ at \in 0..Len(bytecode)
    /\ Len(warnings) <= Len(instructions)
    /\ result \in {"running", "ok", "UnknownOpcode", "UnexpectedEof", "OperandTooLarge"}

EndOf(ins) == ins.offset + InstructionLenFallback(ins)

\* The instructions lie end to end from offset 0 to the decoder's position,
\* measured by the length the CFG builder recomputes for each of them: the end
\* offset it takes for the last instruction is the end of the script, and a
\* successful decoding has reached it.
Tiles ==
    /\ \A i \in DOMAIN instructions :
        /\ instructions[i].offset = (IF i = 1 THEN 0 ELSE EndOf(instructions[i - 1]))
        /\ instructions[i].opcode = bytecode[instructions[i].offset + 1]
    /\ at = (IF instructions = <<>> THEN 0 ELSE EndOf(instructions[Len(instructions)]))
    /\ result = "ok" => at = Len(bytecode)

OperandIsTheBytes(script, ins) ==
    LET e == Encoding[ins.opcode]
        raw == [k \in 1..e.len |-> script[ins.offset + 1 + k]]
    IN  /\ e.kind = "data" =>
            /\ LittleEndian(raw) = Len(ins.operand.bytes)
            /\ ins.operand.bytes = [k \in 1..Len(ins.operand.bytes) |->
                                       script[ins.offset + 1 + e.len + k]]
        /\ e.kind = "signed" => /\ 2 * ins.operand.value < Power[e.len]
                                /\ 2 * ins.operand.value >= -Power[e.len]
        /\ e.kind \in {"signed", "unsigned"} =>
            \A k \in 1..e.len :
                raw[k] = ((ins.operand.value % Power[e.len]) \div Power[k - 1]) % Base

\* The bytes of an operand that is data are the buffer's, right behind the
\* prefix that gives their number; an integer operand reads back as the bytes
\* it came from, and a signed one lies in the two's complement range of its
\* width.
OperandsAreTheBytes == \A i \in DOMAIN instructions : OperandIsTheBytes(bytecode, instructions[i])

\* UnexpectedEof is reported for an instruction that really runs past the end
\* of the buffer, and OperandTooLarge only when its length could be read.
ErrorsAreGenuine ==
    /\ result = "UnexpectedEof" => at + 1 + Enc.len > Len(bytecode)
                                   \/ (DataLen <= MaxOperandLen /\ at + 1 + Consumed > Len(bytecode))
    /\ result = "OperandTooLarge" => at + 1 + Enc.len <= Len(bytecode) /\ DataLen > MaxOperandLen

\* Decoding ends.
Terminates == <>(result # "running")
=============================================================================
