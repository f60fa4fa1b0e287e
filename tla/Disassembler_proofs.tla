------------------------- MODULE Disassembler_proofs -------------------------
(***************************************************************************)
(* Proofs about the disassembler, for every instruction set, operand limit *)
(* and script.                                                             *)
(*                                                                         *)
(* Tiles is not inductive: that the next instruction starts where the last *)
(* one ends is a fact about `at`, which has to be known to lie in the      *)
(* buffer for the opcode under it to be a byte with an encoding.  The      *)
(* inductive invariant adds the type invariant and that the outputs are    *)
(* sequences.                                                              *)
(***************************************************************************)
EXTENDS Disassembler, NaturalFacts

\* The decoder's outputs are sequences (of what, the tiling does not need).
OutputsAreSequences ==
    /\ \E S : instructions \in Seq(S)
    /\ warnings \in Seq(Nat)

Inv == TypeOK /\ OutputsAreSequences /\ Tiles

-----------------------------------------------------------------------------
\* Reading in range yields bytes, as many as asked for.
LEMMA SliceIsBytes ==
    ASSUME bytecode \in Seq(Byte), NEW start \in Nat, NEW len \in Nat, Fits(start, len)
    PROVE  Slice(start, len) \in Seq(Byte) /\ Len(Slice(start, len)) = len
<1>1. \A i \in 1..len : bytecode[start + i] \in Byte
    BY DEF Fits
<1>2. Slice(start, len) \in [1..len -> Byte]
    BY <1>1 DEF Slice
<1>3. QED
    BY <1>2

\* While there is input the byte at the decoder's position has an encoding.
LEMMA OpcodeHasEncoding ==
    ASSUME TypeOK, More
    PROVE  /\ bytecode \in Seq(Byte)
           /\ at \in Nat
           /\ Opcode \in Byte
           /\ Enc \in OperandEncoding
           /\ Enc = Encoding[Opcode]
<1>1. bytecode \in Seq(Byte) /\ at \in Nat /\ at + 1 \in 1..Len(bytecode)
    BY ScriptsAssumption DEF TypeOK, More
<1>2. Opcode \in Byte
    BY <1>1 DEF Opcode
<1>3. QED
    BY <1>1, <1>2, EncodingAssumption DEF Enc

\* A length prefix that is there denotes a natural number.
LEMMA DataLenIsNat ==
    ASSUME TypeOK, More, ~PrefixMissing, Enc.kind = "data"
    PROVE  DataLen \in Nat
<1>1. /\ bytecode \in Seq(Byte) /\ at \in Nat
      /\ Opcode \in Byte /\ Enc = Encoding[Opcode]
    BY OpcodeHasEncoding
<1>2. Enc.len \in {1, 2, 4}
    BY <1>1, EncodingAssumption
<1> DEFINE b == Slice(at + 1, Enc.len)
<1>3. b \in Seq(Byte) /\ Len(b) = Enc.len
    BY <1>1, <1>2, SliceIsBytes DEF PrefixMissing
<1>4. \A i \in 1..Enc.len : b[i] \in Nat
    BY <1>3, BaseAssumption DEF Byte
<1> HIDE DEF b
<1>5. CASE Enc.len = 1
    <2>1. Prefix(b) = b[1] BY <1>3, <1>5 DEF Prefix
    <2>2. QED BY <2>1, <1>4, <1>5 DEF DataLen, b
<1>6. CASE Enc.len = 2
    <2>1. Prefix(b) = b[1] + Base * b[2] BY <1>3, <1>6 DEF Prefix
    <2>2. b[1] \in Nat /\ b[2] \in Nat BY <1>4, <1>6
    <2>3. QED BY <2>1, <2>2, BaseAssumption DEF DataLen, b
<1>7. CASE Enc.len = 4
    <2>1. Prefix(b) = b[1] + Base * (b[2] + Base * (b[3] + Base * b[4]))
        BY <1>3, <1>7 DEF Prefix
    <2>2. b[1] \in Nat /\ b[2] \in Nat /\ b[3] \in Nat /\ b[4] \in Nat BY <1>4, <1>7
    <2>3. Base * b[4] \in Nat BY <2>2, BaseAssumption
    <2>4. Base * (b[3] + Base * b[4]) \in Nat BY <2>2, <2>3, BaseAssumption
    <2>5. Base * (b[2] + Base * (b[3] + Base * b[4])) \in Nat
        BY <2>2, <2>4, BaseAssumption
    <2>6. QED BY <2>1, <2>2, <2>5 DEF DataLen, b
<1>8. QED
    BY <1>2, <1>5, <1>6, <1>7

\* An instruction that decodes ends in the buffer, and the length the CFG
\* builder recomputes for it is the number of bytes the decoder consumed.
LEMMA DecodedLength ==
    ASSUME TypeOK, Decode
    PROVE  /\ Consumed \in Nat
           /\ at + 1 + Consumed <= Len(bytecode)
           /\ EndOf(Instruction(at, Opcode, Operand)) = at + 1 + Consumed
<1> DEFINE new == Instruction(at, Opcode, Operand)
<1>1. /\ bytecode \in Seq(Byte) /\ at \in Nat /\ Opcode \in Byte
      /\ Enc \in OperandEncoding /\ Enc = Encoding[Opcode]
    BY OpcodeHasEncoding DEF Decode
<1>2. Enc.len \in Nat /\ Enc.kind \in Kinds
    BY <1>1 DEF OperandEncoding
<1>3. new.offset = at /\ new.opcode = Opcode /\ new.operand = Operand
    BY DEF Instruction
<1>4. CASE Enc.kind = "data"
    <2>1. DataLen \in Nat
        BY <1>4, DataLenIsNat DEF Decode
    <2>2. Fits(at + 1 + Enc.len, DataLen)
        BY <1>4 DEF Decode, DataMissing
    <2>3. at + 1 + Enc.len \in Nat
        BY <1>1, <1>2
    <2>4. Len(Slice(at + 1 + Enc.len, DataLen)) = DataLen
        BY <1>1, <2>1, <2>2, <2>3, SliceIsBytes
    <2>5. Operand = Bytes(Slice(at + 1 + Enc.len, DataLen))
        BY <1>4 DEF Operand
    <2>6. BytesLen(new) = DataLen
        BY <1>3, <2>4, <2>5 DEF BytesLen, Bytes
    <2>7. InstructionLenFallback(new) = 1 + Enc.len + DataLen
        BY <1>1, <1>3, <1>4, <2>6 DEF InstructionLenFallback
    <2>8. Consumed = Enc.len + DataLen
        BY <1>4 DEF Consumed
    <2>9. at + 1 + Enc.len + DataLen <= Len(bytecode)
        BY <2>2 DEF Fits
    <2>10. Len(bytecode) \in Nat
        BY <1>1
    <2>11. EndOf(new) = at + (1 + Enc.len + DataLen)
        BY <1>3, <2>7 DEF EndOf
    <2> HIDE DEF new
    <2>12. EndOf(new) = at + 1 + Consumed
        BY <1>1, <1>2, <2>1, <2>8, <2>11
    <2>13. Consumed \in Nat /\ at + 1 + Consumed <= Len(bytecode)
        BY <1>1, <1>2, <2>1, <2>8, <2>9, <2>10
    <2>14. QED
        BY <2>12, <2>13 DEF new
<1>5. CASE Enc.kind # "data"
    <2>1. Consumed = Enc.len
        BY <1>5 DEF Consumed
    <2>2. Enc.kind # "unknown" /\ ~PrefixMissing
        BY DEF Decode
    <2>3. InstructionLenFallback(new) = 1 + Enc.len
        BY <1>1, <1>3, <1>5, <2>2 DEF InstructionLenFallback
    <2>4. at + 1 + Enc.len <= Len(bytecode)
        BY <1>1, <1>2, <2>2 DEF PrefixMissing, Fits
    <2>5. EndOf(new) = at + (1 + Enc.len)
        BY <1>3, <2>3 DEF EndOf
    <2> HIDE DEF new
    <2>6. EndOf(new) = at + 1 + Consumed
        BY <1>1, <1>2, <2>1, <2>5
    <2>7. QED
        BY <1>1, <1>2, <2>1, <2>4, <2>6 DEF new
<1>6. QED
    BY <1>4, <1>5

\* Appending an instruction that starts at the decoder's position and ends at
\* its next one keeps the tiling.
LEMMA AppendTiles ==
    ASSUME Tiles, OutputsAreSequences, NEW ins, ins.offset = at,
           ins.opcode = bytecode[at + 1], EndOf(ins) = at',
           instructions' = Append(instructions, ins), bytecode' = bytecode,
           result' = "running"
    PROVE  Tiles' /\ (\E S : instructions' \in Seq(S))
           /\ Len(instructions') = Len(instructions) + 1
<1>1. PICK S : instructions \in Seq(S)
    BY DEF OutputsAreSequences
<1> DEFINE T == S \cup {ins}
<1>2. instructions \in Seq(T)
    BY <1>1
<1>3. ins \in T
    OBVIOUS
<1> HIDE DEF T
<1> DEFINE n == Len(instructions)
<1>4. n \in Nat /\ DOMAIN instructions = 1..n
    BY <1>2
<1>5. /\ instructions' \in Seq(T)
      /\ Len(instructions') = n + 1
      /\ DOMAIN instructions' = 1..(n + 1)
      /\ \A i \in 1..n : instructions'[i] = instructions[i]
      /\ instructions'[n + 1] = ins
    BY <1>2, <1>3
<1>6. instructions = <<>> <=> n = 0
    BY <1>2
<1>7. at = (IF n = 0 THEN 0 ELSE EndOf(instructions[n]))
    BY <1>6 DEF Tiles
<1>8. \A i \in 1..n : 
        /\ instructions[i].offset = (IF i = 1 THEN 0 ELSE EndOf(instructions[i - 1]))
        /\ instructions[i].opcode = bytecode[instructions[i].offset + 1]
    BY <1>4 DEF Tiles
<1>9. ASSUME NEW i \in 1..(n + 1)
      PROVE  /\ instructions'[i].offset = (IF i = 1 THEN 0 ELSE EndOf(instructions'[i - 1]))
             /\ instructions'[i].opcode = bytecode'[instructions'[i].offset + 1]
    <2>1. CASE i \in 1..n
        <3>1. i # 1 => i - 1 \in 1..n
            BY <1>4, <2>1
        <3>2. QED
            BY <1>5, <1>8, <2>1, <3>1
    <2>2. CASE i = n + 1
        <3>1. n = 0 \/ (n # 0 /\ n \in 1..n /\ i - 1 = n /\ i # 1)
            BY <1>4, <2>2
        <3>2. QED
            BY <1>5, <1>7, <2>2, <3>1
    <2>3. QED
        BY <1>4, <2>1, <2>2
<1>10. instructions' # <<>>
    BY <1>4, <1>5
<1>11. at' = EndOf(instructions'[Len(instructions')])
    BY <1>5
<1>13. Tiles'
    BY <1>5, <1>9, <1>10, <1>11 DEF Tiles, EndOf, InstructionLenFallback, BytesLen
<1>14. QED
    BY <1>5, <1>13

-----------------------------------------------------------------------------
LEMMA InitInv == Init => Inv
<1> SUFFICES ASSUME Init PROVE Inv
    OBVIOUS
<1>1. bytecode \in Seq(Byte)
    BY ScriptsAssumption DEF Init
<1>2. TypeOK
    BY <1>1 DEF Init, TypeOK
<1>3. OutputsAreSequences
    BY DEF Init, OutputsAreSequences
<1>4. Tiles
    BY DEF Init, Tiles
<1>5. QED
    BY <1>2, <1>3, <1>4 DEF Inv

\* The steps that change nothing but `result` keep the invariant.
LEMMA EndingInv ==
    ASSUME Inv, UNCHANGED <<bytecode, permit, at, instructions, warnings>>,
           result' \in {"running", "ok", "UnknownOpcode", "UnexpectedEof", "OperandTooLarge"},
           result' = "ok" => at = Len(bytecode)
    PROVE  Inv'
<1>1. TypeOK'
    BY DEF Inv, TypeOK
<1>2. OutputsAreSequences'
    BY DEF Inv, OutputsAreSequences
<1>3. Tiles'
    BY DEF Inv, Tiles, EndOf, InstructionLenFallback, BytesLen
<1>4. QED
    BY <1>1, <1>2, <1>3 DEF Inv

LEMMA NextInv == Inv /\ [Next]_vars => Inv'
<1> SUFFICES ASSUME Inv, [Next]_vars PROVE Inv'
    OBVIOUS
<1>1. TypeOK /\ OutputsAreSequences /\ Tiles
    BY DEF Inv
<1>2. bytecode \in Seq(Byte) /\ Len(bytecode) \in Nat /\ at \in 0..Len(bytecode)
    BY <1>1, ScriptsAssumption DEF TypeOK
<1>3. Len(instructions) \in Nat /\ Len(warnings) \in Nat
      /\ Len(warnings) <= Len(instructions)
    BY <1>1 DEF OutputsAreSequences, TypeOK
<1>4. CASE PermitUnknown
    <2> DEFINE new == Instruction(at, Opcode, None)
    <2>1. /\ Opcode \in Byte /\ Enc = Encoding[Opcode] /\ Enc.kind = "unknown"
        BY <1>1, <1>4, OpcodeHasEncoding DEF PermitUnknown
    <2>2. new.offset = at /\ new.opcode = Opcode /\ Opcode = bytecode[at + 1]
        BY DEF Instruction, Opcode
    <2>3. InstructionLenFallback(new) = 1
        BY <2>1, <2>2 DEF InstructionLenFallback
    <2>4. EndOf(new) = at + 1
        BY <2>2, <2>3 DEF EndOf
    <2>5. /\ instructions' = Append(instructions, new) /\ at' = at + 1
          /\ warnings' = Append(warnings, at)
          /\ bytecode' = bytecode /\ permit' = permit /\ result' = result
          /\ result' = "running"
          /\ at < Len(bytecode)
        BY <1>4 DEF PermitUnknown, More
    <2> HIDE DEF new
    <2>6. /\ Tiles' /\ (\E S : instructions' \in Seq(S))
          /\ Len(instructions') = Len(instructions) + 1
        BY <1>1, <2>2, <2>4, <2>5, AppendTiles
    <2>7. warnings' \in Seq(Nat) /\ Len(warnings') = Len(warnings) + 1
        BY <1>1, <1>2, <2>5 DEF OutputsAreSequences
    <2>8. TypeOK'
        BY <1>1, <1>2, <1>3, <2>5, <2>6, <2>7 DEF TypeOK
    <2>9. QED
        BY <2>6, <2>7, <2>8 DEF Inv, OutputsAreSequences
<1>5. CASE RejectUnknown
    BY <1>5, EndingInv DEF RejectUnknown
<1>6. CASE Eof
    BY <1>6, EndingInv DEF Eof
<1>7. CASE OperandTooLarge
    BY <1>7, EndingInv DEF OperandTooLarge
<1>8. CASE Decode
    <2> DEFINE new == Instruction(at, Opcode, Operand)
    <2>1. /\ Consumed \in Nat /\ at + 1 + Consumed <= Len(bytecode)
          /\ EndOf(new) = at + 1 + Consumed
        BY <1>1, <1>8, DecodedLength
    <2>2. new.offset = at /\ new.opcode = bytecode[at + 1]
        BY DEF Instruction, Opcode
    <2>3. /\ instructions' = Append(instructions, new) /\ at' = at + 1 + Consumed
          /\ UNCHANGED <<bytecode, permit, warnings, result>> /\ result' = "running"
        BY <1>8 DEF Decode, More
    <2> HIDE DEF new
    <2>4. EndOf(new) = at'
        BY <2>1, <2>3
    <2>5. /\ Tiles' /\ (\E S : instructions' \in Seq(S))
          /\ Len(instructions') = Len(instructions) + 1
        BY <1>1, <2>2, <2>3, <2>4, AppendTiles
    <2>6. at' \in 0..Len(bytecode)
        BY <1>2, <2>1, <2>3
    <2>7. TypeOK'
        BY <1>1, <1>3, <2>3, <2>5, <2>6 DEF TypeOK
    <2>8. OutputsAreSequences'
        BY <1>1, <2>3, <2>5 DEF OutputsAreSequences
    <2>9. QED
        BY <2>5, <2>7, <2>8 DEF Inv
<1>9. CASE End
    BY <1>2, <1>9, EndingInv DEF End
<1>10. CASE Finished \/ UNCHANGED vars
    <2>1. result' \in {"running", "ok", "UnknownOpcode", "UnexpectedEof", "OperandTooLarge"}
        BY <1>1, <1>10 DEF Finished, vars, TypeOK
    <2>2. result' = "ok" => at = Len(bytecode)
        BY <1>1, <1>10 DEF Finished, vars, Tiles
    <2>3. QED
        BY <1>10, <2>1, <2>2, EndingInv DEF Finished, vars
<1>11. QED
    BY <1>4, <1>5, <1>6, <1>7, <1>8, <1>9, <1>10 DEF Next

LEMMA Invariance == Spec => []Inv
<1>1. QED
    BY InitInv, NextInv, PTL DEF Spec

\* The decoder's position never leaves the buffer and every warning has an
\* instruction (disassemble_with_warnings), for every script.
THEOREM TypeCorrect == Spec => []TypeOK
<1>1. Inv => TypeOK
    BY DEF Inv
<1>2. QED
    BY <1>1, Invariance, PTL

\* The decoded instructions lie end to end, by the length the CFG builder
\* recomputes for them (instruction_len_fallback), and decoding succeeds only at
\* the exact end of the buffer, for every script.
THEOREM InstructionsTile == Spec => []Tiles
<1>1. Inv => Tiles
    BY DEF Inv
<1>2. QED
    BY <1>1, Invariance, PTL

\* An UnexpectedEof names an instruction that runs past the end of the buffer,
\* and OperandTooLarge one whose length could be read and exceeds the limit
\* (read_slice and the limit check of read_bytes_prefixed), for every script.
THEOREM ErrorsGenuine == Spec => []ErrorsAreGenuine
<1>1. Init => ErrorsAreGenuine
    BY DEF Init, ErrorsAreGenuine
<1>2. Inv /\ ErrorsAreGenuine /\ [Next]_vars => ErrorsAreGenuine'
    <2> SUFFICES ASSUME Inv, ErrorsAreGenuine, [Next]_vars PROVE ErrorsAreGenuine'
        OBVIOUS
    <2>1. TypeOK /\ Len(bytecode) \in Nat /\ at \in Nat
        BY ScriptsAssumption DEF Inv, TypeOK
    <2>2. CASE PermitUnknown \/ Decode \/ RejectUnknown \/ End
        BY <2>2 DEF PermitUnknown, Decode, RejectUnknown, End, More, ErrorsAreGenuine
    <2>3. CASE Eof
        <3>1. Enc.len \in Nat
            BY <2>1, <2>3, OpcodeHasEncoding DEF Eof, OperandEncoding
        <3>2. result' = "UnexpectedEof" /\ UNCHANGED <<bytecode, at>>
            BY <2>3 DEF Eof
        <3>3. CASE PrefixMissing
            <4>1. at + 1 + Enc.len > Len(bytecode)
                BY <2>1, <3>1, <3>3 DEF PrefixMissing, Fits
            <4>2. QED
                BY <3>2, <4>1 DEF ErrorsAreGenuine, Enc, Opcode
        <3>4. CASE ~PrefixMissing
            <4>1. Enc.kind = "data" /\ ~TooLarge /\ DataMissing
                BY <2>3, <3>4 DEF Eof, DataMissing
            <4>2. DataLen \in Nat
                BY <2>1, <2>3, <3>4, <4>1, DataLenIsNat DEF Eof
            <4>3. ~(at + 1 + Enc.len + DataLen <= Len(bytecode))
                BY <4>1 DEF DataMissing, Fits
            <4>4. at + 1 + Consumed > Len(bytecode)
                BY <2>1, <3>1, <4>1, <4>2, <4>3 DEF Consumed
            <4>5. DataLen <= MaxOperandLen
                BY <4>1, <4>2, LimitAssumption DEF TooLarge
            <4>6. QED
                BY <3>2, <4>4, <4>5 DEF ErrorsAreGenuine, Consumed, DataLen, Slice, Enc, Opcode
        <3>5. QED
            BY <3>3, <3>4
    <2>4. CASE OperandTooLarge
        <3>1. at + 1 + Enc.len <= Len(bytecode) /\ DataLen > MaxOperandLen
            BY <2>4 DEF OperandTooLarge, PrefixMissing, Fits, TooLarge
        <3>2. result' = "OperandTooLarge" /\ UNCHANGED <<bytecode, at>>
            BY <2>4 DEF OperandTooLarge
        <3>3. QED
            BY <3>1, <3>2 DEF ErrorsAreGenuine, DataLen, Slice, Enc, Opcode
    <2>5. CASE Finished \/ UNCHANGED vars
        BY <2>5 DEF Finished, vars, ErrorsAreGenuine, Consumed, DataLen, Slice, Enc, Opcode
    <2>6. QED
        BY <2>2, <2>3, <2>4, <2>5 DEF Next
<1>3. QED
    BY <1>1, <1>2, Invariance, PTL DEF Spec

-----------------------------------------------------------------------------
(***************************************************************************)
(* Operands                                                                *)
(***************************************************************************)

\* Powers of the base.
LEMMA PowerFacts ==
    /\ Power[0] = 1
    /\ \A n \in Nat : Power[n] \in Nat \ {0} /\ Power[n + 1] = Base * Power[n]
<1>1. Power = PowersOf(Base)
    BY DEF Power, PowersOf
<1>2. QED
    BY <1>1, PowersFacts, BaseAssumption

\* An integer has its bytes as digits and is what read_u16_le and read_u32_le
\* compute.
LEMMA LittleEndianFacts ==
    ASSUME NEW b \in Seq(Byte)
    PROVE  /\ LittleEndian(b) \in 0..(Power[Len(b)] - 1)
           /\ \A k \in 1..Len(b) : (LittleEndian(b) \div Power[k - 1]) % Base = b[k]
           /\ Len(b) \in {1, 2, 4} => LittleEndian(b) = Prefix(b)
<1> DEFINE f == Horner(Base, b)
           n == Len(b)
<1>0. n \in Nat /\ b \in Seq(0..(Base - 1)) /\ Power = PowersOf(Base)
    BY DEF Byte, Power, PowersOf
<1>1. f[0] = 0 /\ \A i \in 0..(n - 1) : f[i + 1] = Base * f[i] + b[n - i]
    BY <1>0, HornerStep, BaseAssumption
<1>2. LittleEndian(b) = f[n]
    BY DEF LittleEndian, Horner, ListsHorner
<1>3. f[n] \in 0..(Power[n] - 1) /\ \A k \in 1..n : (f[n] \div Power[k - 1]) % Base = b[n - n + k]
    BY <1>0, HornerHasDigits, BaseAssumption
<1> HIDE DEF f
<1>4. \A k \in 1..n : n - n + k = k
    BY <1>0
<1>5. ASSUME n \in {1, 2, 4} PROVE LittleEndian(b) = Prefix(b)
    <2>1. f[0] = 0 /\ \A i \in 0..(n - 1) : f[i + 1] = Base * f[i] + b[n - i]
        BY <1>1
    <2>2. \A i \in 1..n : b[i] \in Nat
        BY BaseAssumption DEF Byte
    <2>3. CASE n = 1
        <3>1. f[1] = Base * 0 + b[1] BY <2>1, <2>3
        <3>2. QED BY <1>2, <2>2, <2>3, <3>1, BaseAssumption DEF Prefix
    <2>4. CASE n = 2
        <3>1. f[1] = Base * 0 + b[2] /\ f[2] = Base * f[1] + b[1] BY <2>1, <2>4
        <3>2. b[1] \in Nat /\ b[2] \in Nat BY <2>2, <2>4
        <3>3. f[1] = b[2] /\ Base * b[2] \in Nat BY <3>1, <3>2, BaseAssumption
        <3>4. QED BY <1>2, <2>4, <3>1, <3>2, <3>3 DEF Prefix
    <2>5. CASE n = 4
        <3>1. f[1] = Base * 0 + b[4] /\ f[2] = Base * f[1] + b[3]
              /\ f[3] = Base * f[2] + b[2] /\ f[4] = Base * f[3] + b[1]
            BY <2>1, <2>5
        <3>2. b[1] \in Nat /\ b[2] \in Nat /\ b[3] \in Nat /\ b[4] \in Nat BY <2>2, <2>5
        <3>3. f[1] = b[4] /\ Base * b[4] \in Nat BY <3>1, <3>2, BaseAssumption
        <3>4. f[2] = b[3] + Base * b[4] /\ f[2] \in Nat
            BY <3>1, <3>2, <3>3, BaseAssumption
        <3>9. Base * f[2] \in Nat
            BY <3>4, BaseAssumption
        <3>5. f[3] = b[2] + Base * f[2] /\ f[3] \in Nat
            BY <3>1, <3>2, <3>4, <3>9
        <3>10. Base * f[3] \in Nat
            BY <3>5, BaseAssumption
        <3>6. f[4] = b[1] + Base * f[3]
            BY <3>1, <3>2, <3>5, <3>10
        <3>7. Prefix(b) = b[1] + Base * (b[2] + Base * (b[3] + Base * b[4]))
            BY <2>5 DEF Prefix
        <3>8. QED BY <1>2, <2>5, <3>4, <3>5, <3>6, <3>7
    <2>6. QED BY <1>5, <2>3, <2>4, <2>5
<1>6. QED
    BY <1>2, <1>3, <1>4, <1>5

\* The two's complement reading of bytes lies in its range and reads back.
LEMMA SignedFacts ==
    ASSUME NEW b \in Seq(Byte)
    PROVE  /\ Signed(b) \in Int
           /\ 2 * Signed(b) < Power[Len(b)] /\ 2 * Signed(b) >= -Power[Len(b)]
           /\ Signed(b) % Power[Len(b)] = LittleEndian(b)
<1> DEFINE P == Power[Len(b)]
           v == LittleEndian(b)
<1>0. Len(b) \in Nat
    OBVIOUS
<1>1. P \in Nat \ {0} /\ v \in 0..(P - 1)
    BY <1>0, PowerFacts, LittleEndianFacts
<1>2. Signed(b) = IF 2 * v >= P THEN v - P ELSE v
    BY DEF Signed
<1> HIDE DEF P, v
<1>3. CASE 2 * v >= P
    <2>1. v - P \in Int /\ v - P = P * (0 - 1) + v
        BY <1>1
    <2>2. (v - P) % P = v
        <3>1. 0 - 1 \in Int
            OBVIOUS
        <3>2. QED
            BY <1>1, <2>1, <3>1, QuotientAndRest
    <2>3. Signed(b) = v - P /\ Signed(b) \in Int /\ 2 * Signed(b) < P /\ 2 * Signed(b) >= -P
        BY <1>1, <1>2, <1>3
    <2>4. QED
        BY <2>2, <2>3 DEF P, v
<1>4. CASE ~(2 * v >= P)
    <2>1. v = P * 0 + v /\ v \in Int
        BY <1>1
    <2>2. v % P = v
        BY <1>1, <2>1, QuotientAndRest
    <2>3. Signed(b) = v /\ Signed(b) \in Int /\ 2 * Signed(b) < P /\ 2 * Signed(b) >= -P
        BY <1>1, <1>2, <1>4
    <2>4. QED
        BY <2>2, <2>3 DEF P, v
<1>5. QED
    BY <1>3, <1>4

\* What read_operand returns is what the bytes behind the opcode say.
LEMMA DecodedOperand ==
    ASSUME TypeOK, Decode
    PROVE  OperandIsTheBytes(bytecode, Instruction(at, Opcode, Operand))
<1> DEFINE ins == Instruction(at, Opcode, Operand)
           raw == [k \in 1..Enc.len |-> bytecode[at + 1 + k]]
<1>1. /\ bytecode \in Seq(Byte) /\ at \in Nat /\ Opcode \in Byte
      /\ Enc \in OperandEncoding /\ Enc = Encoding[Opcode]
    BY OpcodeHasEncoding DEF Decode
<1>2. Enc.len \in Nat
    BY <1>1 DEF OperandEncoding
<1>3. ins.offset = at /\ ins.opcode = Opcode /\ ins.operand = Operand
    BY DEF Instruction
<1>4. Slice(at + 1, Enc.len) = raw
    BY DEF Slice
<1>5. raw \in Seq(Byte) /\ Len(raw) = Enc.len
    <2>1. Fits(at + 1, Enc.len)
        BY DEF Decode, PrefixMissing
    <2>2. at + 1 \in Nat
        BY <1>1
    <2>3. QED
        BY <1>1, <1>2, <1>4, <2>1, <2>2, SliceIsBytes
<1> HIDE DEF raw, ins
<1>6. ASSUME Enc.kind = "data"
      PROVE  /\ LittleEndian(raw) = Len(ins.operand.bytes)
             /\ ins.operand.bytes = [k \in 1..Len(ins.operand.bytes) |->
                                        bytecode[at + 1 + Enc.len + k]]
    <2>1. DataLen \in Nat /\ DataLen = Prefix(raw)
        BY <1>4, <1>6, DataLenIsNat DEF Decode, DataLen
    <2>2. Enc.len \in {1, 2, 4}
        BY <1>1, <1>6, EncodingAssumption
    <2>3. LittleEndian(raw) = DataLen
        BY <1>5, <2>1, <2>2, LittleEndianFacts
    <2>4. ins.operand.bytes = Slice(at + 1 + Enc.len, DataLen)
        BY <1>3, <1>6 DEF Operand, Bytes
    <2>5. Fits(at + 1 + Enc.len, DataLen)
        BY <1>6 DEF Decode, DataMissing
    <2>6. at + 1 + Enc.len \in Nat
        BY <1>1, <1>2
    <2>7. Len(ins.operand.bytes) = DataLen
        BY <1>1, <2>1, <2>4, <2>5, <2>6, SliceIsBytes
    <2>8. QED
        BY <2>3, <2>4, <2>7 DEF Slice
<1>7. ASSUME Enc.kind = "signed" PROVE ins.operand.value = Signed(raw)
    BY <1>3, <1>4, <1>7 DEF Operand, Int_
<1>8. ASSUME Enc.kind = "unsigned" PROVE ins.operand.value = LittleEndian(raw)
    BY <1>3, <1>4, <1>8 DEF Operand, Int_
<1>9. ASSUME Enc.kind = "signed"
      PROVE  2 * ins.operand.value < Power[Enc.len] /\ 2 * ins.operand.value >= -Power[Enc.len]
    BY <1>5, <1>7, <1>9, SignedFacts
<1>10. ASSUME Enc.kind \in {"signed", "unsigned"}, NEW k \in 1..Enc.len
       PROVE  raw[k] = ((ins.operand.value % Power[Enc.len]) \div Power[k - 1]) % Base
    <2>1. ins.operand.value % Power[Enc.len] = LittleEndian(raw)
        <3>1. CASE Enc.kind = "signed"
            BY <1>5, <1>7, <3>1, SignedFacts
        <3>2. CASE Enc.kind = "unsigned"
            <4> DEFINE P == Power[Enc.len]
                       v == LittleEndian(raw)
            <4>1. P \in Nat \ {0} /\ v \in 0..(P - 1)
                BY <1>2, <1>5, PowerFacts, LittleEndianFacts
            <4>2. v % P = v
                <5> HIDE DEF P, v
                <5>1. v = P * 0 + v /\ v \in Int
                    BY <4>1
                <5>2. QED
                    BY <4>1, <5>1, QuotientAndRest
            <4>3. QED
                BY <1>8, <3>2, <4>2
        <3>3. QED
            BY <1>10, <3>1, <3>2
    <2>2. QED
        BY <1>5, <2>1, LittleEndianFacts
<1>11. OperandIsTheBytes(bytecode, ins)
    BY <1>1, <1>3, <1>6, <1>9, <1>10 DEF OperandIsTheBytes, raw
<1>12. QED
    BY <1>11 DEF ins

\* Data operands are the bytes behind a prefix that counts them, and integer
\* operands are the numbers their bytes denote (read_operand and its readers),
\* for every instruction set, base and script.
THEOREM OperandsExact == Spec => []OperandsAreTheBytes
<1>1. Init => OperandsAreTheBytes
    BY DEF Init, OperandsAreTheBytes
<1>2. Inv /\ OperandsAreTheBytes /\ [Next]_vars => OperandsAreTheBytes'
    <2> SUFFICES ASSUME Inv, OperandsAreTheBytes, [Next]_vars PROVE OperandsAreTheBytes'
        OBVIOUS
    <2>1. TypeOK /\ \E S : instructions \in Seq(S)
        BY DEF Inv, OutputsAreSequences
    <2>2. ASSUME NEW ins, instructions' = Append(instructions, ins), bytecode' = bytecode,
                 OperandIsTheBytes(bytecode, ins)
          PROVE  OperandsAreTheBytes'
        <3>1. PICK S : instructions \in Seq(S)
            BY <2>1
        <3>2. \A i \in DOMAIN instructions' :
                  \/ i \in DOMAIN instructions /\ instructions'[i] = instructions[i]
                  \/ instructions'[i] = ins
            <4> DEFINE T == S \cup {ins}
            <4>1. instructions \in Seq(T) /\ ins \in T
                BY <3>1
            <4> HIDE DEF T
            <4>2. QED
                BY <2>2, <4>1
        <3>3. ASSUME NEW i \in DOMAIN instructions'
              PROVE  OperandIsTheBytes(bytecode', instructions'[i])
            BY <2>2, <3>2 DEF OperandsAreTheBytes
        <3>4. QED
            BY <3>3 DEF OperandsAreTheBytes
    <2>3. CASE PermitUnknown
        <3> DEFINE ins == Instruction(at, Opcode, None)
        <3>1. Encoding[ins.opcode].kind = "unknown"
            BY <2>3 DEF PermitUnknown, Instruction, Enc
        <3>2. OperandIsTheBytes(bytecode, ins)
            BY <3>1 DEF OperandIsTheBytes
        <3>3. instructions' = Append(instructions, ins) /\ bytecode' = bytecode
            BY <2>3 DEF PermitUnknown
        <3>4. QED
            BY <2>2, <3>2, <3>3
    <2>4. CASE Decode
        <3>1. /\ instructions' = Append(instructions, Instruction(at, Opcode, Operand))
              /\ bytecode' = bytecode
            BY <2>4 DEF Decode
        <3>2. QED
            BY <2>1, <2>2, <2>4, <3>1, DecodedOperand
    <2>5. CASE UNCHANGED <<bytecode, instructions>>
        BY <2>5 DEF OperandsAreTheBytes
    <2>6. QED
        BY <2>3, <2>4, <2>5
        DEF Next, RejectUnknown, Eof, OperandTooLarge, End, Finished, vars
<1>3. QED
    BY <1>1, <1>2, Invariance, PTL DEF Spec
=============================================================================
