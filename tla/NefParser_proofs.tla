-------------------------- MODULE NefParser_proofs --------------------------
(***************************************************************************)
(* For every byte base, every set of limits and every file: the parser     *)
(* stays inside the file, what it accepts is whole, and it accepts exactly *)
(* the files that the format's writer can produce.                         *)
(***************************************************************************)
EXTENDS NefFormat, NaturalFacts

\* What parse knows when it reaches the later stages.
Progress ==
    /\ stage \notin {"token", "reserved word", "script", "trailer"} => tokens = <<>>
    /\ stage \in {"reserved word", "script", "trailer"} => Len(tokens) = count
    /\ stage = "trailer" => script # <<>>

Inv == TypeOK /\ Progress /\ AcceptedIsWhole

-----------------------------------------------------------------------------
\* A byte inside the buffer (bytes.get(offset)).
LEMMA AtIsByte ==
    ASSUME bytes \in Seq(Byte), NEW p \in Nat, Fits(p, 1)
    PROVE  At(p) \in Byte
<1>1. p + 1 \in 1..Len(bytes)
  BY DEF Fits
<1>. QED BY <1>1 DEF At

\* A slice inside the buffer has the length asked for (bytes.get(a..b)).
LEMMA SliceInBuffer ==
    ASSUME bytes \in Seq(Byte), NEW p \in Nat, NEW n \in Nat, Fits(p, n)
    PROVE  Slice(p, n) \in Seq(Byte) /\ Len(Slice(p, n)) = n
<1>1. \A i \in 1..n : p + i \in 1..Len(bytes)
  BY DEF Fits
<1>2. \A i \in 1..n : bytes[p + i] \in Byte
  BY <1>1
<1>. QED BY <1>2 DEF Slice

\* Powers of the byte base.
LEMMA PowerFacts ==
    /\ Power[0] = 1
    /\ \A n \in Nat : Power[n] \in Nat \ {0} /\ Power[n + 1] = Base * Power[n]
<1>1. Power = PowersOf(Base) /\ Base \in Nat \ {0}
  BY SizesAssumption DEF Power, PowersOf
<1>. QED BY <1>1, PowersFacts

\* What from_le_bytes returns is below a power of the base, and the bytes are
\* its digits.
LEMMA FromLeBytesFacts ==
    ASSUME NEW b \in Seq(Byte)
    PROVE  /\ FromLeBytes(b) \in 0..(Power[Len(b)] - 1)
           /\ FromLeBytes(b) \in Nat
           /\ LittleEndian(FromLeBytes(b), Len(b)) = b
<1>0. /\ Len(b) \in Nat /\ b \in Seq(0..(Base - 1))
      /\ Power = PowersOf(Base) /\ Base \in Nat \ {0}
  BY SizesAssumption DEF Byte, Power, PowersOf
<1>1. FromLeBytes(b) = Horner(Base, b)[Len(b)]
  BY DEF FromLeBytes, Horner, ListsHorner
<1>2. /\ FromLeBytes(b) \in 0..(Power[Len(b)] - 1)
      /\ \A k \in 1..Len(b) : (FromLeBytes(b) \div Power[k - 1]) % Base = b[Len(b) - Len(b) + k]
  BY <1>0, <1>1, HornerHasDigits
<1>3. FromLeBytes(b) \in Nat
  BY <1>0, <1>2, PowerFacts
<1>4. \A k \in 1..Len(b) : Len(b) - Len(b) + k = k
  BY <1>0
<1>5. LittleEndian(FromLeBytes(b), Len(b)) = [k \in 1..Len(b) |-> b[k]]
  BY <1>2, <1>4 DEF LittleEndian
<1>6. b = [k \in 1..Len(b) |-> b[k]]
  BY <1>0
<1>. QED BY <1>2, <1>3, <1>5, <1>6

\* from_le_bytes reads back the number that was written down.
LEMMA WrittenNumber ==
    ASSUME NEW n \in Nat, NEW v \in 0..(Power[n] - 1)
    PROVE  /\ LittleEndian(v, n) \in Seq(Byte)
           /\ Len(LittleEndian(v, n)) = n
           /\ FromLeBytes(LittleEndian(v, n)) = v
<1>. DEFINE b == LittleEndian(v, n)
<1>0. Power = PowersOf(Base) /\ Base \in Nat \ {0} /\ v \in Nat
  <2>1. Power[n] \in Nat \ {0}
    BY PowerFacts
  <2>. QED BY <2>1, SizesAssumption DEF Power, PowersOf
<1>1. ASSUME NEW k \in 1..n PROVE (v \div Power[k - 1]) % Base \in Byte
  <2>1. Power[k - 1] \in Nat \ {0}
    BY PowerFacts
  <2>. DEFINE r == Power[k - 1]
  <2>. HIDE DEF r
  <2>2. v \div r \in Nat
    BY <1>0, <2>1 DEF r
  <2>3. (v \div r) % Base \in Byte
    <3>. DEFINE q == v \div r
    <3>1. q \in Nat
      BY <2>2
    <3>. HIDE DEF q
    <3>2. q % Base \in 0..(Base - 1)
      BY <1>0, <3>1
    <3>. QED BY <3>2 DEF Byte, q
  <2>. QED BY <2>3 DEF r
<1>2. b \in Seq(Byte) /\ Len(b) = n /\ \A k \in 1..n : b[k] = (v \div Power[k - 1]) % Base
  BY <1>1 DEF LittleEndian
<1>3. FromLeBytes(b) = Horner(Base, b)[n]
  BY <1>2 DEF FromLeBytes, Horner, ListsHorner
<1>. HIDE DEF b
<1>4. Horner(Base, b)[n] = v
  BY <1>0, <1>2, HornerOfDigits DEF Byte
<1>. QED BY <1>2, <1>3, <1>4 DEF b

\* read_u16_le, read_u32_le and read_u64_le yield naturals.
LEMMA WideIntegers ==
    ASSUME bytes \in Seq(Byte), NEW p \in Nat
    PROVE  /\ Fits(p, 2) => U16(p) \in Nat
           /\ Fits(p, 4) => U32(p) \in Nat
           /\ Fits(p, 8) => U64(p) \in Nat
<1>1. ASSUME NEW n \in Nat, Fits(p, n) PROVE FromLeBytes(Slice(p, n)) \in Nat
  BY <1>1, SliceInBuffer, FromLeBytesFacts
<1>. QED BY <1>1 DEF U16, U32, U64

\* A length that read_varint returns lies in the buffer.
LEMMA VarintInBuffer ==
    ASSUME bytes \in Seq(Byte), NEW p \in Nat, VarintError(p) = "none"
    PROVE  /\ VarintLen(p) \in Nat \ {0}
           /\ Fits(p, VarintLen(p))
           /\ VarintValue(p) \in Nat
<1>1. Fits(p, 1) /\ Fits(p, VarintLen(p))
  BY DEF VarintError
<1>2. At(p) \in Nat
  BY <1>1, AtIsByte, SizesAssumption DEF Byte
<1>3. Width(At(p)) \in {0, 2, 4, 8}
  BY DEF Width
<1>4. VarintLen(p) \in Nat \ {0}
  BY <1>3 DEF VarintLen
<1>5. \A w \in {2, 4, 8} : Width(At(p)) = w => Fits(p + 1, w)
  BY <1>1 DEF Fits, VarintLen
<1>6. VarintValue(p) \in Nat
  BY <1>2, <1>3, <1>5, WideIntegers DEF VarintValue
<1>. QED BY <1>1, <1>4, <1>6

\* So does the data behind a length, and it respects its limit.
LEMMA DataInBuffer ==
    ASSUME bytes \in Seq(Byte), NEW p \in Nat, NEW max \in Nat, NEW tooLong,
           tooLong # "none", DataError(p, max, tooLong) = "none"
    PROVE  /\ Data(p) \in Seq(Byte)
           /\ Len(Data(p)) = VarintValue(p)
           /\ VarintValue(p) \in 0..max
           /\ DataEnd(p) \in 0..Len(bytes)
<1>1. /\ VarintError(p) = "none"
      /\ ~(VarintValue(p) > max)
      /\ Fits(DataStart(p), VarintValue(p))
  BY DEF DataError
<1>2. VarintLen(p) \in Nat /\ VarintValue(p) \in Nat
  BY <1>1, VarintInBuffer
<1>3. DataStart(p) \in Nat
  BY <1>2 DEF DataStart
<1>4. Data(p) \in Seq(Byte) /\ Len(Data(p)) = VarintValue(p)
  BY <1>1, <1>2, <1>3, SliceInBuffer DEF Data
<1>5. DataEnd(p) \in 0..Len(bytes)
  BY <1>1, <1>2, <1>3 DEF DataEnd, Fits
<1>. QED BY <1>1, <1>2, <1>4, <1>5

-----------------------------------------------------------------------------
\* "none" and the errors of parse.
Errors ==
    {"none", "FileTooLarge", "TooShort", "UnexpectedEof", "InvalidMagic", "InvalidCompiler",
     "SourceTooLong", "InvalidUtf8String", "ReservedByteNonZero", "IntegerOverflow",
     "TooManyMethodTokens", "InvalidMethodToken", "MethodNameInvalid", "CallFlagsInvalid",
     "ReservedWordNonZero", "ScriptTooLarge", "EmptyScript", "ChecksumMismatch",
     "TrailingData"}

\* Each part of parse fails with one of its errors.
LEMMA ErrorsAreNotOk ==
    {SizeError, MagicError, CompilerError, SourceError, ReservedByteError, CountError,
     TokenError, ReservedWordError, ScriptError, TrailerError} \subseteq Errors
<1>1. \A p : VarintError(p) \in Errors
  BY DEF VarintError, Errors
<1>2. \A p, max : \A tooLong \in Errors : DataError(p, max, tooLong) \in Errors
  BY <1>1 DEF DataError, Errors
<1>3. /\ SizeError \in Errors /\ MagicError \in Errors /\ CompilerError \in Errors
      /\ ReservedByteError \in Errors /\ ReservedWordError \in Errors
      /\ TrailerError \in Errors
  BY DEF SizeError, MagicError, CompilerError, ReservedByteError, ReservedWordError,
         TrailerError, Errors
<1>4. CountError \in Errors
  BY <1>1 DEF CountError, Errors
<1>5. {"SourceTooLong", "InvalidMethodToken", "ScriptTooLarge"} \subseteq Errors
  BY DEF Errors
<1>6. SourceError \in Errors
  <2>1. DataError(offset, MaxSource, "SourceTooLong") \in Errors
    BY <1>2, <1>5
  <2>. QED BY <2>1 DEF SourceError, Errors
<1>7. TokenError \in Errors
  <2>1. DataError(NameAt, MaxName, "InvalidMethodToken") \in Errors
    BY <1>2, <1>5
  <2>. QED BY <2>1 DEF TokenError, Errors
<1>8. ScriptError \in Errors
  <2>1. DataError(offset, MaxScript, "ScriptTooLarge") \in Errors
    BY <1>2, <1>5
  <2>. QED BY <2>1 DEF ScriptError, Errors
<1>. QED BY <1>3, <1>4, <1>6, <1>7, <1>8

-----------------------------------------------------------------------------
LEMMA InitInv == Init => Inv
<1>. SUFFICES ASSUME Init PROVE Inv
  OBVIOUS
<1>1. bytes \in Files /\ bytes \in Seq(Byte) /\ Len(bytes) \in Nat
  BY FilesAssumption DEF Init
<1>2. TypeOK
  BY <1>1, SizesAssumption DEF Init, TypeOK, Stages
<1>3. Progress /\ AcceptedIsWhole
  BY DEF Init, Progress, AcceptedIsWhole
<1>. QED BY <1>2, <1>3 DEF Inv

\* The shape of a token that passes the checks of parse_method_tokens.
LEMMA TokenFacts ==
    ASSUME TypeOK, TokenError = "none"
    PROVE  /\ TokenEnd \in 0..Len(bytes)
           /\ MethodToken \in [hash : Seq(Byte), method : Seq(Byte), parameters_count : Nat,
                               has_return_value : BOOLEAN, call_flags : FlagsAllowed]
<1>. bytes \in Seq(Byte) /\ offset \in Nat /\ HashLen \in Nat /\ MaxName \in Nat
  BY FilesAssumption, SizesAssumption DEF TypeOK
<1>1. /\ Fits(offset, HashLen)
      /\ DataError(NameAt, MaxName, "InvalidMethodToken") = "none"
      /\ Fits(ParametersAt, 4)
      /\ At(ParametersAt + 3) \in FlagsAllowed
  BY DEF TokenError
<1>2. NameAt \in Nat
  BY DEF NameAt
<1>3. Data(NameAt) \in Seq(Byte) /\ DataEnd(NameAt) \in Nat
  BY <1>1, <1>2, DataInBuffer
<1>4. ParametersAt \in Nat
  BY <1>3 DEF ParametersAt
<1>5. TokenEnd \in 0..Len(bytes)
  BY <1>1, <1>4 DEF TokenEnd, Fits
<1>6. U16(ParametersAt) \in Nat
  <2>1. Fits(ParametersAt, 2)
    BY <1>1, <1>4 DEF Fits
  <2>. QED BY <2>1, <1>4, WideIntegers
<1>7. Slice(offset, HashLen) \in Seq(Byte)
  BY <1>1, SliceInBuffer
<1>. QED BY <1>1, <1>3, <1>5, <1>6, <1>7 DEF MethodToken

\* One case per action of parse.
LEMMA NextInv == Inv /\ [Next]_vars => Inv'
<1>. SUFFICES ASSUME Inv, [Next]_vars PROVE Inv'
  OBVIOUS
<1>. USE DEF Inv
<1>0. /\ bytes \in Seq(Byte) /\ Len(bytes) \in Nat /\ offset \in Nat
      /\ Len(Magic) \in Nat /\ CompilerLen \in Nat /\ ChecksumLen \in Nat
      /\ MaxSource \in Nat /\ MaxScript \in Nat /\ MaxTokens \in Nat
  BY FilesAssumption, SizesAssumption DEF TypeOK
<1>1. CASE Reject
  <2>1. \E error : RejectAt(stage, error) /\ error \in Errors
    BY <1>1, ErrorsAreNotOk DEF Reject, RejectAt
  <2>2. result' # "ok"
    BY <2>1 DEF RejectAt, Errors
  <2>. QED BY <2>1, <2>2 DEF RejectAt, TypeOK, Progress, AcceptedIsWhole, Slice
<1>2. CASE CheckSize
  BY <1>0, <1>2 DEF CheckSize, Read, TypeOK, Stages, Progress, AcceptedIsWhole
<1>3. CASE ReadMagic
  <2>1. MagicError = "none"
    BY <1>3 DEF ReadMagic, Read
  <2>2. offset + Len(Magic) \in 0..Len(bytes)
    BY <1>0, <2>1 DEF MagicError, Fits
  <2>. QED BY <1>3, <2>2 DEF ReadMagic, Read, TypeOK, Stages, Progress, AcceptedIsWhole
<1>4. CASE ReadCompiler
  <2>1. CompilerError = "none"
    BY <1>4 DEF ReadCompiler, Read
  <2>2. offset + CompilerLen \in 0..Len(bytes)
    BY <1>0, <2>1 DEF CompilerError, Fits
  <2>. QED BY <1>4, <2>2 DEF ReadCompiler, Read, TypeOK, Stages, Progress, AcceptedIsWhole
<1>5. CASE ReadSource
  <2>1. SourceError = "none"
    BY <1>5 DEF ReadSource, Read
  <2>2. DataError(offset, MaxSource, "SourceTooLong") = "none"
    BY <2>1 DEF SourceError
  <2>3. /\ Data(offset) \in Seq(Byte) /\ Len(Data(offset)) <= MaxSource
        /\ DataEnd(offset) \in 0..Len(bytes)
    BY <1>0, <2>2, DataInBuffer
  <2>. QED BY <1>5, <2>3 DEF ReadSource, Read, TypeOK, Stages, Progress, AcceptedIsWhole
<1>6. CASE ReadReservedByte
  <2>1. ReservedByteError = "none"
    BY <1>6 DEF ReadReservedByte, Read
  <2>2. offset + 1 \in 0..Len(bytes)
    BY <1>0, <2>1 DEF ReservedByteError, Fits
  <2>. QED BY <1>6, <2>2 DEF ReadReservedByte, Read, TypeOK, Stages, Progress, AcceptedIsWhole
<1>7. CASE ReadTokenCount
  <2>1. CountError = "none"
    BY <1>7 DEF ReadTokenCount, Read
  <2>2. VarintError(offset) = "none" /\ ~(VarintValue(offset) > MaxTokens)
    BY <2>1 DEF CountError
  <2>3. /\ VarintValue(offset) \in 0..MaxTokens
        /\ DataStart(offset) \in 0..Len(bytes)
    BY <1>0, <2>2, VarintInBuffer DEF DataStart, Fits
  <2>4. tokens = <<>>
    BY <1>7 DEF ReadTokenCount, Read, Progress
  <2>5. Len(tokens) = 0
    BY <2>4
  <2>6. TypeOK'
    <3>1. /\ bytes' = bytes /\ stage' = "token" /\ offset' = DataStart(offset)
          /\ count' = VarintValue(offset)
          /\ tokens' = tokens /\ source' = source /\ script' = script
      BY <1>7 DEF ReadTokenCount, Read
    <3>2. VarintValue(offset) \in Nat /\ 0 <= VarintValue(offset)
      BY <2>3, <1>0
    <3>3. Len(tokens)' <= count'
      BY <2>5, <3>1, <3>2
    <3>. QED BY <2>3, <3>1, <3>3 DEF TypeOK, Stages
  <2>. QED BY <1>7, <2>6 DEF ReadTokenCount, Read, Progress, AcceptedIsWhole
<1>8. CASE ReadToken
  <2>1. TokenError = "none"
    BY <1>8 DEF ReadToken, Read
  <2>2. TokenEnd \in 0..Len(bytes) /\ MethodToken \in
          [hash : Seq(Byte), method : Seq(Byte), parameters_count : Nat,
           has_return_value : BOOLEAN, call_flags : FlagsAllowed]
    BY <2>1, TokenFacts
  <2>3. Len(tokens') = Len(tokens) + 1 /\ Len(tokens') <= count
    BY <1>8 DEF ReadToken, TypeOK
  <2>. QED BY <1>8, <2>2, <2>3 DEF ReadToken, Read, TypeOK, Stages, Progress, AcceptedIsWhole
<1>9. CASE TokensRead
  <2>1. Len(tokens) \in Nat /\ count \in Nat
    BY <1>0 DEF TypeOK
  <2>2. Len(tokens) = count
    <3>1. Len(tokens) >= count
      BY <1>9 DEF TokensRead
    <3>2. Len(tokens) <= count
      BY DEF TypeOK
    <3>. QED BY <2>1, <3>1, <3>2
  <2>. QED BY <1>9, <2>2 DEF TokensRead, Read, TypeOK, Stages, Progress, AcceptedIsWhole
<1>10. CASE ReadReservedWord
  <2>1. ReservedWordError = "none"
    BY <1>10 DEF ReadReservedWord, Read
  <2>2. offset + 2 \in 0..Len(bytes)
    BY <1>0, <2>1 DEF ReservedWordError, Fits
  <2>. QED BY <1>10, <2>2 DEF ReadReservedWord, Read, TypeOK, Stages, Progress, AcceptedIsWhole
<1>11. CASE ReadScript
  <2>1. ScriptError = "none"
    BY <1>11 DEF ReadScript, Read
  <2>2. /\ DataError(offset, MaxScript, "ScriptTooLarge") = "none"
        /\ VarintValue(offset) # 0
    BY <2>1 DEF ScriptError
  <2>3. /\ Data(offset) \in Seq(Byte) /\ Len(Data(offset)) <= MaxScript
        /\ Len(Data(offset)) # 0
        /\ DataEnd(offset) \in 0..Len(bytes)
    BY <1>0, <2>2, DataInBuffer
  <2>4. script' # <<>>
    BY <1>11, <2>3 DEF ReadScript
  <2>. QED BY <1>11, <2>3, <2>4 DEF ReadScript, Read, TypeOK, Stages, Progress, AcceptedIsWhole
<1>12. CASE Accept
  <2>1. stage = "trailer" /\ TrailerError = "none"
    BY <1>12 DEF Accept, Read
  <2>2. /\ offset + ChecksumLen = Len(bytes)
        /\ Slice(offset, ChecksumLen) = CalculateChecksum(Slice(0, offset))
    BY <2>1 DEF TrailerError
  <2>3. /\ bytes' = bytes /\ offset' = offset /\ tokens' = tokens /\ count' = count
        /\ script' = script /\ stage' = "trailer"
    BY <1>12 DEF Accept, Read
  <2>4. AcceptedIsWhole'
    BY <2>1, <2>2, <2>3 DEF AcceptedIsWhole, Progress, Slice
  <2>. QED BY <1>12, <2>1, <2>3, <2>4 DEF Accept, TypeOK, Stages, Progress
<1>13. CASE UNCHANGED vars
  BY <1>13 DEF vars, TypeOK, Progress, AcceptedIsWhole, Slice
<1>. QED BY <1>1, <1>2, <1>3, <1>4, <1>5, <1>6, <1>7, <1>8, <1>9, <1>10, <1>11, <1>12,
            <1>13 DEF Next, Finished

LEMMA Invariance == Spec => []Inv
BY InitInv, NextInv, PTL DEF Spec

\* NefParser::parse never reads or moves past the end of the file, and never
\* keeps more than its limits allow, whatever the file announces.
THEOREM TypeCorrect == Spec => []TypeOK
<1>1. Inv => TypeOK
  BY DEF Inv
<1>. QED BY <1>1, Invariance, PTL

\* A file that NefParser::parse accepts ends with its checksum, the checksum is
\* of everything before it, and everything before it was parsed.
THEOREM AcceptedFilesAreWhole == Spec => []AcceptedIsWhole
<1>1. Inv => AcceptedIsWhole
  BY DEF Inv
<1>. QED BY <1>1, Invariance, PTL

-----------------------------------------------------------------------------
(***************************************************************************)
(* Reading what was written                                                *)
(***************************************************************************)

\* s stands in the file behind the first p bytes.
Stands(s, p) == Fits(p, Len(s)) /\ Slice(p, Len(s)) = s

\* A concatenation stands where its parts stand one behind the other.
LEMMA StandsSplit ==
    ASSUME bytes \in Seq(Byte), NEW p \in Nat, NEW a \in Seq(Byte), NEW b \in Seq(Byte)
    PROVE  Stands(a \o b, p) <=> Stands(a, p) /\ Stands(b, p + Len(a))
<1>. DEFINE m == Len(a)
            n == Len(b)
<1>1. /\ m \in Nat /\ n \in Nat /\ Len(a \o b) = m + n
      /\ \A i \in 1..m : (a \o b)[i] = a[i]
      /\ \A i \in 1..n : (a \o b)[m + i] = b[i]
  OBVIOUS
<1>2. /\ a = [i \in 1..m |-> a[i]] /\ b = [i \in 1..n |-> b[i]]
      /\ a \o b = [i \in 1..(m + n) |-> (a \o b)[i]]
  <2>1. \A s \in Seq(Byte) : s = [i \in 1..Len(s) |-> s[i]]
    OBVIOUS
  <2>2. a \o b \in Seq(Byte)
    OBVIOUS
  <2>. DEFINE c == a \o b
  <2>. HIDE DEF c
  <2>3. c = [i \in 1..Len(c) |-> c[i]]
    BY <2>1, <2>2 DEF c
  <2>. QED BY <1>1, <2>1, <2>3 DEF c
<1>. HIDE DEF m, n
<1>3. ASSUME Stands(a \o b, p) PROVE Stands(a, p) /\ Stands(b, p + m)
  <2>1. p + (m + n) <= Len(bytes) /\ \A i \in 1..(m + n) : bytes[p + i] = (a \o b)[i]
    <3>1. Fits(p, m + n) /\ Slice(p, m + n) = a \o b
      BY <1>1, <1>3 DEF Stands
    <3>. QED BY <3>1 DEF Fits, Slice
  <2>2. \A i \in 1..m : bytes[p + i] = a[i]
    <3>1. \A i \in 1..m : i \in 1..(m + n)
      BY <1>1
    <3>. QED BY <1>1, <2>1, <3>1
  <2>3. \A i \in 1..n : bytes[p + m + i] = b[i]
    <3>1. \A i \in 1..n : m + i \in 1..(m + n) /\ p + (m + i) = p + m + i
      BY <1>1
    <3>. QED BY <1>1, <2>1, <3>1
  <2>4. Slice(p, m) = a /\ Slice(p + m, n) = b
    BY <1>2, <2>2, <2>3 DEF Slice
  <2>. QED BY <1>1, <2>1, <2>4 DEF Stands, Fits, m, n
<1>4. ASSUME Stands(a, p), Stands(b, p + m) PROVE Stands(a \o b, p)
  <2>1. /\ p + m + n <= Len(bytes) /\ \A i \in 1..m : bytes[p + i] = a[i]
        /\ \A i \in 1..n : bytes[p + m + i] = b[i]
    <3>1. Fits(p + m, n) /\ Slice(p, m) = a /\ Slice(p + m, n) = b
      BY <1>4 DEF Stands, m, n
    <3>2. \A i \in 1..m : Slice(p, m)[i] = bytes[p + i]
      BY DEF Slice
    <3>3. \A i \in 1..n : Slice(p + m, n)[i] = bytes[p + m + i]
      BY DEF Slice
    <3>. QED BY <3>1, <3>2, <3>3 DEF Fits
  <2>2. ASSUME NEW i \in 1..(m + n) PROVE bytes[p + i] = (a \o b)[i]
    <3>1. CASE i <= m
      BY <1>1, <2>1, <3>1
    <3>2. CASE ~(i <= m)
      <4>1. i - m \in 1..n /\ m + (i - m) = i /\ p + m + (i - m) = p + i
        BY <1>1, <3>2
      <4>. QED BY <1>1, <2>1, <4>1
    <3>. QED BY <3>1, <3>2
  <2>3. Slice(p, m + n) = a \o b
    BY <1>2, <2>2 DEF Slice
  <2>4. Fits(p, m + n)
    BY <1>1, <2>1 DEF Fits
  <2>. QED BY <1>1, <2>3, <2>4 DEF Stands
<1>. QED BY <1>3, <1>4 DEF m

\* A slice stands where it was taken.
LEMMA SliceStands ==
    ASSUME bytes \in Seq(Byte), NEW p \in Nat, NEW n \in Nat, Fits(p, n)
    PROVE  Slice(p, n) \in Seq(Byte) /\ Len(Slice(p, n)) = n /\ Stands(Slice(p, n), p)
BY SliceInBuffer DEF Stands

LEMMA SmallPowers ==
    /\ Base \in Nat /\ Base > 3 /\ MaxU32 \in Nat
    /\ Power[1] = Base /\ Power[2] = Base * Base
    /\ Power[4] = MaxU32 + 1
    /\ Power[8] >= Power[4]
    /\ \A n \in {2, 4, 8} : Power[n] \in Nat \ {0}
<1>. Base \in Nat /\ Base > 3
  BY SizesAssumption
<1>1. /\ Power[1] = Base * Power[0] /\ Power[2] = Base * Power[1] /\ Power[3] = Base * Power[2]
      /\ Power[4] = Base * Power[3] /\ Power[5] = Base * Power[4] /\ Power[6] = Base * Power[5]
      /\ Power[7] = Base * Power[6] /\ Power[8] = Base * Power[7]
  <2>1. /\ 0 + 1 = 1 /\ 1 + 1 = 2 /\ 2 + 1 = 3 /\ 3 + 1 = 4 /\ 4 + 1 = 5 /\ 5 + 1 = 6
        /\ 6 + 1 = 7 /\ 7 + 1 = 8
    OBVIOUS
  <2>. QED BY <2>1, PowerFacts
<1>2. \A n \in 0..8 : Power[n] \in Nat \ {0}
  BY PowerFacts
<1>3. Power[1] = Base /\ Power[2] = Base * Base
  BY <1>1, PowerFacts
<1>4. ASSUME NEW x \in Nat PROVE Base * x >= x /\ Base * x \in Nat
  <2>1. Base * x = x + (Base - 1) * x /\ (Base - 1) * x \in Nat
    OBVIOUS
  <2>. QED BY <2>1
<1>5. Power[8] >= Power[4]
  <2>1. Power[8] >= Power[7] /\ Power[7] >= Power[6] /\ Power[6] >= Power[5] /\ Power[5] >= Power[4]
    BY <1>1, <1>2, <1>4
  <2>. QED BY <1>2, <2>1
<1>6. Power[4] = Base * Base * Base * Base
  <2>1. Power[3] = Base * (Base * Base) /\ Power[4] = Base * (Base * (Base * Base))
    BY <1>1, <1>3
  <2>2. Base * (Base * (Base * Base)) = Base * Base * Base * Base
    OBVIOUS
  <2>. QED BY <2>1, <2>2
<1>7. MaxU32 + 1 = Power[4] /\ MaxU32 \in Nat
  <2>1. MaxU32 = Power[4] - 1
    BY <1>6 DEF MaxU32
  <2>. QED BY <1>2, <2>1
<1>. QED BY <1>2, <1>3, <1>5, <1>7

LEMMA Markers ==
    /\ Marker(2) = Base - 3 /\ Marker(4) = Base - 2 /\ Marker(8) = Base - 1
    /\ \A w \in {2, 4, 8} : Marker(w) \in Byte
<1>1. Marker(2) = Base - 3 /\ Marker(4) = Base - 2 /\ Marker(8) = Base - 1
  BY DEF Marker
<1>2. Base - 3 \in Byte /\ Base - 2 \in Byte /\ Base - 1 \in Byte
  BY SmallPowers DEF Byte
<1>. QED BY <1>1, <1>2

\* The bytes of a length written in one of the widths.
LEMMA VarintIsBytes ==
    ASSUME NEW w \in Widths, NEW v \in Nat, Holds(w, v)
    PROVE  Varint(v, w) \in Seq(Byte) /\ Len(Varint(v, w)) = 1 + w
<1>1. CASE w = 0
  <2>1. v \in Byte
    BY <1>1, SmallPowers DEF Holds, Byte
  <2>. QED BY <1>1, <2>1 DEF Varint
<1>2. CASE w # 0
  <2>1. w \in {2, 4, 8} /\ Marker(w) \in Byte
    BY <1>2, Markers DEF Widths
  <2>2. v \in 0..(Power[w] - 1)
    BY <1>2, <2>1, SmallPowers DEF Holds
  <2>3. LittleEndian(v, w) \in Seq(Byte) /\ Len(LittleEndian(v, w)) = w
    BY <2>1, <2>2, WrittenNumber
  <2>. DEFINE r == LittleEndian(v, w)
             m == Marker(w)
  <2>. HIDE DEF r, m
  <2>4. <<m>> \o r \in Seq(Byte) /\ Len(<<m>> \o r) = 1 + w
    BY <2>1, <2>3 DEF r, m
  <2>. QED BY <1>2, <2>4 DEF Varint, r, m
<1>. QED BY <1>1, <1>2

\* read_varint returns a length of which the bytes it consumed are a spelling.
LEMMA VarintRead ==
    ASSUME bytes \in Seq(Byte), NEW p \in Nat, VarintError(p) = "none"
    PROVE  LET w == Width(At(p))
           IN  /\ w \in Widths /\ Holds(w, VarintValue(p))
               /\ Slice(p, VarintLen(p)) = Varint(VarintValue(p), w)
<1>. DEFINE w == Width(At(p))
            v == VarintValue(p)
<1>1. Fits(p, 1) /\ Fits(p, 1 + w) /\ VarintLen(p) = 1 + w
  BY DEF VarintError, VarintLen
<1>2. At(p) \in Byte /\ At(p) \in 0..(Base - 1)
  BY <1>1, AtIsByte DEF Byte
<1>3. w \in Widths
  BY DEF Width, Widths
<1>4. Slice(p, 1) = <<At(p)>>
  BY DEF Slice, At
<1>5. CASE w = 0
  <2>1. At(p) < Base - 3 /\ v = At(p)
    BY <1>2, <1>5, SmallPowers DEF Width, VarintValue
  <2>2. Slice(p, 1 + w) = Varint(v, w) /\ Holds(w, v)
    BY <1>4, <1>5, <2>1 DEF Varint, Holds
  <2>. QED BY <1>1, <1>3, <2>2
<1>6. CASE w # 0
  <2>1. w \in {2, 4, 8} /\ At(p) = Marker(w)
    <3>1. \/ w = 2 /\ At(p) = Base - 3
          \/ w = 4 /\ At(p) = Base - 2
          \/ w = 8 /\ At(p) = Base - 1
      BY <1>2, <1>6, SmallPowers DEF Width
    <3>. HIDE DEF w
    <3>. QED BY <3>1, Markers
  <2>2. Fits(p + 1, w) /\ p + 1 \in Nat /\ w \in Nat
    BY <1>1, <2>1 DEF Fits
  <2>. DEFINE b == Slice(p + 1, w)
  <2>3. b \in Seq(Byte) /\ Len(b) = w
    BY <2>2, SliceInBuffer
  <2>4. v = FromLeBytes(b)
    BY <2>1 DEF VarintValue, U16, U32, U64
  <2>. HIDE DEF b
  <2>5. v \in 0..(Power[w] - 1) /\ LittleEndian(v, w) = b
    BY <2>3, <2>4, FromLeBytesFacts
  <2>6. Holds(w, v)
    BY <1>6, <2>1, <2>5, SmallPowers DEF Holds
  <2>7. Slice(p, 1 + w) = <<At(p)>> \o b
    <3>1. Fits(p, 1 + w) /\ 1 + w \in Nat
      BY <1>1, <2>2
    <3>2. Stands(<<At(p)>>, p)
      BY <1>1, <1>4 DEF Stands
    <3>3. Stands(b, p + 1)
      BY <2>2, <2>3, SliceStands DEF b
    <3>4. <<At(p)>> \in Seq(Byte) /\ Len(<<At(p)>>) = 1
      BY <1>2
    <3>5. Stands(<<At(p)>> \o b, p)
      BY <2>3, <3>2, <3>3, <3>4, StandsSplit
    <3>6. Len(<<At(p)>> \o b) = 1 + w
      BY <2>3, <3>4
    <3>. QED BY <3>5, <3>6 DEF Stands
  <2>. QED BY <1>1, <1>3, <1>6, <2>1, <2>5, <2>6, <2>7 DEF Varint
<1>. QED BY <1>5, <1>6

\* A length that was written down, in any width, is what read_varint returns.
LEMMA VarintWritten ==
    ASSUME bytes \in Seq(Byte), NEW p \in Nat, NEW w \in Widths, NEW v \in 0..MaxU32,
           Holds(w, v), Stands(Varint(v, w), p)
    PROVE  /\ VarintError(p) = "none" /\ VarintValue(p) = v
           /\ VarintLen(p) = Len(Varint(v, w))
<1>0. v \in Nat /\ w \in Nat /\ v <= MaxU32
  BY SmallPowers DEF Widths
<1>1. Fits(p, 1 + w) /\ Slice(p, 1 + w) = Varint(v, w) /\ Len(Varint(v, w)) = 1 + w
  BY <1>0, VarintIsBytes DEF Stands
<1>2. Fits(p, 1) /\ At(p) = Varint(v, w)[1]
  <2>1. Slice(p, 1 + w)[1] = At(p)
    BY <1>0 DEF Slice, At
  <2>2. Fits(p, 1)
    BY <1>0, <1>1 DEF Fits
  <2>. QED BY <1>1, <2>1, <2>2
<1>3. Width(At(p)) = w /\ VarintValue(p) = v
  <2>1. CASE w = 0
    <3>1. At(p) = v /\ v < Base - 3
      BY <1>2, <2>1 DEF Varint, Holds
    <3>. QED BY <2>1, <3>1 DEF Width, VarintValue
  <2>2. CASE w # 0
    <3>1. w \in {2, 4, 8} /\ v \in 0..(Power[w] - 1)
      BY <1>0, <2>2, SmallPowers DEF Widths, Holds
    <3>. DEFINE r == LittleEndian(v, w)
    <3>2. r \in Seq(Byte) /\ Len(r) = w /\ FromLeBytes(r) = v
      BY <3>1, WrittenNumber
    <3>. HIDE DEF r
    <3>3. Varint(v, w) = <<Marker(w)>> \o r
      BY <2>2 DEF Varint, r
    <3>4. Marker(w) \in Byte
      BY <3>1, Markers
    <3>5. (<<Marker(w)>> \o r)[1] = Marker(w) /\ <<Marker(w)>> \in Seq(Byte) /\ Len(<<Marker(w)>>) = 1
      BY <3>2, <3>4
    <3>6. At(p) = Marker(w)
      BY <1>2, <3>3, <3>5
    <3>7. Width(At(p)) = w
      BY <3>1, <3>6, SmallPowers, Markers DEF Width
    <3>8. Stands(r, p + 1)
      BY <3>2, <3>3, <3>5, StandsSplit
    <3>9. Slice(p + 1, w) = r
      BY <3>2, <3>8 DEF Stands
    <3>10. VarintValue(p) = v
      BY <3>1, <3>2, <3>7, <3>9 DEF VarintValue, U16, U32, U64
    <3>. QED BY <3>7, <3>10
  <2>. QED BY <2>1, <2>2
<1>4. VarintError(p) = "none"
  BY <1>0, <1>1, <1>2, <1>3, SmallPowers DEF VarintError, VarintLen
<1>. QED BY <1>1, <1>3, <1>4 DEF VarintLen

\* Adjacent slices make a slice.
LEMMA SliceSplit ==
    ASSUME bytes \in Seq(Byte), NEW q \in Nat, NEW m \in Nat, NEW n \in Nat, Fits(q + m, n)
    PROVE  /\ Slice(q, m + n) = Slice(q, m) \o Slice(q + m, n)
           /\ Slice(q, m) \in Seq(Byte) /\ Slice(q + m, n) \in Seq(Byte)
           /\ Len(Slice(q, m)) = m /\ Len(Slice(q + m, n)) = n
<1>1. Fits(q, m) /\ q + m \in Nat
  BY DEF Fits
<1>. DEFINE a == Slice(q, m)
            b == Slice(q + m, n)
<1>2. /\ a \in Seq(Byte) /\ Len(a) = m /\ Stands(a, q)
      /\ b \in Seq(Byte) /\ Len(b) = n /\ Stands(b, q + m)
  BY <1>1, SliceStands
<1>. HIDE DEF a, b
<1>3. Stands(a \o b, q)
  BY <1>2, StandsSplit
<1>4. Len(a \o b) = m + n
  BY <1>2
<1>5. Slice(q, m + n) = a \o b
  BY <1>3, <1>4 DEF Stands
<1>. QED BY <1>2, <1>5 DEF a, b

\* What read_varstring and read_varbytes return, with the length in front.
LEMMA DataRead ==
    ASSUME bytes \in Seq(Byte), NEW q \in Nat, NEW m \in Nat, NEW max \in Nat, NEW tooLong,
           tooLong # "none", DataError(q + m, max, tooLong) = "none"
    PROVE  LET p == q + m
               w == Width(At(p))
           IN  /\ w \in Widths /\ Holds(w, Len(Data(p)))
               /\ Slice(q, DataEnd(p) - q) = Slice(q, m) \o Varint(Len(Data(p)), w) \o Data(p)
               /\ DataEnd(p) - q \in Nat
<1>. DEFINE p == q + m
            w == Width(At(p))
            d == Data(p)
            k == VarintLen(p)
            v == VarintValue(p)
<1>0. p \in Nat /\ bytes \in Seq(Byte)
  OBVIOUS
<1>1. VarintError(p) = "none" /\ Fits(DataStart(p), v)
  BY DEF DataError
<1>2. k \in Nat /\ Fits(p, k) /\ v \in Nat /\ Len(d) = v
  <2>1. DataError(p, max, tooLong) = "none"
    OBVIOUS
  <2>. HIDE DEF p
  <2>. QED BY <1>0, <1>1, <2>1, VarintInBuffer, DataInBuffer
<1>3. w \in Widths /\ Holds(w, v) /\ Slice(p, k) = Varint(v, w)
  BY <1>0, <1>1, VarintRead
<1>. HIDE DEF w, k, v, d
<1>4. Slice(q, m + k) = Slice(q, m) \o Varint(v, w)
  <2>1. Slice(q, m + k) = Slice(q, m) \o Slice(q + m, k)
    BY <1>2, SliceSplit
  <2>. QED BY <1>3, <2>1
<1>5. Slice(q, (m + k) + v) = Slice(q, m + k) \o Slice(q + (m + k), v)
  <2>1. m + k \in Nat /\ DataStart(p) = q + (m + k)
    BY <1>2 DEF DataStart, k
  <2>. QED BY <1>1, <1>2, <2>1, SliceSplit
<1>6. /\ DataEnd(p) - q = (m + k) + v /\ (m + k) + v \in Nat
      /\ Data(p) = Slice(q + (m + k), v)
  <2>1. DataStart(p) = q + (m + k)
    BY <1>2 DEF DataStart, k
  <2>. QED BY <1>2, <2>1 DEF DataEnd, Data, v
<1>. QED BY <1>2, <1>3, <1>4, <1>5, <1>6 DEF w, d

-----------------------------------------------------------------------------
(***************************************************************************)
(* The token table                                                         *)
(***************************************************************************)

\* Each entry of the list is the one before and one more token.
LEMMA TableSteps ==
    ASSUME NEW toks, NEW names, Len(toks) \in Nat,
           \A k \in 1..Len(toks) : SerializeToken(toks[k], names[k]) \in Seq(Byte)
    PROVE  LET table == TokenTable(toks, names)
           IN  /\ table \in [0..Len(toks) -> Seq(Byte)]
               /\ table[0] = <<>>
               /\ \A k \in 0..(Len(toks) - 1) :
                      table[k + 1] = table[k] \o SerializeToken(toks[k + 1], names[k + 1])
<1>. DEFINE n == Len(toks)
            D == Seq(Byte)
            token(k) == SerializeToken(toks[k], names[k])
            F == [x \in (0..(n - 1)) \X D |-> x[2] \o token(x[1] + 1)]
            Lists(f) == f = [k \in 0..n |-> IF k = 0 THEN <<>> ELSE f[k - 1] \o token(k)]
            first == <<>>
            f == Iterate(D, first, F, n)
<1>. HIDE DEF token
<1>0. n \in Nat /\ \A k \in 1..n : token(k) \in Seq(Byte)
  BY DEF token
<1>. HIDE DEF n
<1>1. ASSUME NEW k \in 0..(n - 1), NEW d \in D
      PROVE  F[<<k, d>>] = d \o token(k + 1) /\ F[<<k, d>>] \in D
  <2>1. token(k + 1) \in Seq(Byte)
    BY <1>0
  <2>2. F[<<k, d>>] = d \o token(k + 1)
    OBVIOUS
  <2>3. d \o token(k + 1) \in D
    <3>. DEFINE t == token(k + 1)
    <3>. HIDE DEF t
    <3>1. d \o t \in Seq(Byte)
      BY <2>1 DEF t
    <3>. QED BY <3>1 DEF t
  <2>. QED BY <2>2, <2>3
<1>. HIDE DEF F
<1>2. f \in [0..n -> D] /\ f[0] = first /\ \A k \in 0..(n - 1) : f[k + 1] = F[<<k, f[k]>>]
  <2>1. \A k \in 0..(n - 1), d \in D : F[<<k, d>>] \in D
    BY <1>1
  <2>2. first \in D
    OBVIOUS
  <2>. HIDE DEF D, first
  <2>. QED BY <1>0, <2>1, <2>2, RecursionUpTo
<1>. HIDE DEF f
<1>3. Lists(f)
  <2>1. ASSUME NEW k \in 0..n PROVE f[k] = IF k = 0 THEN <<>> ELSE f[k - 1] \o token(k)
    <3>1. CASE k = 0
      BY <1>2, <3>1
    <3>2. CASE k # 0
      <4>1. k - 1 \in 0..(n - 1) /\ (k - 1) + 1 = k /\ k - 1 \in 0..n
        BY <1>0, <3>2
      <4>2. f[k - 1] \in D
        BY <1>2, <4>1
      <4>3. f[(k - 1) + 1] = F[<<k - 1, f[k - 1]>>]
        BY <1>2, <4>1
      <4>. QED BY <1>1, <3>2, <4>1, <4>2, <4>3
    <3>. QED BY <3>1, <3>2
  <2>. QED BY <1>2, <2>1
<1>. DEFINE table == TokenTable(toks, names)
<1>4. Lists(table)
  <2>1. table = CHOOSE g : Lists(g)
    BY DEF TokenTable, token, n
  <2>. HIDE DEF Lists, table
  <2>. QED BY <1>3, <2>1
<1>. HIDE DEF table
<1>5. table[0] = <<>>
  BY <1>0, <1>4
<1>6. ASSUME NEW k \in 0..(n - 1) PROVE table[k + 1] = table[k] \o token(k + 1)
  <2>1. k + 1 \in 0..n /\ k + 1 # 0 /\ (k + 1) - 1 = k
    BY <1>0
  <2>2. table[k + 1] = IF k + 1 = 0 THEN <<>> ELSE table[(k + 1) - 1] \o token(k + 1)
    BY <1>4, <2>1
  <2>. QED BY <2>1, <2>2
<1>7. table \in [0..n -> D]
  <2>. DEFINE S == {k \in 0..n : table[k] \in D}
  <2>1. 0 \in S
    <3>1. <<>> \in Seq(Byte) /\ 0 \in 0..n
      BY <1>0
    <3>. QED BY <1>5, <3>1
  <2>2. ASSUME NEW k \in 0..(n - 1), k \in S PROVE k + 1 \in S
    <3>1. token(k + 1) \in Seq(Byte) /\ k + 1 \in 0..n
      BY <1>0
    <3>2. table[k] \o token(k + 1) \in Seq(Byte)
      <4>. DEFINE t == token(k + 1)
                 u == table[k]
      <4>1. u \in Seq(Byte)
        BY <2>2
      <4>. HIDE DEF t, u
      <4>2. u \o t \in Seq(Byte)
        BY <3>1, <4>1 DEF t
      <4>. QED BY <4>2 DEF t, u
    <3>. QED BY <1>6, <3>1, <3>2
  <2>3. 0..n \subseteq S
    <3>. HIDE DEF S
    <3>. QED BY <1>0, <2>1, <2>2, BoundedInduction
  <2>4. DOMAIN table = 0..n /\ table = [k \in 0..n |-> table[k]]
    BY <1>4
  <2>. QED BY <2>3, <2>4
<1>. QED BY <1>5, <1>6, <1>7 DEF table, token, n

\* A table has one token more than another, in front of which it is the same.
OneMore(all, allNames, toks, names) ==
    /\ Len(toks) \in Nat /\ Len(all) = Len(toks) + 1
    /\ \A k \in 1..Len(toks) : all[k] = toks[k] /\ allNames[k] = names[k]
    /\ \A k \in 1..Len(all) : SerializeToken(all[k], allNames[k]) \in Seq(Byte)

LastToken(all, allNames) == SerializeToken(all[Len(all)], allNames[Len(all)])

\* Then so are its bytes.
LEMMA TableAppend ==
    ASSUME NEW toks, NEW names, NEW all, NEW allNames, OneMore(all, allNames, toks, names)
    PROVE  TokenTable(all, allNames)[Len(all)] =
               TokenTable(toks, names)[Len(toks)] \o LastToken(all, allNames)
<1>0. /\ Len(toks) \in Nat /\ Len(all) = Len(toks) + 1
      /\ \A k \in 1..Len(toks) : all[k] = toks[k] /\ allNames[k] = names[k]
      /\ \A k \in 1..Len(all) : SerializeToken(all[k], allNames[k]) \in Seq(Byte)
  BY DEF OneMore
<1>. USE <1>0
<1>. DEFINE n == Len(toks)
            short == TokenTable(toks, names)
            long == TokenTable(all, allNames)
            S == {k \in 0..n : long[k] = short[k]}
<1>1. short[0] = <<>> /\ \A k \in 0..(n - 1) :
          short[k + 1] = short[k] \o SerializeToken(toks[k + 1], names[k + 1])
  <2>1. \A k \in 1..n : SerializeToken(toks[k], names[k]) \in Seq(Byte)
    <3>1. \A k \in 1..n : k \in 1..(n + 1)
      OBVIOUS
    <3>. QED BY <3>1
  <2>. QED BY <2>1, TableSteps
<1>2. long[0] = <<>> /\ \A k \in 0..n :
          long[k + 1] = long[k] \o SerializeToken(all[k + 1], allNames[k + 1])
  <2>1. Len(all) \in Nat /\ Len(all) - 1 = n
    OBVIOUS
  <2>2. \A k \in 1..Len(all) : SerializeToken(all[k], allNames[k]) \in Seq(Byte)
    OBVIOUS
  <2>3. long[0] = <<>> /\ \A k \in 0..(Len(all) - 1) :
            long[k + 1] = long[k] \o SerializeToken(all[k + 1], allNames[k + 1])
    BY <2>1, <2>2, TableSteps
  <2>. QED BY <2>1, <2>3
<1>. HIDE DEF short, long
<1>3. 0 \in S
  BY <1>1, <1>2
<1>4. ASSUME NEW k \in 0..(n - 1), k \in S PROVE k + 1 \in S
  <2>1. k + 1 \in 1..n /\ k \in 0..n /\ k + 1 \in 0..n
    OBVIOUS
  <2>2. all[k + 1] = toks[k + 1] /\ allNames[k + 1] = names[k + 1]
    BY <2>1
  <2>. QED BY <1>1, <1>2, <1>4, <2>1, <2>2
<1>5. 0..n \subseteq S
  <2>. HIDE DEF S
  <2>. QED BY <1>3, <1>4, BoundedInduction
<1>6. n \in 0..n /\ long[n] = short[n]
  BY <1>5
<1>7. LastToken(all, allNames) = SerializeToken(all[n + 1], allNames[n + 1])
  BY DEF LastToken
<1>8. long[n + 1] = short[n] \o LastToken(all, allNames)
  BY <1>2, <1>6, <1>7
<1>. QED BY <1>8 DEF short, long

\* The bytes of a token.
LEMMA TokenIsBytes ==
    ASSUME NEW t, NEW w \in Widths, t.hash \in Seq(Byte), t.method \in Seq(Byte),
           Holds(w, Len(t.method)), t.parameters_count \in 0..(Power[2] - 1),
           t.call_flags \in Byte
    PROVE  /\ SerializeToken(t, w) \in Seq(Byte)
           /\ Varint(Len(t.method), w) \in Seq(Byte)
           /\ LittleEndian(t.parameters_count, 2) \in Seq(Byte)
           /\ Len(LittleEndian(t.parameters_count, 2)) = 2
<1>. DEFINE a == t.hash
            b == Varint(Len(t.method), w)
            c == t.method
            d == LittleEndian(t.parameters_count, 2)
            e == <<IF t.has_return_value THEN 1 ELSE 0, t.call_flags>>
<1>1. b \in Seq(Byte)
  BY VarintIsBytes
<1>2. d \in Seq(Byte) /\ Len(d) = 2
  BY WrittenNumber
<1>3. e \in Seq(Byte)
  <2>1. 0 \in Byte /\ 1 \in Byte
    BY SmallPowers DEF Byte
  <2>2. (IF t.has_return_value THEN 1 ELSE 0) \in Byte
    BY <2>1
  <2>. QED BY <2>2
<1>4. SerializeToken(t, w) = a \o b \o c \o d \o e
  BY DEF SerializeToken
<1>5. a \o b \o c \o d \o e \in Seq(Byte)
  <2>1. a \in Seq(Byte) /\ c \in Seq(Byte)
    OBVIOUS
  <2>. HIDE DEF a, b, c, d, e
  <2>. QED BY <1>1, <1>2, <1>3, <2>1
<1>. QED BY <1>1, <1>2, <1>4, <1>5

\* What the checks on a token's name leave.
NameOk(t) ==
    /\ Len(t.method) <= MaxName
    /\ IsUtf8(t.method)
    /\ t.method # <<>> => t.method[1] # Underscore

\* A token that passes the checks of parse_method_tokens is one of the format,
\* and the bytes it was read from are the token written down.
LEMMA TokenRead ==
    ASSUME TypeOK, TokenError = "none"
    PROVE  LET t == MethodToken
               w == Width(At(NameAt))
           IN  /\ w \in Widths /\ Holds(w, Len(t.method))
               /\ t.hash \in Seq(Byte) /\ t.method \in Seq(Byte)
               /\ t.parameters_count \in 0..(Power[2] - 1)
               /\ t.call_flags \in FlagsAllowed
               /\ NameOk(t)
               /\ Slice(offset, TokenEnd - offset) = SerializeToken(t, w)
               /\ TokenEnd - offset \in Nat /\ TokenEnd <= Len(bytes)
<1>. DEFINE t == MethodToken
            w == Width(At(NameAt))
            d == Data(NameAt)
            L == ParametersAt - offset
            P == ParametersAt
            hash == Slice(offset, HashLen)
<1>0. bytes \in Seq(Byte) /\ Len(bytes) \in Nat /\ offset \in Nat /\ HashLen \in Nat /\ MaxName \in Nat
  BY FilesAssumption, SizesAssumption DEF TypeOK
<1>1. /\ Fits(offset, HashLen)
      /\ DataError(offset + HashLen, MaxName, "InvalidMethodToken") = "none"
      /\ IsUtf8(d) /\ (d # <<>> => d[1] # Underscore)
      /\ Fits(P, 4)
      /\ At(P + 2) \in {0, 1} /\ At(P + 3) \in FlagsAllowed
  BY DEF TokenError, NameAt
<1>2. /\ w \in Widths /\ Holds(w, Len(d))
      /\ Slice(offset, L) = hash \o Varint(Len(d), w) \o d
      /\ L \in Nat
  <2>1. "InvalidMethodToken" # "none"
    OBVIOUS
  <2>. QED BY <1>0, <1>1, <2>1, DataRead DEF NameAt, ParametersAt
<1>3. /\ d \in Seq(Byte) /\ Len(d) <= MaxName /\ hash \in Seq(Byte)
  <2>1. offset + HashLen \in Nat /\ "InvalidMethodToken" # "none"
    BY <1>0
  <2>2. d \in Seq(Byte) /\ Len(d) = VarintValue(NameAt) /\ VarintValue(NameAt) \in 0..MaxName
    BY <1>0, <1>1, <2>1, DataInBuffer DEF NameAt
  <2>3. hash \in Seq(Byte)
    BY <1>0, <1>1, SliceInBuffer
  <2>. QED BY <1>0, <2>2, <2>3
<1>4. t.hash = hash /\ t.method = d /\ t.parameters_count = U16(P)
      /\ t.has_return_value = (At(P + 2) = 1) /\ t.call_flags = At(P + 3)
  BY DEF MethodToken
<1>5. P = offset + L /\ TokenEnd - offset = L + 4 /\ P \in Nat /\ offset + (L + 2) = P + 2
  <2>1. P = DataEnd(NameAt) /\ DataEnd(NameAt) \in Nat
    <3>1. offset + HashLen \in Nat /\ "InvalidMethodToken" # "none"
      BY <1>0
    <3>2. DataEnd(NameAt) \in 0..Len(bytes)
      BY <1>0, <1>1, <3>1, DataInBuffer DEF NameAt
    <3>. QED BY <1>0, <3>2 DEF ParametersAt
  <2>. QED BY <1>0, <1>2, <2>1 DEF TokenEnd
<1>. HIDE DEF d, w, t, L, P, hash
<1>6. Fits(P, 2) /\ Fits(P + 2, 2)
  BY <1>0, <1>1, <1>5 DEF Fits
<1>7. /\ U16(P) \in 0..(Power[2] - 1)
      /\ Slice(P, 2) = LittleEndian(U16(P), 2)
  <2>1. Slice(P, 2) \in Seq(Byte) /\ Len(Slice(P, 2)) = 2
    BY <1>0, <1>5, <1>6, SliceInBuffer
  <2>. QED BY <2>1, FromLeBytesFacts DEF U16
<1>8. Slice(P + 2, 2) = <<IF t.has_return_value THEN 1 ELSE 0, t.call_flags>>
  <2>1. Slice(P + 2, 2) = <<At(P + 2), At(P + 3)>>
    <3>1. Slice(P + 2, 2) = <<bytes[P + 2 + 1], bytes[P + 2 + 2]>>
      BY DEF Slice
    <3>2. P + 2 + 2 = P + 3 + 1
      BY <1>5
    <3>. QED BY <3>1, <3>2 DEF At
  <2>2. (IF t.has_return_value THEN 1 ELSE 0) = At(P + 2)
    BY <1>1, <1>4
  <2>. QED BY <1>4, <2>1, <2>2
<1>9. Slice(offset, L + 4) = Slice(offset, L) \o Slice(P, 2) \o Slice(P + 2, 2)
  <2>. DEFINE two == 2
  <2>0. two \in Nat /\ L + two \in Nat /\ Fits(offset + L, two) /\ Fits(offset + (L + two), two)
    BY <1>2, <1>5, <1>6
  <2>. HIDE DEF two
  <2>4. bytes \in Seq(Byte) /\ offset \in Nat /\ L \in Nat
    BY <1>0, <1>2
  <2>1. Slice(offset, L + two) = Slice(offset, L) \o Slice(offset + L, two)
    BY <2>0, <2>4, SliceSplit
  <2>2. Slice(offset, (L + two) + two) = Slice(offset, L + two) \o Slice(offset + (L + two), two)
    BY <2>0, <2>4, SliceSplit
  <2>3. (L + 2) + 2 = L + 4
    BY <1>2
  <2>. QED BY <1>5, <2>1, <2>2, <2>3 DEF two
<1>10. Slice(offset, TokenEnd - offset) = SerializeToken(t, w)
  BY <1>2, <1>4, <1>5, <1>7, <1>8, <1>9 DEF SerializeToken
<1>11. TokenEnd <= Len(bytes) /\ TokenEnd - offset \in Nat
  BY <1>1, <1>2, <1>5 DEF TokenEnd, Fits, P
<1>12. NameOk(t)
  BY <1>1, <1>3, <1>4 DEF NameOk
<1>. QED BY <1>1, <1>2, <1>3, <1>4, <1>7, <1>10, <1>11, <1>12 DEF t, w

\* The raw compiler field, in front of which stands the magic.
Field == Slice(Len(Magic), CompilerLen)

\* There is a string in the field, padded by a zero.
FieldOk ==
    \E n \in 0..CompilerLen : /\ IsUtf8([i \in 1..n |-> Field[i]])
                              /\ n < CompilerLen => Field[n + 1] = 0

FieldFits == Fits(Len(Magic), CompilerLen)

\* The compiler string ends at the first zero.
LEMMA CompilerEnds ==
    ASSUME CompilerLen \in Nat, NEW o, Len(Magic) = o
    PROVE  LET zeros == {i \in 1..CompilerLen : bytes[o + i] = 0}
               len == CHOOSE n \in 0..CompilerLen :
                          /\ n + 1 \in zeros \/ n = CompilerLen
                          /\ \A i \in zeros : n < i
           IN  /\ len \in 0..CompilerLen
               /\ len + 1 \in zeros \/ len = CompilerLen
               /\ \A i \in zeros : len < i
<1>. DEFINE zeros == {i \in 1..CompilerLen : bytes[o + i] = 0}
<1>1. \E n \in 0..CompilerLen : /\ n + 1 \in zeros \/ n = CompilerLen
                                /\ \A i \in zeros : n < i
  <2>1. CASE zeros = {}
    BY <2>1
  <2>2. CASE zeros # {}
    <3>1. zeros \subseteq Nat
      OBVIOUS
    <3>2. PICK x \in zeros : \A y \in zeros : x <= y
      <4>. HIDE DEF zeros
      <4>. QED BY <2>2, <3>1, LeastNatural
    <3>3. x - 1 \in 0..CompilerLen /\ (x - 1) + 1 = x /\ \A i \in zeros : x - 1 < i
      BY <3>2
    <3>. QED BY <3>2, <3>3
  <2>. QED BY <2>1, <2>2
<1>. HIDE DEF zeros
<1>. QED BY <1>1 DEF zeros

\* The reader of the compiler string finds it if it is there.
LEMMA CompilerRead ==
    ASSUME TypeOK, offset = Len(Magic), Fits(offset, CompilerLen)
    PROVE  IsUtf8(Compiler) <=> FieldOk
<1>. DEFINE zeros == {i \in 1..CompilerLen : bytes[offset + i] = 0}
            len == CHOOSE n \in 0..CompilerLen :
                       /\ n + 1 \in zeros \/ n = CompilerLen
                       /\ \A i \in zeros : n < i
<1>0. CompilerLen \in Nat
  BY SizesAssumption
<1>1. /\ len \in 0..CompilerLen
      /\ len + 1 \in zeros \/ len = CompilerLen
      /\ \A i \in zeros : len < i
  BY <1>0, CompilerEnds
<1>2. Compiler = Slice(offset, len)
  BY DEF Compiler
<1>. HIDE DEF len
<1>3. \A i \in 1..CompilerLen : Field[i] = bytes[offset + i]
  BY DEF Field, Slice
<1>4. \A n \in 0..CompilerLen : IsUtf8([i \in 1..n |-> Field[i]]) <=>
                                    \A i \in 1..n : bytes[offset + i] \notin NotUtf8
  <2>1. ASSUME NEW n \in 0..CompilerLen
        PROVE  IsUtf8([i \in 1..n |-> Field[i]]) <=>
                   \A i \in 1..n : bytes[offset + i] \notin NotUtf8
    <3>1. \A i \in 1..n : i \in 1..CompilerLen
      BY <1>0
    <3>. QED BY <1>3, <3>1 DEF IsUtf8
  <2>. QED BY <2>1
<1>5. IsUtf8(Compiler) <=> \A i \in 1..len : bytes[offset + i] \notin NotUtf8
  BY <1>2 DEF IsUtf8, Slice
<1>6. ASSUME IsUtf8(Compiler) PROVE FieldOk
  <2>1. len < CompilerLen => Field[len + 1] = 0
    BY <1>0, <1>1, <1>3
  <2>. QED BY <1>1, <1>4, <1>5, <1>6, <2>1 DEF FieldOk
<1>7. ASSUME FieldOk PROVE IsUtf8(Compiler)
  <2>1. PICK n \in 0..CompilerLen : /\ IsUtf8([i \in 1..n |-> Field[i]])
                                    /\ n < CompilerLen => Field[n + 1] = 0
    BY <1>7 DEF FieldOk
  <2>2. len <= n
    <3>1. CASE n < CompilerLen
      <4>1. n + 1 \in zeros
        BY <1>0, <1>3, <2>1, <3>1
      <4>. HIDE DEF zeros
      <4>2. len < n + 1
        BY <1>1, <4>1
      <4>. QED BY <1>0, <1>1, <4>2
    <3>2. CASE ~(n < CompilerLen)
      BY <1>0, <1>1, <3>2
    <3>. QED BY <3>1, <3>2
  <2>3. \A i \in 1..len : i \in 1..n
    BY <1>0, <1>1, <2>2
  <2>. QED BY <1>4, <1>5, <2>1, <2>3
<1>. QED BY <1>6, <1>7

\* The next n bytes read.
LEMMA ReadOn ==
    ASSUME bytes \in Seq(Byte), NEW p \in Nat, NEW n \in Nat, Fits(p, n)
    PROVE  Slice(0, p + n) = Slice(0, p) \o Slice(p, n)
<1>. DEFINE zero == 0
<1>1. zero \in Nat /\ zero + p = p
  OBVIOUS
<1>. HIDE DEF zero
<1>2. Slice(zero, p + n) = Slice(zero, p) \o Slice(zero + p, n)
  BY <1>1, SliceSplit
<1>. QED BY <1>1, <1>2 DEF zero

\* The next length and the data behind it.
LEMMA DataReadOn ==
    ASSUME bytes \in Seq(Byte), NEW p \in Nat, NEW max \in Nat, NEW tooLong,
           tooLong # "none", DataError(p, max, tooLong) = "none"
    PROVE  \E w \in Widths : /\ Holds(w, Len(Data(p)))
                             /\ Slice(0, DataEnd(p)) =
                                    Slice(0, p) \o Varint(Len(Data(p)), w) \o Data(p)
<1>. DEFINE zero == 0
<1>1. zero \in Nat /\ zero + p = p /\ DataError(zero + p, max, tooLong) = "none"
  OBVIOUS
<1>. HIDE DEF zero
<1>. DEFINE w == Width(At(zero + p))
<1>2. /\ w \in Widths /\ Holds(w, Len(Data(zero + p)))
      /\ Slice(zero, DataEnd(zero + p) - zero) =
             Slice(zero, p) \o Varint(Len(Data(zero + p)), w) \o Data(zero + p)
  BY <1>1, DataRead
<1>3. DataEnd(p) - zero = DataEnd(p)
  <2>1. DataEnd(p) \in 0..Len(bytes)
    BY DataInBuffer
  <2>. QED BY <2>1 DEF zero
<1>. HIDE DEF w
<1>4. w \in Widths /\ Holds(w, Len(Data(p)))
      /\ Slice(0, DataEnd(p)) = Slice(0, p) \o Varint(Len(Data(p)), w) \o Data(p)
  BY <1>1, <1>2, <1>3 DEF zero
<1>. QED BY <1>4

-----------------------------------------------------------------------------
(***************************************************************************)
(* What is accepted is of the format                                       *)
(***************************************************************************)

\* The beginning of a file, up to the end of the source string, of the token
\* count and of the tokens.
UpToSource(field, src, s) == Magic \o field \o Varint(Len(src), s) \o src

UpToCount(field, src, cnt, s, n) ==
    UpToSource(field, src, s) \o <<0>> \o Varint(cnt, n)

UpToTokens(field, src, cnt, toks, s, n, names) ==
    UpToCount(field, src, cnt, s, n) \o TokenTable(toks, names)[Len(toks)]

TokenOk(t) ==
    /\ t.hash \in Seq(Byte) /\ t.method \in Seq(Byte)
    /\ t.parameters_count \in 0..(Power[2] - 1)
    /\ t.call_flags \in FlagsAllowed
    /\ NameOk(t)

\* The bytes read so far (`here`) are the parts parsed so far, written down with
\* widths s, n and names.
SoFar(st, here, field, src, cnt, toks, scr, s, n, names) ==
    /\ st = "compiler" => here = Magic
    /\ st = "source" => here = Magic \o field
    /\ st = "reserved byte" => here = UpToSource(field, src, s)
    /\ st = "token count" => here = UpToSource(field, src, s) \o <<0>>
    /\ st \in {"token", "reserved word"} => here = UpToTokens(field, src, cnt, toks, s, n, names)
    /\ st = "script" => here = UpToTokens(field, src, cnt, toks, s, n, names) \o <<0, 0>>
    /\ st = "trailer" =>
           \E w \in Widths :
               /\ Holds(w, Len(scr))
               /\ here = UpToTokens(field, src, cnt, toks, s, n, names) \o <<0, 0>>
                             \o Varint(Len(scr), w) \o scr
    /\ st \notin {"size", "magic", "compiler", "source"} => Holds(s, Len(src)) /\ IsUtf8(src)
    /\ st \in {"token", "reserved word", "script", "trailer"} => Holds(n, cnt)
    /\ \A i \in 1..Len(toks) : Holds(names[i], Len(toks[i].method)) /\ TokenOk(toks[i])

ReadSoFar ==
    \E s \in Widths, n \in Widths, names \in [1..Len(tokens) -> Widths] :
        SoFar(stage, Slice(0, offset), Field, source, count, tokens, script, s, n, names)

FormatInv ==
    /\ stage # "size" => Len(bytes) <= MaxFileSize
    /\ stage \in {"size", "magic"} => offset = 0
    /\ stage = "compiler" => offset = Len(Magic)
    /\ stage \notin {"size", "magic", "compiler"} => FieldOk /\ FieldFits
    /\ result = "ok" => stage = "trailer"
    /\ ReadSoFar

\* A token that was accepted is made of bytes.
LEMMA TokenOkIsBytes ==
    ASSUME NEW t, NEW w \in Widths, TokenOk(t), Holds(w, Len(t.method))
    PROVE  SerializeToken(t, w) \in Seq(Byte)
<1>1. t.call_flags \in Byte
  BY LimitsAssumption DEF TokenOk
<1>. QED BY <1>1, TokenIsBytes DEF TokenOk

LEMMA Joined ==
    ASSUME NEW a \in Seq(Byte), NEW b \in Seq(Byte)
    PROVE  a \o b \in Seq(Byte) /\ Len(a \o b) = Len(a) + Len(b)
OBVIOUS

LEMMA Associative ==
    ASSUME NEW a \in Seq(Byte), NEW b \in Seq(Byte), NEW c \in Seq(Byte)
    PROVE  (a \o b) \o c = a \o (b \o c)
OBVIOUS

\* The beginning of a file is made of bytes.
LEMMA UpToCountIsBytes ==
    ASSUME NEW field \in Seq(Byte), NEW src \in Seq(Byte), NEW cnt \in Nat,
           NEW s \in Widths, NEW n \in Widths, Holds(s, Len(src)), Holds(n, cnt)
    PROVE  /\ UpToSource(field, src, s) \in Seq(Byte)
           /\ UpToCount(field, src, cnt, s, n) \in Seq(Byte)
<1>. DEFINE a == Varint(Len(src), s)
            b == Varint(cnt, n)
<1>1. a \in Seq(Byte) /\ b \in Seq(Byte) /\ Magic \in Seq(Byte)
  BY VarintIsBytes, SizesAssumption
<1>2. <<0>> \in Seq(Byte)
  BY SmallPowers DEF Byte
<1>. HIDE DEF a, b
<1>. QED BY <1>1, <1>2 DEF UpToSource, UpToCount, a, b

\* The compiler field, once it was read.
LEMMA FieldIsBytes ==
    ASSUME bytes \in Seq(Byte), Fits(Len(Magic), CompilerLen)
    PROVE  Field \in Seq(Byte) /\ Len(Field) = CompilerLen
<1>1. Len(Magic) \in Nat /\ CompilerLen \in Nat
  BY SizesAssumption
<1>. QED BY <1>1, SliceInBuffer DEF Field

\* Zero is written down as zero bytes.
LEMMA ZeroBytes == LittleEndian(0, 2) = <<0, 0>>
<1>1. \A i \in 1..2 : (0 \div Power[i - 1]) % Base = 0
  <2>1. \A i \in 1..2 : Power[i - 1] \in Nat \ {0}
    BY PowerFacts
  <2>2. \A q \in Nat \ {0} : 0 \div q = 0
    OBVIOUS
  <2>3. 0 % Base = 0
    BY SmallPowers
  <2>. QED BY <2>1, <2>2, <2>3
<1>2. LittleEndian(0, 2) = [i \in 1..2 |-> 0]
  BY <1>1 DEF LittleEndian
<1>. QED BY <1>2

\* The word read as zero is two zero bytes.
LEMMA ZeroWord ==
    ASSUME bytes \in Seq(Byte), NEW p \in Nat, Fits(p, 2), U16(p) = 0
    PROVE  Slice(p, 2) = <<0, 0>>
<1>. DEFINE two == 2
<1>1. two \in Nat /\ Fits(p, two)
  OBVIOUS
<1>. HIDE DEF two
<1>2. Slice(p, two) \in Seq(Byte) /\ Len(Slice(p, two)) = two
  BY <1>1, SliceInBuffer
<1>3. LittleEndian(FromLeBytes(Slice(p, two)), two) = Slice(p, two)
  BY <1>2, FromLeBytesFacts
<1>4. Slice(p, 2) = LittleEndian(0, 2)
  BY <1>3 DEF two, U16
<1>. QED BY <1>4, ZeroBytes

LEMMA FormatInit == Init => FormatInv
<1>. SUFFICES ASSUME Init PROVE FormatInv
  OBVIOUS
<1>1. Len(tokens) = 0 /\ 0 \in Widths /\ tokens = <<>>
  BY DEF Init, Widths
<1>2. [i \in 1..Len(tokens) |-> 0] \in [1..Len(tokens) -> Widths]
  BY <1>1
<1>3. SoFar(stage, Slice(0, offset), Field, source, count, tokens, script, 0, 0,
            [i \in 1..Len(tokens) |-> 0])
  BY <1>1 DEF Init, SoFar
<1>4. ReadSoFar
  BY <1>1, <1>2, <1>3 DEF ReadSoFar
<1>. QED BY <1>4 DEF Init, FormatInv

\* One case per action of parse.
LEMMA FormatNext == Inv /\ FormatInv /\ [Next]_vars => FormatInv'
<1>. SUFFICES ASSUME Inv, FormatInv, [Next]_vars PROVE FormatInv'
  OBVIOUS
<1>0. /\ bytes \in Seq(Byte) /\ Len(bytes) \in Nat /\ offset \in Nat
      /\ Len(Magic) \in Nat /\ CompilerLen \in Nat
      /\ MaxSource \in Nat /\ MaxScript \in Nat /\ TypeOK
      /\ Len(tokens) \in Nat
  BY FilesAssumption, SizesAssumption DEF TypeOK, Inv
<1>b. bytes' = bytes
  BY DEF Next, Reject, RejectAt, Read, CheckSize, ReadMagic, ReadCompiler, ReadSource,
         ReadReservedByte, ReadTokenCount, ReadToken, TokensRead, ReadReservedWord, ReadScript,
         Accept, Finished, vars
<1>f. Field' = Field /\ (FieldOk => FieldOk') /\ (FieldFits => FieldFits')
  <2>1. Field' = Field
    BY <1>b DEF Field, Slice
  <2>. QED BY <1>b, <2>1 DEF FieldOk, FieldFits, IsUtf8, Fits
<1>h. \A k \in Nat : offset' = k => Slice(0, offset)' = Slice(0, k)
  BY <1>b DEF Slice
<1>w. PICK s \in Widths, n \in Widths, names \in [1..Len(tokens) -> Widths] :
          SoFar(stage, Slice(0, offset), Field, source, count, tokens, script, s, n, names)
  BY DEF FormatInv, ReadSoFar
<1>s. ASSUME NEW s1 \in Widths, NEW n1 \in Widths, NEW names1 \in [1..Len(tokens') -> Widths],
             NEW k \in Nat, offset' = k,
             SoFar(stage', Slice(0, k), Field, source', count', tokens', script', s1, n1, names1)
      PROVE  ReadSoFar'
  <2>1. Slice(0, offset)' = Slice(0, k)
    BY <1>h, <1>s
  <2>. QED BY <1>f, <1>s, <2>1 DEF ReadSoFar
<1>. USE <1>0
<1>1. CASE Reject
  <2>1. \E error : RejectAt(stage, error) /\ error \in Errors
    BY <1>1, ErrorsAreNotOk DEF Reject, RejectAt
  <2>2. /\ result' # "ok" /\ stage' = stage /\ offset' = offset /\ tokens' = tokens
        /\ source' = source /\ count' = count /\ script' = script
    BY <2>1 DEF RejectAt, Errors
  <2>3. ReadSoFar'
    BY <1>w, <1>s, <2>2
  <2>. QED BY <1>b, <1>f, <2>2, <2>3 DEF FormatInv
<1>2. CASE CheckSize
  <2>1. /\ stage' = "magic" /\ offset' = 0 /\ result' = "running" /\ SizeError = "none"
        /\ stage = "size" /\ UNCHANGED <<tokens, source, count, script>>
    BY <1>2 DEF CheckSize, Read
  <2>2. Len(bytes) <= MaxFileSize
    BY <2>1, SizesAssumption DEF SizeError
  <2>3. SoFar(stage', Slice(0, 0), Field, source', count', tokens', script', s, n, names)
    BY <1>w, <2>1 DEF SoFar
  <2>4. ReadSoFar'
    BY <1>s, <2>1, <2>3
  <2>. QED BY <1>b, <2>1, <2>2, <2>4 DEF FormatInv
<1>3. CASE ReadMagic
  <2>1. /\ stage' = "compiler" /\ offset' = offset + Len(Magic) /\ result' = "running"
        /\ MagicError = "none" /\ stage = "magic" /\ UNCHANGED <<tokens, source, count, script>>
    BY <1>3 DEF ReadMagic, Read
  <2>2. offset = 0 /\ offset' = Len(Magic) /\ Slice(0, Len(Magic)) = Magic
    BY <2>1 DEF FormatInv, MagicError
  <2>3. SoFar(stage', Slice(0, Len(Magic)), Field, source', count', tokens', script', s, n, names)
    BY <1>w, <2>1, <2>2 DEF SoFar
  <2>4. ReadSoFar'
    BY <1>s, <2>1, <2>2, <2>3
  <2>. QED BY <1>b, <2>1, <2>2, <2>4 DEF FormatInv
<1>4. CASE ReadCompiler
  <2>1. /\ stage' = "source" /\ offset' = offset + CompilerLen /\ result' = "running"
        /\ CompilerError = "none" /\ stage = "compiler" /\ UNCHANGED <<tokens, source, count, script>>
    BY <1>4 DEF ReadCompiler, Read
  <2>2. offset = Len(Magic) /\ Fits(offset, CompilerLen) /\ IsUtf8(Compiler)
    BY <2>1 DEF FormatInv, CompilerError
  <2>3. FieldOk /\ FieldFits
    BY <2>2, CompilerRead DEF FieldFits
  <2>4. Slice(0, offset) = Magic
    BY <1>w, <2>1 DEF SoFar
  <2>5. Slice(0, offset + CompilerLen) = Magic \o Field
    BY <2>2, <2>4, ReadOn DEF Field
  <2>6. SoFar(stage', Slice(0, offset + CompilerLen), Field, source', count', tokens', script',
              s, n, names)
    BY <1>w, <2>1, <2>5 DEF SoFar
  <2>7. ReadSoFar'
    BY <1>s, <2>1, <2>6
  <2>. QED BY <1>b, <1>f, <2>1, <2>3, <2>7 DEF FormatInv
<1>5. CASE ReadSource
  <2>1. /\ stage' = "reserved byte" /\ offset' = DataEnd(offset) /\ result' = "running"
        /\ SourceError = "none" /\ stage = "source" /\ source' = Data(offset)
        /\ UNCHANGED <<tokens, count, script>>
    BY <1>5 DEF ReadSource, Read
  <2>2. DataError(offset, MaxSource, "SourceTooLong") = "none" /\ IsUtf8(Data(offset))
    BY <2>1 DEF SourceError
  <2>3. PICK w \in Widths : /\ Holds(w, Len(Data(offset)))
                            /\ Slice(0, DataEnd(offset)) =
                                   Slice(0, offset) \o Varint(Len(Data(offset)), w) \o Data(offset)
    BY <2>2, DataReadOn
  <2>4. DataEnd(offset) \in Nat
    <3>1. DataEnd(offset) \in 0..Len(bytes)
      BY <2>2, DataInBuffer
    <3>. QED BY <3>1
  <2>5. Slice(0, offset) = Magic \o Field
    BY <1>w, <2>1 DEF SoFar
  <2>6. Slice(0, DataEnd(offset)) = UpToSource(Field, source', w)
    BY <2>1, <2>3, <2>5 DEF UpToSource
  <2>7. SoFar(stage', Slice(0, DataEnd(offset)), Field, source', count', tokens', script',
              w, n, names)
    BY <1>w, <2>1, <2>2, <2>3, <2>6 DEF SoFar
  <2>8. ReadSoFar'
    BY <1>s, <2>1, <2>4, <2>7
  <2>. QED BY <1>b, <1>f, <2>1, <2>8 DEF FormatInv
<1>6. CASE ReadReservedByte
  <2>1. /\ stage' = "token count" /\ offset' = offset + 1 /\ result' = "running"
        /\ ReservedByteError = "none" /\ stage = "reserved byte"
        /\ UNCHANGED <<tokens, source, count, script>>
    BY <1>6 DEF ReadReservedByte, Read
  <2>2. Fits(offset, 1) /\ At(offset) = 0
    BY <2>1 DEF ReservedByteError
  <2>3. Slice(offset, 1) = <<0>>
    BY <2>2 DEF Slice, At
  <2>4. Slice(0, offset + 1) = Slice(0, offset) \o <<0>>
    <3>. DEFINE one == 1
    <3>1. one \in Nat /\ Fits(offset, one) /\ Slice(offset, one) = <<0>>
      BY <2>2, <2>3
    <3>. HIDE DEF one
    <3>2. Slice(0, offset + one) = Slice(0, offset) \o Slice(offset, one)
      BY <3>1, ReadOn
    <3>. QED BY <3>1, <3>2 DEF one
  <2>5. SoFar(stage', Slice(0, offset + 1), Field, source', count', tokens', script', s, n, names)
    BY <1>w, <2>1, <2>4 DEF SoFar
  <2>6. offset + 1 \in Nat
    OBVIOUS
  <2>7. ReadSoFar'
    BY <1>s, <2>1, <2>5, <2>6
  <2>. QED BY <1>b, <1>f, <2>1, <2>7 DEF FormatInv
<1>7. CASE ReadTokenCount
  <2>1. /\ stage' = "token" /\ offset' = DataStart(offset) /\ result' = "running"
        /\ CountError = "none" /\ stage = "token count" /\ count' = VarintValue(offset)
        /\ UNCHANGED <<tokens, source, script>>
    BY <1>7 DEF ReadTokenCount, Read
  <2>2. VarintError(offset) = "none" /\ tokens = <<>> /\ Len(tokens) = 0
    BY <2>1 DEF CountError, Inv, Progress
  <2>3. PICK w \in Widths : /\ Holds(w, VarintValue(offset))
                            /\ Slice(offset, VarintLen(offset)) = Varint(VarintValue(offset), w)
    BY <2>2, VarintRead
  <2>4. VarintLen(offset) \in Nat /\ Fits(offset, VarintLen(offset)) /\ DataStart(offset) \in Nat
    BY <2>2, VarintInBuffer DEF DataStart
  <2>5. Slice(0, DataStart(offset)) = Slice(0, offset) \o Varint(VarintValue(offset), w)
    BY <2>3, <2>4, ReadOn DEF DataStart
  <2>6. Slice(0, DataStart(offset)) = UpToCount(Field, source, count', s, w)
    <3>1. Slice(0, offset) = UpToSource(Field, source, s) \o <<0>>
      BY <1>w, <2>1 DEF SoFar
    <3>. QED BY <2>1, <2>5, <3>1 DEF UpToCount
  <2>7. Slice(0, DataStart(offset)) = UpToTokens(Field, source, count', tokens, s, w, names)
    <3>1. TokenTable(tokens, names)[0] = <<>>
      <4>1. \A i \in 1..Len(tokens) : SerializeToken(tokens[i], names[i]) \in Seq(Byte)
        BY <2>2
      <4>. QED BY <4>1, TableSteps
    <3>2. Slice(0, DataStart(offset)) \in Seq(Byte)
      <4>1. Fits(0, DataStart(offset))
        BY <2>4 DEF Fits, DataStart
      <4>. QED BY <2>4, <4>1, SliceInBuffer
    <3>. DEFINE h == Slice(0, DataStart(offset))
    <3>3. h \o <<>> = h
      <4>. HIDE DEF h
      <4>. QED BY <3>2 DEF h
    <3>. QED BY <2>2, <2>6, <3>1, <3>3 DEF UpToTokens
  <2>8. SoFar(stage', Slice(0, DataStart(offset)), Field, source', count', tokens', script',
              s, w, names)
    BY <1>w, <2>1, <2>3, <2>7 DEF SoFar
  <2>9. ReadSoFar'
    BY <1>s, <2>1, <2>4, <2>8
  <2>. QED BY <1>b, <1>f, <2>1, <2>9 DEF FormatInv
<1>8. CASE ReadToken
  <2>. DEFINE m == Len(tokens)
              t == MethodToken
              w == Width(At(NameAt))
              L == TokenEnd - offset
              more == [i \in 1..(m + 1) |-> IF i = m + 1 THEN w ELSE names[i]]
              all == Append(tokens, t)
  <2>1. /\ stage' = "token" /\ offset' = TokenEnd /\ result' = "running"
        /\ TokenError = "none" /\ stage = "token" /\ tokens' = all
        /\ UNCHANGED <<source, count, script>>
    BY <1>8 DEF ReadToken, Read
  <2>2. /\ w \in Widths /\ Holds(w, Len(t.method)) /\ TokenOk(t)
        /\ Slice(offset, L) = SerializeToken(t, w)
        /\ L \in Nat /\ TokenEnd <= Len(bytes)
    BY <2>1, TokenRead DEF TokenOk
  <2>3. TokenEnd = offset + L /\ Fits(offset, L) /\ TokenEnd \in Nat
    <3>1. TokenEnd \in Int
      BY <2>1, TokenFacts DEF Inv
    <3>. HIDE DEF L
    <3>2. L = TokenEnd - offset
      BY DEF L
    <3>. QED BY <2>2, <3>1, <3>2 DEF Fits
  <2>. HIDE DEF t, w, L
  <2>4. /\ Len(all) = m + 1 /\ all[m + 1] = t /\ \A i \in 1..m : all[i] = tokens[i]
        /\ m \in Nat
    BY DEF TypeOK
  <2>5. /\ more \in [1..(m + 1) -> Widths] /\ more[m + 1] = w
        /\ \A i \in 1..m : more[i] = names[i]
    BY <2>2, <2>4
  <2>6. \A i \in 1..m : Holds(names[i], Len(tokens[i].method)) /\ TokenOk(tokens[i])
    BY <1>w DEF SoFar
  <2>. HIDE DEF all, more
  <2>7. \A i \in 1..(m + 1) : Holds(more[i], Len(all[i].method)) /\ TokenOk(all[i])
    <3>1. \A i \in 1..(m + 1) : i = m + 1 \/ i \in 1..m
      BY <2>4
    <3>. QED BY <2>2, <2>4, <2>5, <2>6, <3>1
  <2>8. TokenTable(all, more)[m + 1] = TokenTable(tokens, names)[m] \o SerializeToken(t, w)
    <3>1. \A i \in 1..(m + 1) : SerializeToken(all[i], more[i]) \in Seq(Byte)
      BY <2>5, <2>7, TokenOkIsBytes
    <3>2. TokenTable(all, more)[m + 1] = TokenTable(tokens, names)[m] \o SerializeToken(t, w)
      <4>1. \A k \in 1..Len(tokens) : all[k] = tokens[k] /\ more[k] = names[k]
        BY <2>4, <2>5
      <4>2. \A k \in 1..Len(all) : SerializeToken(all[k], more[k]) \in Seq(Byte)
        BY <2>4, <3>1
      <4>3. OneMore(all, more, tokens, names)
        BY <2>4, <4>1, <4>2 DEF OneMore
      <4>4. LastToken(all, more) = SerializeToken(t, w)
        BY <2>4, <2>5 DEF LastToken
      <4>. QED BY <2>4, <4>3, <4>4, TableAppend
    <3>. QED BY <3>2
  <2>9. Slice(0, TokenEnd) = UpToTokens(Field, source, count, all, s, n, more)
    <3>. DEFINE a == UpToCount(Field, source, count, s, n)
                b == TokenTable(tokens, names)[m]
                c == SerializeToken(t, w)
    <3>1. Slice(0, TokenEnd) = Slice(0, offset) \o c
      BY <2>2, <2>3, ReadOn
    <3>2. Slice(0, offset) = a \o b
      BY <1>w, <2>1 DEF SoFar, UpToTokens
    <3>3. a \in Seq(Byte)
      <4>1. Field \in Seq(Byte)
        BY <2>1, FieldIsBytes DEF FormatInv, FieldFits
      <4>2. Holds(s, Len(source)) /\ Holds(n, count) /\ source \in Seq(Byte) /\ count \in Nat
        BY <1>w, <2>1, SizesAssumption DEF SoFar, TypeOK
      <4>. QED BY <4>1, <4>2, UpToCountIsBytes
    <3>4. b \in Seq(Byte)
      <4>1. \A i \in 1..m : SerializeToken(tokens[i], names[i]) \in Seq(Byte)
        BY <2>6, TokenOkIsBytes
      <4>2. TokenTable(tokens, names) \in [0..m -> Seq(Byte)]
        BY <4>1, TableSteps
      <4>. QED BY <2>4, <4>2
    <3>5. c \in Seq(Byte)
      BY <2>2, TokenOkIsBytes
    <3>. HIDE DEF a, b, c
    <3>6. (a \o b) \o c = a \o (b \o c)
      BY <3>3, <3>4, <3>5, Associative
    <3>. QED BY <2>4, <2>8, <3>1, <3>2, <3>6 DEF UpToTokens, a, b, c
  <2>10. SoFar(stage', Slice(0, TokenEnd), Field, source', count', tokens', script', s, n, more)
    BY <1>w, <2>1, <2>4, <2>7, <2>9 DEF SoFar
  <2>11. ReadSoFar'
    BY <1>s, <2>1, <2>3, <2>4, <2>5, <2>10
  <2>. QED BY <1>b, <1>f, <2>1, <2>11 DEF FormatInv
<1>9. CASE TokensRead
  <2>1. /\ stage' = "reserved word" /\ offset' = offset /\ result' = "running" /\ stage = "token"
        /\ UNCHANGED <<tokens, source, count, script>>
    BY <1>9 DEF TokensRead, Read
  <2>2. SoFar(stage', Slice(0, offset), Field, source', count', tokens', script', s, n, names)
    BY <1>w, <2>1 DEF SoFar
  <2>3. ReadSoFar'
    BY <1>s, <2>1, <2>2
  <2>. QED BY <1>b, <1>f, <2>1, <2>3 DEF FormatInv
<1>10. CASE ReadReservedWord
  <2>1. /\ stage' = "script" /\ offset' = offset + 2 /\ result' = "running"
        /\ ReservedWordError = "none" /\ stage = "reserved word"
        /\ UNCHANGED <<tokens, source, count, script>>
    BY <1>10 DEF ReadReservedWord, Read
  <2>2. Fits(offset, 2) /\ U16(offset) = 0
    BY <2>1 DEF ReservedWordError
  <2>3. Slice(offset, 2) = <<0, 0>>
    BY <2>2, ZeroWord
  <2>4. Slice(0, offset + 2) = Slice(0, offset) \o <<0, 0>>
    <3>. DEFINE two == 2
    <3>1. two \in Nat /\ Fits(offset, two) /\ Slice(offset, two) = <<0, 0>>
      BY <2>2, <2>3
    <3>. HIDE DEF two
    <3>2. Slice(0, offset + two) = Slice(0, offset) \o Slice(offset, two)
      BY <3>1, ReadOn
    <3>. QED BY <3>1, <3>2 DEF two
  <2>5. SoFar(stage', Slice(0, offset + 2), Field, source', count', tokens', script', s, n, names)
    BY <1>w, <2>1, <2>4 DEF SoFar
  <2>6. offset + 2 \in Nat
    OBVIOUS
  <2>7. ReadSoFar'
    BY <1>s, <2>1, <2>5, <2>6
  <2>. QED BY <1>b, <1>f, <2>1, <2>7 DEF FormatInv
<1>11. CASE ReadScript
  <2>1. /\ stage' = "trailer" /\ offset' = DataEnd(offset) /\ result' = "running"
        /\ ScriptError = "none" /\ stage = "script" /\ script' = Data(offset)
        /\ UNCHANGED <<tokens, source, count>>
    BY <1>11 DEF ReadScript, Read
  <2>2. DataError(offset, MaxScript, "ScriptTooLarge") = "none"
    BY <2>1 DEF ScriptError
  <2>3. PICK w \in Widths : /\ Holds(w, Len(Data(offset)))
                            /\ Slice(0, DataEnd(offset)) =
                                   Slice(0, offset) \o Varint(Len(Data(offset)), w) \o Data(offset)
    BY <2>2, DataReadOn
  <2>4. DataEnd(offset) \in Nat
    <3>1. DataEnd(offset) \in 0..Len(bytes)
      BY <2>2, DataInBuffer
    <3>. QED BY <3>1
  <2>5. Slice(0, offset) = UpToTokens(Field, source, count, tokens, s, n, names) \o <<0, 0>>
    BY <1>w, <2>1 DEF SoFar
  <2>6. Slice(0, DataEnd(offset)) =
            UpToTokens(Field, source, count, tokens, s, n, names) \o <<0, 0>>
                \o Varint(Len(script'), w) \o script'
    BY <2>1, <2>3, <2>5
  <2>7. SoFar(stage', Slice(0, DataEnd(offset)), Field, source', count', tokens', script',
              s, n, names)
    BY <1>w, <2>1, <2>3, <2>6 DEF SoFar
  <2>8. ReadSoFar'
    BY <1>s, <2>1, <2>4, <2>7
  <2>. QED BY <1>b, <1>f, <2>1, <2>8 DEF FormatInv
<1>12. CASE Accept
  <2>1. /\ stage' = "trailer" /\ offset' = offset /\ stage = "trailer"
        /\ UNCHANGED <<tokens, source, count, script>>
    BY <1>12 DEF Accept, Read
  <2>2. ReadSoFar'
    BY <1>w, <1>s, <2>1
  <2>. QED BY <1>b, <1>f, <2>1, <2>2 DEF FormatInv
<1>13. CASE UNCHANGED vars
  <2>1. UNCHANGED <<stage, offset, source, count, tokens, script, result>>
    BY <1>13 DEF vars
  <2>2. ReadSoFar'
    BY <1>w, <1>s, <2>1
  <2>. QED BY <1>b, <1>f, <2>1, <2>2 DEF FormatInv
<1>14. CASE Finished
  BY <1>13, <1>14 DEF Finished
<1>. QED
  BY <1>1, <1>2, <1>3, <1>4, <1>5, <1>6, <1>7, <1>8, <1>9, <1>10, <1>11, <1>12, <1>13, <1>14
  DEF Next

\* What the parser accepted is legal and, written down again, the file.
LEMMA FormatAccepted ==
    ASSUME Inv, FormatInv, result = "ok"
    PROVE  \E c \in Rewritten : Legal(c) /\ Serialize(c) = bytes
<1>0. /\ bytes \in Seq(Byte) /\ Len(bytes) \in Nat /\ offset \in Nat /\ ChecksumLen \in Nat
      /\ DOMAIN tokens = 1..Len(tokens)
  BY FilesAssumption, SizesAssumption DEF TypeOK, Inv
<1>1. /\ stage = "trailer" /\ FieldOk /\ Len(bytes) <= MaxFileSize
      /\ offset + ChecksumLen = Len(bytes)
      /\ Slice(offset, ChecksumLen) = CalculateChecksum(Slice(0, offset))
      /\ Len(tokens) = count /\ script # <<>>
  BY DEF FormatInv, Inv, AcceptedIsWhole
<1>2. PICK s \in Widths, n \in Widths, names \in [1..Len(tokens) -> Widths] :
          SoFar(stage, Slice(0, offset), Field, source, count, tokens, script, s, n, names)
  BY DEF FormatInv, ReadSoFar
<1>3. PICK w \in Widths :
          /\ Holds(w, Len(script))
          /\ Slice(0, offset) = UpToTokens(Field, source, count, tokens, s, n, names) \o <<0, 0>>
                                    \o Varint(Len(script), w) \o script
  BY <1>1, <1>2 DEF SoFar
<1>4. /\ Holds(s, Len(source)) /\ IsUtf8(source) /\ Holds(n, Len(tokens))
      /\ \A i \in 1..Len(tokens) : Holds(names[i], Len(tokens[i].method)) /\ TokenOk(tokens[i])
  BY <1>1, <1>2 DEF SoFar
<1>. DEFINE widths == [source |-> s, count |-> n, names |-> names, script |-> w]
            c == [field |-> Field, source |-> source, tokens |-> tokens, script |-> script,
                  widths |-> widths]
<1>5. c \in Rewritten
  <2>1. /\ s \in {x \in Widths : Holds(x, Len(source))}
        /\ n \in {x \in Widths : Holds(x, Len(tokens))}
        /\ names \in {f \in [DOMAIN tokens -> Widths] :
                          \A i \in DOMAIN tokens : Holds(f[i], Len(tokens[i].method))}
        /\ w \in {x \in Widths : Holds(x, Len(script))}
    BY <1>0, <1>3, <1>4
  <2>. QED BY <2>1 DEF Rewritten, Field
<1>6. /\ c.field = Field /\ c.source = source /\ c.tokens = tokens /\ c.script = script
      /\ c.widths.source = s /\ c.widths.count = n /\ c.widths.names = names
      /\ c.widths.script = w
  OBVIOUS
<1>. HIDE DEF c
<1>7. Payload(c) = Slice(0, offset)
  BY <1>1, <1>3, <1>6 DEF Payload, UpToTokens, UpToCount, UpToSource
<1>8. Serialize(c) = bytes
  <2>1. Fits(offset, ChecksumLen)
    BY <1>0, <1>1 DEF Fits
  <2>2. Slice(0, offset + ChecksumLen) = Slice(0, offset) \o Slice(offset, ChecksumLen)
    BY <1>0, <2>1, ReadOn
  <2>3. Slice(0, Len(bytes)) = bytes
    BY <1>0 DEF Slice
  <2>. QED BY <1>1, <1>7, <2>2, <2>3 DEF Serialize
<1>9. Legal(c)
  <2>1. Len(c.source) <= MaxSource /\ IsUtf8(c.source)
    BY <1>4, <1>6 DEF Inv, TypeOK
  <2>2. Len(c.tokens) <= MaxTokens
    BY <1>1, <1>6, SizesAssumption DEF Inv, TypeOK
  <2>3. Len(c.script) \in 1..MaxScript
    <3>1. script \in Seq(Byte) /\ Len(script) <= MaxScript /\ Len(script) # 0
      BY <1>1 DEF Inv, TypeOK
    <3>. QED BY <1>6, <3>1, SizesAssumption
  <2>4. \A i \in DOMAIN c.tokens :
            LET name == c.tokens[i].method
            IN  /\ Len(name) <= MaxName
                /\ IsUtf8(name)
                /\ name # <<>> => name[1] # Underscore
                /\ c.tokens[i].call_flags \in FlagsAllowed
    BY <1>0, <1>4, <1>6 DEF TokenOk, NameOk
  <2>5. \E n1 \in 0..CompilerLen : /\ IsUtf8([i \in 1..n1 |-> c.field[i]])
                                   /\ n1 < CompilerLen => c.field[n1 + 1] = 0
    BY <1>1, <1>6 DEF FieldOk
  <2>6. Len(Serialize(c)) <= MaxFileSize
    BY <1>1, <1>8
  <2>. QED BY <2>1, <2>2, <2>3, <2>4, <2>5, <2>6 DEF Legal
<1>. QED BY <1>5, <1>8, <1>9

-----------------------------------------------------------------------------
(***************************************************************************)
(* What is of the format is accepted                                       *)
(***************************************************************************)

\* The beginning of the file and what stands behind it.
LEMMA SplitAt ==
    ASSUME bytes \in Seq(Byte), NEW a \in Seq(Byte), NEW b \in Seq(Byte), Stands(a \o b, 0)
    PROVE  /\ Stands(a, 0) /\ Stands(b, Len(a))
           /\ Len(a \o b) = Len(a) + Len(b)
<1>. DEFINE zero == 0
<1>1. zero \in Nat /\ zero + Len(a) = Len(a) /\ Stands(a \o b, zero)
  OBVIOUS
<1>. HIDE DEF zero
<1>2. Stands(a, zero) /\ Stands(b, zero + Len(a))
  BY <1>1, StandsSplit
<1>. QED BY <1>1, <1>2 DEF zero

\* Data that was written down behind its length in width w.
DataStands(d, w, p) ==
    /\ Holds(w, Len(d)) /\ Stands(Varint(Len(d), w), p)
    /\ Stands(d, p + Len(Varint(Len(d), w)))

\* Data that was written down behind its length, within the limit, is read back.
LEMMA DataWritten ==
    ASSUME bytes \in Seq(Byte), NEW p \in Nat, NEW w \in Widths, NEW d \in Seq(Byte),
           NEW max \in 0..MaxU32, NEW tooLong, Len(d) <= max, DataStands(d, w, p)
    PROVE  /\ DataError(p, max, tooLong) = "none" /\ Data(p) = d
           /\ DataEnd(p) = p + Len(Varint(Len(d), w)) + Len(d)
<1>. DEFINE v == Len(d)
<1>0. v \in Nat /\ max \in Nat /\ v \in 0..MaxU32 /\ v <= max
  BY SmallPowers
<1>1. /\ VarintError(p) = "none" /\ VarintValue(p) = v
      /\ VarintLen(p) = Len(Varint(v, w))
  BY <1>0, VarintWritten DEF DataStands
<1>2. DataStart(p) = p + Len(Varint(v, w))
  BY <1>1 DEF DataStart
<1>3. Fits(DataStart(p), v) /\ Slice(DataStart(p), v) = d
  BY <1>2 DEF Stands, DataStands
<1>. QED BY <1>0, <1>1, <1>2, <1>3 DEF DataError, DataEnd, Data

\* A token that was written down, and is legal, is read.
LEMMA TokenWritten ==
    ASSUME TypeOK, NEW t, NEW w \in Widths, TokenOk(t), Len(t.hash) = HashLen,
           Holds(w, Len(t.method)), Stands(SerializeToken(t, w), offset)
    PROVE  TokenError = "none" /\ TokenEnd = offset + Len(SerializeToken(t, w))
<1>. DEFINE a == t.hash
            b == Varint(Len(t.method), w)
            c == t.method
            d == LittleEndian(t.parameters_count, 2)
            e == <<IF t.has_return_value THEN 1 ELSE 0, t.call_flags>>
<1>0. bytes \in Seq(Byte) /\ offset \in Nat /\ HashLen \in Nat
      /\ MaxName \in Nat /\ MaxName \in 0..MaxU32
  BY FilesAssumption, SizesAssumption, LimitsAssumption DEF TypeOK
<1>1. /\ a \in Seq(Byte) /\ b \in Seq(Byte) /\ c \in Seq(Byte)
      /\ d \in Seq(Byte) /\ Len(d) = 2 /\ e \in Seq(Byte) /\ Len(e) = 2
      /\ e[1] \in {0, 1} /\ e[2] = t.call_flags
  <2>1. t.call_flags \in Byte /\ 0 \in Byte /\ 1 \in Byte
    <3>1. t.call_flags \in Byte
      BY LimitsAssumption DEF TokenOk
    <3>. QED BY <3>1, SmallPowers DEF Byte
  <2>2. (IF t.has_return_value THEN 1 ELSE 0) \in {0, 1}
    OBVIOUS
  <2>3. e \in Seq(Byte) /\ Len(e) = 2 /\ e[1] \in {0, 1} /\ e[2] = t.call_flags
    BY <2>1, <2>2
  <2>4. a \in Seq(Byte) /\ c \in Seq(Byte)
    BY DEF TokenOk
  <2>. QED BY <2>1, <2>3, <2>4, TokenIsBytes DEF TokenOk
<1>2. SerializeToken(t, w) = a \o b \o c \o d \o e
  BY DEF SerializeToken
<1>3. /\ Len(a) = HashLen /\ e[2] \in FlagsAllowed
      /\ Holds(w, Len(c)) /\ Len(c) <= MaxName /\ IsUtf8(c)
      /\ c # <<>> => c[1] # Underscore
  BY <1>1 DEF TokenOk, NameOk
<1>. DEFINE p == offset + HashLen
            q == p + Len(b) + Len(c)
<1>. HIDE DEF a, b, c, d, e
<1>4. /\ Stands(a, offset) /\ Stands(b, p) /\ Stands(c, p + Len(b))
      /\ Stands(d, q) /\ Stands(e, q + 2)
      /\ Len(SerializeToken(t, w)) = HashLen + Len(b) + Len(c) + 4
      /\ p \in Nat /\ q \in Nat
  <2>. DEFINE ab == a \o b
              abc == ab \o c
              abcd == abc \o d
  <2>1. ab \in Seq(Byte) /\ Len(ab) = Len(a) + Len(b)
    BY <1>1
  <2>. HIDE DEF ab
  <2>2. abc \in Seq(Byte) /\ Len(abc) = Len(ab) + Len(c)
    BY <1>1, <2>1, Joined
  <2>. HIDE DEF abc
  <2>3. abcd \in Seq(Byte) /\ Len(abcd) = Len(abc) + Len(d)
    BY <1>1, <2>2, Joined
  <2>. HIDE DEF abcd
  <2>4. SerializeToken(t, w) = abcd \o e
    BY <1>2 DEF abcd, abc, ab
  <2>5. Len(SerializeToken(t, w)) = Len(abcd) + Len(e)
    BY <1>1, <2>3, <2>4, Joined
  <2>6. Stands(abcd, offset) /\ Stands(e, offset + Len(abcd))
    BY <1>0, <1>1, <2>3, <2>4, StandsSplit
  <2>7. Stands(abc, offset) /\ Stands(d, offset + Len(abc))
    BY <1>0, <1>1, <2>2, <2>6, StandsSplit DEF abcd
  <2>8. Stands(ab, offset) /\ Stands(c, offset + Len(ab))
    BY <1>0, <1>1, <2>1, <2>7, StandsSplit DEF abc
  <2>9. Stands(a, offset) /\ Stands(b, offset + Len(a))
    BY <1>0, <1>1, <2>8, StandsSplit DEF ab
  <2>10. /\ offset + Len(a) = p /\ offset + Len(ab) = p + Len(b)
         /\ offset + Len(abc) = q /\ offset + Len(abcd) = q + 2
         /\ Len(SerializeToken(t, w)) = HashLen + Len(b) + Len(c) + 4
         /\ p \in Nat /\ q \in Nat
    BY <1>0, <1>1, <1>3, <2>1, <2>2, <2>3, <2>5
  <2>. QED BY <2>6, <2>7, <2>8, <2>9, <2>10
<1>5. b = Varint(Len(c), w)
  BY DEF b, c
<1>. HIDE DEF p, q
<1>6. /\ DataError(p, MaxName, "InvalidMethodToken") = "none" /\ Data(p) = c /\ DataEnd(p) = q
  <2>1. DataStands(c, w, p)
    BY <1>3, <1>4, <1>5 DEF DataStands
  <2>2. /\ DataError(p, MaxName, "InvalidMethodToken") = "none" /\ Data(p) = c
        /\ DataEnd(p) = p + Len(Varint(Len(c), w)) + Len(c)
    BY <1>0, <1>1, <1>3, <1>4, <2>1, DataWritten
  <2>. QED BY <1>5, <2>2 DEF q
<1>7. NameAt = p /\ ParametersAt = q
  BY <1>6 DEF NameAt, ParametersAt, p
<1>8. Fits(q, 3) /\ Fits(q, 4) /\ At(q + 2) = e[1] /\ At(q + 3) = e[2] /\ Fits(offset, HashLen)
  <2>1. Fits(q + 2, 2) /\ Slice(q + 2, 2) = e /\ Fits(offset, HashLen)
    BY <1>1, <1>3, <1>4 DEF Stands
  <2>2. Slice(q + 2, 2)[1] = At(q + 2) /\ Slice(q + 2, 2)[2] = At(q + 3)
    BY <1>4 DEF Slice, At
  <2>. QED BY <1>0, <1>4, <2>1, <2>2 DEF Fits
<1>9. TokenError = "none"
  BY <1>1, <1>3, <1>6, <1>7, <1>8 DEF TokenError
<1>10. TokenEnd = offset + Len(SerializeToken(t, w))
  <2>1. TokenEnd = offset + HashLen + Len(b) + Len(c) + 4
    BY <1>7 DEF TokenEnd, q, p
  <2>2. Len(b) \in Nat /\ Len(c) \in Nat
    BY <1>1
  <2>. QED BY <1>0, <1>4, <2>1, <2>2
<1>. QED BY <1>9, <1>10

\* A table that can be written down.
IsTable(toks, names) ==
    /\ Len(toks) \in Nat
    /\ \A k \in 1..Len(toks) : SerializeToken(toks[k], names[k]) \in Seq(Byte)

\* Each token of the table stands behind the ones before it.
TokensStand(toks, names, p) ==
    LET table == TokenTable(toks, names)
    IN  /\ \A k \in 0..Len(toks) : table[k] \in Seq(Byte)
        /\ table[0] = <<>>
        /\ \A k \in 0..(Len(toks) - 1) :
               /\ Stands(SerializeToken(toks[k + 1], names[k + 1]), p + Len(table[k]))
               /\ Len(table[k + 1]) =
                      Len(table[k]) + Len(SerializeToken(toks[k + 1], names[k + 1]))

\* If a table stands in the file, so do its tokens.
LEMMA TableStands ==
    ASSUME bytes \in Seq(Byte), NEW p \in Nat, NEW toks, NEW names, IsTable(toks, names),
           Stands(TokenTable(toks, names)[Len(toks)], p)
    PROVE  TokensStand(toks, names, p)
<1>. USE DEF IsTable
<1>. DEFINE n == Len(toks)
            table == TokenTable(toks, names)
            token(k) == SerializeToken(toks[k], names[k])
            S == {j \in 0..n : Stands(table[n - j], p)}
<1>0. n \in Nat
  OBVIOUS
<1>1. /\ table \in [0..n -> Seq(Byte)] /\ table[0] = <<>>
      /\ \A k \in 0..(n - 1) : table[k + 1] = table[k] \o token(k + 1)
  BY TableSteps
<1>2. \A k \in 0..n : table[k] \in Seq(Byte)
  BY <1>1
<1>3. \A k \in 0..(n - 1) : token(k + 1) \in Seq(Byte)
  <2>1. \A k \in 0..(n - 1) : k + 1 \in 1..n
    BY <1>0
  <2>. QED BY <2>1
<1>4. Stands(table[n], p)
  OBVIOUS
<1>. HIDE DEF n, table, token
<1>5. ASSUME NEW k \in 0..(n - 1)
      PROVE  /\ Len(table[k + 1]) = Len(table[k]) + Len(token(k + 1))
             /\ Stands(table[k + 1], p) =>
                    Stands(table[k], p) /\ Stands(token(k + 1), p + Len(table[k]))
  <2>. DEFINE a == table[k]
              b == token(k + 1)
  <2>1. k \in 0..n /\ a \in Seq(Byte) /\ b \in Seq(Byte) /\ table[k + 1] = a \o b
    <3>1. k \in 0..n
      BY <1>0
    <3>2. a \in Seq(Byte)
      BY <1>2, <3>1
    <3>3. b \in Seq(Byte)
      BY <1>3
    <3>4. table[k + 1] = a \o b
      BY <1>1
    <3>. QED BY <3>1, <3>2, <3>3, <3>4
  <2>. HIDE DEF a, b
  <2>2. Len(a \o b) = Len(a) + Len(b)
    BY <2>1, Joined
  <2>3. Stands(a \o b, p) => Stands(a, p) /\ Stands(b, p + Len(a))
    BY <2>1, StandsSplit
  <2>. QED BY <2>1, <2>2, <2>3 DEF a, b
<1>6. 0 \in S
  BY <1>0, <1>4
<1>7. ASSUME NEW j \in 0..(n - 1), j \in S PROVE j + 1 \in S
  <2>1. n - (j + 1) \in 0..(n - 1) /\ (n - (j + 1)) + 1 = n - j /\ j + 1 \in 0..n
    BY <1>0
  <2>2. Stands(table[n - j], p)
    BY <1>7
  <2>3. Stands(table[n - (j + 1)], p)
    BY <1>5, <2>1, <2>2
  <2>. QED BY <2>1, <2>3
<1>8. 0..n \subseteq S
  <2>. HIDE DEF S
  <2>. QED BY <1>0, <1>6, <1>7, BoundedInduction
<1>9. ASSUME NEW k \in 0..(n - 1) PROVE Stands(table[k + 1], p)
  <2>1. n - (k + 1) \in 0..n /\ n - (n - (k + 1)) = k + 1
    BY <1>0
  <2>. QED BY <1>8, <2>1
<1>10. \A k \in 0..(n - 1) : /\ Stands(token(k + 1), p + Len(table[k]))
                             /\ Len(table[k + 1]) = Len(table[k]) + Len(token(k + 1))
  BY <1>5, <1>9
<1>. QED BY <1>1, <1>2, <1>10 DEF n, table, token, TokensStand

\* The contents that this file is.
IsFile(c) == c \in Contents /\ Legal(c) /\ Serialize(c) = bytes

\* The parts of a file up to the end of its source string, of its token count,
\* of its tokens, and its widths.
HeaderOf(c) == UpToSource(c.field, c.source, c.widths.source)
CountedOf(c) == UpToCount(c.field, c.source, Len(c.tokens), c.widths.source, c.widths.count)
TableOf(c) == TokenTable(c.tokens, c.widths.names)
TokensOf(c) == UpToTokens(c.field, c.source, Len(c.tokens), c.tokens,
                          c.widths.source, c.widths.count, c.widths.names)

\* What ContentsAssumption and Legal say of the contents of a file.
LEMMA ContentsTypes ==
    ASSUME NEW c, IsFile(c)
    PROVE  /\ c.field \in Seq(Byte) /\ Len(c.field) = CompilerLen
           /\ c.source \in Seq(Byte) /\ c.script \in Seq(Byte)
           /\ Len(c.tokens) \in Nat
           /\ {c.widths.source, c.widths.count, c.widths.script} \subseteq Widths
           /\ Holds(c.widths.source, Len(c.source))
           /\ Holds(c.widths.count, Len(c.tokens))
           /\ Holds(c.widths.script, Len(c.script))
           /\ CalculateChecksum(Payload(c)) \in Seq(Byte)
           /\ Len(CalculateChecksum(Payload(c))) = ChecksumLen
           /\ \A i \in 1..Len(c.tokens) :
                  LET t == c.tokens[i]
                      w == c.widths.names[i]
                  IN  /\ w \in Widths /\ Holds(w, Len(t.method))
                      /\ TokenOk(t) /\ Len(t.hash) = HashLen
                      /\ SerializeToken(t, w) \in Seq(Byte)
<1>0. CompilerLen \in Nat /\ HashLen \in Nat /\ ChecksumLen \in Nat
  BY SizesAssumption
<1>1. \A n \in Nat : \A f \in [1..n -> Byte] : f \in Seq(Byte) /\ Len(f) = n
  OBVIOUS
<1>2. /\ c.field \in [1..CompilerLen -> Byte]
      /\ c.source \in Seq(Byte) /\ c.script \in Seq(Byte)
      /\ c.tokens \in Seq(TokenContents)
      /\ {c.widths.source, c.widths.count, c.widths.script} \subseteq Widths
      /\ c.widths.names \in [DOMAIN c.tokens -> Widths]
      /\ Holds(c.widths.source, Len(c.source))
      /\ Holds(c.widths.count, Len(c.tokens))
      /\ \A i \in DOMAIN c.tokens : Holds(c.widths.names[i], Len(c.tokens[i].method))
      /\ Holds(c.widths.script, Len(c.script))
      /\ CalculateChecksum(Payload(c)) \in [1..ChecksumLen -> Byte]
  BY ContentsAssumption DEF IsFile
<1>3. \A i \in DOMAIN c.tokens :
           LET name == c.tokens[i].method
           IN  /\ Len(name) <= MaxName
               /\ IsUtf8(name)
               /\ name # <<>> => name[1] # Underscore
               /\ c.tokens[i].call_flags \in FlagsAllowed
  BY DEF IsFile, Legal
<1>4. Len(c.tokens) \in Nat /\ DOMAIN c.tokens = 1..Len(c.tokens)
  BY <1>2
<1>5. ASSUME NEW i \in 1..Len(c.tokens)
      PROVE  LET t == c.tokens[i]
                 w == c.widths.names[i]
             IN  /\ w \in Widths /\ Holds(w, Len(t.method))
                 /\ TokenOk(t) /\ Len(t.hash) = HashLen
                 /\ SerializeToken(t, w) \in Seq(Byte)
  <2>. DEFINE t == c.tokens[i]
              w == c.widths.names[i]
  <2>1. i \in DOMAIN c.tokens
    BY <1>4
  <2>2. t \in TokenContents
    BY <1>2
  <2>3. w \in Widths /\ Holds(w, Len(t.method))
    BY <1>2, <2>1
  <2>4. /\ Len(t.method) <= MaxName
        /\ IsUtf8(t.method)
        /\ t.method # <<>> => t.method[1] # Underscore
        /\ t.call_flags \in FlagsAllowed
    BY <1>3, <2>1
  <2>. HIDE DEF t, w
  <2>5. /\ t.hash \in Seq(Byte) /\ Len(t.hash) = HashLen
        /\ t.method \in Seq(Byte) /\ t.parameters_count \in 0..(Power[2] - 1)
    BY <1>0, <1>1, <2>2 DEF TokenContents
  <2>6. TokenOk(t)
    BY <2>4, <2>5 DEF TokenOk, NameOk
  <2>7. SerializeToken(t, w) \in Seq(Byte)
    BY <2>3, <2>6, TokenOkIsBytes
  <2>. QED BY <2>3, <2>5, <2>6, <2>7 DEF t, w
<1>6. /\ c.field \in Seq(Byte) /\ Len(c.field) = CompilerLen
      /\ CalculateChecksum(Payload(c)) \in Seq(Byte)
      /\ Len(CalculateChecksum(Payload(c))) = ChecksumLen
  BY <1>0, <1>1, <1>2
<1>. QED BY <1>2, <1>4, <1>5, <1>6

\* Where each part of a file stands.
LEMMA Parts ==
    ASSUME bytes \in Seq(Byte), NEW c, IsFile(c)
    PROVE  /\ Stands(Magic, 0)
           /\ Stands(c.field, Len(Magic)) /\ Len(Magic \o c.field) = Len(Magic) + CompilerLen
           /\ DataStands(c.source, c.widths.source, Len(Magic \o c.field))
           /\ Len(HeaderOf(c)) = Len(Magic \o c.field)
                  + Len(Varint(Len(c.source), c.widths.source)) + Len(c.source)
           /\ Stands(<<0>>, Len(HeaderOf(c)))
           /\ Len(HeaderOf(c) \o <<0>>) = Len(HeaderOf(c)) + 1
           /\ Stands(Varint(Len(c.tokens), c.widths.count), Len(HeaderOf(c) \o <<0>>))
           /\ Len(CountedOf(c)) = Len(HeaderOf(c) \o <<0>>)
                  + Len(Varint(Len(c.tokens), c.widths.count))
           /\ Stands(TableOf(c)[Len(c.tokens)], Len(CountedOf(c)))
           /\ Len(TokensOf(c)) = Len(CountedOf(c)) + Len(TableOf(c)[Len(c.tokens)])
           /\ Stands(<<0, 0>>, Len(TokensOf(c)))
           /\ Len(TokensOf(c) \o <<0, 0>>) = Len(TokensOf(c)) + 2
           /\ DataStands(c.script, c.widths.script, Len(TokensOf(c) \o <<0, 0>>))
           /\ Len(Payload(c)) = Len(TokensOf(c) \o <<0, 0>>)
                  + Len(Varint(Len(c.script), c.widths.script)) + Len(c.script)
           /\ Stands(Payload(c), 0)
           /\ Stands(CalculateChecksum(Payload(c)), Len(Payload(c)))
           /\ Len(CalculateChecksum(Payload(c))) = ChecksumLen
           /\ Len(bytes) = Len(Payload(c)) + ChecksumLen
<1>. DEFINE f == c.field
            v1 == Varint(Len(c.source), c.widths.source)
            v2 == Varint(Len(c.tokens), c.widths.count)
            v3 == Varint(Len(c.script), c.widths.script)
            table == TableOf(c)[Len(c.tokens)]
            check == CalculateChecksum(Payload(c))
            zero == <<0>>
            word == <<0, 0>>
            a1 == Magic \o f
            a2 == a1 \o v1
            a3 == a2 \o c.source
            a4 == a3 \o zero
            a5 == a4 \o v2
            a6 == a5 \o table
            a7 == a6 \o word
            a8 == a7 \o v3
            a9 == a8 \o c.script
<1>1. /\ f \in Seq(Byte) /\ Len(f) = CompilerLen
      /\ c.source \in Seq(Byte) /\ c.script \in Seq(Byte) /\ Len(c.tokens) \in Nat
      /\ check \in Seq(Byte) /\ Len(check) = ChecksumLen
  BY ContentsTypes
<1>2. v1 \in Seq(Byte) /\ v2 \in Seq(Byte) /\ v3 \in Seq(Byte)
  <2>1. /\ {c.widths.source, c.widths.count, c.widths.script} \subseteq Widths
        /\ Holds(c.widths.source, Len(c.source))
        /\ Holds(c.widths.count, Len(c.tokens))
        /\ Holds(c.widths.script, Len(c.script))
    BY ContentsTypes
  <2>2. Len(c.source) \in Nat /\ Len(c.tokens) \in Nat /\ Len(c.script) \in Nat
    BY <1>1
  <2>3. v1 \in Seq(Byte)
    BY <2>1, <2>2, VarintIsBytes
  <2>4. v2 \in Seq(Byte)
    BY <2>1, <2>2, VarintIsBytes
  <2>5. v3 \in Seq(Byte)
    BY <2>1, <2>2, VarintIsBytes
  <2>. QED BY <2>3, <2>4, <2>5
<1>3. table \in Seq(Byte)
  <2>1. \A i \in 1..Len(c.tokens) :
            SerializeToken(c.tokens[i], c.widths.names[i]) \in Seq(Byte)
    BY ContentsTypes
  <2>2. TableOf(c) \in [0..Len(c.tokens) -> Seq(Byte)]
    BY <1>1, <2>1, TableSteps DEF TableOf
  <2>. QED BY <1>1, <2>2
<1>4. /\ zero \in Seq(Byte) /\ Len(zero) = 1
      /\ word \in Seq(Byte) /\ Len(word) = 2 /\ Magic \in Seq(Byte)
  <2>1. 0 \in Byte
    BY SmallPowers DEF Byte
  <2>. QED BY <2>1, SizesAssumption
<1>5. /\ HeaderOf(c) = a3 /\ CountedOf(c) = a5 /\ TokensOf(c) = a6
      /\ Payload(c) = a9 /\ bytes = a9 \o check
  BY DEF HeaderOf, CountedOf, TokensOf, TableOf, UpToSource, UpToCount, UpToTokens, Payload,
         IsFile, Serialize
<1>. HIDE DEF f, v1, v2, v3, table, check, zero, word
<1>6. a1 \in Seq(Byte) /\ Len(a1) = Len(Magic) + Len(f)
  BY <1>1, <1>4, Joined
<1>. HIDE DEF a1
<1>7. a2 \in Seq(Byte) /\ Len(a2) = Len(a1) + Len(v1)
  BY <1>2, <1>6, Joined
<1>. HIDE DEF a2
<1>8. a3 \in Seq(Byte) /\ Len(a3) = Len(a2) + Len(c.source)
  BY <1>1, <1>7, Joined
<1>. HIDE DEF a3
<1>9. a4 \in Seq(Byte) /\ Len(a4) = Len(a3) + Len(zero)
  BY <1>4, <1>8, Joined
<1>. HIDE DEF a4
<1>10. a5 \in Seq(Byte) /\ Len(a5) = Len(a4) + Len(v2)
  BY <1>2, <1>9, Joined
<1>. HIDE DEF a5
<1>11. a6 \in Seq(Byte) /\ Len(a6) = Len(a5) + Len(table)
  BY <1>3, <1>10, Joined
<1>. HIDE DEF a6
<1>12. a7 \in Seq(Byte) /\ Len(a7) = Len(a6) + Len(word)
  BY <1>4, <1>11, Joined
<1>. HIDE DEF a7
<1>13. a8 \in Seq(Byte) /\ Len(a8) = Len(a7) + Len(v3)
  BY <1>2, <1>12, Joined
<1>. HIDE DEF a8
<1>14. a9 \in Seq(Byte) /\ Len(a9) = Len(a8) + Len(c.script)
  BY <1>1, <1>13, Joined
<1>. HIDE DEF a9
<1>15. Len(bytes) = Len(a9) + Len(check) /\ Stands(a9, 0) /\ Stands(check, Len(a9))
  <2>1. Stands(bytes, 0)
    BY DEF Stands, Fits, Slice
  <2>2. Stands(a9 \o check, 0)
    BY <1>5, <2>1
  <2>. QED BY <1>1, <1>5, <1>14, <2>2, SplitAt
<1>16. Stands(a8, 0) /\ Stands(c.script, Len(a8))
  BY <1>1, <1>13, <1>15, SplitAt DEF a9
<1>17. Stands(a7, 0) /\ Stands(v3, Len(a7))
  BY <1>2, <1>12, <1>16, SplitAt DEF a8
<1>18. Stands(a6, 0) /\ Stands(word, Len(a6))
  BY <1>4, <1>11, <1>17, SplitAt DEF a7
<1>19. Stands(a5, 0) /\ Stands(table, Len(a5))
  BY <1>3, <1>10, <1>18, SplitAt DEF a6
<1>20. Stands(a4, 0) /\ Stands(v2, Len(a4))
  BY <1>2, <1>9, <1>19, SplitAt DEF a5
<1>21. Stands(a3, 0) /\ Stands(zero, Len(a3))
  BY <1>4, <1>8, <1>20, SplitAt DEF a4
<1>22. Stands(a2, 0) /\ Stands(c.source, Len(a2))
  BY <1>1, <1>7, <1>21, SplitAt DEF a3
<1>23. Stands(a1, 0) /\ Stands(v1, Len(a1))
  BY <1>2, <1>6, <1>22, SplitAt DEF a2
<1>24. Stands(Magic, 0) /\ Stands(f, Len(Magic))
  BY <1>1, <1>4, <1>23, SplitAt DEF a1
<1>25. DataStands(c.source, c.widths.source, Len(a1))
  <2>1. Stands(c.source, Len(a1) + Len(v1))
    BY <1>7, <1>22
  <2>. QED BY <1>23, <2>1, ContentsTypes DEF DataStands, v1
<1>26. DataStands(c.script, c.widths.script, Len(a7))
  <2>1. Stands(c.script, Len(a7) + Len(v3))
    BY <1>13, <1>16
  <2>. QED BY <1>17, <2>1, ContentsTypes DEF DataStands, v3
<1>27. /\ Len(Magic \o f) = Len(Magic) + CompilerLen /\ Len(a7) = Len(a6) + 2
       /\ Len(a4) = Len(a3) + 1
       /\ Len(a3) = Len(a1) + Len(v1) + Len(c.source)
       /\ Len(a9) = Len(a7) + Len(v3) + Len(c.script)
  BY <1>1, <1>4, <1>6, <1>7, <1>8, <1>9, <1>12, <1>13, <1>14 DEF a1
<1>28. /\ a1 = Magic \o f /\ a4 = HeaderOf(c) \o zero /\ a7 = TokensOf(c) \o word
  BY <1>5 DEF a1, a4, a7
<1>. QED
  BY <1>1, <1>5, <1>10, <1>11, <1>15, <1>18, <1>19, <1>20, <1>21, <1>24, <1>25, <1>26, <1>27,
     <1>28
  DEF f, v1, v2, v3, table, check, zero, word

\* The parts in order: none ends before it starts.
LEMMA PartsGrow ==
    ASSUME bytes \in Seq(Byte), NEW c, IsFile(c)
    PROVE  /\ Len(HeaderOf(c)) \in Nat /\ Len(CountedOf(c)) \in Nat /\ Len(Payload(c)) \in Nat
           /\ Len(HeaderOf(c)) >= Len(Magic) + CompilerLen
           /\ Len(Payload(c)) >= Len(HeaderOf(c))
<1>. DEFINE v1 == Len(Varint(Len(c.source), c.widths.source))
            v2 == Len(Varint(Len(c.tokens), c.widths.count))
            v3 == Len(Varint(Len(c.script), c.widths.script))
            table == Len(TableOf(c)[Len(c.tokens)])
            a1 == Len(Magic) + CompilerLen
            a3 == Len(HeaderOf(c))
            a4 == Len(HeaderOf(c) \o <<0>>)
            a5 == Len(CountedOf(c))
            a6 == Len(TokensOf(c))
            a7 == Len(TokensOf(c) \o <<0, 0>>)
            a9 == Len(Payload(c))
            src == Len(c.source)
            scr == Len(c.script)
<1>1. /\ Len(Magic) \in Nat /\ CompilerLen \in Nat
      /\ src \in Nat /\ scr \in Nat /\ Len(c.tokens) \in Nat
  BY SizesAssumption, ContentsTypes
<1>2. v1 \in Nat /\ v2 \in Nat /\ v3 \in Nat
  <2>1. /\ {c.widths.source, c.widths.count, c.widths.script} \subseteq Widths
        /\ Holds(c.widths.source, Len(c.source))
        /\ Holds(c.widths.count, Len(c.tokens))
        /\ Holds(c.widths.script, Len(c.script))
    BY ContentsTypes
  <2>2. \A w \in Widths : 1 + w \in Nat
    BY DEF Widths
  <2>3. v1 \in Nat
    BY <1>1, <2>1, <2>2, VarintIsBytes
  <2>4. v2 \in Nat
    BY <1>1, <2>1, <2>2, VarintIsBytes
  <2>5. v3 \in Nat
    BY <1>1, <2>1, <2>2, VarintIsBytes
  <2>. QED BY <2>3, <2>4, <2>5
<1>3. table \in Nat
  <2>1. \A i \in 1..Len(c.tokens) :
            SerializeToken(c.tokens[i], c.widths.names[i]) \in Seq(Byte)
    BY ContentsTypes
  <2>2. TableOf(c) \in [0..Len(c.tokens) -> Seq(Byte)]
    BY <1>1, <2>1, TableSteps DEF TableOf
  <2>3. TableOf(c)[Len(c.tokens)] \in Seq(Byte)
    BY <1>1, <2>2
  <2>. QED BY <2>3
<1>4. /\ a3 = a1 + v1 + src /\ a4 = a3 + 1 /\ a5 = a4 + v2 /\ a6 = a5 + table
      /\ a7 = a6 + 2 /\ a9 = a7 + v3 + scr
  BY Parts
<1>5. a1 \in Nat
  BY <1>1
<1>. HIDE DEF v1, v2, v3, table, a1, a3, a4, a5, a6, a7, a9, src, scr
<1>6. a3 \in Nat /\ a5 \in Nat /\ a9 \in Nat /\ a3 >= a1 /\ a9 >= a3
  BY <1>1, <1>2, <1>3, <1>4, <1>5
<1>. QED BY <1>6 DEF a1, a3, a5, a9

\* The token table starts empty.
LEMMA TableStarts ==
    ASSUME NEW c, IsFile(c)
    PROVE  Len(TableOf(c)[0]) = 0
<1>1. /\ Len(c.tokens) \in Nat
      /\ \A i \in 1..Len(c.tokens) :
             SerializeToken(c.tokens[i], c.widths.names[i]) \in Seq(Byte)
  BY ContentsTypes
<1>2. TableOf(c)[0] = <<>>
  BY <1>1, TableSteps DEF TableOf
<1>. QED BY <1>2

\* Two zero bytes are read as zero.
LEMMA ZeroIsZero == FromLeBytes(<<0, 0>>) = 0
<1>1. 0 \in 0..(Power[2] - 1) /\ 2 \in Nat
  BY SmallPowers
<1>2. FromLeBytes(LittleEndian(0, 2)) = 0
  BY <1>1, WrittenNumber
<1>. QED BY <1>2, ZeroBytes

\* The parser of a file of the format: it has not failed, and reads each part
\* where it stands.
OnTrack(c) ==
    /\ result \in {"running", "ok"}
    /\ stage = "source" => offset = Len(Magic \o c.field)
    /\ stage = "reserved byte" => offset = Len(HeaderOf(c))
    /\ stage = "token count" => offset = Len(HeaderOf(c) \o <<0>>)
    /\ stage = "token" => offset = Len(CountedOf(c)) + Len(TableOf(c)[Len(tokens)])
    /\ stage = "reserved word" => offset = Len(TokensOf(c))
    /\ stage = "script" => offset = Len(TokensOf(c) \o <<0, 0>>)
    /\ stage = "trailer" => offset = Len(Payload(c))
    /\ stage \in {"token", "reserved word", "script", "trailer"} => count = Len(c.tokens)

FilesAreOnTrack == \A c \in Contents : IsFile(c) => OnTrack(c)

\* The parts in front of the token table are in order.
LEMMA HeaderInOrder ==
    ASSUME Inv, FormatInv, NEW c, IsFile(c), OnTrack(c)
    PROVE  /\ stage = "size" => SizeError = "none"
           /\ stage = "magic" => MagicError = "none"
           /\ stage = "compiler" => CompilerError = "none"
           /\ stage = "source" => /\ SourceError = "none"
                                  /\ DataEnd(offset) = Len(HeaderOf(c))
           /\ stage = "reserved byte" => ReservedByteError = "none"
           /\ stage = "token count" => /\ CountError = "none"
                                       /\ VarintValue(offset) = Len(c.tokens)
                                       /\ DataStart(offset) = Len(CountedOf(c))
<1>0. /\ bytes \in Seq(Byte) /\ Len(bytes) \in Nat /\ offset \in Nat /\ TypeOK
      /\ Len(Magic) \in Nat /\ CompilerLen \in Nat /\ ChecksumLen \in Nat
      /\ MaxSource \in 0..MaxU32 /\ MaxTokens \in 0..MaxU32
  BY FilesAssumption, SizesAssumption, LimitsAssumption DEF TypeOK, Inv
<1>1. CASE stage = "size"
  <2>1. Len(bytes) <= MaxFileSize
    BY DEF IsFile, Legal
  <2>2. Len(bytes) >= Len(Magic) + CompilerLen + ChecksumLen
    <3>1. Fits(0, Len(Payload(c))) /\ Len(bytes) = Len(Payload(c)) + ChecksumLen
      BY <1>0, Parts DEF Stands
    <3>2. Len(Payload(c)) \in Nat /\ Len(HeaderOf(c)) >= Len(Magic) + CompilerLen
          /\ Len(Payload(c)) >= Len(HeaderOf(c))
      BY <1>0, PartsGrow
    <3>3. Len(HeaderOf(c)) \in Nat
      BY <1>0, PartsGrow
    <3>. QED BY <1>0, <3>1, <3>2, <3>3
  <2>. QED BY <1>0, <1>1, <2>1, <2>2, SizesAssumption DEF SizeError
<1>2. CASE stage = "magic"
  <2>1. offset = 0 /\ Stands(Magic, 0)
    BY <1>0, <1>2, Parts DEF FormatInv
  <2>. QED BY <1>2, <2>1 DEF MagicError, Stands
<1>3. CASE stage = "compiler"
  <2>1. offset = Len(Magic) /\ Stands(c.field, offset) /\ Len(c.field) = CompilerLen
    BY <1>0, <1>3, Parts, ContentsTypes DEF FormatInv
  <2>2. Fits(offset, CompilerLen) /\ Field = c.field
    BY <2>1 DEF Stands, Field
  <2>3. FieldOk
    <3>1. \E n \in 0..CompilerLen : /\ IsUtf8([i \in 1..n |-> c.field[i]])
                                    /\ n < CompilerLen => c.field[n + 1] = 0
      BY DEF IsFile, Legal
    <3>. QED BY <2>2, <3>1 DEF FieldOk
  <2>4. IsUtf8(Compiler)
    BY <1>0, <2>1, <2>2, <2>3, CompilerRead
  <2>. QED BY <1>3, <2>2, <2>4 DEF CompilerError
<1>4. CASE stage = "source"
  <2>. DEFINE w == c.widths.source
              d == c.source
  <2>1. offset = Len(Magic \o c.field) /\ DataStands(d, w, offset)
    BY <1>0, <1>4, Parts DEF OnTrack
  <2>2. w \in Widths /\ d \in Seq(Byte)
    BY ContentsTypes
  <2>3. Len(d) <= MaxSource /\ IsUtf8(d)
    BY DEF IsFile, Legal
  <2>4. Len(HeaderOf(c)) = offset + Len(Varint(Len(d), w)) + Len(d)
    BY <1>0, <2>1, Parts
  <2>. HIDE DEF w, d
  <2>5. /\ DataError(offset, MaxSource, "SourceTooLong") = "none" /\ Data(offset) = d
        /\ DataEnd(offset) = offset + Len(Varint(Len(d), w)) + Len(d)
    BY <1>0, <2>1, <2>2, <2>3, DataWritten
  <2>. QED BY <1>4, <2>3, <2>4, <2>5 DEF SourceError
<1>5. CASE stage = "reserved byte"
  <2>1. offset = Len(HeaderOf(c)) /\ Stands(<<0>>, offset)
    BY <1>0, <1>5, Parts DEF OnTrack
  <2>2. Fits(offset, 1) /\ Slice(offset, 1) = <<0>>
    BY <2>1 DEF Stands
  <2>3. At(offset) = 0
    <3>. DEFINE one == 1
    <3>1. one \in 1..one
      OBVIOUS
    <3>. HIDE DEF one
    <3>2. Slice(offset, one)[one] = bytes[offset + one]
      BY <3>1 DEF Slice
    <3>3. Slice(offset, one) = <<0>> /\ <<0>>[one] = 0
      BY <2>2 DEF one
    <3>4. At(offset) = bytes[offset + one]
      BY DEF At, one
    <3>. QED BY <3>2, <3>3, <3>4
  <2>. QED BY <1>5, <2>2, <2>3 DEF ReservedByteError
<1>6. CASE stage = "token count"
  <2>. DEFINE w == c.widths.count
              v == Len(c.tokens)
  <2>1. offset = Len(HeaderOf(c) \o <<0>>) /\ Stands(Varint(v, w), offset)
    BY <1>0, <1>6, Parts DEF OnTrack
  <2>2. w \in Widths /\ v \in Nat /\ Holds(w, v)
    BY ContentsTypes
  <2>3. v <= MaxTokens
    BY DEF IsFile, Legal
  <2>4. v \in 0..MaxU32 /\ ~(v > MaxTokens)
    BY <1>0, <2>2, <2>3, SmallPowers
  <2>5. Len(CountedOf(c)) = offset + Len(Varint(v, w))
    BY <1>0, <2>1, Parts
  <2>. HIDE DEF v, w
  <2>6. VarintError(offset) = "none" /\ VarintValue(offset) = v
        /\ VarintLen(offset) = Len(Varint(v, w))
    BY <1>0, <2>1, <2>2, <2>4, VarintWritten
  <2>. QED BY <1>6, <2>4, <2>5, <2>6 DEF CountError, DataStart, v
<1>. QED BY <1>1, <1>2, <1>3, <1>4, <1>5, <1>6

\* So are the tokens and the parts behind them.
LEMMA RestInOrder ==
    ASSUME Inv, FormatInv, NEW c, IsFile(c), OnTrack(c)
    PROVE  /\ stage = "token" /\ Len(tokens) < count =>
                  /\ TokenError = "none"
                  /\ TokenEnd = Len(CountedOf(c)) + Len(TableOf(c)[Len(tokens) + 1])
           /\ stage = "reserved word" => ReservedWordError = "none"
           /\ stage = "script" => ScriptError = "none" /\ DataEnd(offset) = Len(Payload(c))
           /\ stage = "trailer" => TrailerError = "none"
<1>0. /\ bytes \in Seq(Byte) /\ Len(bytes) \in Nat /\ offset \in Nat /\ TypeOK
      /\ ChecksumLen \in Nat /\ MaxScript \in 0..MaxU32 /\ Len(tokens) \in Nat
  BY FilesAssumption, SizesAssumption, LimitsAssumption DEF TypeOK, Inv
<1>1. CASE stage = "token" /\ Len(tokens) < count
  <2>. DEFINE k == Len(tokens)
              toks == c.tokens
              names == c.widths.names
              base == Len(CountedOf(c))
              t == toks[k + 1]
              w == names[k + 1]
  <2>1. /\ offset = base + Len(TokenTable(toks, names)[k]) /\ Len(toks) = count
        /\ Stands(TokenTable(toks, names)[Len(toks)], base)
    BY <1>0, <1>1, Parts DEF OnTrack, TableOf
  <2>2. base \in Nat
    BY <1>0, PartsGrow
  <2>3. /\ Len(toks) \in Nat
        /\ \A i \in 1..Len(toks) : SerializeToken(toks[i], names[i]) \in Seq(Byte)
    BY ContentsTypes
  <2>4. k \in 0..(Len(toks) - 1) /\ k + 1 \in 1..Len(toks)
    BY <1>0, <1>1, <2>1, <2>3
  <2>5. /\ Len(TokenTable(toks, names)[k]) \in Nat
        /\ Stands(SerializeToken(t, w), base + Len(TokenTable(toks, names)[k]))
        /\ Len(TokenTable(toks, names)[k + 1]) =
               Len(TokenTable(toks, names)[k]) + Len(SerializeToken(t, w))
        /\ SerializeToken(t, w) \in Seq(Byte)
    <3>. HIDE DEF toks, names, base
    <3>1. IsTable(toks, names)
      BY <2>3 DEF IsTable
    <3>2. TokensStand(toks, names, base)
      BY <1>0, <2>1, <2>2, <3>1, TableStands
    <3>3. k \in 0..Len(toks)
      <4>1. Len(toks) \in Nat
        BY <2>3
      <4>. HIDE DEF k
      <4>. QED BY <2>4, <4>1
    <3>. HIDE DEF k
    <3>4. /\ TokenTable(toks, names)[k] \in Seq(Byte)
          /\ Stands(SerializeToken(toks[k + 1], names[k + 1]), base + Len(TokenTable(toks, names)[k]))
          /\ Len(TokenTable(toks, names)[k + 1]) =
                 Len(TokenTable(toks, names)[k]) + Len(SerializeToken(toks[k + 1], names[k + 1]))
      BY <2>4, <3>2, <3>3 DEF TokensStand
    <3>. QED BY <2>3, <2>4, <3>4
  <2>6. w \in Widths /\ Holds(w, Len(t.method)) /\ TokenOk(t) /\ Len(t.hash) = HashLen
    BY <2>4, ContentsTypes
  <2>. HIDE DEF t, w, toks, names, base, k
  <2>7. TokenError = "none" /\ TokenEnd = offset + Len(SerializeToken(t, w))
    BY <1>0, <2>1, <2>5, <2>6, TokenWritten
  <2>8. Len(SerializeToken(t, w)) \in Nat
    BY <2>5
  <2>9. TokenEnd = base + Len(TokenTable(toks, names)[k + 1])
    BY <2>1, <2>2, <2>5, <2>7, <2>8
  <2>. QED BY <1>1, <2>7, <2>9 DEF TableOf, toks, names, base, k
<1>2. CASE stage = "reserved word"
  <2>1. offset = Len(TokensOf(c)) /\ Stands(<<0, 0>>, offset)
    BY <1>0, <1>2, Parts DEF OnTrack
  <2>2. Fits(offset, 2) /\ Slice(offset, 2) = <<0, 0>>
    BY <2>1 DEF Stands
  <2>3. U16(offset) = 0
    BY <2>2, ZeroIsZero DEF U16
  <2>. QED BY <1>2, <2>2, <2>3 DEF ReservedWordError
<1>3. CASE stage = "script"
  <2>. DEFINE w == c.widths.script
              d == c.script
  <2>1. offset = Len(TokensOf(c) \o <<0, 0>>) /\ DataStands(d, w, offset)
    BY <1>0, <1>3, Parts DEF OnTrack
  <2>2. w \in Widths /\ d \in Seq(Byte)
    BY ContentsTypes
  <2>3. Len(d) \in 1..MaxScript
    BY DEF IsFile, Legal
  <2>4. Len(Payload(c)) = offset + Len(Varint(Len(d), w)) + Len(d)
    BY <1>0, <2>1, Parts
  <2>. HIDE DEF w, d
  <2>5. Len(d) <= MaxScript /\ Len(d) # 0
    BY <2>3
  <2>6. /\ DataError(offset, MaxScript, "ScriptTooLarge") = "none" /\ Data(offset) = d
        /\ DataEnd(offset) = offset + Len(Varint(Len(d), w)) + Len(d)
    BY <1>0, <2>1, <2>2, <2>5, DataWritten
  <2>7. VarintValue(offset) # 0
    <3>1. MaxScript \in Nat /\ "ScriptTooLarge" # "none"
      BY SizesAssumption
    <3>2. Len(Data(offset)) = VarintValue(offset)
      BY <1>0, <2>6, <3>1, DataInBuffer
    <3>. QED BY <2>5, <2>6, <3>2
  <2>. QED BY <1>3, <2>4, <2>6, <2>7 DEF ScriptError
<1>4. CASE stage = "trailer"
  <2>1. offset = Len(Payload(c))
    BY <1>4 DEF OnTrack
  <2>2. /\ Stands(Payload(c), 0) /\ Stands(CalculateChecksum(Payload(c)), offset)
        /\ Len(CalculateChecksum(Payload(c))) = ChecksumLen
        /\ Len(bytes) = offset + ChecksumLen
    BY <1>0, <2>1, Parts
  <2>3. /\ Fits(offset, ChecksumLen)
        /\ Slice(offset, ChecksumLen) = CalculateChecksum(Payload(c))
        /\ Slice(0, offset) = Payload(c)
    BY <2>1, <2>2 DEF Stands
  <2>. QED BY <1>4, <2>2, <2>3 DEF TrailerError
<1>. QED BY <1>1, <1>2, <1>3, <1>4

LEMMA OnTrackInit == Init => FilesAreOnTrack
BY DEF Init, FilesAreOnTrack, OnTrack

\* One case per action of parse.
LEMMA OnTrackNext ==
    Inv /\ FormatInv /\ FilesAreOnTrack /\ [Next]_vars => FilesAreOnTrack'
<1>. SUFFICES ASSUME Inv, FormatInv, FilesAreOnTrack, [Next]_vars,
                     NEW c \in Contents, IsFile(c)'
              PROVE  OnTrack(c)'
  BY DEF FilesAreOnTrack
<1>0. bytes \in Seq(Byte) /\ Len(tokens) \in Nat /\ TypeOK /\ Progress
  BY FilesAssumption DEF TypeOK, Inv
<1>b. bytes' = bytes
  BY DEF Next, Reject, RejectAt, Read, CheckSize, ReadMagic, ReadCompiler, ReadSource,
         ReadReservedByte, ReadTokenCount, ReadToken, TokensRead, ReadReservedWord, ReadScript,
         Accept, Finished, vars
<1>c. IsFile(c) /\ OnTrack(c)
  BY <1>b DEF IsFile, FilesAreOnTrack
<1>h. /\ stage = "size" => SizeError = "none"
      /\ stage = "magic" => MagicError = "none"
      /\ stage = "compiler" => CompilerError = "none"
      /\ stage = "source" => SourceError = "none" /\ DataEnd(offset) = Len(HeaderOf(c))
      /\ stage = "reserved byte" => ReservedByteError = "none"
      /\ stage = "token count" => /\ CountError = "none"
                                  /\ VarintValue(offset) = Len(c.tokens)
                                  /\ DataStart(offset) = Len(CountedOf(c))
  BY <1>c, HeaderInOrder
<1>r. /\ stage = "token" /\ Len(tokens) < count =>
             /\ TokenError = "none"
             /\ TokenEnd = Len(CountedOf(c)) + Len(TableOf(c)[Len(tokens) + 1])
      /\ stage = "reserved word" => ReservedWordError = "none"
      /\ stage = "script" => ScriptError = "none" /\ DataEnd(offset) = Len(Payload(c))
      /\ stage = "trailer" => TrailerError = "none"
  BY <1>c, RestInOrder
<1>p. /\ Len(Magic \o c.field) = Len(Magic) + CompilerLen
      /\ Len(HeaderOf(c) \o <<0>>) = Len(HeaderOf(c)) + 1
      /\ Len(TokensOf(c)) = Len(CountedOf(c)) + Len(TableOf(c)[Len(c.tokens)])
      /\ Len(TokensOf(c) \o <<0, 0>>) = Len(TokensOf(c)) + 2
  BY <1>0, <1>c, Parts
<1>1. CASE Reject
  BY <1>1, <1>h, <1>r DEF Reject, RejectAt
<1>2. CASE CheckSize
  BY <1>2, <1>c DEF CheckSize, Read, OnTrack
<1>3. CASE ReadMagic
  BY <1>3, <1>c DEF ReadMagic, Read, OnTrack
<1>4. CASE ReadCompiler
  <2>1. offset = Len(Magic)
    BY <1>4 DEF ReadCompiler, Read, FormatInv
  <2>. QED BY <1>4, <1>c, <1>p, <2>1 DEF ReadCompiler, Read, OnTrack
<1>5. CASE ReadSource
  BY <1>5, <1>c, <1>h DEF ReadSource, Read, OnTrack, HeaderOf
<1>6. CASE ReadReservedByte
  BY <1>6, <1>c, <1>p DEF ReadReservedByte, Read, OnTrack, HeaderOf
<1>7. CASE ReadTokenCount
  <2>1. /\ stage = "token count" /\ stage' = "token" /\ offset' = DataStart(offset)
        /\ count' = VarintValue(offset) /\ tokens' = tokens /\ result' = result
    BY <1>7 DEF ReadTokenCount, Read
  <2>2. Len(tokens) = 0
    <3>1. tokens = <<>>
      BY <1>0, <2>1 DEF Progress
    <3>. QED BY <3>1
  <2>3. Len(TableOf(c)[0]) = 0
    BY <1>c, TableStarts
  <2>4. Len(CountedOf(c)) \in Nat
    BY <1>0, <1>c, PartsGrow
  <2>5. /\ offset' = Len(CountedOf(c)) + Len(TableOf(c)[Len(tokens)])
        /\ count' = Len(c.tokens)
    <3>. DEFINE zero == 0
                start == Len(CountedOf(c))
    <3>1. offset' = start /\ count' = Len(c.tokens)
      BY <1>h, <2>1
    <3>2. Len(tokens) = zero /\ Len(TableOf(c)[zero]) = 0
      BY <2>2, <2>3
    <3>3. start \in Nat
      BY <2>4
    <3>. HIDE DEF zero, start
    <3>4. offset' = start + Len(TableOf(c)[Len(tokens)])
      BY <3>1, <3>2, <3>3
    <3>. QED BY <3>1, <3>4 DEF start
  <2>. QED BY <1>c, <2>1, <2>5 DEF OnTrack, TableOf, CountedOf
<1>8. CASE ReadToken
  <2>1. /\ stage = "token" /\ Len(tokens) < count /\ stage' = "token" /\ offset' = TokenEnd
        /\ count' = count /\ result' = result /\ Len(tokens') = Len(tokens) + 1
    BY <1>8 DEF ReadToken, Read, TypeOK, Inv
  <2>2. offset' = Len(CountedOf(c)) + Len(TableOf(c)[Len(tokens')])
    BY <1>r, <2>1
  <2>. QED BY <1>c, <2>1, <2>2 DEF OnTrack, TableOf, CountedOf
<1>9. CASE TokensRead
  <2>1. /\ stage = "token" /\ stage' = "reserved word" /\ offset' = offset
        /\ count' = count /\ result' = result /\ Len(tokens) = count
    <3>1. /\ Len(tokens) >= count /\ stage = "token" /\ stage' = "reserved word"
          /\ offset' = offset /\ count' = count /\ result' = result
      BY <1>9 DEF TokensRead, Read
    <3>2. Len(tokens) <= count /\ count \in Nat
      BY <1>0, SizesAssumption DEF TypeOK
    <3>3. Len(tokens) = count
      <4>. DEFINE m == Len(tokens)
      <4>1. m \in Nat /\ m <= count /\ m >= count
        BY <1>0, <3>1, <3>2
      <4>. HIDE DEF m
      <4>. QED BY <3>2, <4>1 DEF m
    <3>. QED BY <3>1, <3>3
  <2>2. Len(tokens) = Len(c.tokens)
    BY <1>c, <2>1 DEF OnTrack
  <2>3. offset' = Len(TokensOf(c))
    BY <1>c, <1>p, <2>1, <2>2 DEF OnTrack
  <2>. QED BY <1>c, <2>1, <2>3 DEF OnTrack, TokensOf
<1>10. CASE ReadReservedWord
  BY <1>10, <1>c, <1>p DEF ReadReservedWord, Read, OnTrack, TokensOf
<1>11. CASE ReadScript
  BY <1>11, <1>c, <1>r DEF ReadScript, Read, OnTrack
<1>12. CASE Accept
  BY <1>12, <1>c DEF Accept, Read, OnTrack
<1>13. CASE UNCHANGED vars
  BY <1>13, <1>c DEF vars, OnTrack, HeaderOf, CountedOf, TableOf, TokensOf
<1>14. CASE Finished
  BY <1>13, <1>14 DEF Finished
<1>. QED
  BY <1>1, <1>2, <1>3, <1>4, <1>5, <1>6, <1>7, <1>8, <1>9, <1>10, <1>11, <1>12, <1>13, <1>14
  DEF Next

-----------------------------------------------------------------------------
LEMMA FormatInvariance == Spec => [](Inv /\ FormatInv /\ FilesAreOnTrack)
<1>1. Init => Inv /\ FormatInv /\ FilesAreOnTrack
  BY InitInv, FormatInit, OnTrackInit
<1>2. Inv /\ FormatInv /\ FilesAreOnTrack /\ [Next]_vars
          => (Inv /\ FormatInv /\ FilesAreOnTrack)'
  BY NextInv, FormatNext, OnTrackNext
<1>. QED BY <1>1, <1>2, PTL DEF Spec

\* The parser accepts exactly the files of the format: what it accepts is legal
\* contents written down, and no such file is turned away (NefParser::parse and
\* the read_* functions it calls).
THEOREM ParserMatchesFormat == Spec => []AcceptedIffSerialized
<1>1. Inv /\ FormatInv /\ FilesAreOnTrack => AcceptedIffSerialized
  <2>. SUFFICES ASSUME Inv, FormatInv, FilesAreOnTrack PROVE AcceptedIffSerialized
    OBVIOUS
  <2>1. result = "ok" => \E c \in Rewritten : Legal(c) /\ Serialize(c) = bytes
    BY FormatAccepted
  <2>2. ASSUME bytes \in LegalFiles PROVE result \in {"running", "ok"}
    <3>1. PICK c \in Contents : Legal(c) /\ Serialize(c) = bytes
      BY <2>2 DEF LegalFiles
    <3>. QED BY <3>1 DEF FilesAreOnTrack, IsFile, OnTrack
  <2>. QED BY <2>1, <2>2 DEF AcceptedIffSerialized
<1>. QED BY <1>1, FormatInvariance, PTL
=============================================================================
