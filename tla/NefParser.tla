----------------------------- MODULE NefParser ------------------------------
(***************************************************************************)
(* Parsing of a NEF container (src/nef/encoding.rs, src/nef/parser/).      *)
(*                                                                         *)
(* A file is a sequence of bytes 0..(Base-1).  Its layout: magic, a        *)
(* compiler field of fixed size, a source string, a zero byte, the method  *)
(* tokens, a zero word, the script, and a checksum of all that precedes.   *)
(* The three largest bytes introduce the wide variable-length integers.    *)
(***************************************************************************)
EXTENDS Integers, Sequences

CONSTANTS
    Base,               \* 256 in the program
    Magic,              \* MAGIC
    CompilerLen,        \* 64 in the program
    HashLen,            \* 20 in the program
    ChecksumLen,        \* CHECKSUM_SIZE
    MaxFileSize,        \* MAX_NEF_FILE_SIZE
    MaxSource,          \* MAX_SOURCE_LEN
    MaxTokens,          \* MAX_METHOD_TOKENS
    MaxName,            \* MAX_METHOD_NAME_LEN
    MaxScript,          \* MAX_SCRIPT_LEN
    NotUtf8,            \* bytes that occur in no string
    Underscore,         \* the byte '_'
    FlagsAllowed,       \* bytes within CALL_FLAGS_ALLOWED_MASK
    CalculateChecksum(_), \* of a payload, as ChecksumLen bytes
    Files               \* the buffers under study

Byte == 0..(Base - 1)

ASSUME SizesAssumption ==
    /\ Base \in Nat /\ Base > 3
    /\ Magic \in Seq(Byte)
    /\ {CompilerLen, HashLen, ChecksumLen} \subseteq Nat
    /\ {MaxFileSize, MaxSource, MaxTokens, MaxName, MaxScript} \subseteq Nat

ASSUME FilesAssumption == Files \subseteq Seq(Byte)

VARIABLES
    bytes,          \* the input
    stage,          \* the part of the file about to be read
    offset,         \* bytes consumed so far
    compiler,       \* parsed fields
    source,
    count,          \* number of method tokens announced
    tokens,         \* method tokens read so far
    script,
    result          \* "running", "ok" or the error

vars == <<bytes, stage, offset, compiler, source, count, tokens, script, result>>

Stages == {"size", "magic", "compiler", "source", "reserved byte", "token count",
           "token", "reserved word", "script", "trailer"}

-----------------------------------------------------------------------------
(***************************************************************************)
(* Reading                                                                 *)
(***************************************************************************)
Fits(p, len) == p + len <= Len(bytes)
At(p) == bytes[p + 1]
Slice(p, len) == [i \in 1..len |-> bytes[p + i]]

\* from_le_bytes of any width.
FromLeBytes(b) ==
    LET value[i \in 0..Len(b)] ==
            IF i = 0 THEN 0 ELSE Base * value[i - 1] + b[Len(b) - i + 1]
    IN  value[Len(b)]

U16(p) == FromLeBytes(Slice(p, 2))
U32(p) == FromLeBytes(Slice(p, 4))
U64(p) == FromLeBytes(Slice(p, 8))

MaxU32 == Base * Base * Base * Base - 1

\* Mutant: the smallest marker counts as a value.
WidthMutant(first) ==
    IF first <= Base - 3 THEN 0
    ELSE IF first = Base - 2 THEN 4
    ELSE 8

\* Bytes after the first one of a variable-length integer.
Width(first) ==
    IF first < Base - 3 THEN 0
    ELSE IF first = Base - 3 THEN 2
    ELSE IF first = Base - 2 THEN 4
    ELSE 8

VarintLen(p) == 1 + Width(At(p))

VarintValue(p) ==
    LET w == Width(At(p))
    IN  IF w = 0 THEN At(p)
        ELSE IF w = 2 THEN U16(p + 1)
        ELSE IF w = 4 THEN U32(p + 1)
        ELSE U64(p + 1)

VarintError(p) ==
    IF ~Fits(p, 1) THEN "UnexpectedEof"
    ELSE IF ~Fits(p, VarintLen(p)) THEN "UnexpectedEof"
    ELSE IF VarintValue(p) > MaxU32 THEN "IntegerOverflow"
    ELSE "none"

\* Where the data behind a length starts and ends.
DataStart(p) == p + VarintLen(p)
DataEnd(p) == DataStart(p) + VarintValue(p)
Data(p) == Slice(DataStart(p), VarintValue(p))

IsUtf8(s) == \A i \in DOMAIN s : s[i] \notin NotUtf8

\* read_varstring, read_varbytes and the name of a token: a length within its
\* limit, and the data.
DataError(p, max, tooLong) ==
    IF VarintError(p) # "none" THEN VarintError(p)
    ELSE IF VarintValue(p) > max THEN tooLong
    ELSE IF ~Fits(DataStart(p), VarintValue(p)) THEN "UnexpectedEof"
    ELSE "none"

-----------------------------------------------------------------------------
(***************************************************************************)
(* What is wrong with the part at `offset`, checked in the code's order    *)
(***************************************************************************)
SizeError ==
    IF Len(bytes) > MaxFileSize THEN "FileTooLarge"
    ELSE IF Len(bytes) < Len(Magic) + CompilerLen + ChecksumLen THEN "TooShort"
    ELSE "none"

MagicError ==
    IF ~Fits(offset, Len(Magic)) THEN "UnexpectedEof"
    ELSE IF Slice(offset, Len(Magic)) # Magic THEN "InvalidMagic"
    ELSE "none"

\* The compiler string: the field up to its first zero byte.
Compiler ==
    LET zeros == {i \in 1..CompilerLen : bytes[offset + i] = 0}
        len == CHOOSE n \in 0..CompilerLen :
                   /\ n + 1 \in zeros \/ n = CompilerLen
                   /\ \A i \in zeros : n < i
    IN  Slice(offset, len)

CompilerError ==
    IF ~Fits(offset, CompilerLen) THEN "UnexpectedEof"
    ELSE IF ~IsUtf8(Compiler) THEN "InvalidCompiler"
    ELSE "none"

SourceError ==
    IF DataError(offset, MaxSource, "SourceTooLong") # "none"
    THEN DataError(offset, MaxSource, "SourceTooLong")
    ELSE IF ~IsUtf8(Data(offset)) THEN "InvalidUtf8String"
    ELSE "none"

ReservedByteError ==
    IF ~Fits(offset, 1) THEN "UnexpectedEof"
    ELSE IF At(offset) # 0 THEN "ReservedByteNonZero"
    ELSE "none"

CountError ==
    IF VarintError(offset) # "none" THEN VarintError(offset)
    ELSE IF VarintValue(offset) > MaxTokens THEN "TooManyMethodTokens"
    ELSE "none"

\* A token: hash, name, parameter count, return flag, call flags.
NameAt == offset + HashLen
ParametersAt == DataEnd(NameAt)
TokenEnd == ParametersAt + 4

TokenError ==
    IF ~Fits(offset, HashLen) THEN "UnexpectedEof"
    ELSE IF DataError(NameAt, MaxName, "InvalidMethodToken") # "none"
         THEN DataError(NameAt, MaxName, "InvalidMethodToken")
    ELSE IF ~IsUtf8(Data(NameAt)) THEN "InvalidMethodToken"
    ELSE IF Data(NameAt) # <<>> /\ Data(NameAt)[1] = Underscore THEN "MethodNameInvalid"
    ELSE IF ~Fits(ParametersAt, 3) THEN "UnexpectedEof"
    ELSE IF At(ParametersAt + 2) \notin {0, 1} THEN "InvalidMethodToken"
    ELSE IF ~Fits(ParametersAt, 4) THEN "UnexpectedEof"
    ELSE IF At(ParametersAt + 3) \notin FlagsAllowed THEN "CallFlagsInvalid"
    ELSE "none"

ReservedWordError ==
    IF ~Fits(offset, 2) THEN "UnexpectedEof"
    ELSE IF U16(offset) # 0 THEN "ReservedWordNonZero"
    ELSE "none"

ScriptError ==
    IF DataError(offset, MaxScript, "ScriptTooLarge") # "none"
    THEN DataError(offset, MaxScript, "ScriptTooLarge")
    ELSE IF VarintValue(offset) = 0 THEN "EmptyScript"
    ELSE "none"

\* Mutant: what follows the checksum is ignored.
TrailerErrorMutant ==
    IF ~Fits(offset, ChecksumLen) THEN "UnexpectedEof"
    ELSE IF Slice(offset, ChecksumLen) # CalculateChecksum(Slice(0, offset))
         THEN "ChecksumMismatch"
    ELSE "none"

TrailerError ==
    IF ~Fits(offset, ChecksumLen) THEN "UnexpectedEof"
    ELSE IF Slice(offset, ChecksumLen) # CalculateChecksum(Slice(0, offset))
         THEN "ChecksumMismatch"
    ELSE IF offset + ChecksumLen # Len(bytes) THEN "TrailingData"
    ELSE "none"

-----------------------------------------------------------------------------
Init ==
    /\ bytes \in Files
    /\ stage = "size"
    /\ offset = 0
    /\ compiler = <<>> /\ source = <<>>
    /\ count = 0
    /\ tokens = <<>> /\ script = <<>>
    /\ result = "running"

\* Every `?` of parse: the first error ends it.
RejectAt(now, error) ==
    /\ result = "running"
    /\ stage = now
    /\ error # "none"
    /\ result' = error
    /\ UNCHANGED <<bytes, stage, offset, compiler, source, count, tokens, script>>

Reject ==
    \/ RejectAt("size", SizeError)
    \/ RejectAt("magic", MagicError)
    \/ RejectAt("compiler", CompilerError)
    \/ RejectAt("source", SourceError)
    \/ RejectAt("reserved byte", ReservedByteError)
    \/ RejectAt("token count", CountError)
    \/ Len(tokens) < count /\ RejectAt("token", TokenError)
    \/ RejectAt("reserved word", ReservedWordError)
    \/ RejectAt("script", ScriptError)
    \/ RejectAt("trailer", TrailerError)

\* The part of this stage is in order, and the parser moves on.
Read(now, error, next, end) ==
    /\ result = "running"
    /\ stage = now
    /\ error = "none"
    /\ stage' = next
    /\ offset' = end
    /\ UNCHANGED bytes

CheckSize ==
    /\ Read("size", SizeError, "magic", 0)
    /\ UNCHANGED <<compiler, source, count, tokens, script, result>>

ReadMagic ==
    /\ Read("magic", MagicError, "compiler", offset + Len(Magic))
    /\ UNCHANGED <<compiler, source, count, tokens, script, result>>

ReadCompiler ==
    /\ Read("compiler", CompilerError, "source", offset + CompilerLen)
    /\ compiler' = Compiler
    /\ UNCHANGED <<source, count, tokens, script, result>>

ReadSource ==
    /\ Read("source", SourceError, "reserved byte", DataEnd(offset))
    /\ source' = Data(offset)
    /\ UNCHANGED <<compiler, count, tokens, script, result>>

ReadReservedByte ==
    /\ Read("reserved byte", ReservedByteError, "token count", offset + 1)
    /\ UNCHANGED <<compiler, source, count, tokens, script, result>>

ReadTokenCount ==
    /\ Read("token count", CountError, "token", DataStart(offset))
    /\ count' = VarintValue(offset)
    /\ UNCHANGED <<compiler, source, tokens, script, result>>

MethodToken ==
    [hash |-> Slice(offset, HashLen), method |-> Data(NameAt),
     parameters_count |-> U16(ParametersAt), has_return_value |-> At(ParametersAt + 2) = 1,
     call_flags |-> At(ParametersAt + 3)]

ReadToken ==
    /\ Len(tokens) < count
    /\ Read("token", TokenError, "token", TokenEnd)
    /\ tokens' = Append(tokens, MethodToken)
    /\ UNCHANGED <<compiler, source, count, script, result>>

TokensRead ==
    /\ Len(tokens) >= count
    /\ Read("token", "none", "reserved word", offset)
    /\ UNCHANGED <<compiler, source, count, tokens, script, result>>

ReadReservedWord ==
    /\ Read("reserved word", ReservedWordError, "script", offset + 2)
    /\ UNCHANGED <<compiler, source, count, tokens, script, result>>

ReadScript ==
    /\ Read("script", ScriptError, "trailer", DataEnd(offset))
    /\ script' = Data(offset)
    /\ UNCHANGED <<compiler, source, count, tokens, result>>

\* The checksum holds and is the end of the file; `offset` stays at
\* checksum_start.
Accept ==
    /\ Read("trailer", TrailerError, "trailer", offset)
    /\ result' = "ok"
    /\ UNCHANGED <<compiler, source, count, tokens, script>>

Finished == result # "running" /\ UNCHANGED vars

Next ==
    \/ Reject \/ CheckSize \/ ReadMagic \/ ReadCompiler \/ ReadSource
    \/ ReadReservedByte \/ ReadTokenCount \/ ReadToken \/ TokensRead
    \/ ReadReservedWord \/ ReadScript \/ Accept \/ Finished

Spec == Init /\ [][Next]_vars

-----------------------------------------------------------------------------
\* The parser never moves past the end of the file; it never reads more
\* tokens than announced, nor more than allowed.
TypeOK ==
    /\ bytes \in Files
    /\ stage \in Stages
    /\ offset \in 0..Len(bytes)
    /\ count \in 0..MaxTokens
    /\ tokens \in Seq([hash : Seq(Byte), method : Seq(Byte), parameters_count : Nat,
                       has_return_value : BOOLEAN, call_flags : FlagsAllowed])
    /\ Len(tokens) <= count
    /\ source \in Seq(Byte) /\ Len(source) <= MaxSource
    /\ script \in Seq(Byte) /\ Len(script) <= MaxScript

\* An accepted file is nothing but the parts read and a checksum of all of
\* them: no byte escapes the checksum, and a script and every token announced
\* were read.
AcceptedIsWhole ==
    result = "ok" =>
        /\ offset + ChecksumLen = Len(bytes)
        /\ Slice(offset, ChecksumLen) = CalculateChecksum(Slice(0, offset))
        /\ Len(tokens) = count
        /\ script # <<>>
=============================================================================
