----------------------------- MODULE NefFormat ------------------------------
(***************************************************************************)
(* The NEF container as a format: how contents are written down, and which *)
(* contents are legal (src/nef/parser.rs and its sections).                *)
(*                                                                         *)
(* A length may be written in any width that holds it, as read_varint      *)
(* accepts them all; `widths` says which one each length uses.             *)
(***************************************************************************)
EXTENDS NefParser

CONSTANT Contents       \* the contents under study, see Serialize

Widths == {0, 2, 4, 8}

\* The number of values n bytes have.
Power[n \in Nat] == IF n = 0 THEN 1 ELSE Base * Power[n - 1]

Holds(width, value) == IF width = 0 THEN value < Base - 3 ELSE value < Power[width]

Marker(width) == CASE width = 2 -> Base - 3 [] width = 4 -> Base - 2 [] width = 8 -> Base - 1

LittleEndian(value, len) == [i \in 1..len |-> (value \div Power[i - 1]) % Base]

Varint(value, width) ==
    IF width = 0 THEN <<value>> ELSE <<Marker(width)>> \o LittleEndian(value, width)

SerializeToken(t, width) ==
    t.hash \o Varint(Len(t.method), width) \o t.method
        \o LittleEndian(t.parameters_count, 2)
        \o <<IF t.has_return_value THEN 1 ELSE 0, t.call_flags>>

\* The first tokens of a table, for each number of them.
TokenTable(toks, names) ==
    LET written[k \in 0..Len(toks)] ==
            IF k = 0 THEN <<>> ELSE written[k - 1] \o SerializeToken(toks[k], names[k])
    IN  written

\* All of a file but the checksum.  `c.field` is the raw compiler field.
Payload(c) ==
    Magic \o c.field
        \o Varint(Len(c.source), c.widths.source) \o c.source \o <<0>>
        \o Varint(Len(c.tokens), c.widths.count)
        \o TokenTable(c.tokens, c.widths.names)[Len(c.tokens)]
        \o <<0, 0>>
        \o Varint(Len(c.script), c.widths.script) \o c.script

Serialize(c) == Payload(c) \o CalculateChecksum(Payload(c))

\* Contents within the limits of the format.
Legal(c) ==
    /\ Len(Serialize(c)) <= MaxFileSize
    /\ Len(c.source) <= MaxSource /\ IsUtf8(c.source)
    /\ \E n \in 0..CompilerLen : /\ IsUtf8([i \in 1..n |-> c.field[i]])
                                 /\ n < CompilerLen => c.field[n + 1] = 0
    /\ Len(c.tokens) <= MaxTokens
    /\ \A i \in DOMAIN c.tokens :
           LET name == c.tokens[i].method
           IN  /\ Len(name) <= MaxName
               /\ IsUtf8(name)
               /\ name # <<>> => name[1] # Underscore
               /\ c.tokens[i].call_flags \in FlagsAllowed
    /\ Len(c.script) \in 1..MaxScript

\* What can be written down at all: parts of the right size, made of bytes, with
\* a width for each length that holds it.
TokenContents == [hash : [1..HashLen -> Byte], method : Seq(Byte), parameters_count : 0..(Power[2] - 1),
          has_return_value : BOOLEAN, call_flags : Byte]

ASSUME ContentsAssumption ==
    \A c \in Contents :
        /\ c.field \in [1..CompilerLen -> Byte]
        /\ c.source \in Seq(Byte) /\ c.script \in Seq(Byte)
        /\ c.tokens \in Seq(TokenContents)
        /\ {c.widths.source, c.widths.count, c.widths.script} \subseteq Widths
        /\ c.widths.names \in [DOMAIN c.tokens -> Widths]
        /\ Holds(c.widths.source, Len(c.source))
        /\ Holds(c.widths.count, Len(c.tokens))
        /\ \A i \in DOMAIN c.tokens : Holds(c.widths.names[i], Len(c.tokens[i].method))
        /\ Holds(c.widths.script, Len(c.script))
        /\ CalculateChecksum(Payload(c)) \in [1..ChecksumLen -> Byte]

\* The limits are lengths a u32 holds, and flags are a byte.
ASSUME LimitsAssumption ==
    /\ {MaxSource, MaxTokens, MaxName, MaxScript} \subseteq 0..MaxU32
    /\ FlagsAllowed \subseteq Byte

LegalFiles == {Serialize(c) : c \in {d \in Contents : Legal(d)}}

-----------------------------------------------------------------------------
(***************************************************************************)
(* Properties                                                              *)
(***************************************************************************)

\* The ways to write down what was parsed.
Rewritten ==
    {[field |-> Slice(Len(Magic), CompilerLen), source |-> source, tokens |-> tokens,
      script |-> script,
      widths |-> [source |-> s, count |-> n, names |-> names, script |-> w]] :
        s \in {x \in Widths : Holds(x, Len(source))},
        n \in {x \in Widths : Holds(x, Len(tokens))},
        names \in {f \in [DOMAIN tokens -> Widths] :
                       \A i \in DOMAIN tokens : Holds(f[i], Len(tokens[i].method))},
        w \in {x \in Widths : Holds(x, Len(script))}}

\* The parser accepts exactly the files of the format, and reads them right.
\* What it accepts is legal and, written down again in some widths, gives the
\* same file (NefParser::parse and the read_* functions it calls); and it turns
\* away no file of the format, in whatever widths its lengths are written.
AcceptedIffSerialized ==
    /\ result = "ok" => \E c \in Rewritten : Legal(c) /\ Serialize(c) = bytes
    /\ bytes \in LegalFiles => result \in {"running", "ok"}
=============================================================================
