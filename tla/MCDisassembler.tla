--------------------------- MODULE MCDisassembler ---------------------------
(***************************************************************************)
(* Every script of up to four bytes over an instruction set with one       *)
(* opcode of each encoding, and longer ones around the data opcodes.       *)
(***************************************************************************)
EXTENDS Disassembler

E(kind, len) == [kind |-> kind, len |-> len]

MCEncoding ==
    [b \in 0..8 |-> <<E("none", 0), E("immediate", 0), E("signed", 1), E("unsigned", 2),
                      E("bytes", 2), E("data", 1), E("data", 2), E("unknown", 0),
                      E("data", 4)>>[b + 1]]

MCScripts == UNION {[1..n -> 0..7] : n \in 0..4}
             \cup {<<6>> \o s : s \in [1..4 -> {0, 1, 3, 6}]}
             \cup {<<8>> \o s : s \in [1..6 -> {0, 2, 7}]}
             \cup {<<5, 2>> \o s : s \in [1..3 -> 0..7]}
=============================================================================
