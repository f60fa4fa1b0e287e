------------------------------- MODULE MCNef --------------------------------
(***************************************************************************)
(* NEF files over eight bytes: 0..4 are lengths of their own, 5, 6 and 7   *)
(* introduce wider ones, 3 occurs in no string and 4 is the underscore.    *)
(***************************************************************************)
EXTENDS NefFormat, TLC

\* A stand-in for the double SHA-256: a weighted sum of the payload.
MCChecksum(payload) ==
    LET sum[i \in 0..Len(payload)] ==
            IF i = 0 THEN 0 ELSE (3 * sum[i - 1] + payload[i] + 1) % 8
    IN  <<sum[Len(payload)]>>

MCMagic == <<2>>

Token(name, returns, flags) ==
    [hash |-> <<7>>, method |-> name, parameters_count |-> 9,
     has_return_value |-> returns, call_flags |-> flags]

Fields == {<<0, 3>>, <<1, 1>>, <<1, 0>>, <<3, 0>>}

Names == {<<>>, <<1>>, <<1, 4>>, <<4>>, <<3>>, <<1, 1, 1>>}

Canonical(len) == CHOOSE w \in Widths : Holds(w, len) /\ \A v \in Widths : Holds(v, len) => w <= v

Shortest(c) ==
    [source |-> Canonical(Len(c.source)), count |-> Canonical(Len(c.tokens)),
     names |-> [i \in DOMAIN c.tokens |-> Canonical(Len(c.tokens[i].method))],
     script |-> Canonical(Len(c.script))]

Write(field, src, toks, scr) ==
    LET c == [field |-> field, source |-> src, tokens |-> toks, script |-> scr]
    IN  c @@ [widths |-> Shortest(c)]

Ones(n) == [i \in 1..n |-> 1]

\* Each part varied on its own; the script also around the lengths where a
\* wider encoding becomes necessary, and around the limit.
Varied ==
    {Write(f, <<1>>, <<>>, <<1>>) : f \in Fields}
    \cup {Write(<<1, 0>>, s, <<>>, <<1>>) : s \in {<<>>, <<1>>, <<1, 4>>, <<3>>, <<1, 1, 1>>}}
    \cup {Write(<<1, 0>>, <<>>, <<Token(n, r, f)>>, <<1>>) :
             n \in Names, r \in BOOLEAN, f \in {0, 1, 2}}
    \cup {Write(<<1, 0>>, <<>>, [i \in 1..k |-> Token(<<1>>, TRUE, i % 2)], <<1>>) : k \in 0..3}
    \cup {Write(<<1, 0>>, <<>>, <<>>, Ones(n)) : n \in {0, 1, 4, 5, 6, 63, 64, 65, 67}}

\* Lengths in any width.
Widened ==
    {[Write(<<1, 0>>, <<1>>, <<Token(<<1>>, TRUE, 1)>>, <<2, 1>>) EXCEPT
         !.widths = [source |-> s, count |-> n, names |-> <<m>>, script |-> w]] :
        s \in Widths, n \in Widths, m \in Widths, w \in Widths}

AllContents == Varied \cup Widened

\* Damage to a payload: a byte changed, bytes lost at the end, bytes added.
Damaged(p) ==
    {[p EXCEPT ![i] = b] : i \in DOMAIN p, b \in 0..7}
    \cup {SubSeq(p, 1, i) : i \in 0..Len(p)}
    \cup {p \o <<b>> : b \in 0..7}

\* The damage comes before or after the checksum is taken.
Broken(c) ==
    {p \o MCChecksum(p) : p \in Damaged(Payload(c))} \cup Damaged(Serialize(c))

Small == {c \in AllContents : Len(Serialize(c)) <= 18 /\ Len(c.tokens) <= 2}

AllFiles == {Serialize(c) : c \in AllContents} \cup UNION {Broken(c) : c \in Small}

\* TLC evaluates a definition once, a replacement of a constant again and
\* again; so the replacements only name definitions.
MCContents == AllContents
MCFiles == AllFiles
=============================================================================
