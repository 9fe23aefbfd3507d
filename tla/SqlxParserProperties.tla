------------------------ MODULE SqlxParserProperties ------------------------
(***************************************************************************)
(* What parse_sqlx promises, against a grammar of config blocks that knows *)
(* nothing of the scan: a block is a pair of braces around plain tokens,   *)
(* string literals and blocks.                                             *)
(***************************************************************************)
EXTENDS SqlxParser

\* The token at k is escaped in a literal that begins at a: the backslashes
\* before it are odd in number.
Escaped(t, a, k) ==
  \E n \in 1..(k - a - 1) :
    /\ n % 2 = 1
    /\ \A b \in (k - n)..(k - 1) : t[b] = Backslash
    /\ k - n - 1 = a \/ t[k - n - 1] # Backslash

Literal(t, a, b) ==
  /\ a < b /\ t[a] = Quote /\ t[b] = Quote
  /\ ~Escaped(t, a, b)
  /\ \A k \in (a + 1)..(b - 1) : t[k] = Quote => Escaped(t, a, k)

\* The stretches of a text, from s[1] to s[2].
Stretches(t) == (1..(Len(t) + 1)) \X (0..Len(t))

\* What may stand between braces, given what may in shorter stretches: nothing,
\* or a plain token, a literal or a block, and then more of the same.
Phrase(t, content, s) ==
  LET a == s[1]
      b == s[2]
  IN  \/ a > b
      \/ /\ a <= b
         /\ \/ t[a] \notin {LBrace, RBrace, Quote} /\ content[<<a + 1, b>>]
            \/ \E k \in (a + 1)..b :
                 /\ \/ Literal(t, a, k)
                    \/ t[a] = LBrace /\ t[k] = RBrace /\ content[<<a + 1, k - 1>>]
                 /\ content[<<k + 1, b>>]

Content(t) ==
  LET content[s \in Stretches(t)] == Phrase(t, content, s) IN content

Block(t, a, b) ==
  a < b /\ t[a] = LBrace /\ t[b] = RBrace /\ Content(t)[<<a + 1, b - 1>>]

ScanErrors   == {"unbalanced"}
ConfigErrors == {"not JSON", "missing property", "TypeError", "stage", "buildspec",
                 "database", "version"}
ReadErrors   == {"file not found", "OSError", "UnicodeDecodeError"}
Outcomes     == {"none", "ok", "no config", "no SQL"} \cup ScanErrors \cup ConfigErrors \cup ReadErrors

\* The values the variables take, and where the scan is.
TypeOK ==
  /\ text \in Seq(Token)
  /\ pc \in {"read", "search", "scan", "load", "check", "sql", "returned"}
  /\ outcome \in Outcomes
  /\ open \in {0} \cup DOMAIN text
  /\ i \in 0..(Len(text) + 1)
  /\ depth \in 0..Len(text)
  /\ in_string \in BOOLEAN /\ escape \in BOOLEAN
  /\ config = <<>> \/ \E c \in Config : config = <<c>>
  /\ sql \in Seq(Token)
  /\ escape => in_string
  /\ pc = "scan" => (depth = 0 <=> i = open)

\* find_matching_brace returns the end of the one block that begins at the
\* brace, and raises only if none does: braces in string literals, and escaped
\* quotes in these, mislead it neither to stop early nor to go on.
MatchesBlock ==
  /\ pc = "load" => Block(text, open, i)
  /\ outcome = "unbalanced" => \A b \in DOMAIN text : ~Block(text, open, b)

Blank(a, b) == \A n \in a..b : text[n] = "blank"

\* The SQL of the file is at first..last: from the keyword at m on the file is
\* a keyword, a block and SQL, with nothing but blanks between and after them.
IsSql(m, first, last) ==
  /\ text[first] # "blank" /\ text[last] # "blank"
  /\ Blank(last + 1, Len(text))
  /\ \E a \in (m + 1)..first : KeywordAt(m, a) /\
       \E b \in (a + 1)..(first - 1) : Blank(b + 1, first - 1) /\ Block(text, a, b)

\* From the first config keyword on, no part of the file is lost or doubled:
\* the SQL returned is all that stands after the block.  And a call that blames
\* the structure of the file is right: it has no such SQL.
KeepsTheRest ==
  \A m \in KeywordStarts :
    (\A n \in KeywordStarts : m <= n) =>
      /\ outcome = "ok" =>
           \E first, last \in DOMAIN text :
             sql = SubSeq(text, first, last) /\ IsSql(m, first, last)
      /\ outcome \in {"no config", "unbalanced", "no SQL"} =>
           \A first \in DOMAIN text : \A last \in first..Len(text) : ~IsSql(m, first, last)

\* parser.py says that a .sqlx file has exactly two sections and must open with
\* the config block.  (The code searches for the keyword anywhere and drops
\* what stands before it.)
AcceptedFileOpensWithConfig ==
  outcome = "ok" => \E m \in KeywordStarts : Blank(1, m - 1)
=============================================================================
