----------------------------- MODULE SqlxParser -----------------------------
(***************************************************************************)
(* engine/parser.py, parse_sqlx, and engine/utils.py, find_matching_brace: *)
(* one call on one .sqlx file.  The file is a sequence of tokens; "config" *)
(* is that word, "other" stands for any text without braces that leaves    *)
(* the scan as it found it, such as the properties of a config block.  The *)
(* scan for the closing brace takes one token per action.  json.loads is   *)
(* external: it may accept a block or not, and finds properties only in a  *)
(* block that holds more than punctuation.                                 *)
(***************************************************************************)
EXTENDS Naturals, Sequences

CONSTANT Texts      \* the texts a .sqlx file may hold

LBrace    == "lbrace"
RBrace    == "rbrace"
Quote     == "quote"
Backslash == "backslash"
Token     == {"config", LBrace, RBrace, Quote, Backslash, "blank", "other"}

ASSUME TextsAssumption == Texts \subseteq Seq(Token)

\* A config block as json.loads returns it.
Config == [missing   : BOOLEAN,    \* a required key is not there
           stage     : {"valid", "unknown", "unhashable"},
           buildspec : {"text", "other"},    \* "other": empty, or not a string
           database  : {"text", "other"},
           version   : {"text", "other"}]    \* "text" includes none at all

VARIABLES text, pc, outcome,
          open,                       \* index of the brace that opens the block
          i, depth, in_string, escape,  \* find_matching_brace
          config,                     \* the config block, as a sequence of one
          sql                         \* the SQL of the file returned

scanner == <<open, i, depth, in_string, escape>>
vars    == <<text, pc, outcome, scanner, config, sql>>

Init ==
  /\ text \in Texts
  /\ pc = "read"
  /\ outcome = "none"
  /\ open = 0 /\ i = 0 /\ depth = 0 /\ in_string = FALSE /\ escape = FALSE
  /\ config = <<>>
  /\ sql = <<>>

\* The call ends with a result or an error.
Return(how) == pc' = "returned" /\ outcome' = how

\* The file is not there, cannot be read, or is not UTF-8.
ReadText ==
  /\ pc = "read"
  /\ \/ pc' = "search" /\ UNCHANGED outcome
     \/ \E error \in {"file not found", "OSError", "UnicodeDecodeError"} : Return(error)
  /\ UNCHANGED <<text, scanner, config, sql>>

\* The match of config\s*\{ that begins at m and ends at b.
KeywordAt(m, b) ==
  /\ m < b /\ text[m] = "config" /\ text[b] = LBrace
  /\ \A n \in (m + 1)..(b - 1) : text[n] = "blank"

KeywordStarts == {m \in DOMAIN text : \E b \in DOMAIN text : KeywordAt(m, b)}

\* Mutant of Search: the scan begins after the brace.
SearchPastBrace ==
  /\ pc = "search"
  /\ \/ /\ KeywordStarts = {}
        /\ Return("no config")
        /\ UNCHANGED <<open, i>>
     \/ \E m \in KeywordStarts, b \in DOMAIN text :
          /\ \A n \in KeywordStarts : m <= n
          /\ KeywordAt(m, b)
          /\ pc' = "scan" /\ open' = b /\ i' = b + 1
          /\ UNCHANGED outcome
  /\ UNCHANGED <<text, depth, in_string, escape, config, sql>>

\* re.search finds the first match, wherever in the text it is.
Search ==
  /\ pc = "search"
  /\ \/ /\ KeywordStarts = {}
        /\ Return("no config")
        /\ UNCHANGED <<open, i>>
     \/ \E m \in KeywordStarts, b \in DOMAIN text :
          /\ \A n \in KeywordStarts : m <= n
          /\ KeywordAt(m, b)
          /\ pc' = "scan" /\ open' = b /\ i' = b
          /\ UNCHANGED outcome
  /\ UNCHANGED <<text, depth, in_string, escape, config, sql>>

\* Mutant of ScanString: a quote ends the literal, escaped or not.
ScanStringNoEscapes ==
  /\ pc = "scan" /\ i <= Len(text) /\ in_string
  /\ in_string' = (text[i] # Quote)
  /\ i' = i + 1
  /\ UNCHANGED <<text, pc, outcome, open, depth, escape, config, sql>>

ScanString ==
  /\ pc = "scan" /\ i <= Len(text) /\ in_string
  /\ escape' = (text[i] = Backslash /\ ~escape)
  /\ in_string' = (text[i] # Quote \/ escape)
  /\ i' = i + 1
  /\ UNCHANGED <<text, pc, outcome, open, depth, config, sql>>

\* The closing brace of the outermost pair ends the scan: i is the result.
ScanPlain ==
  /\ pc = "scan" /\ i <= Len(text) /\ ~in_string
  /\ \/ /\ text[i] = Quote
        /\ in_string' = TRUE /\ i' = i + 1
        /\ UNCHANGED <<pc, depth>>
     \/ /\ text[i] = LBrace
        /\ depth' = depth + 1 /\ i' = i + 1
        /\ UNCHANGED <<pc, in_string>>
     \/ /\ text[i] = RBrace
        /\ depth' = depth - 1
        /\ IF depth = 1 THEN pc' = "load" /\ i' = i ELSE pc' = pc /\ i' = i + 1
        /\ UNCHANGED in_string
     \/ /\ text[i] \notin {Quote, LBrace, RBrace}
        /\ i' = i + 1
        /\ UNCHANGED <<pc, depth, in_string>>
  /\ UNCHANGED <<text, outcome, open, escape, config, sql>>

EndOfText ==
  /\ pc = "scan" /\ i > Len(text)
  /\ Return("unbalanced")
  /\ UNCHANGED <<text, scanner, config, sql>>

LoadJson ==
  /\ pc = "load"
  /\ \/ Return("not JSON") /\ UNCHANGED config
     \/ /\ \E c \in Config :
             /\ config' = <<c>>
             /\ c.missing \/ \E n \in open..i : text[n] = "other"
        /\ pc' = "check"
        /\ UNCHANGED outcome
  /\ UNCHANGED <<text, scanner, sql>>

\* A value that is not hashable cannot be looked up in the set of stages.
CheckConfig ==
  /\ pc = "check"
  /\ LET c == config[1] IN
     IF c.missing THEN Return("missing property")
     ELSE IF c.stage = "unhashable" THEN Return("TypeError")
     ELSE IF c.stage = "unknown" THEN Return("stage")
     ELSE IF c.buildspec = "other" THEN Return("buildspec")
     ELSE IF c.database = "other" THEN Return("database")
     ELSE IF c.version = "other" THEN Return("version")
     ELSE pc' = "sql" /\ UNCHANGED outcome
  /\ UNCHANGED <<text, scanner, config, sql>>

Strip(s) ==
  LET Solid == {n \in DOMAIN s : s[n] # "blank"} IN
  IF Solid = {} THEN <<>>
  ELSE SubSeq(s, CHOOSE n \in Solid : \A k \in Solid : n <= k,
                 CHOOSE n \in Solid : \A k \in Solid : n >= k)

\* Mutant of TakeSql: the SQL is taken from the closing brace on.
TakeSqlWithBrace ==
  /\ pc = "sql"
  /\ sql' = Strip(SubSeq(text, i, Len(text)))
  /\ IF sql' = <<>> THEN Return("no SQL") ELSE Return("ok")
  /\ UNCHANGED <<text, scanner, config>>

TakeSql ==
  /\ pc = "sql"
  /\ sql' = Strip(SubSeq(text, i + 1, Len(text)))
  /\ IF sql' = <<>> THEN Return("no SQL") ELSE Return("ok")
  /\ UNCHANGED <<text, scanner, config>>

Next ==
  \/ ReadText \/ Search \/ ScanString \/ ScanPlain \/ EndOfText
  \/ LoadJson \/ CheckConfig \/ TakeSql

\* The call is one thread's, and waits for nothing.
Spec == Init /\ [][Next]_vars /\ WF_vars(Next)
=============================================================================
