---------------------------- MODULE MCSqlxParser ----------------------------
(***************************************************************************)
(* Every text of up to MaxLength tokens, and every block of up to MaxBlock *)
(* tokens after its brace, with or without something before and with some  *)
(* SQL behind.                                                             *)
(***************************************************************************)
EXTENDS SqlxParserProperties

CONSTANTS MaxLength, MaxBlock

UpTo(n, S) == UNION {[1..k -> S] : k \in 0..n}

MCTexts ==
  UpTo(MaxLength, Token)
  \cup {before \o <<"config", LBrace>> \o block \o <<"blank", "other">> :
          before \in {<<>>, <<"other">>},
          block \in UpTo(MaxBlock, {LBrace, RBrace, Quote, Backslash, "other"})}
=============================================================================
