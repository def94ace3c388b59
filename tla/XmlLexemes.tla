----------------------------- MODULE XmlLexemes -----------------------------
EXTENDS Sequences

(***************************************************************************)
(* The characters of a document, reduced to the classes the scanner tells  *)
(* apart.  A lexeme is one character of the decoded document (char mode)   *)
(* or one byte of a UTF-8 document (byte mode), with these exceptions:     *)
(*   "lt"      the two letters of the predefined entity's name;            *)
(*   "xml"     the three letters of the reserved PI target;                *)
(*   "7", "0"  the digits of a character reference to a legal (illegal)    *)
(*             code point;                                                 *)
(*   "["       the seven characters  [CDATA[  after  <! .                  *)
(* One quote character stands for both, "w" for every white space          *)
(* character, "ctl" for every character XML forbids.                       *)
(***************************************************************************)

\* is_name_start_char, is_name_char (scanner.rs).  "eacute" is a letter
\* outside ASCII as one character, CLead and CCont are its two UTF-8 bytes.
NameStartChars == {"a", "b", "lt", "xml", "eacute"}
Digits         == {"7", "0"}
NameChars      == NameStartChars \cup Digits \cup {"-"}

CLead == "C3"
CCont == "A9"

Punctuation == {"<", ">", "/", "!", "?", "[", "]", "=", "'", "&", ";", "#"}

Lexeme == NameChars \cup Punctuation \cup {CLead, CCont, "w", "ctl"}

Text == Seq(Lexeme)
=============================================================================
