---------------------------- MODULE JSONComments ----------------------------
(***************************************************************************)
(* The configuration file without its comments: config.go                  *)
(* (stripJSONComments).                                                    *)
(*                                                                         *)
(* One pass over the bytes copies what is in a string, and what is neither *)
(* in a string nor in a comment.  The bytes that decide anything have a    *)
(* name, a carriage return that of the newline; "x" is any other.          *)
(*                                                                         *)
(* The file is whatever its author writes.  What each byte is in, a value, *)
(* a string or a comment, is kept beside it as it is written, one byte     *)
(* after the other, and never looked at by the pass.                       *)
(***************************************************************************)
EXTENDS Naturals, Sequences, FiniteSetsExt

CONSTANTS
  MaxLength   \* bound: bytes of the file

ASSUME StripAssumption == MaxLength \in Nat

VARIABLES
  text,      \* in
  context,   \* history: context[n] is what byte n of the text begins in,
             \* the last one what the file ends in
  pos,       \* i, from 1; 0 while the file is written
  inString,  \* inString
  escaped,   \* escaped
  copied     \* out, as the positions of the bytes in it

stripVars == <<text, context, pos, inString, escaped, copied>>

Bytes == {"quote", "escape", "slash", "star", "newline", "x"}

(* "slash" is JSON after a slash that may yet begin a comment, "star" is a *)
(* block comment after a star that may yet end it.                         *)
Contexts ==
  {"json", "slash", "string", "escape", "line", "block", "star"}

StripTypeOK ==
  /\ text \in Seq(Bytes)
  /\ context \in Seq(Contexts)
  /\ pos \in Nat
  /\ inString \in BOOLEAN /\ escaped \in BOOLEAN
  /\ copied \in Seq(Nat)

----------------------------------------------------------------------------
(* What a byte leads to.                                                   *)
After(c, byte) ==
  CASE c = "escape"                       -> "string"
    [] c = "string" /\ byte = "quote"     -> "json"
    [] c = "string" /\ byte = "escape"    -> "escape"
    [] c = "line"   /\ byte = "newline"   -> "json"
    [] c = "block"  /\ byte = "star"      -> "star"
    [] c = "star"   /\ byte = "slash"     -> "json"
    [] c = "star"   /\ byte \notin {"slash", "star"} -> "block"
    [] c = "slash"  /\ byte = "slash"     -> "line"
    [] c = "slash"  /\ byte = "star"      -> "block"
    [] c = "slash"  /\ byte \notin {"slash", "star", "quote"} -> "json"
    [] c \in {"json", "slash"} /\ byte = "quote" -> "string"
    [] c = "json"   /\ byte = "slash"     -> "slash"
    [] OTHER                              -> c

(* The author writes one more byte.                                        *)
Write(byte) ==
  /\ pos = 0
  /\ Len(text) < MaxLength
  /\ text' = Append(text, byte)
  /\ context' = Append(context, After(context[Len(context)], byte))
  /\ UNCHANGED <<pos, inString, escaped, copied>>

StripInit ==
  /\ text = <<>> /\ context = <<"json">>
  /\ pos = 0
  /\ inString = FALSE /\ escaped = FALSE
  /\ copied = <<>>

(* loadConfig reads the file.                                              *)
Begin ==
  /\ pos = 0
  /\ pos' = 1
  /\ UNCHANGED <<text, context, inString, escaped, copied>>

Here == text[pos]
Follows(byte) == pos < Len(text) /\ text[pos + 1] = byte
Reading == 0 < pos /\ pos <= Len(text)

Copy ==
  /\ copied' = Append(copied, pos)
  /\ pos' = pos + 1

(* Mutation of InString: a quote always ends the string.                   *)
InStringUnescaped ==
  /\ Reading /\ inString
  /\ inString' = (Here # "quote")
  /\ Copy
  /\ UNCHANGED <<text, context, escaped>>

InString ==
  /\ Reading /\ inString
  /\ escaped' = (~escaped /\ Here = "escape")
  /\ inString' = (escaped \/ Here # "quote")
  /\ Copy
  /\ UNCHANGED <<text, context>>

Quote ==
  /\ Reading /\ ~inString
  /\ Here = "quote"
  /\ inString' = TRUE
  /\ Copy
  /\ UNCHANGED <<text, context, escaped>>

(* On to the end of the line, which stays.                                 *)
LineComment ==
  /\ Reading /\ ~inString
  /\ Here = "slash" /\ Follows("slash")
  /\ pos' = Min({k \in (pos + 2)..(Len(text) + 1) :
                   k <= Len(text) => text[k] = "newline"})
  /\ UNCHANGED <<text, context, inString, escaped, copied>>

(* On past the end of the comment, or past the text.                       *)
BlockComment ==
  /\ Reading /\ ~inString
  /\ Here = "slash" /\ Follows("star")
  /\ pos' = 2 + Min({k \in (pos + 2)..(Len(text) + 1) :
                       k < Len(text) => text[k] = "star" /\ text[k + 1] = "slash"})
  /\ UNCHANGED <<text, context, inString, escaped, copied>>

Plain ==
  /\ Reading /\ ~inString
  /\ Here # "quote"
  /\ ~(Here = "slash" /\ (Follows("slash") \/ Follows("star")))
  /\ Copy
  /\ UNCHANGED <<text, context, inString, escaped>>

StripNext ==
  \/ \E byte \in Bytes : Write(byte)
  \/ Begin
  \/ InString \/ Quote \/ LineComment \/ BlockComment \/ Plain

StripSpec == StripInit /\ [][StripNext]_stripVars

----------------------------------------------------------------------------
(* Byte n is of a comment: of its inside, or of the two that begin it.     *)
InComment(n) ==
  \/ context[n] \in {"block", "star"}
  \/ context[n] = "line" /\ text[n] # "newline"
  \/ context[n] = "slash" /\ text[n] \in {"slash", "star"}
  \/ context[n + 1] = "slash" /\ n < Len(text) /\ text[n + 1] \in {"slash", "star"}

(* Exactly the comments go: what is in a string stays, whatever it looks   *)
(* like, nothing of a comment does, ended or not, and the rest keeps its   *)
(* order; and the pass ends in a string where the file does.               *)
OnlyCommentsGo ==
  pos > Len(text) =>
    /\ {copied[m] : m \in 1..Len(copied)}
         = {n \in 1..Len(text) : ~InComment(n)}
    /\ \A m, n \in 1..Len(copied) : m < n => copied[m] < copied[n]
    /\ inString <=> context[Len(context)] \in {"string", "escape"}
    /\ escaped <=> context[Len(context)] = "escape"
=============================================================================
