------------------------------ MODULE TextScans ------------------------------
(***************************************************************************)
(* The scanners that cut a text into words or into pairs of a tag and a    *)
(* value, each a loop over the characters with a second loop inside it that*)
(* looks for the end of a value:                                           *)
(*   "words"    tokenize of mam/main.cpp, the words of a request line      *)
(*   "queries"  tokenize_tag_val of mam/main.cpp, the query of a request   *)
(*   "pairs"    pair_tokenizer of tst_ruv.cpp, the fields of a FIX message *)
(*   "sleepy"   parse_messages of ptcl_sleepy.h, messages one after another*)
(*                                                                         *)
(* A character is "open" ("=", in sleepy the space), "close" (the separator*)
(* behind a word or a pair), "end" (the ";" behind a sleepy message) or    *)
(* "x".  Places count from 0 as in the code.  An action is one turn of a   *)
(* loop; Wide is the number of values of a uint16_t.                       *)
(***************************************************************************)
EXTENDS Integers, SequencesExt

CONSTANTS
  Scanners,      (* which of the four                                        *)
  Wide,          (* values of a uint16_t                                     *)
  MaxText        (* the longest text (bounds the model)                      *)

ASSUME ScanAssumption ==
  /\ Scanners \subseteq {"words", "queries", "pairs", "sleepy"}
  /\ Wide \in Nat /\ Wide > 1 /\ MaxText \in Nat

VARIABLES
  scanner,       (* the function that runs, or none                          *)
  text,          (* data_                                                    *)
  i, tagPos, valPos,
  inner,         (* the loop that looks for the end of a value               *)
  base,          (* offset: where the sleepy message begins                  *)
  tokens,        (* what the callback has been given                         *)
  messages,      (* the sleepy messages behind base                          *)
  peeked,        (* the furthest character looked at (history)               *)
  state          (* "idle", "running", "done", or "died" of an exception     *)

scan == <<scanner, text>>
vars == <<scan, i, tagPos, valPos, inner, base, tokens, messages, peeked, state>>

Running == state = "running"

(* len_: tokenize_tag_val takes it as a uint16_t.                            *)
length == IF scanner = "queries" THEN Len(text) % Wide ELSE Len(text) - base

(* A character, and the terminator behind the last one.                      *)
At(k) == IF base + k < Len(text) THEN text[base + k + 1] ELSE "nul"

(* ++i: a uint16_t in main.cpp.                                              *)
(* Mutant: in tst_ruv.cpp as well.                                           *)
AfterNarrow(k) == IF scanner = "sleepy" THEN k + 1 ELSE (k + 1) % Wide

After(k) == IF scanner \in {"words", "queries"} THEN (k + 1) % Wide ELSE k + 1

(* Part of the text: where it begins, how long it is.  sleepy keeps the      *)
(* length in a uint16_t.                                                     *)
Piece(from, to) ==
  <<base + from, IF scanner = "sleepy" THEN (to - from) % Wide ELSE to - from>>

-----------------------------------------------------------------------------
Alphabet(s) == {"close", "x"} \cup (IF s = "words" THEN {} ELSE {"open"})
                              \cup (IF s = "sleepy" THEN {"end"} ELSE {})
Texts == [s \in Scanners |-> SeqOf(Alphabet(s), MaxText)]

Init ==
  /\ scanner = "none" /\ text = <<>> /\ state = "idle"
  /\ i = 0 /\ tagPos = 0 /\ valPos = 0 /\ inner = FALSE
  /\ base = 0 /\ tokens = <<>> /\ messages = <<>> /\ peeked = 0

(* parse_messages does nothing with an empty text.                           *)
Start(s, t) ==
  /\ scanner' = s /\ text' = t
  /\ state' = IF s = "sleepy" /\ t = <<>> THEN "done" ELSE "running"
  /\ UNCHANGED <<i, tagPos, valPos, inner, base, tokens, messages, peeked>>

(* The callback makes a std::string of every part.  A negative length makes  *)
(* it throw, and the scanners of main.cpp are noexcept.                      *)
Throws(token) == \E k \in DOMAIN token : token[k][2] < 0

Give(token) ==
  /\ tokens' = Append(tokens, token)
  /\ state' = IF Throws(token) THEN "died" ELSE state

(* Where a tag ends and a value begins: in main.cpp valPos is the place of   *)
(* the "=", elsewhere the place behind it.                                   *)
TagEnd == IF scanner = "queries" THEN valPos ELSE valPos - 1
ValueBegin == TagEnd + 1

(* Where a value ends: in sleepy before the space in front of the comma.     *)
(* Mutants: with that space; with the separator.                             *)
UntrimmedEnd(to) == to
SeparatorIncluded(to) == to + 1

ValueEnd(to) == IF scanner = "sleepy" /\ At(to - 1) = "open" THEN to - 1 ELSE to

Pair(to) == <<Piece(tagPos, TagEnd), Piece(ValueBegin, ValueEnd(to))>>

Peek(k) == peeked' = Max({peeked, base + k})

-----------------------------------------------------------------------------
(* A character that is not looked for.                                       *)
Wanted == IF inner \/ scanner = "words" THEN "close" ELSE "open"

Skip ==
  /\ Running /\ i < length /\ At(i) # Wanted
  /\ i' = After(i) /\ Peek(i)
  /\ UNCHANGED <<scan, tagPos, valPos, inner, base, tokens, messages, state>>

Word ==
  /\ Running /\ scanner = "words" /\ i < length /\ At(i) = "close"
  /\ Give(<<Piece(tagPos, i)>>)
  /\ tagPos' = i + 1 /\ i' = After(i) /\ Peek(i)
  /\ UNCHANGED <<scan, valPos, inner, base, messages>>

(* A sleepy tag may have no value: the next character is looked at, without  *)
(* a look at the length.                                                     *)
NoValue == scanner = "sleepy" /\ At(i + 1) = "close"

OpenValue ==
  /\ Running /\ scanner # "words" /\ ~inner /\ i < length /\ At(i) = "open" /\ ~NoValue
  /\ valPos' = (IF scanner = "queries" THEN i ELSE i + 1) /\ i' = valPos'
  /\ inner' = TRUE /\ Peek(IF scanner = "sleepy" THEN i + 1 ELSE i)
  /\ UNCHANGED <<scan, tagPos, base, tokens, messages, state>>

(* What tokenize_message returns is the length of a message; as long as      *)
(* there is text behind it another one begins.                               *)
(* Mutants: the ";" is left to the next message; the index is not reset.     *)
EndBefore(len) ==
  /\ messages' = Append(messages, <<base, len - 1>>) /\ base' = base + len - 1
  /\ i' = 0 /\ tagPos' = 0 /\ valPos' = 0
  /\ state' = IF base + len - 1 < Len(text) THEN state ELSE "done"

EndKeepingIndex(len) ==
  /\ messages' = Append(messages, <<base, len>>) /\ base' = base + len
  /\ i' = i + 1 /\ tagPos' = 0 /\ valPos' = 0
  /\ state' = IF base + len < Len(text) THEN state ELSE "done"

EndMessage(len) ==
  /\ messages' = Append(messages, <<base, len>>) /\ base' = base + len
  /\ i' = 0 /\ tagPos' = 0 /\ valPos' = 0
  /\ state' = IF base + len < Len(text) THEN state ELSE "done"

(* A value is over, k is its comma: the sleepy scanners look behind it.      *)
EndsMessage(k) == scanner = "sleepy" /\ At(k + 1) = "end"

CloseValue ==
  /\ Running /\ inner /\ i < length /\ At(i) = "close"
  /\ inner' = FALSE /\ Peek(IF scanner = "sleepy" THEN i + 1 ELSE i)
  /\ IF EndsMessage(i)
     THEN /\ tokens' = Append(tokens, Pair(i)) /\ EndMessage(i + 2)
     ELSE /\ Give(Pair(i)) /\ tagPos' = i + 1 /\ i' = After(i)
          /\ UNCHANGED <<valPos, base, messages>>
  /\ UNCHANGED scan

LeaveOut ==
  /\ Running /\ ~inner /\ i < length /\ At(i) = "open" /\ NoValue
  /\ tokens' = Append(tokens, <<Piece(tagPos, i), Piece(i + 1, i + 1)>>)
  /\ Peek(i + 2)
  /\ IF EndsMessage(i + 1)
     THEN EndMessage(i + 3)
     ELSE /\ valPos' = i + 1 /\ tagPos' = i + 2 /\ i' = i + 2
          /\ UNCHANGED <<base, messages, state>>
  /\ UNCHANGED <<scan, inner>>

(* The end of the text ends the inner loop, and the outer one steps on.      *)
Unterminated ==
  /\ Running /\ inner /\ i >= length
  /\ inner' = FALSE /\ i' = After(i)
  /\ UNCHANGED <<scan, tagPos, valPos, base, tokens, messages, peeked, state>>

AtEnd == Running /\ ~inner /\ i >= length

(* tokenize gives what is left, if something is; tokenize_tag_val always     *)
(* gives a last pair, with the valPos there is.                              *)
Finish ==
  /\ AtEnd /\ scanner \in {"words", "queries", "pairs"}
  /\ LET last == IF scanner = "words" THEN <<Piece(tagPos, length)>> ELSE Pair(length)
         none == scanner = "pairs" \/ (scanner = "words" /\ tagPos = length)
     IN  /\ tokens' = IF none THEN tokens ELSE Append(tokens, last)
         /\ state' = IF ~none /\ Throws(last) THEN "died" ELSE "done"
  /\ UNCHANGED <<scan, i, tagPos, valPos, inner, base, messages, peeked>>

FinishMessage ==
  /\ AtEnd /\ scanner = "sleepy"
  /\ EndMessage(length)
  /\ UNCHANGED <<scan, inner, tokens, peeked>>

Scan ==
  \/ Skip \/ Word \/ OpenValue \/ CloseValue \/ LeaveOut \/ Unterminated
  \/ Finish \/ FinishMessage

Next ==
  \/ Scan
  \/ state = "idle" /\ \E s \in Scanners : \E t \in Texts[s] : Start(s, t)

Spec == Init /\ [][Next]_vars /\ WF_vars(Scan)

-----------------------------------------------------------------------------
(* What a text says, apart from the scanners.  A field begins with the text, *)
(* or behind the "close" of the one before it and the "end" that may follow. *)
Char(k) == IF k < Len(text) THEN text[k + 1] ELSE "nul"
Closers == {k \in 0..(Len(text) - 1) : text[k + 1] = "close"}
Behind(k) == IF scanner = "sleepy" /\ Char(k + 1) = "end" THEN k + 2 ELSE k + 1

Begins == {0} \cup {Behind(k) : k \in Closers}
EndOf(b) == Min({k \in Closers : k >= b} \cup {Len(text)})
OpenersOf(b) == {k \in b..(EndOf(b) - 1) : text[k + 1] = "open"}

(* The last field: an empty last word is none, a query has to have its last  *)
(* pair, and elsewhere a pair counts only with its "close" (the comment in   *)
(* pair_tokenizer says so).                                                  *)
FieldBegins ==
  CASE scanner = "words" -> {b \in Begins : b < Len(text)}
    [] scanner = "queries" -> Begins
    [] OTHER -> {b \in Begins : EndOf(b) < Len(text)}

Part(from, to) == <<from, to - from>>

FieldFrom(b) ==
  IF scanner = "words" THEN <<Part(b, EndOf(b))>>
  ELSE LET k == Min(OpenersOf(b))
           e == EndOf(b)
       IN  <<Part(b, k),
             Part(k + 1, IF scanner = "sleepy" /\ e - 1 > k /\ Char(e - 1) = "open"
                         THEN e - 1 ELSE e)>>

(* Texts in the format, and no longer than the code can count.               *)
Regular ==
  /\ scanner \in {"queries", "sleepy"} => Len(text) < Wide - 1
  /\ scanner = "words" => Len(text) < Wide
  /\ scanner # "words" => \A b \in FieldBegins : OpenersOf(b) # {}

(* The type invariant: a scanner that has not died is inside its text, or    *)
(* one step behind it.                                                       *)
TypeOK ==
  /\ scanner \in Scanners \cup {"none"} /\ state \in {"idle", "running", "done", "died"}
  /\ text \in Seq({"open", "close", "end", "x"}) /\ inner \in BOOLEAN
  /\ base \in 0..Len(text) /\ i \in 0..(length + 1)
  /\ tagPos \in 0..(Len(text) + 1) /\ valPos \in 0..(Len(text) + 1)
  /\ peeked \in 0..(Len(text) + 1)
  /\ \A k \in DOMAIN tokens : Len(tokens[k]) = IF scanner = "words" THEN 1 ELSE 2

(* Of a text in the format every field comes out once, in order, whole and   *)
(* without its separators, and no callback throws.                           *)
FieldsComeOut ==
  /\ state = "done" /\ Regular =>
       /\ ToSet(tokens) = {FieldFrom(b) : b \in FieldBegins}
       /\ \A j, k \in DOMAIN tokens : j < k => tokens[j][1][1] < tokens[k][1][1]
  /\ state = "died" => ~Regular

(* Of whatever text, in the format or not, no part that is handed out        *)
(* reaches behind it, and no more than the terminator behind it is looked    *)
(* at.  (A part may be of negative length; by FieldsComeOut only a text out  *)
(* of the format has one.)                                                   *)
InsideText ==
  /\ peeked <= Len(text)
  /\ \A k \in DOMAIN tokens : \A p \in DOMAIN tokens[k] :
       tokens[k][p][1] + tokens[k][p][2] <= Len(text)

(* The messages of parse_messages lie one behind the other, none is empty,   *)
(* each but the last ends with a comma and a semicolon, and together they    *)
(* are the text, whatever the text is.                                       *)
MessagesTile ==
  LET from(k) == messages[k][1]
      to(k)   == messages[k][1] + messages[k][2]
      ends    == {k + 2 : k \in {c \in Closers : Char(c + 1) = "end"}}
  IN  /\ \A k \in DOMAIN messages :
           /\ from(k) = (IF k = 1 THEN 0 ELSE to(k - 1)) /\ to(k) > from(k)
           /\ k < Len(messages) => to(k) \in ends
      /\ base = IF messages = <<>> THEN 0 ELSE to(Len(messages))
      /\ scanner = "sleepy" /\ state = "done" => base = Len(text)

(* Every scan ends, but for the texts that main.cpp cannot count: a first    *)
(* line of 2^16 characters or more, and a query whose length, cut to 16      *)
(* bits, is 2^16 - 1.                                                        *)
Countable ==
  /\ scanner = "words" => Len(text) < Wide
  /\ scanner = "queries" => Len(text) % Wide # Wide - 1

ScanEnds == Running /\ Countable ~> ~Running
=============================================================================
