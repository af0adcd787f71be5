--------------------------- MODULE TextScans_proofs ---------------------------
(***************************************************************************)
(* The scanners of TextScans, for texts of any length and any width of the *)
(* counters of main.cpp and ptcl_sleepy.h.                                 *)
(***************************************************************************)
EXTENDS TextScans, SequenceTheorems, TLAPS

(* What has been given to the callback is one part of the text, or two.      *)
Whole(token) ==
  /\ token \in Seq(Nat \X Int)
  /\ Len(token) = IF scanner = "words" THEN 1 ELSE 2
  /\ \A p \in DOMAIN token : token[p][1] + token[p][2] <= Len(text)

TokensWhole ==
  /\ tokens \in Seq(Seq(Nat \X Int))
  /\ \A k \in DOMAIN tokens : Whole(tokens[k])

(* Only parse_messages leaves the beginning of the text, and before a        *)
(* scanner runs nothing has happened.                                        *)
Fresh ==
  /\ scanner # "sleepy" => base = 0 /\ messages = <<>>
  /\ state = "idle" => /\ i = 0 /\ tagPos = 0 /\ valPos = 0 /\ ~inner /\ base = 0
                       /\ tokens = <<>> /\ messages = <<>> /\ peeked = 0

(* The place of a value lies behind its tag and before the place that is     *)
(* looked at, unless the scanner counts in 16 bits and has lost its way; a   *)
(* sleepy value is not over where it begins.                                 *)
InField ==
  Running =>
    /\ scanner # "none"
    /\ base + valPos <= Len(text) /\ (inner => i <= length /\ scanner # "words")
    /\ scanner = "sleepy" => base < Len(text)
    /\ scanner \in {"pairs", "sleepy"} =>
         tagPos <= i /\ (inner => tagPos < valPos /\ valPos <= i)
    /\ scanner = "sleepy" /\ inner /\ i = valPos => At(i) # "close"

(* Where a sleepy message may end before the text does.                      *)
MessageEnds == {k + 2 : k \in {c \in Closers : Char(c + 1) = "end"}}

MessagesSoFar ==
  /\ messages \in Seq(Nat \X Nat)
  /\ Running /\ messages # <<>> => base \in MessageEnds

IInv ==
  /\ TypeOK /\ peeked <= Len(text) /\ TokensWhole
  /\ Fresh /\ InField /\ MessagesTile /\ MessagesSoFar

-----------------------------------------------------------------------------
LEMMA ModBound ==
  ASSUME NEW a \in Nat
  PROVE  a % Wide \in Nat /\ a % Wide <= a /\ a % Wide < Wide
<1>1. Wide \in Nat /\ Wide > 1
  BY ScanAssumption
<1> QED
  BY <1>1, SMTT(30)

LEMMA FirstPlace ==
  ASSUME NEW a \in Nat
  PROVE  0 \in 0..a /\ 0 \in 0..(a + 1)
OBVIOUS

(* What the scanner takes for the length of its text is no more than it has. *)
LEMMA Lengths ==
  ASSUME TypeOK, Fresh
  PROVE  /\ Len(text) \in Nat /\ base \in Nat /\ length \in Nat /\ base + length <= Len(text)
         /\ scanner # "queries" => base + length = Len(text)
<1>1. Len(text) \in Nat /\ base \in 0..Len(text)
  BY LenProperties DEF TypeOK
<1>2. CASE scanner = "queries"
  <2>1. base = 0 /\ length = Len(text) % Wide
    BY <1>2 DEF Fresh, length
  <2> QED
    BY <1>1, <1>2, <2>1, ModBound
<1>3. CASE scanner # "queries"
  <2>1. length = Len(text) - base
    BY <1>3 DEF length
  <2> QED
    BY <1>1, <1>3, <2>1
<1> QED
  BY <1>2, <1>3

LEMMA AfterBound ==
  ASSUME NEW k \in Nat
  PROVE  /\ After(k) \in Nat /\ After(k) <= k + 1
         /\ scanner \in {"pairs", "sleepy"} => After(k) = k + 1
<1>1. (k + 1) % Wide \in Nat /\ (k + 1) % Wide <= k + 1
  BY ModBound
<1> QED
  BY <1>1 DEF After

(* What is no terminator is a character of the text.                         *)
LEMMA AtInside ==
  ASSUME TypeOK, NEW k \in Nat, At(k) # "nul"
  PROVE  base + k < Len(text) /\ text[base + k + 1] = At(k)
BY DEF At

LEMMA PeekInside ==
  ASSUME TypeOK, peeked <= Len(text), NEW k \in Nat, base + k <= Len(text), Peek(k)
  PROVE  peeked' \in Nat /\ peeked' <= Len(text)
<1>1. peeked \in Nat /\ base + k \in Nat
  BY DEF TypeOK
<1>2. ASSUME NEW a \in Nat, NEW b \in Nat PROVE Max({a, b}) = a \/ Max({a, b}) = b
  <2>1. \E x \in {a, b} : \A y \in {a, b} : x >= y
    BY <1>2
  <2>2. Max({a, b}) \in {a, b}
    BY <2>1 DEF Max
  <2> QED
    BY <2>2
<1> QED
  BY <1>1, <1>2 DEF Peek

(* A part of the text ends where it is said to.                              *)
LEMMA PieceInside ==
  ASSUME TypeOK, NEW from \in Nat, NEW to \in Int, base + to <= Len(text),
         scanner = "sleepy" => from <= to
  PROVE  /\ Piece(from, to) \in Nat \X Int
         /\ Piece(from, to)[1] + Piece(from, to)[2] <= Len(text)
         /\ scanner = "sleepy" => Piece(from, to) \in Nat \X Nat
<1>1. base \in Nat
  BY DEF TypeOK
<1>2. CASE scanner = "sleepy"
  <2>1. to - from \in Nat
    BY <1>2
  <2>2. (to - from) % Wide \in Nat /\ (to - from) % Wide <= to - from
    BY <2>1, ModBound
  <2>3. Piece(from, to) = <<base + from, (to - from) % Wide>>
    BY <1>2 DEF Piece
  <2> HIDE DEF Piece
  <2>4. Len(text) \in Nat
    BY LenProperties DEF TypeOK
  <2> QED
    BY <1>1, <2>1, <2>2, <2>3, <2>4
<1>3. CASE scanner # "sleepy"
  <2>1. Piece(from, to) = <<base + from, to - from>>
    BY <1>3 DEF Piece
  <2> QED
    BY <1>1, <1>3, <2>1
<1> QED
  BY <1>2, <1>3

(* One part, or two, as a sequence.                                          *)
LEMMA Parts ==
  ASSUME NEW S, NEW p \in S, NEW q \in S
  PROVE  /\ <<p>> \in Seq(S) /\ Len(<<p>>) = 1 /\ DOMAIN <<p>> = {1} /\ <<p>>[1] = p
         /\ <<p, q>> \in Seq(S) /\ Len(<<p, q>>) = 2 /\ DOMAIN <<p, q>> = {1, 2}
         /\ <<p, q>>[1] = p /\ <<p, q>>[2] = q
OBVIOUS

LEMMA NatParts ==
  ASSUME NEW token \in Seq(Nat \X Nat)
  PROVE  token \in Seq(Nat \X Int)
<1> DEFINE n == Len(token)
<1>1. n \in Nat /\ token \in [1..n -> Nat \X Nat]
  BY LenProperties
<1> HIDE DEF n
<1>2. token \in [1..n -> Nat \X Int]
  BY <1>1
<1>3. Seq(Nat \X Int) = UNION {[1..m -> Nat \X Int] : m \in Nat}
  BY SeqDef
<1> QED
  BY <1>1, <1>2, <1>3

LEMMA OneMore ==
  ASSUME TokensWhole, NEW token, Whole(token), tokens' = Append(tokens, token), UNCHANGED scan
  PROVE  TokensWhole'
<1>1. /\ tokens \in Seq(Seq(Nat \X Int)) /\ token \in Seq(Nat \X Int)
      /\ UNCHANGED <<scanner, text>>
  BY DEF TokensWhole, Whole, scan
<1>2. /\ tokens' \in Seq(Seq(Nat \X Int)) /\ Len(tokens') = Len(tokens) + 1
      /\ \A k \in 1..Len(tokens) : tokens'[k] = tokens[k]
      /\ tokens'[Len(tokens) + 1] = token
  BY <1>1, AppendProperties
<1>3. /\ Len(tokens) \in Nat /\ DOMAIN tokens = 1..Len(tokens)
      /\ DOMAIN tokens' = 1..(Len(tokens) + 1)
  BY <1>1, <1>2, LenProperties
<1>4. \A k \in DOMAIN tokens' : Whole(tokens'[k])
  BY <1>2, <1>3 DEF TokensWhole
<1> QED
  BY <1>1, <1>2, <1>4 DEF TokensWhole, Whole

(* The callback is given the parts, and may throw.                           *)
LEMMA Given ==
  ASSUME TokensWhole, NEW token \in Seq(Nat \X Int), Give(token), UNCHANGED scan,
         Len(token) = IF scanner = "words" THEN 1 ELSE 2,
         \A p \in DOMAIN token : token[p][1] + token[p][2] <= Len(text)
  PROVE  TokensWhole' /\ (state' = state \/ state' = "died")
<1>1. Whole(token)
  BY DEF Whole
<1> QED
  BY <1>1, OneMore DEF Give

(* A tag and a value, both inside the text.                                  *)
LEMMA PairInside ==
  ASSUME IInv, Running, scanner # "words", inner \/ scanner = "queries",
         NEW to \in Nat, base + to <= Len(text), scanner = "sleepy" => valPos < to
  PROVE  /\ Pair(to) \in Seq(Nat \X Int) /\ Len(Pair(to)) = 2
         /\ \A p \in DOMAIN Pair(to) : Pair(to)[p][1] + Pair(to)[p][2] <= Len(text)
         /\ scanner = "sleepy" => Whole(Pair(to))
<1>1. /\ base \in Nat /\ tagPos \in Nat /\ valPos \in Nat /\ Len(text) \in Nat
      /\ base + valPos <= Len(text) /\ scanner \in {"queries", "pairs", "sleepy"}
      /\ scanner \in {"pairs", "sleepy"} => inner /\ tagPos < valPos
  BY Lengths, ScanAssumption DEF IInv, TypeOK, InField, Running, Fresh
<1> DEFINE tag == Piece(tagPos, TagEnd)  value == Piece(ValueBegin, ValueEnd(to))
<1>2. /\ TagEnd \in Int /\ base + TagEnd <= Len(text)
      /\ scanner = "sleepy" => tagPos <= TagEnd
      /\ ValueBegin \in Nat /\ (scanner = "sleepy" => ValueBegin = valPos)
  BY <1>1 DEF TagEnd, ValueBegin
<1>3. /\ ValueEnd(to) \in Int /\ base + ValueEnd(to) <= Len(text)
      /\ scanner = "sleepy" => ValueBegin <= ValueEnd(to)
  BY <1>1, <1>2 DEF ValueEnd
<1>4. /\ tag \in Nat \X Int /\ tag[1] + tag[2] <= Len(text)
      /\ scanner = "sleepy" => tag \in Nat \X Nat
  BY <1>1, <1>2, PieceInside DEF IInv
<1>5. /\ value \in Nat \X Int /\ value[1] + value[2] <= Len(text)
      /\ scanner = "sleepy" => value \in Nat \X Nat
  BY <1>2, <1>3, PieceInside DEF IInv
<1>6. Pair(to) = <<tag, value>>
  BY DEF Pair
<1> HIDE DEF tag, value, Pair
<1>7. /\ Pair(to) \in Seq(Nat \X Int) /\ Len(Pair(to)) = 2
      /\ \A p \in DOMAIN Pair(to) : Pair(to)[p][1] + Pair(to)[p][2] <= Len(text)
  BY <1>4, <1>5, <1>6, Parts
<1>8. ASSUME scanner = "sleepy" PROVE Whole(Pair(to))
  BY <1>7, <1>8 DEF Whole
<1> QED
  BY <1>7, <1>8

-----------------------------------------------------------------------------
(* A message ends: it lies behind the one before it, and another one begins  *)
(* unless the text is at its end.                                            *)
LEMMA MessageEnded ==
  ASSUME IInv, Running, scanner = "sleepy", UNCHANGED scan,
         NEW len \in Nat, len > 0, EndMessage(len), base + len <= Len(text),
         base + len < Len(text) => base + len \in MessageEnds
  PROVE  /\ base' \in 0..Len(text') /\ length' \in Nat
         /\ i' = 0 /\ tagPos' = 0 /\ valPos' = 0
         /\ state' = IF base' < Len(text') THEN "running" ELSE "done"
         /\ MessagesTile' /\ MessagesSoFar'
<1>1. /\ messages \in Seq(Nat \X Nat) /\ base \in Nat /\ Len(text) \in Nat
      /\ UNCHANGED <<scanner, text>>
  BY Lengths DEF IInv, TypeOK, MessagesSoFar, scan
<1>2. /\ base' = base + len /\ i' = 0 /\ tagPos' = 0 /\ valPos' = 0
      /\ state' = IF base' < Len(text) THEN "running" ELSE "done"
      /\ messages' = Append(messages, <<base, len>>)
  BY DEF EndMessage, Running
<1>3. length' = Len(text) - base' /\ length' \in Nat /\ base' \in 0..Len(text)
  BY <1>1, <1>2 DEF length
<1> DEFINE n == Len(messages)
<1>4. /\ n \in Nat /\ DOMAIN messages = 1..n
      /\ messages' \in Seq(Nat \X Nat) /\ Len(messages') = n + 1 /\ DOMAIN messages' = 1..(n + 1)
      /\ \A k \in 1..n : messages'[k] = messages[k]
      /\ messages'[n + 1] = <<base, len>> /\ messages' # <<>>
  <2>1. <<base, len>> \in Nat \X Nat
    BY <1>1
  <2>2. messages' \in Seq(Nat \X Nat) /\ Len(messages') = n + 1
    BY <1>1, <1>2, <2>1, AppendProperties
  <2> QED
    BY <1>1, <1>2, <2>1, <2>2, AppendProperties, LenProperties, SMTT(30)
<1>5. /\ MessageEnds' = MessageEnds
      /\ {k + 2 : k \in {c \in Closers : Char(c + 1) = "end"}} = MessageEnds
      /\ {k + 2 : k \in {c \in Closers : Char(c + 1) = "end"}}' = MessageEnds
  BY <1>1 DEF MessageEnds, Closers, Char
<1>6. MessagesSoFar'
  BY <1>2, <1>4, <1>5, <1>1 DEF MessagesSoFar, Running
<1>7. /\ \A k \in 1..n : /\ messages[k][1] = (IF k = 1 THEN 0
                                              ELSE messages[k - 1][1] + messages[k - 1][2])
                         /\ messages[k][1] + messages[k][2] > messages[k][1]
                         /\ k < n => messages[k][1] + messages[k][2] \in MessageEnds
      /\ base = IF messages = <<>> THEN 0 ELSE messages[n][1] + messages[n][2]
  BY <1>4, <1>5 DEF IInv, MessagesTile
<1>8. n > 0 => messages[n][1] + messages[n][2] \in MessageEnds
  <2>1. n > 0 => messages # <<>>
    BY <1>4
  <2> QED
    BY <1>7, <2>1 DEF IInv, MessagesSoFar
<1>9. n = 0 <=> messages = <<>>
  BY <1>1, EmptySeq
<1> HIDE DEF n
<1>10. ASSUME NEW k \in 1..(n + 1)
       PROVE  /\ messages'[k][1] = (IF k = 1 THEN 0
                                    ELSE messages'[k - 1][1] + messages'[k - 1][2])
              /\ messages'[k][1] + messages'[k][2] > messages'[k][1]
              /\ k < n + 1 => messages'[k][1] + messages'[k][2] \in MessageEnds
  <2>1. CASE k \in 1..n
    <3>1. k - 1 \in 1..n \/ k = 1
      BY <1>4
    <3>2. messages'[k] = messages[k] /\ (k # 1 => messages'[k - 1] = messages[k - 1])
      BY <1>4, <2>1, <3>1
    <3>3. k < n \/ k = n
      BY <1>4, <2>1
    <3>4. messages[k][1] + messages[k][2] \in MessageEnds
      BY <1>4, <1>7, <1>8, <2>1, <3>3
    <3> QED
      BY <1>7, <2>1, <3>2, <3>4
  <2>2. CASE k = n + 1
    <3>1. messages'[k][1] = base /\ messages'[k][2] = len
      BY <1>4, <2>2
    <3>2. k = 1 <=> messages = <<>>
      BY <1>4, <1>9, <2>2
    <3>3. k # 1 => k - 1 = n /\ messages'[k - 1] = messages[n]
      BY <1>4, <2>2
    <3> QED
      BY <1>1, <1>4, <1>7, <2>2, <3>1, <3>2, <3>3, SMTT(30)
  <2> QED
    BY <1>4, <2>1, <2>2
<1>11. base' = messages'[n + 1][1] + messages'[n + 1][2]
  BY <1>2, <1>4
<1>12. scanner' = "sleepy" /\ state' = "done" => base' = Len(text')
  BY <1>1, <1>2, <1>3
<1>13. MessagesTile'
  BY <1>4, <1>5, <1>10, <1>11, <1>12 DEF MessagesTile
<1> QED
  BY <1>1, <1>2, <1>3, <1>6, <1>13

(* Where the comma and the semicolon of a message are.                       *)
LEMMA EndIsThere ==
  ASSUME TypeOK, NEW k \in Nat, At(k) = "close", At(k + 1) = "end"
  PROVE  base + k + 2 <= Len(text) /\ base + k + 2 \in MessageEnds
<1>1. base \in Nat /\ Len(text) \in Nat
  BY LenProperties DEF TypeOK
<1>2. base + k < Len(text) /\ text[base + k + 1] = "close"
  BY AtInside
<1>3. base + (k + 1) < Len(text) /\ text[base + (k + 1) + 1] = "end"
  BY AtInside
<1>4. base + k \in Closers
  BY <1>1, <1>2 DEF Closers
<1>5. Char(base + k + 1) = "end"
  BY <1>1, <1>3 DEF Char
<1>6. base + k + 2 = (base + k) + 2
  BY <1>1
<1> QED
  BY <1>1, <1>3, <1>4, <1>5, <1>6 DEF MessageEnds

-----------------------------------------------------------------------------
LEMMA InitIInv == Init => IInv
<1> SUFFICES ASSUME Init PROVE IInv
  OBVIOUS
<1> USE DEF Init
<1>1. Len(text) = 0 /\ length = 0 /\ Closers = {} /\ DOMAIN tokens = {} /\ DOMAIN messages = {}
  BY EmptySeq DEF length, Closers
<1>2. TypeOK
  <2>1. <<>> \in Seq({"open", "close", "end", "x"})
    BY EmptySeq
  <2>2. inner \in BOOLEAN
    OBVIOUS
  <2>3. text \in Seq({"open", "close", "end", "x"})
    BY <2>1
  <2> QED
    BY <1>1, <2>2, <2>3 DEF TypeOK
<1>3. TokensWhole /\ MessagesSoFar
  BY <1>1, EmptySeq DEF TokensWhole, MessagesSoFar, Running
<1>4. Fresh /\ InField /\ MessagesTile
  BY <1>1 DEF Fresh, InField, Running, MessagesTile
<1> QED
  BY <1>1, <1>2, <1>3, <1>4 DEF IInv

LEMMA StartIInv ==
  ASSUME IInv, state = "idle", NEW s \in Scanners, NEW t \in Texts[s], Start(s, t)
  PROVE  IInv'
<1>1. /\ scanner' = s /\ text' = t /\ state' = (IF s = "sleepy" /\ t = <<>> THEN "done" ELSE "running")
      /\ UNCHANGED <<i, tagPos, valPos, inner, base, tokens, messages, peeked>>
  BY DEF Start
<1>2. /\ i = 0 /\ tagPos = 0 /\ valPos = 0 /\ inner = FALSE /\ base = 0
      /\ tokens = <<>> /\ messages = <<>> /\ peeked = 0
  BY DEF IInv, Fresh, TypeOK
<1>3. t \in Seq({"open", "close", "end", "x"})
  <2>1. t \in SeqOf(Alphabet(s), MaxText)
    BY DEF Texts
  <2>2. PICK m \in 0..MaxText : t \in [1..m -> Alphabet(s)]
    BY <2>1 DEF SeqOf
  <2>3. m \in Nat /\ t \in Seq(Alphabet(s))
    BY <2>2, ScanAssumption, SeqDef
  <2>4. Alphabet(s) \subseteq {"open", "close", "end", "x"}
    BY DEF Alphabet
  <2>5. t \in [1..m -> {"open", "close", "end", "x"}]
    BY <2>2, <2>4
  <2> QED
    BY <2>3, <2>5, SeqDef
<1>4. Len(t) \in Nat /\ (Len(t) = 0 => t = <<>>)
  BY <1>3, EmptySeq, LenProperties
<1>5. length' \in Nat
  <2>1. length' = IF s = "queries" THEN Len(t) % Wide ELSE Len(t) - base'
    BY <1>1 DEF length
  <2> QED
    BY <1>1, <1>2, <1>4, <2>1, ModBound
<1>6. DOMAIN tokens' = {} /\ DOMAIN messages' = {} /\ <<>> \in Seq(Seq(Nat \X Int)) /\ <<>> \in Seq(Nat \X Nat)
  BY <1>1, <1>2, EmptySeq
<1>7. TypeOK'
  <2>1. inner' \in BOOLEAN
    BY <1>1 DEF IInv, TypeOK
  <2>2. text' \in Seq({"open", "close", "end", "x"}) /\ scanner' \in Scanners \cup {"none"}
    BY <1>1, <1>3
  <2>3. state' \in {"idle", "running", "done", "died"}
    BY <1>1
  <2>4. /\ base' \in 0..Len(text') /\ tagPos' \in 0..(Len(text') + 1)
        /\ valPos' \in 0..(Len(text') + 1) /\ peeked' \in 0..(Len(text') + 1)
    BY <1>1, <1>2, <1>4
  <2>5. i' \in 0..(length' + 1)
    <3>1. i' = 0
      BY <1>1, <1>2
    <3> QED
      BY <1>5, <3>1, FirstPlace
  <2> QED
    BY <1>6, <2>1, <2>2, <2>3, <2>4, <2>5 DEF TypeOK
<1>8. peeked' <= Len(text') /\ TokensWhole'
  BY <1>1, <1>2, <1>4, <1>6 DEF TokensWhole
<1>9. Fresh'
  BY <1>1, <1>2 DEF Fresh
<1>10. InField'
  <2>1. s \in {"words", "queries", "pairs", "sleepy"}
    BY ScanAssumption
  <2>2. t = <<>> => Len(t) = 0
    BY EmptySeq
  <2> QED
    BY <1>1, <1>2, <1>4, <2>1, <2>2 DEF InField, Running
<1>11. MessagesSoFar'
  BY <1>1, <1>2, <1>6 DEF MessagesSoFar
<1>12. MessagesTile'
  <2>1. t = <<>> => Len(t) = 0
    BY EmptySeq
  <2> QED
    BY <1>1, <1>2, <1>6, <2>1 DEF MessagesTile
<1> QED
  BY <1>7, <1>8, <1>9, <1>10, <1>11, <1>12 DEF IInv

(* A turn that ends no message.                                              *)
LEMMA Within ==
  ASSUME IInv, Running, UNCHANGED <<scan, base, messages>>,
         state' \in {"running", "done", "died"}, scanner = "sleepy" => state' # "done",
         i' \in Nat, i' <= length + 1, tagPos' \in Nat, tagPos' <= Len(text) + 1,
         valPos' \in Nat, valPos' <= Len(text) + 1, inner' \in BOOLEAN,
         peeked' \in Nat, peeked' <= Len(text), TokensWhole', InField'
  PROVE  IInv'
<1>1. UNCHANGED <<scanner, text>> /\ length' = length
  BY DEF scan, length
<1>2. Len(text) \in Nat /\ length \in Nat
  BY Lengths DEF IInv
<1>3. TypeOK'
  <2>1. \A k \in DOMAIN tokens' : Len(tokens'[k]) = IF scanner' = "words" THEN 1 ELSE 2
    BY DEF TokensWhole, Whole
  <2> QED
    BY <1>1, <1>2, <2>1 DEF IInv, TypeOK
<1>4. Fresh'
  BY <1>1 DEF IInv, Fresh
<1>5. MessagesTile'
  BY <1>1 DEF IInv, MessagesTile, Closers, Char, Running
<1>6. MessagesSoFar'
  BY <1>1 DEF IInv, MessagesSoFar, MessageEnds, Closers, Char, Running
<1> QED
  BY <1>1, <1>3, <1>4, <1>5, <1>6 DEF IInv

(* A turn that ends one.                                                     *)
LEMMA WithEnd ==
  ASSUME IInv, Running, scanner = "sleepy", UNCHANGED scan,
         NEW len \in Nat, len > 0, EndMessage(len), base + len <= Len(text),
         base + len < Len(text) => base + len \in MessageEnds,
         inner' = FALSE, peeked' \in Nat, peeked' <= Len(text), TokensWhole'
  PROVE  IInv'
<1>1. /\ base' \in 0..Len(text') /\ length' \in Nat
      /\ i' = 0 /\ tagPos' = 0 /\ valPos' = 0
      /\ state' = (IF base' < Len(text') THEN "running" ELSE "done")
      /\ MessagesTile' /\ MessagesSoFar'
  BY MessageEnded
<1>2. UNCHANGED <<scanner, text>> /\ Len(text) \in Nat
  BY Lengths DEF IInv, scan
<1>3. TypeOK'
  <2>1. \A k \in DOMAIN tokens' : Len(tokens'[k]) = IF scanner' = "words" THEN 1 ELSE 2
    BY DEF TokensWhole, Whole
  <2>2. inner' \in BOOLEAN
    OBVIOUS
  <2>3. text' \in Seq({"open", "close", "end", "x"}) /\ scanner' \in Scanners \cup {"none"}
    BY <1>2 DEF IInv, TypeOK
  <2>4. state' \in {"idle", "running", "done", "died"}
    BY <1>1
  <2>5. /\ base' \in 0..Len(text') /\ tagPos' \in 0..(Len(text') + 1)
        /\ valPos' \in 0..(Len(text') + 1) /\ peeked' \in 0..(Len(text') + 1)
    <3>1. Len(text') \in Nat /\ tagPos' = 0 /\ valPos' = 0
      BY <1>1, <1>2
    <3>2. tagPos' \in 0..(Len(text') + 1) /\ valPos' \in 0..(Len(text') + 1)
      BY <3>1, FirstPlace
    <3>3. peeked' \in 0..(Len(text') + 1)
      BY <1>2, <3>1
    <3> QED
      BY <1>1, <3>2, <3>3
  <2>6. i' \in 0..(length' + 1)
    <3>1. i' = 0 /\ length' \in Nat
      BY <1>1
    <3> QED
      BY <3>1, FirstPlace
  <2> QED
    BY <2>1, <2>2, <2>3, <2>4, <2>5, <2>6 DEF TypeOK
<1>4. Fresh' /\ InField'
  BY <1>1, <1>2 DEF Fresh, InField, Running
<1> QED
  BY <1>1, <1>2, <1>3, <1>4 DEF IInv

-----------------------------------------------------------------------------
(* What every turn starts from.                                              *)
LEMMA Turn ==
  ASSUME IInv, Running
  PROVE  /\ TypeOK /\ Fresh /\ TokensWhole /\ peeked \in Nat /\ peeked <= Len(text)
         /\ Len(text) \in Nat /\ base \in Nat /\ length \in Nat /\ base + length <= Len(text)
         /\ i \in Nat /\ i <= length + 1 /\ tagPos \in Nat /\ tagPos <= Len(text) + 1
         /\ valPos \in Nat /\ base + valPos <= Len(text) /\ inner \in BOOLEAN
         /\ scanner \in {"words", "queries", "pairs", "sleepy"} /\ state = "running"
         /\ inner => i <= length /\ scanner # "words"
         /\ scanner = "sleepy" => base < Len(text)
         /\ scanner \in {"pairs", "sleepy"} =>
              tagPos <= i /\ (inner => tagPos < valPos /\ valPos <= i)
         /\ scanner = "sleepy" /\ inner /\ i = valPos => At(i) # "close"
         /\ scanner \in {"words", "queries", "pairs"} => base = 0
BY Lengths, ScanAssumption DEF IInv, TypeOK, Fresh, InField, Running

LEMMA SkipIInv ==
  ASSUME IInv, Skip
  PROVE  IInv'
<1>1. /\ Running /\ i < length /\ At(i) # Wanted /\ i' = After(i) /\ Peek(i)
      /\ UNCHANGED <<scan, tagPos, valPos, inner, base, tokens, messages, state>>
  BY DEF Skip
<1>2. UNCHANGED <<scanner, text>> /\ length' = length
  BY <1>1 DEF scan, length
<1>3. i' \in Nat /\ i' <= i + 1 /\ (scanner \in {"pairs", "sleepy"} => i' = i + 1)
  BY <1>1, Turn, AfterBound
<1>4. peeked' \in Nat /\ peeked' <= Len(text)
  BY <1>1, Turn, PeekInside
<1>5. TokensWhole'
  BY <1>1, <1>2, Turn DEF TokensWhole, Whole
<1>6. InField'
  BY <1>1, <1>2, <1>3, Turn DEF InField, Running
<1> QED
  BY <1>1, <1>3, <1>4, <1>5, <1>6, Turn, Within

LEMMA WordIInv ==
  ASSUME IInv, Word
  PROVE  IInv'
<1>1. /\ Running /\ scanner = "words" /\ i < length /\ Give(<<Piece(tagPos, i)>>)
      /\ tagPos' = i + 1 /\ i' = After(i) /\ Peek(i)
      /\ UNCHANGED <<scan, valPos, inner, base, messages>>
  BY DEF Word
<1>2. UNCHANGED <<scanner, text>> /\ length' = length
  BY <1>1 DEF scan, length
<1>3. i' \in Nat /\ i' <= i + 1
  BY <1>1, Turn, AfterBound
<1>4. peeked' \in Nat /\ peeked' <= Len(text)
  BY <1>1, Turn, PeekInside
<1> DEFINE word == Piece(tagPos, i)
<1>5. word \in Nat \X Int /\ word[1] + word[2] <= Len(text)
  <2>1. TypeOK /\ tagPos \in Nat /\ i \in Int /\ base + i <= Len(text) /\ scanner # "sleepy"
    BY <1>1, Turn
  <2> QED
    BY <2>1, PieceInside
<1>6. TokensWhole' /\ (state' = state \/ state' = "died")
  <2>1. TokensWhole /\ Give(<<word>>) /\ UNCHANGED scan /\ scanner = "words"
    BY <1>1, Turn
  <2> HIDE DEF word
  <2>2. /\ <<word>> \in Seq(Nat \X Int) /\ Len(<<word>>) = 1
        /\ \A p \in DOMAIN <<word>> : <<word>>[p][1] + <<word>>[p][2] <= Len(text)
    BY <1>5, Parts
  <2> QED
    BY <2>1, <2>2, Given
<1> HIDE DEF word
<1>7. InField'
  BY <1>1, <1>2, Turn DEF InField, Running
<1> QED
  BY <1>1, <1>3, <1>4, <1>6, <1>7, Turn, Within

LEMMA OpenValueIInv ==
  ASSUME IInv, OpenValue
  PROVE  IInv'
<1>1. /\ Running /\ scanner # "words" /\ ~inner /\ i < length /\ At(i) = "open" /\ ~NoValue
      /\ valPos' = (IF scanner = "queries" THEN i ELSE i + 1) /\ i' = valPos' /\ inner' = TRUE
      /\ Peek(IF scanner = "sleepy" THEN i + 1 ELSE i)
      /\ UNCHANGED <<scan, tagPos, base, tokens, messages, state>>
  BY DEF OpenValue
<1>2. UNCHANGED <<scanner, text>> /\ length' = length
  BY <1>1 DEF scan, length
<1>3. peeked' \in Nat /\ peeked' <= Len(text)
  BY <1>1, Turn, PeekInside
<1>4. TokensWhole'
  BY <1>1, <1>2, Turn DEF TokensWhole, Whole
<1>5. scanner = "sleepy" => At(i)' # "close"
  <2>1. scanner = "sleepy" => At(i + 1) # "close" /\ i' = i + 1
    BY <1>1 DEF NoValue
  <2>2. text' = text /\ base' = base
    BY <1>1, <1>2
  <2>3. At(i)' = IF base + i' < Len(text) THEN text[base + i' + 1] ELSE "nul"
    BY <2>2 DEF At
  <2>4. scanner = "sleepy" => At(i)' = At(i + 1)
    BY <2>1, <2>3 DEF At
  <2> QED
    BY <2>1, <2>4
<1>6. InField'
  <2>1. /\ i \in Nat /\ length \in Nat /\ base \in Nat /\ Len(text) \in Nat
        /\ base + length <= Len(text) /\ i < length /\ tagPos \in Nat
        /\ scanner \in {"words", "queries", "pairs", "sleepy"}
        /\ scanner \in {"pairs", "sleepy"} => tagPos <= i
        /\ scanner = "sleepy" => base < Len(text)
    BY <1>1, Turn
  <2>2. scanner # "queries" => valPos' = i + 1 /\ i' = i + 1
    BY <1>1
  <2>3. scanner = "queries" => valPos' = i /\ i' = i
    BY <1>1
  <2>4. /\ base' = base /\ tagPos' = tagPos /\ length' = length /\ scanner # "words"
        /\ UNCHANGED <<scanner, text>>
    BY <1>1, <1>2
  <2>5. base' + valPos' <= Len(text') /\ i' <= length'
    BY <2>1, <2>2, <2>3, <2>4
  <2>6. scanner' \in {"pairs", "sleepy"} => tagPos' <= i' /\ tagPos' < valPos' /\ valPos' <= i'
    BY <2>1, <2>2, <2>4
  <2>7. scanner' = "sleepy" => base' < Len(text') /\ At(i)' # "close"
    BY <1>5, <2>1, <2>4
  <2> QED
    BY <2>1, <2>4, <2>5, <2>6, <2>7 DEF InField
<1> QED
  BY <1>1, <1>3, <1>4, <1>6, Turn, Within

LEMMA CloseValueIInv ==
  ASSUME IInv, CloseValue
  PROVE  IInv'
<1>1. /\ Running /\ inner /\ i < length /\ At(i) = "close" /\ inner' = FALSE
      /\ Peek(IF scanner = "sleepy" THEN i + 1 ELSE i) /\ UNCHANGED scan
      /\ \/ /\ EndsMessage(i) /\ tokens' = Append(tokens, Pair(i)) /\ EndMessage(i + 2)
         \/ /\ Give(Pair(i)) /\ tagPos' = i + 1 /\ i' = After(i)
            /\ UNCHANGED <<valPos, base, messages>>
  BY DEF CloseValue
<1>2. UNCHANGED <<scanner, text>>
  BY <1>1 DEF scan
<1>3. peeked' \in Nat /\ peeked' <= Len(text)
  BY <1>1, Turn, PeekInside
<1>4. /\ Pair(i) \in Seq(Nat \X Int) /\ Len(Pair(i)) = 2
      /\ \A p \in DOMAIN Pair(i) : Pair(i)[p][1] + Pair(i)[p][2] <= Len(text)
      /\ scanner = "sleepy" => Whole(Pair(i))
  <2>1. scanner = "sleepy" => valPos < i
    BY <1>1, Turn
  <2>2. i \in Nat /\ base + i <= Len(text) /\ scanner # "words"
    BY <1>1, Turn
  <2> QED
    BY <1>1, <2>1, <2>2, PairInside
<1>5. CASE EndsMessage(i) /\ tokens' = Append(tokens, Pair(i)) /\ EndMessage(i + 2)
  <2>1. scanner = "sleepy" /\ At(i + 1) = "end"
    BY <1>5 DEF EndsMessage
  <2>2. base + i + 2 <= Len(text) /\ base + i + 2 \in MessageEnds
    BY <1>1, <2>1, Turn, EndIsThere
  <2>3. base + (i + 2) = base + i + 2 /\ i + 2 \in Nat /\ i + 2 > 0
    BY <1>1, Turn, SMTT(30)
  <2>4. TokensWhole'
    BY <1>1, <1>4, <1>5, <2>1, Turn, OneMore
  <2> QED
    BY <1>1, <1>3, <1>5, <2>1, <2>2, <2>3, <2>4, WithEnd
<1>6. CASE Give(Pair(i)) /\ tagPos' = i + 1 /\ i' = After(i) /\ UNCHANGED <<valPos, base, messages>>
  <2>1. i' \in Nat /\ i' <= i + 1 /\ (scanner \in {"pairs", "sleepy"} => i' = i + 1)
    BY <1>1, <1>6, Turn, AfterBound
  <2>2. TokensWhole' /\ (state' = state \/ state' = "died")
    BY <1>1, <1>4, <1>6, Turn, Given
  <2>3. length' = length
    BY <1>2, <1>6 DEF length
  <2>4. InField'
    BY <1>1, <1>2, <1>6, <2>1, <2>3, Turn DEF InField, Running
  <2>5. /\ i' <= length + 1 /\ tagPos' \in Nat /\ tagPos' <= Len(text) + 1
        /\ valPos' \in Nat /\ valPos' <= Len(text) + 1
    BY <1>1, <1>6, <2>1, Turn, SMTT(30)
  <2>6. state' \in {"running", "died"} /\ inner' \in BOOLEAN
    BY <1>1, <2>2, Turn
  <2> QED
    BY <1>1, <1>3, <1>6, <2>1, <2>2, <2>4, <2>5, <2>6, Within
<1> QED
  BY <1>1, <1>5, <1>6

LEMMA LeaveOutIInv ==
  ASSUME IInv, LeaveOut
  PROVE  IInv'
<1> DEFINE token == <<Piece(tagPos, i), Piece(i + 1, i + 1)>>
<1>1. /\ Running /\ ~inner /\ i < length /\ At(i) = "open" /\ NoValue
      /\ tokens' = Append(tokens, token) /\ Peek(i + 2)
      /\ UNCHANGED <<scan, inner>>
      /\ \/ EndsMessage(i + 1) /\ EndMessage(i + 3)
         \/ /\ valPos' = i + 1 /\ tagPos' = i + 2 /\ i' = i + 2
            /\ UNCHANGED <<base, messages, state>>
  BY DEF LeaveOut
<1>2. UNCHANGED <<scanner, text>> /\ scanner = "sleepy" /\ At(i + 1) = "close"
  BY <1>1 DEF scan, NoValue
<1>3. base + length = Len(text) /\ i + 1 < length
  <2>1. base + length = Len(text)
    BY <1>1, <1>2, Turn, Lengths
  <2>2. base + (i + 1) < Len(text)
    BY <1>1, <1>2, Turn, AtInside, SMTT(30)
  <2> QED
    BY <1>1, <2>1, <2>2, Turn
<1>4. peeked' \in Nat /\ peeked' <= Len(text)
  BY <1>1, <1>3, Turn, PeekInside, SMTT(30)
<1>5. Whole(token)
  <2> DEFINE tag == Piece(tagPos, i)  value == Piece(i + 1, i + 1)
  <2>4. /\ TypeOK /\ tagPos \in Nat /\ i \in Int /\ i + 1 \in Nat /\ i + 1 \in Int
        /\ tagPos <= i /\ i + 1 <= i + 1 /\ base + i <= Len(text) /\ base + (i + 1) <= Len(text)
    <3>1. i \in Nat /\ base \in Nat /\ length \in Nat /\ tagPos \in Nat /\ TypeOK /\ tagPos <= i
      BY <1>1, <1>2, Turn
    <3>2. Len(text) = base + length /\ i + 1 < length
      BY <1>3
    <3> QED
      BY <3>1, <3>2
  <2>1. tag \in Nat \X Int /\ tag[1] + tag[2] <= Len(text)
    BY <1>2, <2>4, PieceInside
  <2>2. value \in Nat \X Int /\ value[1] + value[2] <= Len(text)
    BY <1>2, <2>4, PieceInside
  <2>3. token = <<tag, value>>
    OBVIOUS
  <2> HIDE DEF token, tag, value
  <2> QED
    BY <1>2, <2>1, <2>2, <2>3, Parts DEF Whole
<1>6. TokensWhole'
  BY <1>1, <1>5, Turn, OneMore
<1> HIDE DEF token
<1>7. CASE EndsMessage(i + 1) /\ EndMessage(i + 3)
  <2>1. At((i + 1) + 1) = "end"
    BY <1>7 DEF EndsMessage
  <2>2. base + (i + 1) + 2 <= Len(text) /\ base + (i + 1) + 2 \in MessageEnds
    BY <1>1, <1>2, <2>1, Turn, EndIsThere
  <2>5. base \in Nat /\ i \in Nat
    BY <1>1, Turn
  <2>3. base + (i + 3) = base + (i + 1) + 2 /\ i + 3 \in Nat /\ i + 3 > 0
    BY <2>5
  <2>4. inner' = FALSE
    BY <1>1, Turn
  <2> QED
    BY <1>1, <1>2, <1>4, <1>6, <1>7, <2>2, <2>3, <2>4, WithEnd
<1>8. CASE /\ valPos' = i + 1 /\ tagPos' = i + 2 /\ i' = i + 2
           /\ UNCHANGED <<base, messages, state>>
  <2>1. length' = length
    BY <1>2, <1>8 DEF length
  <2>2. InField'
    BY <1>1, <1>2, <1>3, <1>8, <2>1, Turn, SMTT(30) DEF InField, Running
  <2> QED
    BY <1>1, <1>2, <1>3, <1>4, <1>6, <1>8, <2>2, Turn, Within, SMTT(30)
<1> QED
  BY <1>1, <1>7, <1>8

LEMMA UnterminatedIInv ==
  ASSUME IInv, Unterminated
  PROVE  IInv'
<1>1. /\ Running /\ inner /\ i >= length /\ inner' = FALSE /\ i' = After(i)
      /\ UNCHANGED <<scan, tagPos, valPos, base, tokens, messages, peeked, state>>
  BY DEF Unterminated
<1>2. UNCHANGED <<scanner, text>> /\ length' = length
  BY <1>1 DEF scan, length
<1>3. /\ i' \in Nat /\ i' <= length + 1
      /\ scanner \in {"pairs", "sleepy"} => i' = i + 1
  BY <1>1, Turn, AfterBound, SMTT(30)
<1>4. TokensWhole'
  BY <1>1, <1>2, Turn DEF TokensWhole, Whole
<1>5. InField'
  BY <1>1, <1>2, <1>3, Turn DEF InField, Running
<1>6. inner' \in BOOLEAN /\ state' \in {"running", "done", "died"} /\ state' # "done"
  BY <1>1, Turn
<1>7. /\ tagPos' \in Nat /\ tagPos' <= Len(text) + 1 /\ peeked' \in Nat /\ peeked' <= Len(text)
      /\ valPos' \in Nat /\ valPos' <= Len(text) + 1
  BY <1>1, Turn
<1> QED
  BY <1>1, <1>3, <1>4, <1>5, <1>6, <1>7, Within

LEMMA FinishIInv ==
  ASSUME IInv, Finish
  PROVE  IInv'
<1> DEFINE last == IF scanner = "words" THEN <<Piece(tagPos, length)>> ELSE Pair(length)
           none == scanner = "pairs" \/ (scanner = "words" /\ tagPos = length)
           dies == ~none /\ Throws(last)
<1>1. /\ Running /\ ~inner /\ i >= length /\ scanner \in {"words", "queries", "pairs"}
      /\ tokens' = (IF none THEN tokens ELSE Append(tokens, last))
      /\ state' = (IF dies THEN "died" ELSE "done")
      /\ UNCHANGED <<scan, i, tagPos, valPos, inner, base, messages, peeked>>
  BY DEF Finish, AtEnd
<1>2. UNCHANGED <<scanner, text>>
  BY <1>1 DEF scan
<1>3. ASSUME scanner # "pairs"
      PROVE  /\ last \in Seq(Nat \X Int) /\ Len(last) = IF scanner = "words" THEN 1 ELSE 2
             /\ \A p \in DOMAIN last : last[p][1] + last[p][2] <= Len(text)
  <2>1. CASE scanner = "words"
    <3> DEFINE word == Piece(tagPos, length)
    <3>1. /\ TypeOK /\ tagPos \in Nat /\ length \in Int /\ base + length <= Len(text)
          /\ scanner # "sleepy"
      BY <1>1, <2>1, Turn
    <3>2. word \in Nat \X Int /\ word[1] + word[2] <= Len(text)
      BY <3>1, PieceInside
    <3>3. last = <<word>>
      BY <2>1
    <3> HIDE DEF word, last
    <3> QED
      BY <2>1, <3>2, <3>3, Parts
  <2>2. CASE scanner = "queries"
    <3>1. length \in Nat /\ base + length <= Len(text)
      BY <1>1, Turn
    <3>2. last = Pair(length)
      BY <2>2
    <3> HIDE DEF last
    <3> QED
      BY <1>1, <2>2, <3>1, <3>2, PairInside
  <2> QED
    BY <1>1, <1>3, <2>1, <2>2
<1>4. TokensWhole'
  <2>1. CASE tokens' = tokens
    BY <1>2, <2>1, <1>1, Turn DEF TokensWhole, Whole
  <2>2. CASE tokens' = Append(tokens, last) /\ ~none
    <3>1. scanner # "pairs"
      BY <2>2
    <3> HIDE DEF last
    <3>2. Whole(last)
      BY <1>3, <3>1 DEF Whole
    <3> QED
      BY <1>1, <2>2, <3>2, Turn, OneMore
  <2> QED
    BY <1>1, <2>1, <2>2
<1> HIDE DEF last, none, dies
<1>5. InField'
  BY <1>1 DEF InField, Running
<1>6. /\ state' \in {"running", "done", "died"} /\ scanner # "sleepy"
      /\ UNCHANGED <<scan, base, messages>>
  BY <1>1
<1>7. /\ i' \in Nat /\ i' <= length + 1 /\ tagPos' \in Nat /\ tagPos' <= Len(text) + 1
      /\ valPos' \in Nat /\ valPos' <= Len(text) + 1 /\ peeked' \in Nat /\ peeked' <= Len(text)
  BY <1>1, Turn
<1>8. inner' \in BOOLEAN
  BY <1>1, Turn
<1> QED
  BY <1>1, <1>4, <1>5, <1>6, <1>7, <1>8, Within

LEMMA FinishMessageIInv ==
  ASSUME IInv, FinishMessage
  PROVE  IInv'
<1>1. /\ Running /\ ~inner /\ scanner = "sleepy" /\ EndMessage(length)
      /\ UNCHANGED <<scan, inner, tokens, peeked>>
  BY DEF FinishMessage, AtEnd
<1>2. UNCHANGED <<scanner, text>>
  BY <1>1 DEF scan
<1>3. /\ length \in Nat /\ length > 0 /\ base + length <= Len(text)
      /\ ~(base + length < Len(text))
  BY <1>1, Turn, Lengths
<1>4. TokensWhole'
  BY <1>1, <1>2, Turn DEF TokensWhole, Whole
<1>5. inner' = FALSE
  BY <1>1, Turn
<1>6. peeked' \in Nat /\ peeked' <= Len(text)
  BY <1>1, Turn
<1> QED
  BY <1>1, <1>3, <1>4, <1>5, <1>6, WithEnd

-----------------------------------------------------------------------------
LEMMA StepIInv == IInv /\ [Next]_vars => IInv'
<1> SUFFICES ASSUME IInv, [Next]_vars PROVE IInv'
  OBVIOUS
<1>1. CASE Scan
  BY <1>1, SkipIInv, WordIInv, OpenValueIInv, CloseValueIInv, LeaveOutIInv, UnterminatedIInv,
     FinishIInv, FinishMessageIInv DEF Scan
<1>2. CASE state = "idle" /\ \E s \in Scanners : \E t \in Texts[s] : Start(s, t)
  BY <1>2, StartIInv
<1>3. CASE UNCHANGED vars
  <2>1. /\ UNCHANGED <<scanner, text, i, tagPos, valPos, inner, base, tokens, messages, peeked, state>>
        /\ length' = length /\ At(i)' = At(i) /\ Closers' = Closers /\ MessageEnds' = MessageEnds
    BY <1>3 DEF vars, scan, length, At, Closers, MessageEnds, Char
  <2>2. TypeOK' /\ peeked' <= Len(text')
    BY <2>1 DEF IInv, TypeOK
  <2>3. TokensWhole' /\ Fresh'
    BY <2>1 DEF IInv, TokensWhole, Whole, Fresh
  <2>4. InField' /\ MessagesSoFar'
    BY <2>1 DEF IInv, InField, MessagesSoFar, Running
  <2>5. MessagesTile'
    BY <2>1 DEF IInv, MessagesTile, Char
  <2> QED
    BY <2>2, <2>3, <2>4, <2>5 DEF IInv
<1> QED
  BY <1>1, <1>2, <1>3 DEF Next

(* The invariant of every scan.                                              *)
LEMMA IInvHolds == Spec => []IInv
BY InitIInv, StepIInv, PTL DEF Spec

(* Whatever the text and however narrow the counters, a scanner that has not *)
(* died is inside its text or one step behind it (the loops of tokenize,     *)
(* tokenize_tag_val, pair_tokenizer and tokenize_message).                   *)
THEOREM TypeCorrect == Spec => []TypeOK
<1>1. IInv => TypeOK
  BY DEF IInv
<1> QED
  BY <1>1, IInvHolds, PTL

(* No part that a callback is given reaches behind the text, whatever the    *)
(* text, and the scanners that look a character or two ahead                 *)
(* (ptcl_sleepy.h) look no further than the terminator.                      *)
THEOREM NothingOutside == Spec => []InsideText
<1>1. IInv => InsideText
  BY DEF IInv, TokensWhole, Whole, InsideText
<1> QED
  BY <1>1, IInvHolds, PTL

(* parse_messages cuts any text into messages that lie one behind the other, *)
(* none of them empty, and ends when they are the whole text.                *)
THEOREM TextIsItsMessages == Spec => []MessagesTile
<1>1. IInv => MessagesTile
  BY DEF IInv
<1> QED
  BY <1>1, IInvHolds, PTL
-----------------------------------------------------------------------------
(* Of a text in the format the scanners give every field, once and in order, *)
(* for texts of any length that the counters can count.                      *)

(* Where the field begins that is being read.                                *)
Here == base + tagPos

(* What has been given to the callback are the fields that begin before it.  *)
FieldsGiven ==
  /\ ToSet(tokens) = {FieldFrom(c) : c \in {f \in FieldBegins : f < Here}}
  /\ \A j, k \in DOMAIN tokens : j < k => tokens[j][1][1] < tokens[k][1][1]
  /\ \A k \in DOMAIN tokens : tokens[k][1][1] < Here

NoOpener(b, k) == \A c \in b..(k - 1) : Char(c) # "open"

(* The last pair of a query is given when its value is over already.         *)
TagFound == inner \/ (scanner = "queries" /\ i > length)

(* Inside a field: its end has not been passed, and the tag ends with the    *)
(* first "open" of it.                                                       *)
AtField ==
  /\ FieldsGiven /\ Here \in Begins /\ tagPos <= i
  /\ \A k \in Closers : k >= Here => k >= base + i
  /\ scanner # "words" /\ ~inner /\ i <= length => NoOpener(Here, base + i)
  /\ TagFound =>
       /\ Here <= base + TagEnd /\ base + TagEnd <= base + i
       /\ Char(base + TagEnd) = "open" /\ NoOpener(Here, base + TagEnd)

Progress == Running /\ Regular => AtField

FInv == IInv /\ Progress /\ FieldsComeOut

-----------------------------------------------------------------------------
LEMMA ModSmall ==
  ASSUME NEW a \in Nat, a < Wide
  PROVE  a % Wide = a
<1>1. Wide \in Nat /\ Wide > 1
  BY ScanAssumption
<1> QED
  BY <1>1, SMTT(30)

LEMMA MinIs ==
  ASSUME NEW S \in SUBSET Int, NEW m \in S, \A y \in S : m <= y
  PROVE  Min(S) = m
<1>1. \E x \in S : \A y \in S : x <= y
  OBVIOUS
<1>2. Min(S) \in S /\ \A y \in S : Min(S) <= y
  BY <1>1 DEF Min
<1>3. Min(S) \in Int /\ m \in Int /\ m <= Min(S) /\ Min(S) <= m
  BY <1>2
<1> QED
  BY <1>3

(* What a text says stays while it is scanned.                               *)
LEMMA TextStays ==
  ASSUME UNCHANGED scan
  PROVE  /\ UNCHANGED <<scanner, text>> /\ Begins' = Begins /\ Closers' = Closers
         /\ FieldBegins' = FieldBegins /\ Regular' = Regular
BY DEF scan, Begins, Closers, FieldBegins, Regular, Behind, Char, EndOf, OpenersOf

LEMMA FieldStays ==
  ASSUME UNCHANGED scan, NEW c
  PROVE  FieldFrom(c)' = FieldFrom(c) /\ Char(c)' = Char(c)
BY DEF scan, FieldFrom, Part, OpenersOf, EndOf, Closers, Char

(* A field ends with the first "close" behind its begin, or with the text.   *)
LEMMA EndIs ==
  ASSUME Len(text) \in Nat, NEW b \in Nat, NEW e \in Nat, b <= e,
         e \in Closers \/ e = Len(text), \A k \in Closers : k >= b => k >= e
  PROVE  EndOf(b) = e
<1> DEFINE S == {k \in Closers : k >= b} \cup {Len(text)}
<1>1. S \in SUBSET Int
  BY DEF Closers
<1>2. e \in S /\ \A y \in S : e <= y
  <2>1. \A k \in Closers : k \in Nat /\ k < Len(text)
    BY DEF Closers
  <2> QED
    BY <2>1
<1> HIDE DEF S
<1>3. Min(S) = e
  BY <1>1, <1>2, MinIs
<1> QED
  BY <1>3 DEF S, EndOf

LEMMA OpenerIs ==
  ASSUME Len(text) \in Nat, NEW b \in Nat, NEW k \in Nat, b <= k, NEW e \in Nat, EndOf(b) = e,
         k < e, e <= Len(text), Char(k) = "open", NoOpener(b, k)
  PROVE  Min(OpenersOf(b)) = k
<1>1. OpenersOf(b) = {c \in b..(e - 1) : text[c + 1] = "open"}
  BY DEF OpenersOf
<1>2. \A c \in b..(e - 1) : Char(c) = text[c + 1]
  BY DEF Char
<1>3. k \in OpenersOf(b)
  BY <1>1, <1>2
<1>4. \A c \in OpenersOf(b) : c \in Int /\ k <= c
  <2> SUFFICES ASSUME NEW c \in OpenersOf(b) PROVE c \in Int /\ k <= c
    OBVIOUS
  <2>1. c \in b..(e - 1) /\ Char(c) = "open"
    BY <1>1, <1>2
  <2>2. ~(c \in b..(k - 1))
    BY <2>1 DEF NoOpener
  <2> QED
    BY <2>1, <2>2
<1>5. OpenersOf(b) \in SUBSET Int
  BY <1>4
<1> QED
  BY <1>3, <1>4, <1>5, MinIs

LEMMA NoOpeners ==
  ASSUME Len(text) \in Nat, NEW b \in Nat, NEW e \in Nat, EndOf(b) = e, e <= Len(text),
         NoOpener(b, e)
  PROVE  OpenersOf(b) = {}
<1>1. OpenersOf(b) = {c \in b..(e - 1) : text[c + 1] = "open"}
  BY DEF OpenersOf
<1>2. \A c \in b..(e - 1) : Char(c) = text[c + 1]
  BY DEF Char
<1> QED
  BY <1>1, <1>2 DEF NoOpener

LEMMA BehindBounds ==
  ASSUME NEW k \in Nat
  PROVE  Behind(k) \in Nat /\ k < Behind(k) /\ Behind(k) <= k + 2
BY DEF Behind

LEMMA Places ==
  ASSUME Len(text) \in Nat
  PROVE
    /\ \A k \in Closers : k \in Nat /\ k < Len(text) /\ Char(k) = "close"
    /\ Begins \subseteq Nat /\ \A b \in Begins : b <= Len(text)
    /\ \A b \in Begins : b # 0 => \E k \in Closers : b = Behind(k)
<1>1. \A k \in Closers : k \in Nat /\ k < Len(text) /\ Char(k) = "close"
  BY DEF Closers, Char
<1>2. ASSUME NEW b \in Begins PROVE b \in Nat /\ b <= Len(text) /\ (b # 0 => \E k \in Closers : b = Behind(k))
  <2>1. CASE b = 0
    BY <2>1
  <2>2. CASE \E k \in Closers : b = Behind(k)
    <3>1. PICK k \in Closers : b = Behind(k)
      BY <2>2
    <3>2. k \in Nat /\ k < Len(text)
      BY <1>1
    <3>3. Char(k + 1) = "end" => k + 1 < Len(text)
      BY DEF Char
    <3>4. b \in Nat /\ b <= Len(text)
      BY <3>1, <3>2, <3>3 DEF Behind
    <3> QED
      BY <2>2, <3>4
  <2> QED
    BY <2>1, <2>2 DEF Begins
<1> QED
  BY <1>1, <1>2

(* The begins before the end of a field are its own and those before it.     *)
LEMMA NextBegin ==
  ASSUME Len(text) \in Nat, NEW b \in Begins, NEW e \in Closers, b <= e,
         \A k \in Closers : k >= b => k >= e
  PROVE  \A f \in Begins : f < Behind(e) <=> f <= b
<1>1. \A k \in Closers : k \in Nat /\ k < Len(text) /\ Char(k) = "close"
  BY Places
<1>2. Begins \subseteq Nat /\ b \in Nat /\ e \in Nat
  BY <1>1, Places
<1>3. e < Behind(e) /\ Behind(e) \in Nat /\ Behind(e) <= e + 2
  BY <1>2, BehindBounds
<1>4. ASSUME NEW k \in Closers, k < b PROVE Behind(k) <= b
  <2>1. k \in Nat
    BY <1>1
  <2>2. CASE k + 1 < b
    BY <1>2, <2>1, <2>2, BehindBounds, SMTT(30)
  <2>3. CASE k + 1 = b
    <3>1. b # 0
      BY <2>1, <2>3
    <3>2. PICK c \in Closers : b = Behind(c)
      BY <3>1 DEF Begins
    <3>3. c \in Nat /\ Char(c) = "close" /\ Char(k) = "close"
      BY <1>1
    <3>4. c + 1 = k => Char(c + 1) # "end"
      BY <3>3
    <3>5. c = k
      BY <2>1, <2>3, <3>2, <3>3, <3>4 DEF Behind
    <3> QED
      BY <1>2, <3>2, <3>5
  <2> QED
    BY <1>2, <1>4, <2>1, <2>2, <2>3
<1>5. ASSUME NEW f \in Begins PROVE f < Behind(e) <=> f <= b
  <2>1. CASE f = 0
    BY <1>2, <1>3, <2>1
  <2>2. CASE \E k \in Closers : f = Behind(k)
    <3>1. PICK k \in Closers : f = Behind(k)
      BY <2>2
    <3>2. k \in Nat /\ f \in Nat /\ k < f
      BY <1>1, <3>1, BehindBounds
    <3>3. CASE k < b
      BY <1>2, <1>3, <1>4, <3>1, <3>2, <3>3
    <3>4. CASE k >= b
      <4>1. k >= e
        BY <3>4
      <4>2. k = e \/ k >= e + 1
        BY <1>2, <3>2, <4>1
      <4> QED
        BY <1>2, <1>3, <3>1, <3>2, <3>4, <4>2
    <3> QED
      BY <1>2, <3>2, <3>3, <3>4
  <2> QED
    BY <2>1, <2>2 DEF Begins
<1> QED
  BY <1>5

(* Behind the last "close" no other field begins.                            *)
LEMMA LastBegin ==
  ASSUME Len(text) \in Nat, NEW b \in Begins, \A k \in Closers : k < b
  PROVE  \A f \in Begins : f <= b
<1>1. \A k \in Closers : k \in Nat /\ k < Len(text) /\ Char(k) = "close"
  BY Places
<1>2. Begins \subseteq Nat /\ b \in Nat
  BY Places
<1>3. ASSUME NEW f \in Begins, ~(f <= b) PROVE FALSE
  <2>1. f # 0 /\ f \in Nat
    BY <1>2, <1>3
  <2>2. PICK k \in Closers : f = Behind(k)
    BY <2>1 DEF Begins
  <2>3. k \in Nat /\ k < b /\ f <= k + 2 /\ f > b
    <3>1. k \in Nat /\ k < b
      BY <1>1
    <3>2. f <= k + 2
      BY <2>2, <3>1, BehindBounds
    <3> QED
      BY <1>2, <1>3, <2>1, <3>1, <3>2
  <2>4. b = k + 1 /\ Char(k + 1) = "end"
    BY <1>2, <2>2, <2>3 DEF Behind
  <2>5. b # 0
    BY <2>3, <2>4
  <2>6. PICK c \in Closers : b = Behind(c)
    BY <2>5 DEF Begins
  <2>7. c \in Nat /\ Char(c) = "close" /\ Char(k) = "close"
    BY <1>1
  <2>8. c = k
    BY <2>3, <2>4, <2>6, <2>7 DEF Behind
  <2> QED
    BY <1>2, <2>2, <2>3, <2>6, <2>8
<1> QED
  BY <1>3

-----------------------------------------------------------------------------
(* What a field is given as.                                                 *)
LEMMA WordIs ==
  ASSUME scanner = "words", NEW b \in Nat, NEW e \in Nat, b <= e, EndOf(b) = e
  PROVE  /\ FieldFrom(b) = << <<b, e - b>> >>
         /\ FieldFrom(b) \in Seq(Nat \X Nat) /\ FieldFrom(b)[1][1] = b
<1>1. FieldFrom(b) = << <<b, e - b>> >>
  BY DEF FieldFrom, Part
<1>2. <<b, e - b>> \in Nat \X Nat
  OBVIOUS
<1> QED
  BY <1>1, <1>2

LEMMA PairIs ==
  ASSUME scanner # "words", NEW b \in Nat, NEW k \in Nat, NEW e \in Nat, b <= k, k < e,
         EndOf(b) = e, Min(OpenersOf(b)) = k, NEW v,
         v = IF scanner = "sleepy" /\ e - 1 > k /\ Char(e - 1) = "open" THEN e - 1 ELSE e
  PROVE  /\ FieldFrom(b) = << <<b, k - b>>, <<k + 1, v - (k + 1)>> >>
         /\ FieldFrom(b) \in Seq(Nat \X Nat) /\ FieldFrom(b)[1][1] = b
<1>1. FieldFrom(b) = << <<b, k - b>>, <<k + 1, v - (k + 1)>> >>
  BY DEF FieldFrom, Part
<1>2. <<b, k - b>> \in Nat \X Nat
  OBVIOUS
<1>3. v \in Nat /\ v >= k + 1
  OBVIOUS
<1>4. <<k + 1, v - (k + 1)>> \in Nat \X Nat
  BY <1>3
<1> QED
  BY <1>1, <1>2, <1>4

(* The field that begins here is given.                                      *)
LEMMA OneMoreField ==
  ASSUME Len(text) \in Nat, TokensWhole, FieldsGiven, NEW b \in Nat, b = Here, b \in FieldBegins,
         NEW token \in Seq(Nat \X Nat), token = FieldFrom(b), token[1][1] = b,
         tokens' = Append(tokens, token)
  PROVE  /\ ToSet(tokens') = {FieldFrom(c) : c \in {f \in FieldBegins : f <= b}}
         /\ \A j, k \in DOMAIN tokens' : j < k => tokens'[j][1][1] < tokens'[k][1][1]
         /\ \A k \in DOMAIN tokens' : tokens'[k][1][1] \in Nat /\ tokens'[k][1][1] <= b
<1> DEFINE n == Len(tokens)
<1>1. /\ n \in Nat /\ DOMAIN tokens = 1..n /\ DOMAIN tokens' = 1..(n + 1)
      /\ \A k \in 1..n : tokens'[k] = tokens[k]
      /\ tokens'[n + 1] = token
  <2>1. tokens \in Seq(Seq(Nat \X Int))
    BY DEF TokensWhole
  <2>2. token \in Seq(Nat \X Int)
    BY NatParts
  <2>3. /\ tokens' \in Seq(Seq(Nat \X Int)) /\ Len(tokens') = Len(tokens) + 1
        /\ \A k \in 1..Len(tokens) : tokens'[k] = tokens[k]
        /\ tokens'[Len(tokens) + 1] = token
    BY <2>1, <2>2, AppendProperties
  <2> QED
    BY <2>1, <2>3, LenProperties
<1> HIDE DEF n
<1>2. FieldBegins \subseteq Nat
  <2>1. Begins \subseteq Nat
    BY Places
  <2> QED
    BY <2>1 DEF FieldBegins
<1>3. /\ ToSet(tokens) = {FieldFrom(c) : c \in {f \in FieldBegins : f < b}}
      /\ \A j, k \in 1..n : j < k => tokens[j][1][1] < tokens[k][1][1]
      /\ \A k \in 1..n : tokens[k][1][1] < b
  BY <1>1 DEF FieldsGiven
<1>4. ToSet(tokens') = ToSet(tokens) \cup {token}
  <2>1. ToSet(tokens) = {tokens[k] : k \in 1..n} /\ ToSet(tokens') = {tokens'[k] : k \in 1..(n + 1)}
    BY <1>1 DEF ToSet
  <2>2. 1..(n + 1) = (1..n) \cup {n + 1}
    BY <1>1
  <2>3. {tokens'[k] : k \in 1..n} = {tokens[k] : k \in 1..n}
    BY <1>1
  <2> QED
    BY <1>1, <2>1, <2>2, <2>3
<1>5. {f \in FieldBegins : f <= b} = {f \in FieldBegins : f < b} \cup {b}
  <2>1. ASSUME NEW f \in FieldBegins PROVE f <= b <=> (f < b \/ f = b)
    <3>1. f \in Nat
      BY <1>2
    <3> QED
      BY <3>1
  <2> QED
    BY <2>1
<1>6. ToSet(tokens') = {FieldFrom(c) : c \in {f \in FieldBegins : f <= b}}
  BY <1>3, <1>4, <1>5
<1>7. \A k \in 1..n : tokens'[k][1][1] < b
  BY <1>1, <1>3
<1>8. \A k \in 1..(n + 1) : k \in 1..n \/ k = n + 1
  BY <1>1
<1>9. \A k \in 1..n : tokens'[k][1][1] \in Nat /\ tokens'[k][1][1] <= b
  <2> SUFFICES ASSUME NEW k \in 1..n PROVE tokens'[k][1][1] \in Nat /\ tokens'[k][1][1] <= b
    OBVIOUS
  <2>1. Whole(tokens[k])
    BY <1>1 DEF TokensWhole
  <2>2. tokens[k] \in Seq(Nat \X Int) /\ Len(tokens[k]) \in {1, 2}
    BY <2>1 DEF Whole
  <2>3. tokens[k][1] \in Nat \X Int
    BY <2>2, SMTT(30)
  <2> QED
    BY <1>1, <1>7, <2>3
<1>10. \A k \in 1..(n + 1) : tokens'[k][1][1] \in Nat /\ tokens'[k][1][1] <= b
  BY <1>1, <1>8, <1>9
<1>11. ASSUME NEW j \in 1..(n + 1), NEW k \in 1..(n + 1), j < k
       PROVE  tokens'[j][1][1] < tokens'[k][1][1]
  <2>1. j \in 1..n
    BY <1>1, <1>11
  <2>2. CASE k \in 1..n
    BY <1>1, <1>3, <1>11, <2>1, <2>2
  <2>3. CASE k = n + 1
    BY <1>1, <1>7, <2>1, <2>3
  <2> QED
    BY <1>8, <2>2, <2>3
<1> QED
  BY <1>1, <1>6, <1>10, <1>11, SMTT(30)

(* What a turn starts from in a text in the format.                          *)
LEMMA RegularTurn ==
  ASSUME IInv, Running, Regular
  PROVE  /\ base + length = Len(text) /\ (i < length => After(i) = i + 1)
         /\ inner => After(i) = i + 1
         /\ scanner = "sleepy" => Len(text) < Wide
<1>1. /\ scanner \in {"queries", "sleepy"} => Len(text) < Wide - 1
      /\ scanner = "words" => Len(text) < Wide
      /\ Wide \in Nat /\ Wide > 1
  BY ScanAssumption DEF Regular
<1>2. base + length = Len(text)
  <2>1. CASE scanner = "queries"
    <3>1. base = 0 /\ length = Len(text) % Wide /\ Len(text) \in Nat /\ Len(text) < Wide
      BY <1>1, <2>1, Turn DEF length
    <3> QED
      BY <3>1, ModSmall
  <2>2. CASE scanner # "queries"
    BY <2>2, Turn, Lengths
  <2> QED
    BY <2>1, <2>2
<1>3. ASSUME i < length \/ inner PROVE After(i) = i + 1
  <2>1. CASE scanner \in {"words", "queries"}
    <3>1. i + 1 \in Nat /\ i + 1 < Wide
      BY <1>1, <1>2, <1>3, <2>1, Turn, SMTT(30)
    <3> QED
      BY <2>1, <3>1, ModSmall DEF After
  <2>2. CASE scanner \in {"pairs", "sleepy"}
    BY <2>2 DEF After
  <2> QED
    BY <2>1, <2>2, Turn
<1> QED
  BY <1>1, <1>2, <1>3, Turn

LEMMA PairIsField ==
  ASSUME IInv, Running, Regular, AtField, TagFound, scanner # "words",
         NEW b \in Nat, b = Here, NEW to \in Nat, EndOf(b) = base + to, TagEnd < to,
         base + to <= Len(text), scanner = "sleepy" => valPos < to
  PROVE  /\ Pair(to) = FieldFrom(b) /\ Pair(to) \in Seq(Nat \X Nat) /\ Pair(to)[1][1] = b
<1> DEFINE k == base + TagEnd  e == base + to
           v == IF scanner = "sleepy" /\ e - 1 > k /\ Char(e - 1) = "open" THEN e - 1 ELSE e
<1>1. /\ base \in Nat /\ tagPos \in Nat /\ valPos \in Nat /\ Len(text) \in Nat
      /\ scanner = "sleepy" => Len(text) < Wide
  BY Turn, RegularTurn
<1>2. TagEnd \in Int /\ (scanner = "sleepy" => TagEnd = valPos - 1)
  BY <1>1 DEF TagEnd
<1>3. /\ b = base + tagPos /\ b <= k /\ Char(k) = "open" /\ NoOpener(b, k)
  BY DEF AtField, Here
<1>4. k \in Nat /\ e \in Nat /\ k < e /\ TagEnd \in Nat /\ tagPos <= TagEnd
  BY <1>1, <1>2, <1>3
<1>5. Min(OpenersOf(b)) = k
  <2>1. EndOf(b) = e /\ e <= Len(text)
    OBVIOUS
  <2> HIDE DEF k, e
  <2> QED
    BY <1>1, <1>3, <1>4, <2>1, OpenerIs
<1>6. /\ FieldFrom(b) = << <<b, k - b>>, <<k + 1, v - (k + 1)>> >>
      /\ FieldFrom(b) \in Seq(Nat \X Nat) /\ FieldFrom(b)[1][1] = b
  <2>1. EndOf(b) = e
    OBVIOUS
  <2>2. v = IF scanner = "sleepy" /\ e - 1 > k /\ Char(e - 1) = "open" THEN e - 1 ELSE e
    OBVIOUS
  <2> HIDE DEF k, e, v
  <2> QED
    BY <1>3, <1>4, <1>5, <2>1, <2>2, PairIs, SMTT(30)
<1>7. v = base + ValueEnd(to) /\ ValueEnd(to) \in Int /\ ValueEnd(to) >= TagEnd + 1
      /\ ValueEnd(to) <= to
  <2>1. e - 1 = base + (to - 1)
    BY <1>1
  <2>2. At(to - 1) = Char(e - 1)
    BY <2>1 DEF At, Char
  <2>3. scanner = "sleepy" => e - 1 > k
    BY <1>1, <1>2
  <2>4. CASE scanner = "sleepy" /\ Char(e - 1) = "open"
    <3>1. v = e - 1 /\ ValueEnd(to) = to - 1
      BY <2>2, <2>3, <2>4 DEF ValueEnd
    <3> QED
      BY <1>1, <1>2, <1>4, <2>1, <2>3, <3>1
  <2>5. CASE ~(scanner = "sleepy" /\ Char(e - 1) = "open")
    <3>1. v = e /\ ValueEnd(to) = to
      BY <2>2, <2>5 DEF ValueEnd
    <3> QED
      BY <1>1, <1>2, <1>4, <3>1
  <2> QED
    BY <2>4, <2>5
<1>8. Piece(tagPos, TagEnd) = <<b, k - b>>
  <2>1. base + tagPos = b /\ TagEnd - tagPos = k - b /\ TagEnd - tagPos \in Nat
    BY <1>1, <1>3, <1>4
  <2>2. scanner = "sleepy" => TagEnd - tagPos < Wide
    BY <1>1, <1>4, ScanAssumption
  <2>3. scanner = "sleepy" => (TagEnd - tagPos) % Wide = TagEnd - tagPos
    BY <2>1, <2>2, ModSmall
  <2> QED
    BY <2>1, <2>3 DEF Piece
<1>9. Piece(ValueBegin, ValueEnd(to)) = <<k + 1, v - (k + 1)>>
  <2> DEFINE x == ValueEnd(to)
  <2>1. ValueBegin = TagEnd + 1
    BY DEF ValueBegin
  <2>2. /\ base + ValueBegin = k + 1 /\ x - ValueBegin = v - (k + 1)
        /\ x - ValueBegin \in Nat /\ x - ValueBegin <= to
    <3> HIDE DEF x, v
    <3> QED
      BY <1>1, <1>4, <1>7, <2>1 DEF x
  <2>3. scanner = "sleepy" => x - ValueBegin < Wide
    <3> HIDE DEF x, v
    <3> QED
      BY <1>1, <2>2, ScanAssumption
  <2> HIDE DEF x, v
  <2>4. scanner = "sleepy" => (x - ValueBegin) % Wide = x - ValueBegin
    BY <2>2, <2>3, ModSmall
  <2> QED
    BY <2>2, <2>4 DEF Piece, x
<1>10. Pair(to) = << <<b, k - b>>, <<k + 1, v - (k + 1)>> >>
  BY <1>8, <1>9 DEF Pair
<1> QED
  BY <1>6, <1>10

LEMMA Between ==
  ASSUME NEW x \in Nat, NEW y \in Nat, NEW z \in Nat, x <= y, y < z
  PROVE  x < z
OBVIOUS

LEMMA NoneYet == Here \in Nat /\ base + i = Here => NoOpener(Here, base + i)
BY DEF NoOpener

LEMMA NoneYetNext == (Here \in Nat /\ base + i = Here)' => NoOpener(Here, base + i)'
BY NoneYet, PTL

(* A field is over: the next one begins behind its end.                      *)
LEMMA FieldOver ==
  ASSUME Len(text) \in Nat, TokensWhole, AtField, NEW b \in Nat, b = Here, b \in FieldBegins,
         NEW e \in Closers, b <= e, \A k \in Closers : k >= b => k >= e,
         NEW token \in Seq(Nat \X Nat), token = FieldFrom(b), token[1][1] = b,
         tokens' = Append(tokens, token), UNCHANGED scan,
         base' \in Nat, tagPos' \in Nat, base' + tagPos' = Behind(e), i' = tagPos',
         inner' = FALSE, length' \in Nat, scanner' = "queries" => i' <= length'
  PROVE  AtField' /\ Here' = Behind(e)
<1>1. Here' = Behind(e) /\ base' + i' = Behind(e)
  BY DEF Here
<1>2. e \in Nat /\ Behind(e) \in Nat /\ b < Behind(e) /\ Behind(e) \in Begins
  <2>1. e \in Nat
    BY Places
  <2>2. Behind(e) \in Nat /\ e < Behind(e)
    BY <2>1, BehindBounds
  <2>3. Behind(e) \in Begins
    BY DEF Begins
  <2> QED
    BY <2>1, <2>2, <2>3
<1>3. /\ ToSet(tokens') = {FieldFrom(c) : c \in {f \in FieldBegins : f <= b}}
      /\ \A j, k \in DOMAIN tokens' : j < k => tokens'[j][1][1] < tokens'[k][1][1]
      /\ \A k \in DOMAIN tokens' : tokens'[k][1][1] \in Nat /\ tokens'[k][1][1] <= b
  BY OneMoreField DEF AtField
<1>4. \A f \in FieldBegins : f < Behind(e) <=> f <= b
  <2>1. b \in Begins /\ FieldBegins \subseteq Begins
    BY DEF AtField, FieldBegins
  <2> QED
    BY <2>1, NextBegin
<1>5. FieldsGiven'
  <2>1. {f \in FieldBegins : f < Behind(e)} = {f \in FieldBegins : f <= b}
    BY <1>4
  <2>2. FieldBegins' = FieldBegins /\ \A c : FieldFrom(c)' = FieldFrom(c)
    BY TextStays, FieldStays
  <2>3. ToSet(tokens)' = {FieldFrom(c) : c \in {f \in FieldBegins : f < Behind(e)}}
    BY <1>3, <2>1 DEF ToSet
  <2>4. \A k \in DOMAIN tokens' : tokens'[k][1][1] < Here'
    <3> SUFFICES ASSUME NEW k \in DOMAIN tokens' PROVE tokens'[k][1][1] < Behind(e)
      BY <1>1
    <3>1. tokens'[k][1][1] \in Nat /\ tokens'[k][1][1] <= b
      BY <1>3
    <3> QED
      BY <1>2, <3>1, Between
  <2> QED
    BY <1>1, <1>3, <2>2, <2>3, <2>4 DEF FieldsGiven
<1>6. NoOpener(Here, base + i)'
  BY <1>1, <1>2, NoneYetNext
<1>7. ~TagFound'
  BY DEF TagFound
<1>8. Begins' = Begins /\ Closers' = Closers
  BY TextStays
<1>9. \A k \in Closers' : k >= Here' => k >= base' + i'
  BY <1>1
<1>10. tagPos' <= i' /\ Here' \in Begins'
  BY <1>1, <1>2, <1>8
<1> QED
  BY <1>1, <1>5, <1>6, <1>7, <1>9, <1>10 DEF AtField

(* Behind the last "close" of a text of fields that each need one.           *)
NothingLeft ==
  /\ Len(text) \in Nat /\ scanner \in {"pairs", "sleepy"} /\ FieldsGiven
  /\ Here \in Begins /\ \A k \in Closers : k < Here

AllGiven ==
  /\ ToSet(tokens) = {FieldFrom(b) : b \in FieldBegins}
  /\ \A j, k \in DOMAIN tokens : j < k => tokens[j][1][1] < tokens[k][1][1]

LEMMA NothingLeftGiven == NothingLeft => AllGiven
<1> SUFFICES ASSUME NothingLeft PROVE AllGiven
  OBVIOUS
<1>1. /\ Len(text) \in Nat /\ scanner \in {"pairs", "sleepy"} /\ FieldsGiven
      /\ Here \in Begins /\ \A k \in Closers : k < Here
  BY DEF NothingLeft
<1>2. /\ \A k \in Closers : k \in Nat /\ k < Len(text)
      /\ Begins \subseteq Nat /\ \A b \in Begins : b <= Len(text)
  BY <1>1, Places
<1>3. Here \in Nat /\ Here <= Len(text)
  BY <1>1, <1>2
<1>4. EndOf(Here) = Len(text)
  <2>1. \A k \in Closers : k >= Here => k >= Len(text)
    BY <1>1, <1>2, <1>3
  <2> QED
    BY <1>1, <1>3, <2>1, EndIs
<1>5. FieldBegins = {b \in Begins : EndOf(b) < Len(text)}
  BY <1>1 DEF FieldBegins
<1>6. ASSUME NEW f \in FieldBegins PROVE f < Here
  <2>1. f \in Begins /\ f \in Nat /\ EndOf(f) < Len(text)
    BY <1>2, <1>5
  <2>2. f <= Here
    BY <1>1, <2>1, LastBegin
  <2>3. f # Here
    BY <1>1, <1>4, <2>1
  <2> QED
    BY <1>3, <2>1, <2>2, <2>3
<1>7. {f \in FieldBegins : f < Here} = FieldBegins
  BY <1>6
<1> QED
  BY <1>1, <1>7 DEF FieldsGiven, AllGiven

LEMMA NothingLeftGivenNext == NothingLeft' => AllGiven'
BY NothingLeftGiven, PTL

(* The scan goes on, or it is over.                                          *)
LEMMA GoesOn ==
  ASSUME AtField', state' = "running"
  PROVE  Progress' /\ FieldsComeOut'
BY DEF Progress, FieldsComeOut

LEMMA IsOver ==
  ASSUME AllGiven', state' = "done"
  PROVE  Progress' /\ FieldsComeOut'
BY DEF Progress, FieldsComeOut, AllGiven, Running

LEMMA NotInFormat ==
  ASSUME UNCHANGED scan, ~Regular
  PROVE  Progress' /\ FieldsComeOut'
<1>1. ~Regular'
  BY TextStays
<1> QED
  BY <1>1 DEF Progress, FieldsComeOut

(* Nothing is given, and the field is the same.                              *)
LEMMA GivenStays ==
  ASSUME FieldsGiven, UNCHANGED <<scan, base, tagPos, tokens>>
  PROVE  FieldsGiven' /\ Here' = Here
<1>1. FieldBegins' = FieldBegins /\ \A c : FieldFrom(c)' = FieldFrom(c)
  BY TextStays, FieldStays
<1>2. Here' = Here
  BY DEF Here
<1>3. ToSet(tokens)' = {FieldFrom(c) : c \in {f \in FieldBegins : f < Here}}
  BY DEF FieldsGiven, ToSet
<1> QED
  BY <1>1, <1>2, <1>3 DEF FieldsGiven

(* In a text in the format the end of a field lies behind an "open".         *)
LEMMA OpenFirst ==
  ASSUME IInv, Running, Regular, AtField, scanner # "words", ~inner, i <= length,
         base + i \in Closers \/ (scanner = "queries" /\ base + i = Len(text))
  PROVE  FALSE
<1>1. /\ Len(text) \in Nat /\ base \in Nat /\ i \in Nat /\ tagPos \in Nat
      /\ scanner \in {"words", "queries", "pairs", "sleepy"}
  BY Turn
<1> DEFINE b == Here  e == base + i
<1>2. /\ b \in Nat /\ e \in Nat /\ b <= e /\ b \in Begins
      /\ NoOpener(b, e) /\ \A k \in Closers : k >= b => k >= e
  <2>1. b = base + tagPos /\ tagPos <= i
    BY DEF AtField, Here
  <2> QED
    BY <1>1, <2>1 DEF AtField
<1>3. e <= Len(text) /\ (e < Len(text) \/ scanner = "queries")
  BY <1>1, <1>2, Places
<1>4. e \in Closers \/ e = Len(text)
  OBVIOUS
<1> HIDE DEF b, e
<1>5. EndOf(b) = e
  BY <1>1, <1>2, <1>4, EndIs
<1>6. OpenersOf(b) = {}
  BY <1>1, <1>2, <1>3, <1>5, NoOpeners
<1>7. b \in FieldBegins
  BY <1>1, <1>2, <1>3, <1>5 DEF FieldBegins
<1> QED
  BY <1>6, <1>7 DEF Regular

LEMMA AtIsChar ==
  ASSUME NEW k
  PROVE  At(k) = Char(base + k)
BY DEF At, Char

LEMMA CloserHere ==
  ASSUME IInv, Running, i < length, At(i) = "close"
  PROVE  base + i \in Closers /\ base + i < Len(text)
<1>1. base \in Nat /\ i \in Nat /\ base + i < Len(text) /\ Len(text) \in Nat
  BY Turn
<1>2. text[base + i + 1] = "close"
  BY <1>1 DEF At
<1> QED
  BY <1>1, <1>2 DEF Closers

LEMMA NotBelow ==
  ASSUME NEW token \in Seq(Nat \X Nat)
  PROVE  ~Throws(token)
<1> SUFFICES ASSUME NEW k \in DOMAIN token PROVE ~(token[k][2] < 0)
  BY DEF Throws
<1>1. token[k] \in Nat \X Nat
  OBVIOUS
<1> QED
  BY <1>1

(* The field that is read ends with the next "close".                        *)
LEMMA FieldEnds ==
  ASSUME Len(text) \in Nat, AtField, NEW e \in Closers, Here <= e,
         \A k \in Closers : k >= Here => k >= e
  PROVE  /\ Here \in Nat /\ e \in Nat /\ EndOf(Here) = e /\ e < Len(text)
         /\ Here \in FieldBegins
<1>1. Here \in Begins /\ Here \in Nat /\ e \in Nat /\ e < Len(text)
  BY Places DEF AtField
<1>2. EndOf(Here) = e
  BY <1>1, EndIs
<1> QED
  BY <1>1, <1>2 DEF FieldBegins

LEMMA LengthNat == IInv => length \in Nat
BY Lengths DEF IInv

LEMMA LengthNatNext == IInv' => (length \in Nat)'
BY LengthNat, PTL

LEMMA AllGivenStays ==
  ASSUME AllGiven, UNCHANGED <<scan, tokens>>
  PROVE  AllGiven'
<1>1. FieldBegins' = FieldBegins /\ \A c : FieldFrom(c)' = FieldFrom(c)
  BY TextStays, FieldStays
<1>2. ToSet(tokens)' = {FieldFrom(c) : c \in FieldBegins}
  BY DEF AllGiven, ToSet
<1> QED
  BY <1>1, <1>2 DEF AllGiven

-----------------------------------------------------------------------------
LEMMA SkipFields ==
  ASSUME FInv, Skip
  PROVE  Progress' /\ FieldsComeOut'
<1>1. /\ Running /\ i < length /\ At(i) # Wanted /\ i' = After(i)
      /\ UNCHANGED <<scan, tagPos, valPos, inner, base, tokens, messages, state>>
  BY DEF Skip
<1> SUFFICES ASSUME Regular PROVE AtField' /\ state' = "running"
  BY <1>1, NotInFormat, GoesOn
<1>2. IInv /\ AtField
  BY <1>1 DEF FInv, Progress
<1>3. i' = i + 1 /\ i \in Nat /\ base \in Nat /\ length \in Nat
  BY <1>1, <1>2, Turn, RegularTurn
<1>4. /\ UNCHANGED <<scanner, text>> /\ Begins' = Begins /\ Closers' = Closers /\ length' = length
      /\ \A c : Char(c)' = Char(c)
  BY <1>1, TextStays, FieldStays DEF length
<1>5. FieldsGiven' /\ Here' = Here
  BY <1>1, <1>2, GivenStays DEF AtField
<1>6. base + i \notin Closers
  <2>1. CASE Wanted = "close"
    BY <1>1, <2>1, AtIsChar DEF Closers, Char
  <2>2. CASE ~inner /\ scanner # "words"
    BY <1>1, <1>2, <1>3, <2>2, OpenFirst
  <2> QED
    BY <2>1, <2>2 DEF Wanted
<1>7. \A k \in Closers' : k >= Here' => k >= base' + i'
  <2> SUFFICES ASSUME NEW k \in Closers, k >= Here PROVE k >= base + (i + 1)
    BY <1>1, <1>3, <1>4, <1>5
  <2>1. k \in Int /\ k >= base + i /\ k # base + i
    BY <1>2, <1>6 DEF AtField, Closers
  <2> QED
    BY <1>3, <2>1
<1>8. scanner # "words" /\ ~inner => NoOpener(Here, base + i)'
  <2> SUFFICES ASSUME scanner # "words", ~inner, NEW c \in Here..(base + (i + 1) - 1)
               PROVE  Char(c) # "open"
    BY <1>1, <1>3, <1>4, <1>5 DEF NoOpener
  <2>1. Here \in Nat
    BY <1>1, <1>2, Turn DEF Here
  <2>2. c \in Here..(base + i - 1) \/ c = base + i
    BY <1>3, <2>1
  <2>3. Char(base + i) # "open"
    BY <1>1, AtIsChar DEF Wanted
  <2> QED
    BY <1>1, <1>2, <1>3, <2>2, <2>3 DEF AtField, NoOpener
<1>9. TagFound' => TagFound /\ TagEnd' = TagEnd
  BY <1>1, <1>3, <1>4 DEF TagFound, TagEnd
<1>10. tagPos' <= i'
  BY <1>1, <1>2, <1>3, Turn DEF AtField
<1>11. TagFound' =>
         /\ Here' <= base' + TagEnd' /\ base' + TagEnd' <= base' + i'
         /\ Char(base + TagEnd)' = "open" /\ NoOpener(Here, base + TagEnd)'
  <2> SUFFICES ASSUME TagFound' PROVE
         /\ Here' <= base' + TagEnd' /\ base' + TagEnd' <= base' + i'
         /\ Char(base + TagEnd)' = "open" /\ NoOpener(Here, base + TagEnd)'
    OBVIOUS
  <2>1. TagFound /\ TagEnd' = TagEnd /\ base' = base
    BY <1>1, <1>9
  <2>2. /\ Here <= base + TagEnd /\ base + TagEnd <= base + i
        /\ Char(base + TagEnd) = "open" /\ NoOpener(Here, base + TagEnd)
    BY <1>2, <2>1 DEF AtField
  <2>3. TagEnd \in Int
    BY <1>2, <1>1, Turn DEF TagEnd
  <2> QED
    BY <1>3, <1>4, <1>5, <2>1, <2>2, <2>3 DEF NoOpener
<1>12. Here' \in Begins' /\ state' = "running"
  BY <1>1, <1>2, <1>4, <1>5 DEF AtField, Running
<1> QED
  BY <1>1, <1>4, <1>5, <1>7, <1>8, <1>10, <1>11, <1>12 DEF AtField

LEMMA WordFields ==
  ASSUME FInv, Word, IInv'
  PROVE  Progress' /\ FieldsComeOut'
<1> DEFINE b == Here  e == base + i  token == <<Piece(tagPos, i)>>
<1>1. /\ Running /\ scanner = "words" /\ i < length /\ At(i) = "close" /\ Give(token)
      /\ tagPos' = i + 1 /\ i' = After(i) /\ UNCHANGED <<scan, valPos, inner, base, messages>>
  BY DEF Word
<1> SUFFICES ASSUME Regular PROVE AtField' /\ state' = "running"
  BY <1>1, NotInFormat, GoesOn
<1>2. IInv /\ AtField
  BY <1>1 DEF FInv, Progress
<1>3. /\ i' = i + 1 /\ i \in Nat /\ base \in Nat /\ tagPos \in Nat /\ Len(text) \in Nat
      /\ TokensWhole /\ inner = FALSE /\ state = "running"
  BY <1>1, <1>2, Turn, RegularTurn
<1>4. e \in Closers
  BY <1>1, <1>2, CloserHere
<1>5. b = base + tagPos /\ b <= e /\ tagPos <= i /\ \A k \in Closers : k >= b => k >= e
  BY <1>2, <1>3 DEF AtField, Here
<1>6. b \in Nat /\ e \in Nat /\ EndOf(b) = e /\ b \in FieldBegins
  BY <1>2, <1>3, <1>4, <1>5, FieldEnds
<1>7. token = << <<b, e - b>> >>
  BY <1>1, <1>3, <1>5 DEF Piece
<1> HIDE DEF b, e, token
<1>8. token \in Seq(Nat \X Nat) /\ token = FieldFrom(b) /\ token[1][1] = b
  BY <1>1, <1>5, <1>6, <1>7, WordIs
<1>9. state' = "running" /\ tokens' = Append(tokens, token)
  BY <1>1, <1>3, <1>8, NotBelow DEF Give
<1>10. base' + tagPos' = Behind(e)
  BY <1>1, <1>3 DEF Behind, e
<1>11. /\ b = Here /\ UNCHANGED scan /\ base' \in Nat /\ tagPos' \in Nat /\ i' = tagPos'
       /\ inner' = FALSE /\ length' \in Nat /\ scanner' # "queries"
  BY <1>1, <1>3, LengthNatNext DEF scan, b
<1> QED
  BY <1>2, <1>3, <1>4, <1>5, <1>6, <1>8, <1>9, <1>10, <1>11, FieldOver

LEMMA OpenValueFields ==
  ASSUME FInv, OpenValue
  PROVE  Progress' /\ FieldsComeOut'
<1>1. /\ Running /\ scanner # "words" /\ ~inner /\ i < length /\ At(i) = "open"
      /\ valPos' = (IF scanner = "queries" THEN i ELSE i + 1) /\ i' = valPos' /\ inner' = TRUE
      /\ UNCHANGED <<scan, tagPos, base, tokens, messages, state>>
  BY DEF OpenValue
<1> SUFFICES ASSUME Regular PROVE AtField' /\ state' = "running"
  BY <1>1, NotInFormat, GoesOn
<1>2. IInv /\ AtField
  BY <1>1 DEF FInv, Progress
<1>3. /\ i \in Nat /\ base \in Nat /\ tagPos \in Nat /\ length \in Nat
      /\ (i' = i \/ i' = i + 1) /\ tagPos <= i
  BY <1>1, <1>2, Turn DEF AtField
<1>4. /\ UNCHANGED <<scanner, text>> /\ Begins' = Begins /\ Closers' = Closers
      /\ \A c : Char(c)' = Char(c)
  BY <1>1, TextStays, FieldStays
<1>5. FieldsGiven' /\ Here' = Here
  BY <1>1, <1>2, GivenStays DEF AtField
<1>6. Char(base + i) = "open" /\ NoOpener(Here, base + i) /\ base + i \notin Closers
  <2>1. Char(base + i) = "open"
    BY <1>1, AtIsChar
  <2> QED
    BY <1>1, <1>2, <1>3, <2>1 DEF AtField, Closers, Char
<1>7. \A k \in Closers' : k >= Here' => k >= base' + i'
  <2> SUFFICES ASSUME NEW k \in Closers, k >= Here PROVE k >= base + (i + 1)
    <3>1. ASSUME NEW k \in Closers, k >= base + (i + 1) PROVE k >= base + i'
      BY <1>3, <3>1 DEF Closers
    <3> QED
      BY <1>1, <1>4, <1>5, <3>1
  <2>1. k \in Int /\ k >= base + i /\ k # base + i
    BY <1>2, <1>6 DEF AtField, Closers
  <2> QED
    BY <1>3, <2>1
<1>8. TagEnd' = i
  BY <1>1, <1>3, <1>4 DEF TagEnd
<1>9. /\ Here' <= base' + TagEnd' /\ base' + TagEnd' <= base' + i'
      /\ Char(base + TagEnd)' = "open" /\ NoOpener(Here, base + TagEnd)'
  <2>1. Here' = base + tagPos /\ base' = base
    BY <1>1, <1>5 DEF Here
  <2>2. NoOpener(Here, base + TagEnd)'
    BY <1>4, <1>5, <1>6, <1>8, <2>1 DEF NoOpener
  <2>3. Char(base + TagEnd)' = Char(base + i)
    BY <1>4, <1>8, <2>1 DEF Char
  <2> QED
    BY <1>3, <1>6, <1>8, <2>1, <2>2, <2>3
<1>10. Here' \in Begins' /\ state' = "running" /\ tagPos' <= i'
  BY <1>1, <1>2, <1>3, <1>4, <1>5 DEF AtField, Running
<1> QED
  BY <1>1, <1>5, <1>7, <1>9, <1>10 DEF AtField

(* A sleepy message ends with a field: the next one begins there, or the text*)
(* is over.                                                                  *)
LEMMA MessageFields ==
  ASSUME Running, scanner = "sleepy", UNCHANGED scan, Len(text) \in Nat, NEW len \in Nat,
         EndMessage(len), base \in Nat, AtField', base + len <= Len(text), Here' = base + len
  PROVE  Progress' /\ FieldsComeOut'
<1>1. /\ base' = base + len /\ tagPos' = 0 /\ i' = 0
      /\ state' = IF base' < Len(text) THEN "running" ELSE "done"
  BY DEF EndMessage, Running
<1>2. CASE base' < Len(text)
  BY <1>1, <1>2, GoesOn
<1>3. CASE ~(base' < Len(text))
  <2>1. base' = Len(text) /\ Here' = Len(text) /\ state' = "done"
    BY <1>1, <1>3
  <2>2. Closers' = Closers /\ UNCHANGED <<scanner, text>>
    BY TextStays
  <2>3. \A k \in Closers' : k < Here'
    BY <2>1, <2>2, Places
  <2>4. NothingLeft'
    BY <2>2, <2>3 DEF NothingLeft, AtField
  <2> QED
    BY <2>1, <2>4, NothingLeftGivenNext, IsOver
<1> QED
  BY <1>2, <1>3

LEMMA CloseValueFields ==
  ASSUME FInv, CloseValue, IInv'
  PROVE  Progress' /\ FieldsComeOut'
<1> DEFINE b == Here  e == base + i  token == Pair(i)
<1>1. /\ Running /\ inner /\ i < length /\ At(i) = "close" /\ inner' = FALSE /\ UNCHANGED scan
      /\ \/ EndsMessage(i) /\ tokens' = Append(tokens, token) /\ EndMessage(i + 2)
         \/ /\ ~EndsMessage(i) /\ Give(token) /\ tagPos' = i + 1 /\ i' = After(i)
            /\ UNCHANGED <<valPos, base, messages>>
  BY DEF CloseValue
<1> SUFFICES ASSUME Regular PROVE Progress' /\ FieldsComeOut'
  BY <1>1, NotInFormat
<1>2. IInv /\ AtField /\ TagFound
  BY <1>1 DEF FInv, Progress, TagFound
<1>3. /\ i \in Nat /\ base \in Nat /\ tagPos \in Nat /\ valPos \in Nat /\ Len(text) \in Nat
      /\ length \in Nat /\ base + length = Len(text) /\ After(i) = i + 1
      /\ TokensWhole /\ state = "running" /\ scanner # "words"
      /\ scanner = "sleepy" => valPos < i
  BY <1>1, <1>2, Turn, RegularTurn
<1>4. e \in Closers
  BY <1>1, <1>2, CloserHere
<1>5. b = base + tagPos /\ b <= e /\ \A k \in Closers : k >= b => k >= e
  BY <1>2, <1>3 DEF AtField, Here
<1>6. b \in Nat /\ e \in Nat /\ EndOf(b) = e /\ b \in FieldBegins /\ e < Len(text)
  BY <1>2, <1>3, <1>4, <1>5, FieldEnds
<1>7. TagEnd < i
  <2>1. TagEnd \in Int
    BY <1>3 DEF TagEnd
  <2>2. base + TagEnd <= base + i /\ Char(base + TagEnd) = "open"
    BY <1>2 DEF AtField
  <2>3. Char(base + i) = "close"
    BY <1>1, AtIsChar
  <2>4. TagEnd # i
    BY <2>2, <2>3
  <2> QED
    BY <1>3, <2>1, <2>2, <2>4
<1>8. token \in Seq(Nat \X Nat) /\ token = FieldFrom(b) /\ token[1][1] = b
  <2>1. base + i <= Len(text) /\ EndOf(b) = base + i
    BY <1>3, <1>6
  <2> QED
    BY <1>1, <1>2, <1>3, <1>6, <1>7, <2>1, PairIsField
<1>9. b = Here /\ length' \in Nat /\ Char(e + 1) = At(i + 1)
  <2>1. e + 1 = base + (i + 1)
    BY <1>3
  <2> QED
    BY <2>1, AtIsChar, LengthNatNext
<1> HIDE DEF b, token
<1>10. CASE EndsMessage(i) /\ tokens' = Append(tokens, token) /\ EndMessage(i + 2)
  <2>1. scanner = "sleepy" /\ Char(e + 1) = "end"
    BY <1>9, <1>10 DEF EndsMessage
  <2>2. base' = base + (i + 2) /\ tagPos' = 0 /\ i' = 0
    BY <1>10 DEF EndMessage
  <2>3. Behind(e) = base + (i + 2) /\ base + (i + 2) <= Len(text)
    <3>1. e + 1 < Len(text)
      BY <2>1 DEF Char
    <3> QED
      BY <1>3, <1>6, <2>1, <3>1 DEF Behind
  <2>4. base' \in Nat /\ tagPos' \in Nat /\ i' = tagPos' /\ base' + tagPos' = Behind(e)
    BY <1>3, <2>2, <2>3
  <2>5. scanner' # "queries"
    BY <1>1, <2>1 DEF scan
  <2> HIDE DEF e
  <2>6. AtField' /\ Here' = Behind(e)
    BY <1>1, <1>2, <1>3, <1>4, <1>5, <1>6, <1>8, <1>9, <1>10, <2>4, <2>5, FieldOver
  <2>7. i + 2 \in Nat
    BY <1>3
  <2> QED
    BY <1>1, <1>3, <1>10, <2>1, <2>3, <2>6, <2>7, MessageFields
<1>11. CASE /\ ~EndsMessage(i) /\ Give(token) /\ tagPos' = i + 1 /\ i' = After(i)
            /\ UNCHANGED <<valPos, base, messages>>
  <2>1. state' = "running" /\ tokens' = Append(tokens, token)
    BY <1>3, <1>8, <1>11, NotBelow DEF Give
  <2>2. Behind(e) = e + 1
    BY <1>9, <1>11 DEF EndsMessage, Behind
  <2>3. base' \in Nat /\ tagPos' \in Nat /\ i' = tagPos' /\ base' + tagPos' = Behind(e)
    BY <1>3, <1>11, <2>2
  <2>4. i' <= length'
    <3>1. length' = length
      BY <1>1, <1>11 DEF scan, length
    <3> QED
      BY <1>1, <1>3, <1>11, <3>1
  <2> HIDE DEF e
  <2>5. AtField'
    BY <1>1, <1>2, <1>3, <1>4, <1>5, <1>6, <1>8, <1>9, <2>1, <2>3, <2>4, FieldOver
  <2> QED
    BY <2>1, <2>5, GoesOn
<1> QED
  BY <1>1, <1>10, <1>11

LEMMA LeaveOutFields ==
  ASSUME FInv, LeaveOut, IInv'
  PROVE  Progress' /\ FieldsComeOut'
<1> DEFINE b == Here  k == base + i  e == base + (i + 1)
           token == <<Piece(tagPos, i), Piece(i + 1, i + 1)>>
<1>1. /\ Running /\ ~inner /\ i < length /\ At(i) = "open" /\ NoValue
      /\ tokens' = Append(tokens, token) /\ UNCHANGED <<scan, inner>>
      /\ \/ EndsMessage(i + 1) /\ EndMessage(i + 3)
         \/ /\ ~EndsMessage(i + 1) /\ valPos' = i + 1 /\ tagPos' = i + 2 /\ i' = i + 2
            /\ UNCHANGED <<base, messages, state>>
  BY DEF LeaveOut
<1> SUFFICES ASSUME Regular PROVE Progress' /\ FieldsComeOut'
  BY <1>1, NotInFormat
<1>2. IInv /\ AtField /\ scanner = "sleepy"
  BY <1>1 DEF FInv, Progress, NoValue
<1>3. /\ i \in Nat /\ base \in Nat /\ tagPos \in Nat /\ Len(text) \in Nat
      /\ TokensWhole /\ state = "running" /\ tagPos <= i /\ Len(text) < Wide
      /\ inner' = FALSE
  BY <1>1, <1>2, Turn, RegularTurn
<1>4. Char(k) = "open" /\ Char(e) = "close"
  BY <1>1, AtIsChar DEF NoValue
<1>5. e \in Closers /\ e < Len(text)
  <2>1. e \in Nat /\ e < Len(text)
    BY <1>3, <1>4 DEF Char
  <2> QED
    BY <1>3, <1>4, <2>1 DEF Closers, Char
<1>6. b = base + tagPos /\ b <= k /\ k \in Nat /\ e = k + 1 /\ NoOpener(b, k)
  <2>1. b = base + tagPos
    BY DEF Here
  <2>2. i <= length
    BY <1>1, <1>2, Turn
  <2> QED
    BY <1>1, <1>2, <1>3, <2>1, <2>2 DEF AtField
<1>7. \A c \in Closers : c >= b => c >= e
  <2> SUFFICES ASSUME NEW c \in Closers, c >= b PROVE c >= e
    OBVIOUS
  <2>1. c >= k /\ c \in Int
    BY <1>2 DEF AtField, Closers
  <2>2. c # k
    BY <1>4 DEF Closers, Char
  <2> QED
    BY <1>6, <2>1, <2>2
<1>8. b \in Nat /\ e \in Nat /\ b <= e /\ EndOf(b) = e /\ b \in FieldBegins
  <2>1. b <= e
    BY <1>3, <1>6
  <2> HIDE DEF e
  <2> QED
    BY <1>2, <1>3, <1>5, <1>7, <2>1, FieldEnds
<1>9. token = << <<b, k - b>>, <<k + 1, e - (k + 1)>> >>
  <2>1. /\ i - tagPos \in Nat /\ i - tagPos < Wide /\ (i + 1) - (i + 1) = 0
        /\ 0 < Wide /\ k - b = i - tagPos /\ e - (k + 1) = 0
    BY <1>3, <1>5, <1>6, ScanAssumption
  <2>2. (i - tagPos) % Wide = i - tagPos /\ 0 % Wide = 0
    BY <2>1, ModSmall
  <2> QED
    BY <1>2, <1>6, <2>1, <2>2 DEF Piece
<1>10. token \in Seq(Nat \X Nat) /\ token = FieldFrom(b) /\ token[1][1] = b
  <2>1. k < e /\ ~(e - 1 > k) /\ scanner # "words"
    BY <1>2, <1>6
  <2> HIDE DEF b, k, e, token
  <2>2. Min(OpenersOf(b)) = k
    BY <1>3, <1>4, <1>5, <1>6, <1>8, <2>1, OpenerIs
  <2>3. e = IF scanner = "sleepy" /\ e - 1 > k /\ Char(e - 1) = "open" THEN e - 1 ELSE e
    BY <2>1
  <2> QED
    BY <1>6, <1>8, <1>9, <2>1, <2>2, <2>3, PairIs
<1>11. b = Here /\ length' \in Nat /\ Char(e + 1) = At(i + 1 + 1) /\ scanner' # "queries"
  <2>1. e + 1 = base + (i + 1 + 1)
    BY <1>3
  <2> QED
    BY <1>1, <1>2, <2>1, AtIsChar, LengthNatNext DEF scan
<1> HIDE DEF b, token, k
<1>12. CASE EndsMessage(i + 1) /\ EndMessage(i + 3)
  <2>1. Char(e + 1) = "end"
    BY <1>11, <1>12 DEF EndsMessage
  <2>2. base' = base + (i + 3) /\ tagPos' = 0 /\ i' = 0
    BY <1>12 DEF EndMessage
  <2>3. Behind(e) = base + (i + 3) /\ base + (i + 3) <= Len(text)
    <3>1. e + 1 < Len(text)
      BY <2>1 DEF Char
    <3> QED
      BY <1>2, <1>3, <2>1, <3>1 DEF Behind
  <2>4. base' \in Nat /\ tagPos' \in Nat /\ i' = tagPos' /\ base' + tagPos' = Behind(e)
    BY <1>3, <2>2, <2>3
  <2> HIDE DEF e
  <2>5. AtField' /\ Here' = Behind(e)
    BY <1>1, <1>2, <1>3, <1>5, <1>7, <1>8, <1>10, <1>11, <2>4, FieldOver
  <2>6. i + 3 \in Nat
    BY <1>3
  <2> QED
    BY <1>1, <1>2, <1>3, <1>12, <2>3, <2>5, <2>6, MessageFields
<1>13. CASE /\ ~EndsMessage(i + 1) /\ tagPos' = i + 2 /\ i' = i + 2
            /\ UNCHANGED <<base, messages, state>>
  <2>1. Behind(e) = e + 1
    BY <1>2, <1>11, <1>13 DEF EndsMessage, Behind
  <2>2. base' \in Nat /\ tagPos' \in Nat /\ i' = tagPos' /\ base' + tagPos' = Behind(e)
    BY <1>3, <1>13, <2>1
  <2> HIDE DEF e
  <2>3. AtField'
    BY <1>1, <1>2, <1>3, <1>5, <1>7, <1>8, <1>10, <1>11, <2>2, FieldOver
  <2> QED
    BY <1>3, <1>13, <2>3, GoesOn
<1> QED
  BY <1>1, <1>12, <1>13

LEMMA UnterminatedFields ==
  ASSUME FInv, Unterminated
  PROVE  Progress' /\ FieldsComeOut'
<1>1. /\ Running /\ inner /\ i >= length /\ inner' = FALSE /\ i' = After(i)
      /\ UNCHANGED <<scan, tagPos, valPos, base, tokens, messages, peeked, state>>
  BY DEF Unterminated
<1> SUFFICES ASSUME Regular PROVE AtField' /\ state' = "running"
  BY <1>1, NotInFormat, GoesOn
<1>2. IInv /\ AtField /\ TagFound
  BY <1>1 DEF FInv, Progress, TagFound
<1>3. /\ i \in Nat /\ base \in Nat /\ tagPos \in Nat /\ length \in Nat /\ Len(text) \in Nat
      /\ i = length /\ i' = i + 1 /\ base + length = Len(text) /\ tagPos <= i
      /\ valPos \in Nat /\ state = "running" /\ Here \in Nat
  BY <1>1, <1>2, Turn, RegularTurn DEF AtField, Here
<1>4. /\ UNCHANGED <<scanner, text>> /\ Begins' = Begins /\ Closers' = Closers /\ length' = length
      /\ \A c : Char(c)' = Char(c)
  BY <1>1, TextStays, FieldStays DEF length
<1>5. FieldsGiven' /\ Here' = Here
  BY <1>1, <1>2, GivenStays DEF AtField
<1>6. \A k \in Closers' : k >= Here' => k >= base' + i'
  <2> SUFFICES ASSUME NEW k \in Closers, k >= Here PROVE FALSE
    BY <1>4, <1>5
  <2>1. k \in Nat /\ k < Len(text) /\ k >= base + i
    BY <1>2, <1>3, Places DEF AtField
  <2> QED
    BY <1>3, <2>1
<1>7. TagEnd' = TagEnd /\ TagEnd \in Int /\ base' = base
  BY <1>1, <1>3, <1>4 DEF TagEnd
<1>8. /\ Here' <= base' + TagEnd' /\ base' + TagEnd' <= base' + i'
      /\ Char(base + TagEnd)' = "open" /\ NoOpener(Here, base + TagEnd)'
  <2>1. /\ Here <= base + TagEnd /\ base + TagEnd <= base + i
        /\ Char(base + TagEnd) = "open" /\ NoOpener(Here, base + TagEnd)
    BY <1>2 DEF AtField
  <2> QED
    BY <1>3, <1>4, <1>5, <1>7, <2>1 DEF NoOpener, Char
<1>9. ~(i' <= length') /\ Here' \in Begins' /\ tagPos' <= i' /\ state' = "running"
  BY <1>1, <1>2, <1>3, <1>4, <1>5 DEF AtField
<1> QED
  BY <1>5, <1>6, <1>8, <1>9 DEF AtField

(* The last part of a text that is no sleepy one.                            *)
LEMMA FinishFields ==
  ASSUME FInv, Finish
  PROVE  Progress' /\ FieldsComeOut'
<1> DEFINE last == IF scanner = "words" THEN <<Piece(tagPos, length)>> ELSE Pair(length)
           none == scanner = "pairs" \/ (scanner = "words" /\ tagPos = length)
           dies == ~none /\ Throws(last)
           b == Here  e == Len(text)
<1>1. /\ Running /\ ~inner /\ i >= length /\ scanner \in {"words", "queries", "pairs"}
      /\ tokens' = (IF none THEN tokens ELSE Append(tokens, last))
      /\ state' = (IF dies THEN "died" ELSE "done") /\ UNCHANGED scan
  BY DEF Finish, AtEnd
<1> SUFFICES ASSUME Regular PROVE AllGiven' /\ state' = "done"
  BY <1>1, NotInFormat, IsOver
<1>2. IInv /\ AtField
  BY <1>1 DEF FInv, Progress
<1>3. /\ i \in Nat /\ base = 0 /\ tagPos \in Nat /\ e \in Nat /\ TokensWhole /\ i <= length + 1
      /\ length = e /\ tagPos <= i
  BY <1>1, <1>2, Turn, RegularTurn DEF AtField
<1>4. b = tagPos /\ b \in Nat /\ b \in Begins /\ b <= e
  BY <1>2, <1>3, Places DEF AtField, Here
<1>5. \A k \in Closers : k < b
  <2> SUFFICES ASSUME NEW k \in Closers PROVE k < b
    OBVIOUS
  <2>1. k \in Nat /\ k < e /\ (k >= b => k >= i)
    BY <1>2, <1>3, Places DEF AtField
  <2> QED
    BY <1>1, <1>3, <1>4, <2>1
<1>6. EndOf(b) = e
  <2>1. \A k \in Closers : k >= b => k >= e
    <3>1. \A k \in Closers : k \in Nat
      BY <1>3, Places
    <3> QED
      BY <1>4, <1>5, <3>1
  <2> HIDE DEF b
  <2> QED
    BY <1>3, <1>4, <2>1, EndIs
<1>7. \A f \in Begins : f \in Nat /\ f <= b
  BY <1>3, <1>4, <1>5, LastBegin, Places
<1>8. ASSUME b \in FieldBegins, last \in Seq(Nat \X Nat), last = FieldFrom(b), last[1][1] = b, ~none
      PROVE  AllGiven' /\ state' = "done"
  <2>1. ~dies
    <3> HIDE DEF last, none
    <3> QED
      BY <1>8, NotBelow
  <2>2. state' = "done" /\ tokens' = Append(tokens, last)
    BY <1>1, <1>8, <2>1
  <2>3. FieldsGiven /\ b = Here
    BY <1>2 DEF AtField
  <2> HIDE DEF last, none, dies, b
  <2>4. /\ ToSet(tokens') = {FieldFrom(c) : c \in {f \in FieldBegins : f <= b}}
        /\ \A j, k \in DOMAIN tokens' : j < k => tokens'[j][1][1] < tokens'[k][1][1]
    BY <1>3, <1>4, <1>8, <2>2, <2>3, OneMoreField
  <2>5. FieldBegins \subseteq Begins
    BY DEF FieldBegins
  <2>6. {f \in FieldBegins : f <= b} = FieldBegins
    BY <1>7, <2>5
  <2>7. FieldBegins' = FieldBegins /\ \A c : FieldFrom(c)' = FieldFrom(c)
    BY <1>1, TextStays, FieldStays
  <2>8. ToSet(tokens)' = {FieldFrom(c) : c \in FieldBegins}
    BY <2>4, <2>6 DEF ToSet
  <2> QED
    BY <2>2, <2>4, <2>7, <2>8 DEF AllGiven
<1>9. CASE scanner = "pairs"
  <2>1. NothingLeft
    BY <1>2, <1>3, <1>4, <1>5, <1>9 DEF NothingLeft, AtField
  <2>2. tokens' = tokens /\ state' = "done"
    BY <1>1, <1>9
  <2> QED
    BY <1>1, <2>1, <2>2, NothingLeftGiven, AllGivenStays
<1>10. CASE scanner = "words"
  <2>1. CASE tagPos = length
    <3>1. tokens' = tokens /\ state' = "done"
      BY <1>1, <1>10, <2>1
    <3>2. FieldBegins = {f \in Begins : f < Here}
      BY <1>3, <1>4, <1>10, <2>1 DEF FieldBegins
    <3>3. {f \in FieldBegins : f < Here} = FieldBegins
      BY <3>2
    <3>4. AllGiven
      BY <1>2, <3>3 DEF AllGiven, AtField, FieldsGiven
    <3> QED
      BY <1>1, <3>1, <3>4, AllGivenStays
  <2>2. CASE tagPos # length
    <3>1. last = << <<b, e - b>> >>
      BY <1>3, <1>4, <1>10 DEF Piece
    <3>2. b \in FieldBegins /\ ~none
      BY <1>3, <1>4, <1>10, <2>2 DEF FieldBegins
    <3>3. last = FieldFrom(b) /\ last \in Seq(Nat \X Nat) /\ last[1][1] = b
      <4> HIDE DEF last, b
      <4> QED
        BY <1>3, <1>4, <1>6, <1>10, <3>1, WordIs
    <3> QED
      BY <1>8, <3>2, <3>3
  <2> QED
    BY <2>1, <2>2
<1>11. CASE scanner = "queries"
  <2>1. b \in FieldBegins /\ ~none /\ last = Pair(length)
    BY <1>4, <1>11 DEF FieldBegins
  <2>2. TagFound
    <3>1. CASE i > length
      BY <1>11, <3>1 DEF TagFound
    <3>2. CASE ~(i > length)
      <4>1. i <= length /\ base + i = Len(text)
        BY <1>1, <1>3, <3>2
      <4> QED
        BY <1>1, <1>2, <1>11, <4>1, OpenFirst
    <3> QED
      BY <3>1, <3>2
  <2>3. TagEnd < length
    <3>1. TagEnd \in Int /\ base + TagEnd = TagEnd
      BY <1>1, <1>2, <1>3, Turn DEF TagEnd
    <3>2. Char(base + TagEnd) = "open"
      BY <1>2, <2>2 DEF AtField
    <3> QED
      BY <1>3, <3>1, <3>2 DEF Char
  <2>4. length \in Nat /\ EndOf(b) = base + length /\ base + length <= Len(text)
    BY <1>3, <1>6
  <2>5. /\ Pair(length) = FieldFrom(b) /\ Pair(length) \in Seq(Nat \X Nat)
        /\ Pair(length)[1][1] = b
    <3>1. scanner # "words" /\ scanner # "sleepy" /\ b = Here
      BY <1>11
    <3> HIDE DEF b
    <3> QED
      BY <1>1, <1>2, <1>4, <2>2, <2>3, <2>4, <3>1, PairIsField
  <2> QED
    BY <1>8, <2>1, <2>5
<1> QED
  BY <1>1, <1>9, <1>10, <1>11

LEMMA FinishMessageFields ==
  ASSUME FInv, FinishMessage
  PROVE  Progress' /\ FieldsComeOut'
<1>1. /\ Running /\ ~inner /\ i >= length /\ scanner = "sleepy" /\ EndMessage(length)
      /\ UNCHANGED <<scan, tokens>>
  BY DEF FinishMessage, AtEnd
<1> SUFFICES ASSUME Regular PROVE AllGiven' /\ state' = "done"
  BY <1>1, NotInFormat, IsOver
<1>2. IInv /\ AtField
  BY <1>1 DEF FInv, Progress
<1>3. /\ i \in Nat /\ base \in Nat /\ length \in Nat /\ Len(text) \in Nat
      /\ base + length = Len(text) /\ Here \in Nat
  BY <1>1, <1>2, Turn, RegularTurn DEF Here
<1>4. \A k \in Closers : k < Here
  <2> SUFFICES ASSUME NEW k \in Closers PROVE k < Here
    OBVIOUS
  <2>1. k \in Nat /\ k < Len(text) /\ (k >= Here => k >= base + i)
    BY <1>2, <1>3, Places DEF AtField
  <2> QED
    BY <1>1, <1>3, <2>1
<1>5. NothingLeft
  BY <1>1, <1>2, <1>3, <1>4 DEF NothingLeft, AtField
<1>6. state' = "done"
  BY <1>1, <1>3 DEF EndMessage
<1> QED
  BY <1>1, <1>5, <1>6, NothingLeftGiven, AllGivenStays

LEMMA StartFields ==
  ASSUME FInv, state = "idle", NEW s \in Scanners, NEW t \in Texts[s], Start(s, t), IInv'
  PROVE  Progress' /\ FieldsComeOut'
<1>1. /\ scanner' = s /\ text' = t
      /\ state' = (IF s = "sleepy" /\ t = <<>> THEN "done" ELSE "running")
      /\ UNCHANGED <<i, tagPos, valPos, inner, base, tokens, messages, peeked>>
  BY DEF Start
<1>2. i = 0 /\ tagPos = 0 /\ ~inner /\ base = 0 /\ tokens = <<>>
  BY DEF FInv, IInv, Fresh
<1>3. Len(text') \in Nat /\ length' \in Nat
  <2>1. text' \in Seq({"open", "close", "end", "x"})
    BY DEF IInv, TypeOK
  <2> QED
    BY <2>1, LenProperties, LengthNatNext
<1>4. Here' = 0 /\ DOMAIN tokens' = {} /\ ToSet(tokens') = {} /\ base' + i' = 0
  BY <1>1, <1>2 DEF Here, ToSet
<1>5. \A k \in Closers' : k \in Nat /\ k < Len(text')
  BY DEF Closers
<1>6. Begins' \subseteq Nat /\ 0 \in Begins'
  <2>1. Begins' \subseteq Nat
    BY <1>5 DEF Begins, Behind
  <2> QED
    BY <2>1 DEF Begins
<1>7. FieldsGiven'
  <2>1. FieldBegins' \subseteq Nat
    BY <1>6 DEF FieldBegins
  <2>2. {f \in FieldBegins' : f < 0} = {}
    <3>1. ASSUME NEW f \in FieldBegins' PROVE ~(f < 0)
      <4>1. f \in Nat
        BY <2>1
      <4> QED
        BY <4>1
    <3> QED
      BY <3>1
  <2> QED
    BY <1>4, <2>2 DEF FieldsGiven
<1>8. AtField'
  <2>1. ~TagFound' /\ tagPos' <= i'
    BY <1>1, <1>2, <1>3 DEF TagFound
  <2>2. NoOpener(Here, base + i)'
    BY <1>4, NoneYetNext
  <2>3. \A k \in Closers' : k >= Here' => k >= base' + i'
    BY <1>4
  <2> QED
    BY <1>4, <1>6, <1>7, <2>1, <2>2, <2>3 DEF AtField
<1>9. CASE s = "sleepy" /\ t = <<>>
  <2>1. Closers' = {}
    <3>1. Len(text') = 0
      BY <1>1, <1>9
    <3> QED
      BY <1>5, <3>1
  <2>2. NothingLeft'
    BY <1>1, <1>3, <1>8, <1>9, <2>1 DEF NothingLeft, AtField
  <2> QED
    BY <1>1, <1>9, <2>2, NothingLeftGivenNext, IsOver
<1>10. CASE ~(s = "sleepy" /\ t = <<>>)
  BY <1>1, <1>8, <1>10, GoesOn
<1> QED
  BY <1>9, <1>10

-----------------------------------------------------------------------------
LEMMA InitFInv == Init => FInv
<1> SUFFICES ASSUME Init PROVE FInv
  OBVIOUS
<1>1. state = "idle"
  BY DEF Init
<1> QED
  BY <1>1, InitIInv DEF FInv, Progress, FieldsComeOut, Running

LEMMA StepFInv == FInv /\ [Next]_vars => FInv'
<1> SUFFICES ASSUME FInv, [Next]_vars PROVE FInv'
  OBVIOUS
<1>1. IInv'
  BY StepIInv DEF FInv
<1>2. CASE Scan
  <2>1. Progress' /\ FieldsComeOut'
    BY <1>1, <1>2, SkipFields, WordFields, OpenValueFields, CloseValueFields, LeaveOutFields,
       UnterminatedFields, FinishFields, FinishMessageFields DEF Scan
  <2> QED
    BY <1>1, <2>1 DEF FInv
<1>3. CASE state = "idle" /\ \E s \in Scanners : \E t \in Texts[s] : Start(s, t)
  BY <1>1, <1>3, StartFields DEF FInv
<1>4. CASE UNCHANGED vars
  <2>1. UNCHANGED <<scan, scanner, text, i, tagPos, valPos, inner, base, tokens, state>>
    BY <1>4 DEF vars, scan
  <2>2. /\ Begins' = Begins /\ Closers' = Closers /\ Regular' = Regular
        /\ FieldBegins' = FieldBegins /\ \A c : FieldFrom(c)' = FieldFrom(c) /\ Char(c)' = Char(c)
    BY <2>1, TextStays, FieldStays
  <2>3. FieldsComeOut'
    BY <2>1, <2>2 DEF FInv, FieldsComeOut, ToSet
  <2>4. Running' = Running /\ TagFound' = TagFound /\ TagEnd' = TagEnd /\ Here' = Here /\ length' = length
    BY <2>1 DEF Running, TagFound, TagEnd, Here, length
  <2>5. AtField => AtField'
    <3> SUFFICES ASSUME AtField PROVE AtField'
      OBVIOUS
    <3>1. FieldsGiven'
      BY <2>1, GivenStays DEF AtField
    <3> QED
      BY <2>1, <2>2, <2>4, <3>1 DEF AtField, NoOpener, Char
  <2> QED
    BY <1>1, <2>2, <2>3, <2>4, <2>5 DEF FInv, Progress
<1> QED
  BY <1>2, <1>3, <1>4 DEF Next

(* Of a text in the format, of any length that the counters of main.cpp and  *)
(* ptcl_sleepy.h can count, every word or pair is given to the callback once,*)
(* in the order of the text, whole and without its separators, and no        *)
(* callback throws.                                                          *)
THEOREM EveryFieldOnce == Spec => []FieldsComeOut
<1>1. FInv => FieldsComeOut
  BY DEF FInv
<1> QED
  BY <1>1, InitFInv, StepFInv, PTL DEF Spec
=============================================================================
