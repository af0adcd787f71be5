------------------------------ MODULE TvpReader ------------------------------
(***************************************************************************)
(* The readers of tag=value messages under constexpr/: the tvp_reader of   *)
(* tvp.h, which points into its caller's buffer, and the older v1::msg_t   *)
(* (the same class in mich.2.cpp, mich.3.cpp and tvp_adami.cpp), which     *)
(* copies the message and means to be used again.                          *)
(*                                                                         *)
(* set gives a message.  The first getPair reads all of it, field by field,*)
(* and keeps the place of the last value of every tag the reader accepts;  *)
(* later calls find the reading position at the end and answer from these  *)
(* places.  A field that cannot be read throws, the call answers nothing,  *)
(* and the position stays before that field.                               *)
(*                                                                         *)
(* A message is a sequence of cells: "=", ";" for the separator, "x" for   *)
(* letters, or a whole tag number; places count cells from 0, as the code  *)
(* counts characters.  A place is two unsigned short, Wide stands for 2^16.*)
(***************************************************************************)
EXTENDS Integers, SequencesExt

CONSTANTS
  Kinds,         (* "tvp_reader", "msg_t"                                    *)
  Accepted,      (* the tags of the clipper                                  *)
  Numbers,       (* all tag numbers of the messages                          *)
  BodyLength,    (* the tag msg_t asks itself for, 9                         *)
  CheckSum,      (* the tag that closes a message, 10                        *)
  Messages,      (* what set is given                                        *)
  Wide,          (* values of an Offset                                      *)
  Capacity,      (* _max at first, in cells                                  *)
  Reserve,       (* reserve                                                  *)
  Limit,         (* the longest message msg_t takes                          *)
  Word,          (* bits of a size_t                                         *)
  MaxSets        (* calls of set (bounds the model)                          *)

(* The separator of the fields, the byte 1 or, in messages to read, ";".     *)
Sep == ";"

Cells == {"=", Sep, "x"} \cup Numbers

(* The powers of two of a size_t, and the first that is too large for it.    *)
Power[b \in 0..Word] == IF b = 0 THEN 1 ELSE 2 * Power[b - 1]

ASSUME TvpAssumption ==
  /\ Kinds \subseteq {"tvp_reader", "msg_t"}
  /\ Accepted \subseteq Numbers /\ BodyLength \in Accepted
  /\ Numbers \cap {"=", Sep, "x", "none"} = {}
  /\ Messages \subseteq Seq(Cells)
  /\ Wide \in Nat /\ Wide > 1
  /\ Capacity \in Nat /\ Reserve \in Nat /\ Limit \in Nat /\ Word \in Nat
  /\ MaxSets \in Nat

(* A size_t has 64 bits, and half of them are enough for a message of msg_t  *)
(* and the reserve.                                                          *)
ASSUME MsgAssumption ==
  \E j \in 0..Word : Word = 2 * Power[j] /\ Limit + Reserve < Power[Power[j]]

VARIABLES
  kind,          (* which of the two classes                                 *)
  checked,       (* the build has its assertions                             *)
  message,       (* what _content points to                                  *)
  size,          (* _originalSize                                            *)
  position,      (* _lastLookupPosition                                      *)
  places,        (* _alreadySeenTagsCache                                    *)
  room,          (* _max                                                     *)
  asked,         (* TAG of the last getPair, or nothing                      *)
  reading,       (* that call is still in its loop                           *)
  answer,        (* the string_ref it has returned                           *)
  start,         (* where the reading of this message began (history)        *)
  sets,          (* calls of set (bounds the model)                          *)
  halt           (* "no", stopped by an assertion, or in an endless loop     *)

object == <<kind, checked, room, sets, halt>>
vars == <<object, message, size, position, places, asked, reading, answer, start>>

NoTag == "none"
Place(offset, len) == [offset |-> offset % Wide, len |-> len % Wide]
Nowhere == [t \in Accepted |-> Place(0, 0)]

(* The empty string_ref of a call that failed.                               *)
Nothing == Place(0, 0)

Fresh ==
  /\ message = <<>> /\ size = 0 /\ position = 0 /\ places = Nowhere
  /\ asked = NoTag /\ reading = FALSE /\ answer = Nothing /\ start = 0

Init ==
  /\ kind \in Kinds /\ checked \in BOOLEAN
  /\ room = Capacity /\ sets = 0 /\ halt = "no"
  /\ Fresh

Idle == halt = "no" /\ ~reading

-----------------------------------------------------------------------------
(* step: a tag up to the next "=", a value up to the separator after it.     *)
Equals == {i \in (position + 1)..size : message[i] = "="}
equal == Min(Equals)
Ends == {i \in (equal + 1)..size : message[i] = Sep}
end == Min(Ends)
TagText == SubSeq(message, position + 1, equal - 1)

(* tvp_reader: anything but a number is tag 0, which is never accepted.      *)
(* msg_t: stoi throws without a number in front, and takes no notice of what *)
(* comes after one.                                                          *)
Readable ==
  /\ Equals # {} /\ Ends # {} /\ end > equal + 1
  /\ kind = "msg_t" => TagText # <<>> /\ Head(TagText) \in Numbers

(* Mutant: a number in front is enough for both.                             *)
NamesFirst(t) == TagText # <<>> /\ Head(TagText) = t

Names(t) ==
  \/ TagText = <<t>>
  \/ /\ kind = "msg_t" /\ Len(TagText) > 1
     /\ Head(TagText) = t /\ TagText[2] \notin Numbers

(* The place of a value, in an unsigned short each.                          *)
(* Mutant: the places are not narrowed.                                      *)
WidePlaces ==
  [t \in Accepted |-> IF Names(t) THEN [offset |-> equal, len |-> end - equal - 1]
                      ELSE places[t]]

(* Mutant: the first value of a tag is kept.                                 *)
FirstPlaces ==
  [t \in Accepted |-> IF Names(t) /\ places[t].len = 0
                      THEN Place(equal, end - equal - 1) ELSE places[t]]

NewPlaces ==
  [t \in Accepted |-> IF Names(t) THEN Place(equal, end - equal - 1) ELSE places[t]]

-----------------------------------------------------------------------------
GetPair(t) ==
  /\ Idle
  /\ asked' = t /\ reading' = TRUE /\ answer' = Nothing
  /\ UNCHANGED <<object, message, size, position, places, start>>

(* One turn of the loop of getPair.                                          *)
ReadField ==
  /\ halt = "no" /\ reading /\ position < size /\ Readable
  /\ places' = NewPlaces
  /\ position' = end
  /\ UNCHANGED <<object, message, size, asked, reading, answer, start>>

(* The exception is caught: the answer stays empty, the position stays.      *)
(* Mutant: the place kept so far is the answer.                              *)
AnswerAnyway ==
  /\ halt = "no" /\ reading /\ position < size /\ ~Readable
  /\ reading' = FALSE /\ answer' = places[asked]
  /\ UNCHANGED <<object, message, size, position, places, asked, start>>

Fail ==
  /\ halt = "no" /\ reading /\ position < size /\ ~Readable
  /\ reading' = FALSE
  /\ UNCHANGED <<object, message, size, position, places, asked, answer, start>>

(* A tag without a place gets one: offset 1, with the length as it is.       *)
Found == IF places[asked].offset = 0 THEN [places[asked] EXCEPT !.offset = 1]
         ELSE places[asked]

Answer ==
  /\ halt = "no" /\ reading /\ position >= size
  /\ reading' = FALSE /\ answer' = Found
  /\ places' = [places EXCEPT ![asked] = Found]
  /\ UNCHANGED <<object, message, size, position, asked, start>>

-----------------------------------------------------------------------------
(* What both set do at last: the content is the message, nothing is asked.   *)
Give(m, n) ==
  /\ message' = m /\ size' = n
  /\ asked' = NoTag /\ answer' = Nothing

SetOnce == sets < MaxSets /\ sets' = sets + 1

(* An assertion stops the program, with everything as it is.                 *)
Stop(how) ==
  /\ halt' = how
  /\ UNCHANGED <<kind, checked, room, message, size, position, places,
                 asked, reading, answer, start>>

(* What both set keep of a message.  If the byte 1 and "10=" are the first   *)
(* four of the last eight characters, "10=" and the last four go, whatever   *)
(* these four are: from one to four cells.  How many characters a cell has   *)
(* is left open, so all of the message may be kept as well.  The byte 1 is   *)
(* the default separator of tvp_reader, and to msg_t, which separates with   *)
(* ";", a letter.  Of a message of seven characters it lies in front of the  *)
(* buffer, and what is there is not known; of a shorter message, what is     *)
(* there is taken not to complete the "10=".                                 *)
Mark == IF kind = "tvp_reader" THEN Sep ELSE "x"
Kept(m) ==
  {Len(m)} \cup
  {n \in 0..Len(m) :
     /\ Len(m) - n \in 3..6 /\ m[n + 1] = CheckSum /\ m[n + 2] = "="
     /\ n = 0 \/ m[n] = Mark}

(* tvp_reader::set asserts that no place is kept; the reading position it    *)
(* leaves as it is.                                                          *)
(* Mutant: it does not look.                                                 *)
NotAsserted == FALSE

Asserted == checked /\ places # Nowhere

ReaderSet(m, n) ==
  /\ SetOnce /\ kind = "tvp_reader" /\ ~Asserted
  /\ Give(m, n)
  /\ start' = position
  /\ UNCHANGED <<kind, checked, room, halt, position, places, reading>>

ReaderSetAsserts ==
  /\ SetOnce /\ kind = "tvp_reader" /\ Asserted
  /\ Stop("assert")

(* msg_t::set.  A message that is there is reset; the check at the end of    *)
(* reset asks the empty object for its BodyLength, and getPair writes.       *)
Cleared == IF size > 0 THEN [Nowhere EXCEPT ![BodyLength].offset = 1] ELSE places
Refused(m) == Len(m) > Limit

(* isEmpty asserts of an empty object, and set of one that was reset, that   *)
(* no place is kept.                                                         *)
SetAsserts(m) == checked /\ Cleared # Nowhere /\ (size = 0 \/ ~Refused(m))

(* roundUpToPowerOfTwo shifts left by 1, 2, 4, ...: after j turns every bit  *)
(* b has set b, b + 1, ..., b + 2^j - 1.  It ends when the lowest bits, and  *)
(* no others, are set; the numbers with bit 0 clear never come to that.      *)
Bits(n) == {b \in 0..(Word - 1) : (n \div Power[b]) % 2 = 1}
Smeared(n, j) == {b + k : b \in Bits(n), k \in 0..(Power[j] - 1)} \cap 0..(Word - 1)
Turns(n) ==
  {j \in 0..Word : Power[j] <= Word /\ Smeared(n, j) = 0..(Cardinality(Smeared(n, j)) - 1)}
RoundedUp(n) == Power[Cardinality(Smeared(n, Min(Turns(n))))] % Power[Word]

Need(n) == n + Reserve

(* Mutant: the reserve is added on the other side.                           *)
GrowsLate(n) == n > room + Reserve

Grows(n) == Need(n) > room
Wrong(n) ==
  LET power == RoundedUp(Need(n)) IN power < Need(n) \/ Need(n) < power \div 2

MsgSet(m, n) ==
  /\ SetOnce /\ kind = "msg_t" /\ ~SetAsserts(m) /\ ~Refused(m)
  /\ \/ ~Grows(n) /\ room' = room
     \/ /\ Grows(n) /\ Turns(Need(n)) # {} /\ ~(checked /\ Wrong(n))
        /\ room' = RoundedUp(Need(n))
  /\ Give(m, n)
  /\ position' = 0 /\ start' = 0 /\ places' = Cleared
  /\ UNCHANGED <<kind, checked, halt, reading>>

MsgSetRefused(m) ==
  /\ SetOnce /\ kind = "msg_t" /\ ~SetAsserts(m) /\ Refused(m)
  /\ Give(message, 0)
  /\ position' = 0 /\ start' = 0 /\ places' = Cleared
  /\ UNCHANGED <<kind, checked, room, halt, reading>>

MsgSetAsserts(m, n) ==
  /\ SetOnce /\ kind = "msg_t"
  /\ \/ SetAsserts(m)
     \/ /\ ~Refused(m) /\ Grows(n) /\ Turns(Need(n)) # {} /\ checked /\ Wrong(n)
  /\ Stop("assert")

MsgSetLoops(m, n) ==
  /\ SetOnce /\ kind = "msg_t" /\ ~SetAsserts(m) /\ ~Refused(m)
  /\ Grows(n) /\ Turns(Need(n)) = {}
  /\ Stop("loop")

(* n is how much of the message is kept.                                     *)
Set(m, n) ==
  \/ ReaderSet(m, n) \/ ReaderSetAsserts
  \/ MsgSet(m, n) \/ MsgSetRefused(m) \/ MsgSetAsserts(m, n) \/ MsgSetLoops(m, n)

Next ==
  \/ Idle /\ \E m \in Messages : \E n \in Kept(m) : Set(m, n)
  \/ \E t \in Accepted : GetPair(t)
  \/ ReadField \/ Fail \/ Answer

Spec == Init /\ [][Next]_vars

-----------------------------------------------------------------------------
(* What a message says, apart from the readers: the format cuts it at the    *)
(* separators, a field is a tag of one cell, "=" and a value that is not     *)
(* empty, and the last field of a tag counts.                                *)
Separators == {i \in 1..size : message[i] = Sep}
Before(e) == Max({0} \cup {i \in Separators : i < e})

Field(tag, e) ==
  /\ e \in Separators /\ e >= Before(e) + 4
  /\ message[Before(e) + 1] = tag /\ message[Before(e) + 2] = "="

ValueAt(e) == [offset |-> Before(e) + 2, len |-> e - Before(e) - 3]

(* tvp_reader says that it accepts tags that are no numbers.                 *)
TagCells == IF kind = "tvp_reader" THEN Numbers \cup {"x"} ELSE Numbers

Proper ==
  /\ size = 0 \/ message[size] = Sep
  /\ \A e \in Separators : \E tag \in TagCells : Field(tag, e)

Fits == start = 0 /\ size <= Wide

TypeOK ==
  /\ kind \in Kinds /\ checked \in BOOLEAN /\ reading \in BOOLEAN
  /\ message \in Seq(Cells) /\ size \in 0..Len(message)
  /\ position \in Nat /\ start \in Nat /\ room \in Nat /\ sets \in 0..MaxSets
  /\ places \in [Accepted -> [offset : 0..(Wide - 1), len : 0..(Wide - 1)]]
  /\ answer \in [offset : 0..(Wide - 1), len : 0..(Wide - 1)]
  /\ asked \in Accepted \cup {NoTag} /\ (reading => asked # NoTag)
  /\ halt \in {"no", "assert", "loop"}

(* Whatever was asked before, in whatever order, getPair answers with the    *)
(* last value the message has for the tag, and with nothing if it has none.  *)
AnswersTheMessage ==
  Fits /\ Proper /\ asked # NoTag /\ ~reading =>
    LET fields == {e \in Separators : Field(asked, e)}
    IN  IF fields = {} THEN answer.len = 0 ELSE answer = ValueAt(Max(fields))

(* Also of a message that is not proper tvp_reader never makes a value up:   *)
(* what it answers is a value that the message has for that tag.             *)
AnswersAreFields ==
  kind = "tvp_reader" /\ Fits /\ answer.len > 0 =>
    \E e \in Separators : Field(asked, e) /\ answer = ValueAt(e)

(* Of a message that was cut off, what set keeps ends without a separator:   *)
(* it answers nothing at all, not even the fields before the cut, however    *)
(* often it is asked.  (One that is cut off in its checksum set makes whole.)*)
TruncatedIsSilent ==
  start < size /\ message[size] # Sep => answer.len = 0

(* No answer reaches behind the message, also of a message longer than an    *)
(* Offset can say, also of a reader that was used before: the assertion of   *)
(* tvp_reader and the reset of msg_t keep the places of an earlier message   *)
(* from being used on a shorter one.                                         *)
InsideTheMessage ==
  checked \/ kind = "msg_t" => answer.len = 0 \/ answer.offset + answer.len <= size

(* Whatever roundUpToPowerOfTwo makes of it, set has room for the message it *)
(* copies.                                                                   *)
RoomForMessage == kind = "msg_t" => size <= room

(* What assert in set, isEmpty and roundUpToPowerOfTwo says.                 *)
AssertionsHold == halt # "assert"
=============================================================================
