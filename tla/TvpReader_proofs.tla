--------------------------- MODULE TvpReader_proofs ---------------------------
(***************************************************************************)
(* The readers of TvpReader, for any tags, any messages and any widths of  *)
(* an offset and of a size_t.  The argument: a place that is kept lies     *)
(* inside the message, with a cell to spare for the offset 1 that getPair  *)
(* gives to a place without one (PlacesInside); and the reading position   *)
(* is behind a separator or where it began (PositionBehindField), so that  *)
(* it never comes to the end of a message that was cut off.  Of tvp_reader *)
(* moreover a place without length, or one that some field of the message  *)
(* has for its value (ReaderInv), is all that is ever kept.  And of a      *)
(* proper message either reader has kept, at every moment of its reading,  *)
(* the last value of every tag in front of the position (ReadSoFar).       *)
(* That there is room for a message (RoomInv) is about what shifting to    *)
(* the left makes of a size: all bits of a size lie in the lower half of a *)
(* size_t, so that the highest bit is set only after as many turns as fill *)
(* all the bits below it (RoundedIsEnough).                                *)
(***************************************************************************)
EXTENDS TvpReader, FiniteSetTheorems, SequenceTheorems, WellFoundedInduction, TLAPS

(* The type invariant without what RoomInv says.                             *)
Shapes ==
  /\ kind \in Kinds
  /\ message \in Seq(Cells) /\ size \in 0..Len(message)
  /\ position \in Nat /\ start \in Nat
  /\ places \in [Accepted -> [offset : 0..(Wide - 1), len : 0..(Wide - 1)]]
  /\ answer \in [offset : 0..(Wide - 1), len : 0..(Wide - 1)]
  /\ asked \in Accepted \cup {NoTag} /\ (reading => asked # NoTag)

(* The value lies in front of a separator of the message, behind a tag       *)
(* and "=".                                                                  *)
Inside(p) == p.len = 0 \/ (p.offset + p.len < size /\ 1 + p.len < size)

PlacesInside == checked \/ kind = "msg_t" => \A t \in Accepted : Inside(places[t])

PositionBehindField ==
  start < size => \/ position = start
                  \/ position \in 1..size /\ message[position] = Sep

IInv == Shapes /\ PlacesInside /\ PositionBehindField /\ InsideTheMessage /\ TruncatedIsSilent

-----------------------------------------------------------------------------
(* A set of numbers that is not empty has its smallest member.               *)
LEMMA MinIsMember ==
  ASSUME NEW S \in SUBSET Nat, S # {}
  PROVE  Min(S) \in S /\ \A y \in S : Min(S) <= y
<1> DEFINE less == {pair \in Nat \X Nat : pair[1] < pair[2]}
<1>1. PICK x \in S : \A y \in S : <<y, x>> \notin less
  <2>1. IsWellFoundedOn(less, Nat)
    <3>1. OpToRel(<, Nat) = less
      BY Zenon DEF OpToRel
    <3> QED
      BY <3>1, NatLessThanWellFounded, Zenon
  <2> HIDE DEF less
  <2> QED
    BY <2>1, WFMin
<1>2. ASSUME NEW y \in S PROVE x <= y
  <2>1. x \in Nat /\ y \in Nat
    OBVIOUS
  <2>2. <<y, x>> \notin less
    BY <1>1
  <2>3. ~(y < x)
    BY <2>1, <2>2
  <2> QED
    BY <2>1, <2>3
<1> QED
  BY <1>2 DEF Min

LEMMA WideIsNat == Wide \in Nat /\ Wide > 1
  BY TvpAssumption

(* A place fits into its two unsigned shorts, and narrowing never makes a    *)
(* number larger.                                                            *)
LEMMA PlaceNarrow ==
  ASSUME NEW o \in Nat, NEW l \in Nat
  PROVE  /\ Place(o, l) \in [offset : 0..(Wide - 1), len : 0..(Wide - 1)]
         /\ Place(o, l).offset <= o
         /\ Place(o, l).len <= l
<1>1. Wide \in Nat /\ Wide > 1
  BY WideIsNat
<1>2. o % Wide \in 0..(Wide - 1) /\ o % Wide <= o
  BY <1>1, SMTT(30)
<1>3. l % Wide \in 0..(Wide - 1) /\ l % Wide <= l
  BY <1>1, SMTT(30)
<1> QED
  BY <1>1, <1>2, <1>3 DEF Place

(* The place of nothing has no length.                                       *)
LEMMA ZeroPlace ==
  /\ Nothing = [offset |-> 0, len |-> 0]
  /\ Nowhere = [t \in Accepted |-> [offset |-> 0, len |-> 0]]
<1>1. Wide \in Nat /\ Wide > 1
  BY WideIsNat
<1>2. 0 % Wide = 0
  BY <1>1
<1> QED
  BY <1>2 DEF Place, Nothing, Nowhere

(* set never keeps more of a message than there is.                          *)
LEMMA KeptInside ==
  ASSUME NEW m \in Seq(Cells), NEW n \in Kept(m)
  PROVE  n \in 0..Len(m)
<1>1. Len(m) \in Nat
  OBVIOUS
<1> QED
  BY <1>1 DEF Kept

(* A field that can be read: its "=" is behind the position, a value that is *)
(* not empty is behind that, and its separator is inside the message.        *)
LEMMA FieldPlaces ==
  ASSUME message \in Seq(Cells), size \in 0..Len(message), position \in Nat, Readable
  PROVE  /\ equal \in Nat /\ equal >= position + 1
         /\ end \in 1..size /\ end > equal + 1 /\ message[end] = Sep
         /\ message[equal] = "=" /\ \A i \in (equal + 1)..(end - 1) : message[i] # Sep
<1>0. size \in Nat
  OBVIOUS
<1>1. Equals \in SUBSET Nat /\ Equals # {}
  BY DEF Readable, Equals
<1>2. equal \in Equals
  BY <1>1, MinIsMember DEF equal
<1>3. equal \in Nat /\ equal >= position + 1 /\ message[equal] = "="
  <2> HIDE DEF equal
  <2> QED
    BY <1>2 DEF Equals
<1>4. Ends \in SUBSET Nat /\ Ends # {}
  <2>1. Ends # {}
    BY Zenon DEF Readable
  <2> QED
    BY <1>0, <1>3, <2>1 DEF Ends
<1>5. end \in Ends /\ \A i \in Ends : end <= i
  BY <1>4, MinIsMember DEF end
<1>6. end \in (equal + 1)..size /\ message[end] = Sep
  BY <1>5 DEF Ends
<1>7. end > equal + 1
  BY Zenon DEF Readable
<1>8. ASSUME NEW i \in (equal + 1)..(end - 1) PROVE message[i] # Sep
  <2>1. i \in (equal + 1)..size /\ ~(end <= i)
    BY <1>0, <1>3, <1>6
  <2> QED
    BY <1>5, <2>1 DEF Ends
<1> QED
  BY <1>0, <1>3, <1>6, <1>7, <1>8

-----------------------------------------------------------------------------
LEMMA InvInit == Init => IInv
<1> SUFFICES ASSUME Init PROVE IInv
  OBVIOUS
<1> USE DEF Init, Fresh
<1>1. Wide \in Nat /\ Wide > 1
  BY WideIsNat
<1>2. Shapes
  BY <1>1, ZeroPlace DEF Shapes
<1>3. PlacesInside
  BY ZeroPlace DEF PlacesInside, Inside
<1>4. PositionBehindField
  BY DEF PositionBehindField
<1>5. InsideTheMessage /\ TruncatedIsSilent
  BY ZeroPlace DEF InsideTheMessage, TruncatedIsSilent
<1> QED
  BY <1>2, <1>3, <1>4, <1>5 DEF IInv

LEMMA GetPairKeeps ==
  ASSUME IInv, NEW t \in Accepted, GetPair(t)
  PROVE  IInv'
<1> USE DEF IInv, GetPair, object
<1>1. t # NoTag
  BY TvpAssumption DEF NoTag
<1>2. Nothing.len = 0 /\ Nothing \in [offset : 0..(Wide - 1), len : 0..(Wide - 1)]
  BY ZeroPlace, WideIsNat
<1>3. Shapes'
  BY <1>1, <1>2 DEF Shapes
<1>4. PlacesInside'
  BY DEF PlacesInside, Inside
<1>5. PositionBehindField'
  BY DEF PositionBehindField
<1>6. InsideTheMessage' /\ TruncatedIsSilent'
  BY <1>2 DEF InsideTheMessage, TruncatedIsSilent
<1> QED
  BY <1>3, <1>4, <1>5, <1>6

(* A field is read: its value goes to the place of its tag, the position to  *)
(* its separator.                                                            *)
LEMMA ReadFieldKeeps ==
  ASSUME IInv, ReadField
  PROVE  IInv'
<1> DEFINE value == Place(equal, end - equal - 1)
<1>1. Shapes
  BY DEF IInv
<1>2. /\ equal \in Nat /\ equal >= 1
      /\ end \in 1..size /\ end > equal + 1 /\ message[end] = Sep
  <2>1. message \in Seq(Cells) /\ size \in 0..Len(message) /\ position \in Nat
    BY <1>1 DEF Shapes
  <2>2. Readable
    BY Zenon DEF ReadField
  <2>3. /\ equal \in Nat /\ equal >= position + 1
        /\ end \in 1..size /\ end > equal + 1 /\ message[end] = Sep
    BY <2>1, <2>2, FieldPlaces, Zenon
  <2>4. position \in Nat /\ equal \in Nat /\ equal >= position + 1 => equal >= 1
    OBVIOUS
  <2> QED
    BY <2>1, <2>3, <2>4, Zenon
<1> HIDE DEF equal, end
<1>3. size \in Nat
  BY <1>1 DEF Shapes
<1>4. end \in Nat /\ end <= size /\ end - equal - 1 \in Nat
  BY <1>2, <1>3
<1>5. /\ value \in [offset : 0..(Wide - 1), len : 0..(Wide - 1)]
      /\ value.offset <= equal /\ value.len <= end - equal - 1
  BY <1>2, <1>4, PlaceNarrow
<1>6. Inside(value)
  <2>1. value.offset \in Nat /\ value.len \in Nat
    BY <1>5, WideIsNat
  <2> HIDE DEF value
  <2> QED
    BY <1>2, <1>3, <1>4, <1>5, <2>1 DEF Inside
<1> HIDE DEF value
<1>7. /\ position' = end
      /\ UNCHANGED <<object, message, size, asked, reading, answer, start>>
  BY Zenon DEF ReadField
<1>8. \A t \in Accepted : places'[t] = value \/ places'[t] = places[t]
  BY Zenon DEF ReadField, NewPlaces, value
<1>9. places' \in [Accepted -> [offset : 0..(Wide - 1), len : 0..(Wide - 1)]]
  <2>1. places' = [t \in Accepted |-> IF Names(t) THEN value ELSE places[t]]
    BY Zenon DEF ReadField, NewPlaces, value
  <2>2. places \in [Accepted -> [offset : 0..(Wide - 1), len : 0..(Wide - 1)]]
    BY <1>1 DEF Shapes
  <2> QED
    BY <1>5, <2>1, <2>2
<1>10. Shapes'
  BY <1>1, <1>4, <1>7, <1>9 DEF Shapes, object
<1>11. PlacesInside'
  BY <1>6, <1>7, <1>8 DEF IInv, PlacesInside, Inside, object
<1>12. PositionBehindField'
  BY <1>2, <1>7 DEF PositionBehindField
<1>13. InsideTheMessage' /\ TruncatedIsSilent'
  BY <1>7 DEF IInv, InsideTheMessage, TruncatedIsSilent, object
<1> QED
  BY <1>10, <1>11, <1>12, <1>13 DEF IInv

LEMMA FailKeeps ==
  ASSUME IInv, Fail
  PROVE  IInv'
<1> USE DEF IInv, object
<1>1. /\ reading' = FALSE
      /\ UNCHANGED <<object, message, size, position, places, asked, answer, start>>
  BY Zenon DEF Fail
<1> QED
  BY <1>1 DEF Shapes, PlacesInside, Inside, PositionBehindField, InsideTheMessage,
              TruncatedIsSilent

(* The reading has come to its end: a place without an offset gets the       *)
(* offset 1, for which Inside has left room.                                 *)
LEMMA AnswerKeeps ==
  ASSUME IInv, Answer
  PROVE  IInv'
<1> USE DEF IInv
<1>1. Wide \in Nat /\ Wide > 1
  BY WideIsNat
<1>2. asked \in Accepted
  BY DEF Shapes, Answer
<1>3. /\ Found \in [offset : 0..(Wide - 1), len : 0..(Wide - 1)]
      /\ Found.len = places[asked].len
      /\ Found.offset = IF places[asked].offset = 0 THEN 1 ELSE places[asked].offset
  BY <1>1, <1>2, SMTT(30) DEF Shapes, Found
<1>4. Inside(places[asked]) => Inside(Found)
  BY <1>3 DEF Inside
<1> HIDE DEF Found
<1>5. Shapes'
  BY <1>2, <1>3 DEF Shapes, Answer, object
<1>6. PlacesInside'
  <2> SUFFICES ASSUME checked \/ kind = "msg_t", NEW t \in Accepted
               PROVE  Inside(places'[t])
    BY DEF PlacesInside, Inside, Answer, object
  <2>1. Inside(places[t])
    BY DEF PlacesInside
  <2>2. places'[t] = IF t = asked THEN Found ELSE places[t]
    BY DEF Answer, Shapes
  <2> QED
    BY <1>4, <2>1, <2>2
<1>7. PositionBehindField'
  BY DEF PositionBehindField, Answer
<1>8. InsideTheMessage'
  <2> SUFFICES ASSUME checked \/ kind = "msg_t"
               PROVE  Found.len = 0 \/ Found.offset + Found.len <= size
    BY DEF InsideTheMessage, Answer, object
  <2>1. Inside(Found)
    BY <1>2, <1>4 DEF PlacesInside
  <2>2. Found.offset \in Nat /\ Found.len \in Nat /\ size \in Nat
    BY <1>1, <1>3 DEF Shapes
  <2> QED
    BY <2>1, <2>2 DEF Inside
<1>9. TruncatedIsSilent'
  <2>1. /\ position \in Nat /\ start \in Nat /\ size \in Nat /\ position >= size
        /\ UNCHANGED <<message, size, start>>
    BY DEF Shapes, Answer
  <2>2. start < size => position = size /\ message[position] = Sep
    BY <2>1 DEF PositionBehindField
  <2> QED
    BY <2>1, <2>2 DEF TruncatedIsSilent
<1> QED
  BY <1>5, <1>6, <1>7, <1>8, <1>9

-----------------------------------------------------------------------------
(* After any set nothing is asked and nothing answered: the invariant holds  *)
(* if the places do not reach out of the new message and the position is     *)
(* where its reading begins.                                                 *)
LEMMA GivenKeeps ==
  ASSUME IInv, NEW m \in Seq(Cells), NEW n \in 0..Len(m), Give(m, n), ~reading,
         UNCHANGED <<kind, checked, reading>>,
         position' \in Nat, start' = position',
         places' \in [Accepted -> [offset : 0..(Wide - 1), len : 0..(Wide - 1)]],
         checked \/ kind = "msg_t" => \A t \in Accepted : places'[t].len = 0
  PROVE  IInv'
<1>1. Nothing.len = 0 /\ Nothing \in [offset : 0..(Wide - 1), len : 0..(Wide - 1)]
  BY ZeroPlace, WideIsNat
<1>2. message' = m /\ size' = n /\ asked' = NoTag /\ answer' = Nothing
  BY DEF Give
<1>3. Shapes'
  BY <1>1, <1>2 DEF IInv, Shapes
<1>4. PlacesInside'
  BY DEF PlacesInside, Inside
<1>5. PositionBehindField'
  BY DEF PositionBehindField
<1>6. InsideTheMessage' /\ TruncatedIsSilent'
  BY <1>1, <1>2 DEF InsideTheMessage, TruncatedIsSilent
<1> QED
  BY <1>3, <1>4, <1>5, <1>6 DEF IInv

(* set of a tvp_reader: with the assertion no place is kept from the message *)
(* before, without it nothing is said.                                       *)
LEMMA ReaderSetKeeps ==
  ASSUME IInv, Idle, NEW m \in Messages, NEW n \in Kept(m), ReaderSet(m, n)
  PROVE  IInv'
<1>1. m \in Seq(Cells)
  BY TvpAssumption
<1>2. Give(m, n)
  BY Zenon DEF ReaderSet
<1>3. n \in 0..Len(m)
  BY <1>1, KeptInside
<1>4. start' = position /\ UNCHANGED <<kind, checked, position, places, reading>>
  BY Zenon DEF ReaderSet
<1>5. ~reading /\ kind = "tvp_reader" /\ (checked => places = Nowhere)
  BY DEF ReaderSet, Asserted, Idle
<1>6. /\ position \in Nat
      /\ places \in [Accepted -> [offset : 0..(Wide - 1), len : 0..(Wide - 1)]]
  BY DEF IInv, Shapes
<1>7. checked \/ kind = "msg_t" => \A t \in Accepted : places'[t].len = 0
  BY <1>4, <1>5, ZeroPlace
<1> QED
  BY <1>1, <1>2, <1>3, <1>4, <1>5, <1>6, <1>7, GivenKeeps

(* msg_t keeps no place of the message before: reset has cleared them, or    *)
(* there was no message.                                                     *)
LEMMA ClearedPlaces ==
  ASSUME Shapes, PlacesInside, kind = "msg_t"
  PROVE  /\ Cleared \in [Accepted -> [offset : 0..(Wide - 1), len : 0..(Wide - 1)]]
         /\ \A t \in Accepted : Cleared[t].len = 0
<1>1. Wide \in Nat /\ Wide > 1 /\ BodyLength \in Accepted
  BY WideIsNat, TvpAssumption
<1>2. CASE size > 0
  <2>1. Cleared = [Nowhere EXCEPT ![BodyLength].offset = 1]
    BY <1>2 DEF Cleared
  <2> QED
    BY <1>1, <2>1, ZeroPlace
<1>3. CASE ~(size > 0)
  <2>1. Cleared = places
    BY <1>3 DEF Cleared
  <2>2. size = 0
    BY <1>3 DEF Shapes
  <2>3. ASSUME NEW t \in Accepted PROVE places[t].len = 0
    <3>1. places[t].offset \in Nat /\ places[t].len \in Nat
      BY <1>1 DEF Shapes
    <3>2. Inside(places[t])
      BY DEF PlacesInside
    <3> QED
      BY <2>2, <3>1, <3>2 DEF Inside
  <2> QED
    BY <2>1, <2>3 DEF Shapes
<1> QED
  BY <1>2, <1>3

LEMMA MsgSetKeeps ==
  ASSUME IInv, Idle, NEW m \in Messages, NEW n \in Kept(m),
         MsgSet(m, n) \/ MsgSetRefused(m)
  PROVE  IInv'
<1>1. /\ kind = "msg_t" /\ ~reading
      /\ position' = 0 /\ start' = 0 /\ places' = Cleared
      /\ UNCHANGED <<kind, checked, reading>>
      /\ Give(m, n) \/ Give(message, 0)
  BY Zenon DEF MsgSet, MsgSetRefused, Idle
<1>2. /\ m \in Seq(Cells) /\ n \in 0..Len(m)
      /\ message \in Seq(Cells) /\ 0 \in 0..Len(message)
  BY TvpAssumption, KeptInside DEF IInv, Shapes
<1>3. /\ places' \in [Accepted -> [offset : 0..(Wide - 1), len : 0..(Wide - 1)]]
      /\ \A t \in Accepted : places'[t].len = 0
  BY <1>1, ClearedPlaces DEF IInv
<1> QED
  BY <1>1, <1>2, <1>3, GivenKeeps

(* An assertion, an endless loop and a stutter leave all of this as it is.   *)
LEMMA StandingKeeps ==
  ASSUME IInv,
         UNCHANGED <<kind, checked, message, size, position, places,
                     asked, reading, answer, start>>
  PROVE  IInv'
BY DEF IInv, Shapes, PlacesInside, Inside, PositionBehindField, InsideTheMessage,
       TruncatedIsSilent

LEMMA InvNext == IInv /\ [Next]_vars => IInv'
<1> SUFFICES ASSUME IInv, [Next]_vars PROVE IInv'
  OBVIOUS
<1>1. ASSUME Idle, NEW m \in Messages, NEW n \in Kept(m), Set(m, n) PROVE IInv'
  <2>1. CASE ReaderSet(m, n)
    BY <1>1, <2>1, ReaderSetKeeps
  <2>2. CASE MsgSet(m, n) \/ MsgSetRefused(m)
    BY <1>1, <2>2, MsgSetKeeps
  <2>3. CASE ReaderSetAsserts \/ MsgSetAsserts(m, n) \/ MsgSetLoops(m, n)
    BY <2>3, StandingKeeps DEF ReaderSetAsserts, MsgSetAsserts, MsgSetLoops, Stop
  <2> QED
    BY <1>1, <2>1, <2>2, <2>3 DEF Set
<1>2. ASSUME NEW t \in Accepted, GetPair(t) PROVE IInv'
  BY <1>2, GetPairKeeps
<1>3. CASE ReadField
  BY <1>3, ReadFieldKeeps
<1>4. CASE Fail
  BY <1>4, FailKeeps
<1>5. CASE Answer
  BY <1>5, AnswerKeeps
<1>6. CASE UNCHANGED vars
  BY <1>6, StandingKeeps DEF vars, object
<1> QED
  BY <1>1, <1>2, <1>3, <1>4, <1>5, <1>6 DEF Next

LEMMA InvHolds == Spec => []IInv
<1> QED
  BY InvInit, InvNext, PTL DEF Spec

-----------------------------------------------------------------------------
(* No string_ref of getPair reaches behind the message that is set, whatever *)
(* the messages are and however short the two numbers of an Offset: the      *)
(* reader of a build with assertions, and msg_t in every build.              *)
THEOREM InsideTheMessageHolds == Spec => []InsideTheMessage
<1>1. IInv => InsideTheMessage
  BY DEF IInv
<1> QED
  BY InvHolds, <1>1, PTL

(* A message without a separator at its end answers nothing, to any sequence *)
(* of questions: step never comes to its end.                                *)
THEOREM TruncatedIsSilentHolds == Spec => []TruncatedIsSilent
<1>1. IInv => TruncatedIsSilent
  BY DEF IInv
<1> QED
  BY InvHolds, <1>1, PTL

-----------------------------------------------------------------------------
(* The second argument, for tvp_reader alone: a place that is kept is the    *)
(* value of a field that the message has for the tag.  It lies behind a tag  *)
(* and "=".                                                                  *)
FieldOf(t, p) == p.offset > 1 /\ \E e \in Separators : Field(t, e) /\ p = ValueAt(e)

BetweenFields ==
  /\ position = 0 => \A t \in Accepted : places[t].len = 0
  /\ start = 0 => position = 0 \/ (position \in Separators)

PlacesAreFields == Fits => \A t \in Accepted : places[t].len = 0 \/ FieldOf(t, places[t])

ReaderInv == kind = "tvp_reader" => BetweenFields /\ PlacesAreFields

FInv == IInv /\ ReaderInv /\ AnswersAreFields

(* A field that step reads and whose tag is the one number t is a field of   *)
(* the message, and its value is at ValueAt.                                 *)
LEMMA FieldRead ==
  ASSUME Shapes, kind = "tvp_reader", Readable, size <= Wide,
         position = 0 \/ position \in Separators,
         NEW t \in Accepted, Names(t)
  PROVE  /\ end \in Separators /\ Field(t, end)
         /\ Place(equal, end - equal - 1) = ValueAt(end)
         /\ Place(equal, end - equal - 1).offset > 1
<1>1. message \in Seq(Cells) /\ size \in 0..Len(message) /\ position \in Nat /\ size \in Nat
  BY DEF Shapes
<1>2. /\ equal \in Nat /\ equal >= position + 1
      /\ end \in 1..size /\ end > equal + 1 /\ message[end] = Sep
      /\ message[equal] = "=" /\ \A i \in (equal + 1)..(end - 1) : message[i] # Sep
  BY <1>1, FieldPlaces, Zenon
<1>3. TagText = <<t>>
  BY Zenon DEF Names
<1> HIDE DEF equal, end
<1>4. equal = position + 2 /\ message[position + 1] = t
  <2>1. Len(TagText) = 1 /\ TagText[1] = t
    BY <1>3
  <2> QED
    BY <1>1, <1>2, <2>1 DEF TagText
<1>5. t # Sep /\ "=" # Sep
  <2>1. t # Sep
    BY TvpAssumption
  <2>2. "=" # Sep
    BY Zenon DEF Sep
  <2> QED
    BY <2>1, <2>2
<1>6. end \in Separators
  BY <1>2 DEF Separators
<1>7. Before(end) = position
  <2> DEFINE S == {0} \cup {i \in Separators : i < end}
  <2>1. position \in S
    BY <1>1, <1>2 DEF Separators
  <2>2. ASSUME NEW i \in S PROVE i <= position
    <3>1. i \in Nat /\ i < end /\ (i = 0 \/ message[i] = Sep)
      BY <1>2 DEF Separators
    <3>2. i # position + 1 /\ i # equal
      BY <1>1, <1>2, <1>4, <1>5, <3>1
    <3>3. ~(i \in (equal + 1)..(end - 1))
      BY <1>2, <3>1
    <3> QED
      BY <1>1, <1>2, <1>4, <3>1, <3>2, <3>3
  <2>3. ASSUME NEW i \in S PROVE i \in Nat
    BY DEF Separators
  <2> HIDE DEF S
  <2>4. Max(S) = position
    <3>1. PICK x \in S : x = Max(S) /\ \A y \in S : x >= y
      BY <1>1, <2>1, <2>2, <2>3 DEF Max
    <3> QED
      BY <1>1, <2>1, <2>2, <2>3, <3>1
  <2> QED
    BY <2>4 DEF Before, S
<1>8. Field(t, end)
  BY <1>1, <1>2, <1>4, <1>6, <1>7 DEF Field
<1>9. Place(equal, end - equal - 1) = ValueAt(end)
  <2>1. equal \in 0..(Wide - 1) /\ end - equal - 1 \in 0..(Wide - 1)
    BY <1>1, <1>2, WideIsNat
  <2>2. equal % Wide = equal /\ (end - equal - 1) % Wide = end - equal - 1
    BY <2>1, WideIsNat
  <2>3. Before(end) + 2 = equal /\ end - Before(end) - 3 = end - equal - 1
    BY <1>1, <1>2, <1>4, <1>7
  <2> QED
    BY <2>2, <2>3 DEF Place, ValueAt
<1>10. ValueAt(end).offset > 1
  BY <1>1, <1>7 DEF ValueAt
<1> QED
  BY <1>6, <1>8, <1>9, <1>10

LEMMA ReaderInit == Init => FInv
<1> SUFFICES ASSUME Init PROVE FInv
  OBVIOUS
<1>1. ReaderInv
  BY ZeroPlace DEF Init, Fresh, ReaderInv, BetweenFields, PlacesAreFields
<1>2. AnswersAreFields
  BY ZeroPlace DEF Init, Fresh, AnswersAreFields
<1> QED
  BY <1>1, <1>2, InvInit DEF FInv

LEMMA ReaderSetFields ==
  ASSUME FInv, NEW m \in Messages, NEW n \in Kept(m), ReaderSet(m, n)
  PROVE  ReaderInv' /\ AnswersAreFields'
<1>1. start' = position /\ answer' = Nothing /\ UNCHANGED <<kind, position, places>>
  BY Zenon DEF ReaderSet, Give
<1>2. kind = "tvp_reader"
  BY Zenon DEF ReaderSet
<1>3. AnswersAreFields'
  BY <1>1, ZeroPlace DEF AnswersAreFields
<1>4. BetweenFields'
  BY <1>1, <1>2 DEF FInv, ReaderInv, BetweenFields
<1>5. PlacesAreFields'
  BY <1>1, <1>2 DEF FInv, ReaderInv, BetweenFields, PlacesAreFields, Fits
<1> QED
  BY <1>3, <1>4, <1>5 DEF ReaderInv

LEMMA ReadFieldFields ==
  ASSUME FInv, ReadField
  PROVE  ReaderInv' /\ AnswersAreFields'
<1> USE DEF FInv
<1>1. /\ position' = end
      /\ UNCHANGED <<kind, message, size, asked, answer, start>>
      /\ Readable /\ position < size
      /\ places' = NewPlaces
  BY Zenon DEF ReadField, object
<1>2. AnswersAreFields'
  BY <1>1 DEF AnswersAreFields, Fits, Separators, Field, ValueAt, Before
<1>3. ASSUME kind = "tvp_reader" PROVE BetweenFields' /\ PlacesAreFields'
  <2>1. end \in 1..size /\ message[end] = Sep
    <3>1. message \in Seq(Cells) /\ size \in 0..Len(message) /\ position \in Nat
      BY DEF IInv, Shapes
    <3> QED
      BY <1>1, <3>1, FieldPlaces, Zenon
  <2> HIDE DEF end
  <2>2. BetweenFields'
    BY <1>1, <2>1 DEF BetweenFields, Separators
  <2>3. ASSUME Fits, NEW t \in Accepted PROVE places'[t].len = 0 \/ FieldOf(t, places'[t])
    <3>1. size <= Wide /\ (position = 0 \/ position \in Separators)
      BY <1>3, <2>3 DEF Fits, ReaderInv, BetweenFields
    <3>2. CASE Names(t)
      <4>1. places'[t] = Place(equal, end - equal - 1)
        BY <1>1, <3>2, Zenon DEF NewPlaces
      <4>2. /\ end \in Separators /\ Field(t, end)
            /\ Place(equal, end - equal - 1) = ValueAt(end)
            /\ Place(equal, end - equal - 1).offset > 1
        BY <1>1, <1>3, <3>1, <3>2, FieldRead DEF IInv
      <4> QED
        BY <4>1, <4>2, Zenon DEF FieldOf
    <3>3. CASE ~Names(t)
      <4>1. places'[t] = places[t]
        BY <1>1, <3>3, Zenon DEF NewPlaces
      <4> QED
        BY <1>3, <2>3, <4>1 DEF ReaderInv, PlacesAreFields
    <3> QED
      BY <3>2, <3>3
  <2>4. Fits' = Fits
    BY <1>1 DEF Fits
  <2>5. ASSUME NEW t \in Accepted, FieldOf(t, places'[t])
        PROVE  FieldOf(t, places[t])'
    BY <1>1, <2>5 DEF FieldOf, Separators, Field, ValueAt, Before
  <2>6. PlacesAreFields'
    BY <2>3, <2>4, <2>5 DEF PlacesAreFields
  <2> QED
    BY <2>2, <2>6
<1> QED
  BY <1>1, <1>2, <1>3 DEF ReaderInv

(* The offset 1 is given to places without a value only.                     *)
LEMMA AnswerFields ==
  ASSUME FInv, Answer
  PROVE  ReaderInv' /\ AnswersAreFields'
<1> USE DEF FInv
<1>1. /\ answer' = Found /\ places' = [places EXCEPT ![asked] = Found]
      /\ UNCHANGED <<kind, message, size, position, start>>
      /\ asked' = asked
  BY Zenon DEF Answer, object
<1>2. asked \in Accepted
  BY DEF IInv, Shapes, Answer
<1>3. places \in [Accepted -> [offset : 0..(Wide - 1), len : 0..(Wide - 1)]]
  BY DEF IInv, Shapes
<1>4. Found.len = places[asked].len
  BY <1>2, <1>3 DEF Found
<1>5. ASSUME kind = "tvp_reader", Fits PROVE Found.len = 0 \/ FieldOf(asked, Found)
  <2>1. places[asked].len = 0 \/ FieldOf(asked, places[asked])
    BY <1>2, <1>5 DEF ReaderInv, PlacesAreFields
  <2>2. CASE FieldOf(asked, places[asked])
    <3>1. Found = places[asked]
      BY <2>2 DEF FieldOf, Found
    <3> QED
      BY <2>2, <3>1
  <2> QED
    BY <1>4, <2>1, <2>2
<1> HIDE DEF Found
<1>6. AnswersAreFields'
  BY <1>1, <1>5 DEF AnswersAreFields, FieldOf, Fits, Separators, Field, ValueAt, Before
<1>7. BetweenFields' \/ kind # "tvp_reader"
  BY <1>1, <1>2, <1>3, <1>4 DEF ReaderInv, BetweenFields, Separators
<1>8. PlacesAreFields' \/ kind # "tvp_reader"
  <2> SUFFICES ASSUME kind = "tvp_reader", Fits, NEW t \in Accepted
               PROVE  places'[t].len = 0 \/ FieldOf(t, places'[t])
    BY <1>1 DEF PlacesAreFields, FieldOf, Fits, Separators, Field, ValueAt, Before
  <2>1. places'[t] = IF t = asked THEN Found ELSE places[t]
    BY <1>1, <1>2, <1>3
  <2> QED
    BY <1>5, <2>1 DEF ReaderInv, PlacesAreFields
<1> QED
  BY <1>1, <1>6, <1>7, <1>8 DEF ReaderInv

(* Any other step of a tvp_reader leaves the message and the places alone    *)
(* and gives no answer.                                                      *)
LEMMA OtherwiseFields ==
  ASSUME FInv, UNCHANGED <<kind, message, size, position, places, start>>,
         (answer' = answer /\ asked' = asked) \/ answer' = Nothing
  PROVE  ReaderInv' /\ AnswersAreFields'
<1> USE DEF FInv
<1>1. ReaderInv'
  BY DEF ReaderInv, BetweenFields, PlacesAreFields, FieldOf, Fits, Separators, Field,
         ValueAt, Before
<1>2. CASE answer' = answer /\ asked' = asked
  BY <1>1, <1>2 DEF AnswersAreFields, Fits, Separators, Field, ValueAt, Before
<1>3. CASE answer' = Nothing
  <2>1. AnswersAreFields'
    BY <1>3, ZeroPlace DEF AnswersAreFields
  <2> QED
    BY <1>1, <2>1
<1> QED
  BY <1>2, <1>3

LEMMA ReaderNext == FInv /\ [Next]_vars => FInv'
<1> SUFFICES ASSUME FInv, [Next]_vars PROVE ReaderInv' /\ AnswersAreFields'
  BY InvNext DEF FInv
<1>1. ASSUME NEW m \in Messages, NEW n \in Kept(m), Set(m, n) PROVE ReaderInv' /\ AnswersAreFields'
  <2>1. CASE ReaderSet(m, n)
    BY <2>1, ReaderSetFields
  <2>2. CASE MsgSet(m, n) \/ MsgSetRefused(m)
    <3>1. kind' = "msg_t"
      BY <2>2, Zenon DEF MsgSet, MsgSetRefused
    <3> QED
      BY <3>1 DEF ReaderInv, AnswersAreFields
  <2>3. CASE ReaderSetAsserts \/ MsgSetAsserts(m, n) \/ MsgSetLoops(m, n)
    BY <2>3, OtherwiseFields DEF ReaderSetAsserts, MsgSetAsserts, MsgSetLoops, Stop
  <2> QED
    BY <1>1, <2>1, <2>2, <2>3 DEF Set
<1>2. ASSUME NEW t \in Accepted, GetPair(t) PROVE ReaderInv' /\ AnswersAreFields'
  BY <1>2, OtherwiseFields DEF GetPair, object
<1>3. CASE ReadField
  BY <1>3, ReadFieldFields
<1>4. CASE Fail
  <2>1. UNCHANGED <<kind, message, size, position, places, asked, answer, start>>
    BY <1>4, Zenon DEF Fail, object
  <2> QED
    BY <2>1, OtherwiseFields
<1>5. CASE Answer
  BY <1>5, AnswerFields
<1>6. CASE UNCHANGED vars
  BY <1>6, OtherwiseFields DEF vars, object
<1> QED
  BY <1>1, <1>2, <1>3, <1>4, <1>5, <1>6 DEF Next

(* Also of a message that is not proper tvp_reader makes no value up: what   *)
(* getPair answers is a value that the message has for the tag that was      *)
(* asked, whatever was asked before, in whatever order.                      *)
THEOREM AnswersAreFieldsHolds == Spec => []AnswersAreFields
<1>1. FInv => AnswersAreFields
  BY DEF FInv
<1> QED
  BY ReaderInit, ReaderNext, <1>1, PTL DEF Spec

-----------------------------------------------------------------------------
(* The third argument, for both readers and a message that is proper: behind *)
(* the position the next field can be read, so that no reading fails; and the*)
(* places are those of the last fields before the position.                  *)
NothingKept == position = 0 => \A t \in Accepted : places[t].len = 0

FieldsRead(t) == {e \in Separators : e <= position /\ Field(t, e)}

LastRead(t) ==
  IF FieldsRead(t) = {} THEN places[t].len = 0 ELSE places[t] = ValueAt(Max(FieldsRead(t)))

ReadSoFar ==
  /\ position = 0 \/ position \in Separators
  /\ \A t \in Accepted : LastRead(t)

ProperInv == NothingKept /\ (Fits /\ Proper => ReadSoFar)

AInv == IInv /\ ProperInv /\ AnswersTheMessage

LEMMA MaxIs ==
  ASSUME NEW S \in SUBSET Int, NEW m \in S, \A y \in S : y <= m
  PROVE  Max(S) = m
<1>1. \E x \in S : \A y \in S : x >= y
  OBVIOUS
<1>2. Max(S) \in S /\ \A y \in S : Max(S) >= y
  BY <1>1 DEF Max
<1>3. Max(S) \in Int /\ m \in Int /\ m <= Max(S) /\ Max(S) <= m
  BY <1>2
<1> QED
  BY <1>3

LEMMA MinOf ==
  ASSUME NEW S \in SUBSET Int, NEW m \in S, \A y \in S : m <= y
  PROVE  Min(S) = m
<1>1. \E x \in S : \A y \in S : x <= y
  OBVIOUS
<1>2. Min(S) \in S /\ \A y \in S : Min(S) <= y
  BY <1>1 DEF Min
<1>3. Min(S) \in Int /\ m \in Int /\ m <= Min(S) /\ Min(S) <= m
  BY <1>2
<1> QED
  BY <1>3

LEMMA OneCell ==
  ASSUME NEW S, NEW m \in Seq(S), NEW k \in 1..Len(m)
  PROVE  SubSeq(m, k, k) = <<m[k]>>
<1> DEFINE one == SubSeq(m, k, k)
<1>1. k \in Int /\ k <= k /\ k - k + 1 = 1
  OBVIOUS
<1>2. \A i \in k..k : m[i] \in S
  OBVIOUS
<1>3. one \in Seq(S) /\ Len(one) = 1 /\ \A i \in 1..1 : one[i] = m[k + i - 1]
  <2>1. /\ one \in Seq(S) /\ Len(one) = IF k <= k THEN k - k + 1 ELSE 0
        /\ \A i \in 1..(k - k + 1) : one[i] = m[k + i - 1]
    BY <1>1, <1>2, SubSeqProperties
  <2> HIDE DEF one
  <2> QED
    BY <1>1, <2>1
<1>4. one = <<one[1]>> /\ one[1] = m[k]
  <2> HIDE DEF one
  <2> QED
    BY <1>1, <1>3
<1> QED
  BY <1>4

(* A tag is neither of the two characters that make a field.                 *)
LEMMA TagIsNone ==
  ASSUME NEW tag \in TagCells
  PROVE  tag # "=" /\ tag # Sep
<1>1. "x" # "=" /\ "x" # Sep
  BY Zenon DEF Sep
<1>2. \A n \in Numbers : n # "=" /\ n # Sep
  BY TvpAssumption, Zenon
<1> QED
  BY <1>1, <1>2 DEF TagCells

(* The next field of a proper message can be read, and is read as it is.     *)
LEMMA ProperField ==
  ASSUME Shapes, Proper, position = 0 \/ position \in Separators, position < size
  PROVE  /\ Readable /\ end \in Separators /\ position < end
         /\ \A i \in Separators : i <= end => i <= position \/ i = end
         /\ equal = Before(end) + 2 /\ end >= Before(end) + 4 /\ Before(end) \in Nat
         /\ TagText = <<message[Before(end) + 1]>> /\ message[Before(end) + 2] = "="
<1>1. message \in Seq(Cells) /\ size \in Nat /\ size <= Len(message) /\ position \in Nat /\ Len(message) \in Nat
  BY DEF Shapes
<1>2. \A i \in Separators : i \in Nat /\ i \in 1..size /\ message[i] = Sep
  BY <1>1 DEF Separators
<1> DEFINE S == {i \in Separators : i > position}
           e == Min(S)
<1>3. S \in SUBSET Nat /\ S # {}
  <2>1. size # 0
    BY <1>1
  <2>2. message[size] = Sep
    BY <2>1 DEF Proper
  <2>3. size \in S
    BY <1>1, <2>1, <2>2 DEF Separators
  <2> QED
    BY <1>2, <2>3
<1>4. e \in S /\ \A y \in S : e <= y
  BY <1>3, MinIsMember
<1>5. e \in Separators /\ e \in 1..size /\ position < e
  BY <1>2, <1>4
<1>6. \A i \in Separators : i <= e => i <= position \/ i = e
  <2> SUFFICES ASSUME NEW i \in Separators, i <= e, ~(i <= position) PROVE i = e
    OBVIOUS
  <2>1. i \in Nat
    BY <1>2
  <2>2. i \in S
    BY <1>1, <2>1
  <2>3. e <= i /\ e \in Nat
    BY <1>4, <1>5, <2>2
  <2> QED
    BY <2>1, <2>3
<1> HIDE DEF S, e
<1>7. Before(e) = position
  <2> DEFINE T == {0} \cup {i \in Separators : i < e}
  <2>1. T \in SUBSET Int
    BY <1>2
  <2>2. position \in T
    BY <1>5
  <2>3. \A y \in T : y <= position
    <3> SUFFICES ASSUME NEW y \in T PROVE y <= position
      OBVIOUS
    <3>1. CASE y = 0
      BY <1>1, <3>1
    <3>2. CASE y \in Separators /\ y < e
      <4>1. y \in Nat /\ e \in Nat
        BY <1>2, <1>5, <3>2
      <4> QED
        BY <1>6, <3>2, <4>1
    <3> QED
      BY <3>1, <3>2
  <2> HIDE DEF T
  <2>4. Max(T) = position
    BY <2>1, <2>2, <2>3, MaxIs
  <2> QED
    BY <2>4 DEF Before, T
<1>8. PICK tag \in TagCells : Field(tag, e)
  BY <1>5 DEF Proper
<1>9. e >= position + 4 /\ message[position + 1] = tag /\ message[position + 2] = "="
  BY <1>7, <1>8 DEF Field
<1>10. tag # "=" /\ tag # Sep
  BY TagIsNone
<1>11. equal = position + 2 /\ Equals # {}
  <2>1. position + 2 \in Equals
    BY <1>1, <1>5, <1>9 DEF Equals
  <2>2. \A y \in Equals : y \in Int /\ position + 2 <= y
    <3> SUFFICES ASSUME NEW y \in Equals PROVE y \in Int /\ position + 2 <= y
      OBVIOUS
    <3>1. y \in (position + 1)..size /\ message[y] = "="
      BY DEF Equals
    <3>2. y # position + 1
      BY <1>9, <1>10, <3>1
    <3> QED
      BY <1>1, <3>1, <3>2
  <2>3. Equals \in SUBSET Int
    BY <2>2
  <2> QED
    BY <2>1, <2>2, <2>3, MinOf DEF equal
<1>12. end = e /\ Ends # {}
  <2>1. Ends = {i \in (position + 3)..size : message[i] = Sep}
    <3>1. equal + 1 = position + 3
      BY <1>1, <1>11
    <3> QED
      BY <3>1 DEF Ends
  <2>2. e \in Ends
    BY <1>1, <1>2, <1>5, <1>9, <2>1
  <2>3. \A y \in Ends : y \in Int /\ e <= y
    <3> SUFFICES ASSUME NEW y \in Ends PROVE y \in Int /\ e <= y
      OBVIOUS
    <3>1. y \in Nat /\ y > position /\ y \in Separators
      BY <1>1, <2>1 DEF Separators
    <3>2. y \in S
      BY <3>1 DEF S
    <3> QED
      BY <1>4, <3>1, <3>2
  <2>4. Ends \in SUBSET Int
    BY <2>3
  <2> QED
    BY <2>2, <2>3, <2>4, MinOf DEF end
<1> HIDE DEF equal, end
<1>13. TagText = <<tag>>
  <2>1. equal - 1 = position + 1
    BY <1>1, <1>11
  <2>2. TagText = SubSeq(message, position + 1, position + 1)
    BY <2>1 DEF TagText
  <2>3. position + 1 \in 1..Len(message)
    BY <1>1, <1>5
  <2>4. SubSeq(message, position + 1, position + 1) = <<message[position + 1]>>
    BY <1>1, <2>3, OneCell
  <2> QED
    BY <1>9, <2>2, <2>4
<1>14. Readable
  <2>1. TagText # <<>> /\ Head(TagText) = tag
    BY <1>13
  <2>2. kind = "msg_t" => tag \in Numbers
    BY <1>8 DEF TagCells
  <2>3. end > equal + 1
    BY <1>1, <1>5, <1>9, <1>11, <1>12
  <2> QED
    BY <1>11, <1>12, <2>1, <2>2, <2>3 DEF Readable
<1> QED
  BY <1>1, <1>5, <1>6, <1>7, <1>9, <1>11, <1>12, <1>13, <1>14

LEMMA MaxIsMember ==
  ASSUME NEW S \in SUBSET Nat, S # {}, NEW b \in Nat, \A y \in S : y <= b
  PROVE  Max(S) \in S /\ \A y \in S : y <= Max(S)
<1> DEFINE U == {u \in Nat : \A y \in S : y <= u}
           m == Min(U)
<1>1. U \in SUBSET Nat /\ b \in U
  OBVIOUS
<1>2. m \in U /\ \A u \in U : m <= u
  BY <1>1, MinIsMember
<1>3. m \in Nat /\ \A y \in S : y <= m
  BY <1>2
<1>4. m \in S
  <2> SUFFICES ASSUME m \notin S PROVE FALSE
    OBVIOUS
  <2>1. \A y \in S : y \in Nat /\ y <= m - 1
    BY <1>3
  <2>2. m - 1 \in Nat
    <3>1. PICK y \in S : y \in Nat
      OBVIOUS
    <3> HIDE DEF m
    <3>2. y <= m - 1
      BY <2>1
    <3> QED
      BY <1>3, <3>1, <3>2
  <2>3. m - 1 \in U
    BY <2>1, <2>2
  <2>4. m <= m - 1
    BY <1>2, <2>3
  <2> QED
    BY <1>3, <2>4
<1> HIDE DEF m
<1>5. Max(S) = m
  BY <1>3, <1>4, MaxIs
<1> QED
  BY <1>3, <1>4, <1>5

(* The field in front begins somewhere in the message.                       *)
LEMMA BeforeIsNat ==
  ASSUME size \in Nat, NEW e
  PROVE  Before(e) \in Nat
<1> DEFINE S == {0} \cup {i \in Separators : i < e}
<1>1. S \in SUBSET Nat /\ S # {} /\ \A y \in S : y <= size
  BY DEF Separators
<1> HIDE DEF S
<1>2. Max(S) \in Nat
  BY <1>1, MaxIsMember
<1> QED
  BY <1>2 DEF Before, S

(* Reading the next field of a proper message makes its place the one kept   *)
(* of its tag, and leaves the places of the others.                          *)
LEMMA ProperRead ==
  ASSUME Shapes, Fits, Proper, ReadSoFar, position < size, NEW t \in Accepted
  PROVE  LET now == {e \in Separators : e <= end /\ Field(t, e)}
         IN  IF now = {} THEN NewPlaces[t].len = 0 ELSE NewPlaces[t] = ValueAt(Max(now))
<1> DEFINE now == {e \in Separators : e <= end /\ Field(t, e)}
<1>1. /\ size \in Nat /\ size <= Wide /\ Wide \in Nat /\ position \in Nat
      /\ position = 0 \/ position \in Separators
      /\ LastRead(t)
  BY WideIsNat DEF Shapes, Fits, ReadSoFar
<1>2. /\ end \in Separators /\ position < end
      /\ \A i \in Separators : i <= end => i <= position \/ i = end
      /\ equal = Before(end) + 2 /\ end >= Before(end) + 4 /\ Before(end) \in Nat
      /\ TagText = <<message[Before(end) + 1]>> /\ message[Before(end) + 2] = "="
  BY <1>1, ProperField, Zenon
<1> HIDE DEF equal, end
<1>3. end \in Nat /\ end <= size /\ \A i \in Separators : i \in Nat
  BY <1>1, <1>2 DEF Separators
<1>4. Names(t) <=> message[Before(end) + 1] = t
  <2>1. Len(TagText) = 1 /\ (TagText = <<t>> <=> message[Before(end) + 1] = t)
    BY <1>2
  <2> QED
    BY <2>1 DEF Names
<1>5. Field(t, end) <=> message[Before(end) + 1] = t
  BY <1>2, Zenon DEF Field
<1>6. NewPlaces[t] = IF Names(t) THEN Place(equal, end - equal - 1) ELSE places[t]
  BY DEF NewPlaces
<1>7. CASE Field(t, end)
  <2>1. end \in now /\ now \in SUBSET Int /\ \A y \in now : y <= end
    <3>1. end <= end
      BY <1>3
    <3>2. end \in now
      BY <1>2, <1>7, <3>1
    <3>3. \A y \in now : y \in Separators /\ y <= end
      OBVIOUS
    <3> HIDE DEF now
    <3> QED
      BY <1>3, <3>2, <3>3
  <2>2. Max(now) = end
    <3> HIDE DEF now
    <3> QED
      BY <2>1, MaxIs
  <2>3. Place(equal, end - equal - 1) = ValueAt(end)
    <3>1. equal \in 0..(Wide - 1) /\ end - equal - 1 \in 0..(Wide - 1)
      BY <1>1, <1>2, <1>3
    <3>2. equal % Wide = equal /\ (end - equal - 1) % Wide = end - equal - 1
      BY <3>1, <1>1, WideIsNat
    <3>3. Before(end) + 2 = equal /\ end - Before(end) - 3 = end - equal - 1
      BY <1>2, <1>3
    <3> QED
      BY <3>2, <3>3 DEF Place, ValueAt
  <2>4. NewPlaces[t] = ValueAt(Max(now))
    BY <1>4, <1>5, <1>6, <1>7, <2>2, <2>3, Zenon
  <2> QED
    BY <2>1, <2>4, Zenon
<1>8. CASE ~Field(t, end)
  <2>1. now = FieldsRead(t)
    <3>1. \A e \in Separators : Field(t, e) => (e <= end <=> e <= position)
      BY <1>1, <1>2, <1>3, <1>8
    <3> QED
      BY <3>1 DEF FieldsRead
  <2>2. NewPlaces[t] = places[t]
    BY <1>4, <1>5, <1>6, <1>8, Zenon
  <2> QED
    BY <1>1, <2>1, <2>2 DEF LastRead
<1> QED
  BY <1>7, <1>8

-----------------------------------------------------------------------------
(* What a message says changes with the message alone.                       *)
LEMMA SameMessage ==
  ASSUME UNCHANGED <<kind, message, size, start>>
  PROVE  /\ Fits' = Fits /\ Proper' = Proper /\ Separators' = Separators
         /\ \A t, e : Field(t, e)' = Field(t, e)
         /\ \A e : ValueAt(e)' = ValueAt(e)
<1>1. Separators' = Separators
  BY DEF Separators
<1>2. \A e : Before(e)' = Before(e)
  BY <1>1, Zenon DEF Before
<1>3. \A t, e : Field(t, e)' = Field(t, e)
  BY <1>1, <1>2 DEF Field
<1>4. \A e : ValueAt(e)' = ValueAt(e)
  BY <1>2, Zenon DEF ValueAt
<1>5. Proper' = Proper
  BY <1>1, <1>3 DEF Proper, TagCells
<1> QED
  BY <1>1, <1>3, <1>4, <1>5 DEF Fits

LEMMA AnswersInit == Init => AInv
<1> SUFFICES ASSUME Init PROVE AInv
  OBVIOUS
<1> USE DEF Init, Fresh
<1>1. NothingKept
  BY ZeroPlace DEF NothingKept
<1>2. ReadSoFar
  <2>1. Separators = {}
    BY DEF Separators
  <2> QED
    BY <2>1, ZeroPlace DEF ReadSoFar, LastRead, FieldsRead
<1>3. AnswersTheMessage
  BY DEF AnswersTheMessage
<1> QED
  BY <1>1, <1>2, <1>3, InvInit DEF AInv, ProperInv

(* A message that begins with its reading has been read to nowhere yet.      *)
LEMMA BeginningIsRead ==
  ASSUME size \in Nat, position = start, NothingKept, asked = NoTag
  PROVE  ProperInv /\ AnswersTheMessage
<1>1. AnswersTheMessage
  BY Zenon DEF AnswersTheMessage
<1>2. ASSUME Fits PROVE ReadSoFar
  <2>1. position = 0
    BY <1>2 DEF Fits
  <2>2. \A e \in Separators : ~(e <= position)
    BY <2>1 DEF Separators
  <2>3. ASSUME NEW t \in Accepted PROVE LastRead(t)
    <3>1. FieldsRead(t) = {}
      BY <2>2 DEF FieldsRead
    <3> QED
      BY <2>1, <3>1 DEF LastRead, NothingKept
  <2> QED
    BY <2>1, <2>3 DEF ReadSoFar
<1> QED
  BY <1>1, <1>2 DEF ProperInv

(* The same of the state after a step.                                       *)
LEMMA BeginningIsReadNext ==
  (size \in Nat /\ position = start /\ NothingKept /\ asked = NoTag)'
    => (ProperInv /\ AnswersTheMessage)'
BY BeginningIsRead, PTL

LEMMA ReaderSetAnswers ==
  ASSUME AInv, IInv', NEW m \in Messages, NEW n \in Kept(m), ReaderSet(m, n)
  PROVE  ProperInv' /\ AnswersTheMessage'
<1>1. start' = position /\ asked' = NoTag /\ UNCHANGED <<position, places>>
  BY Zenon DEF ReaderSet, Give
<1>2. size' \in Nat
  BY DEF IInv, Shapes
<1>3. NothingKept'
  BY <1>1 DEF AInv, ProperInv, NothingKept
<1> QED
  BY <1>1, <1>2, <1>3, BeginningIsReadNext

LEMMA MsgSetAnswers ==
  ASSUME AInv, IInv', NEW m \in Messages, NEW n \in Kept(m),
         MsgSet(m, n) \/ MsgSetRefused(m)
  PROVE  ProperInv' /\ AnswersTheMessage'
<1>1. /\ kind = "msg_t" /\ position' = 0 /\ start' = 0 /\ places' = Cleared
      /\ asked' = NoTag
  BY Zenon DEF MsgSet, MsgSetRefused, Give
<1>2. size' \in Nat
  BY DEF IInv, Shapes
<1>3. NothingKept'
  BY <1>1, ClearedPlaces DEF AInv, IInv, NothingKept
<1> QED
  BY <1>1, <1>2, <1>3, BeginningIsReadNext

(* The places of the fields that are read so far, after the next one.        *)
LEMMA ReadFieldAnswers ==
  ASSUME AInv, ReadField
  PROVE  ProperInv' /\ AnswersTheMessage'
<1>1. /\ position' = end /\ places' = NewPlaces /\ reading /\ Readable
      /\ position < size
      /\ UNCHANGED <<kind, message, size, asked, reading, answer, start>>
  BY Zenon DEF ReadField, object
<1>2. Shapes /\ end \in 1..size /\ message[end] = Sep
  <2>1. message \in Seq(Cells) /\ size \in 0..Len(message) /\ position \in Nat
    BY DEF AInv, IInv, Shapes
  <2> QED
    BY <1>1, <2>1, FieldPlaces, Zenon DEF AInv, IInv
<1> HIDE DEF end
<1>3. AnswersTheMessage'
  BY <1>1, Zenon DEF AnswersTheMessage
<1>4. NothingKept'
  BY <1>1, <1>2 DEF NothingKept
<1>5. ASSUME Fits', Proper' PROVE ReadSoFar'
  <2>1. Fits /\ Proper
    BY <1>1, <1>5 DEF Fits, Proper, Separators, TagCells, Field, Before
  <2>2. ReadSoFar
    BY <2>1 DEF AInv, ProperInv
  <2>3. ASSUME NEW t \in Accepted PROVE LastRead(t)'
    <3> DEFINE now == {e \in Separators : e <= end /\ Field(t, e)}
    <3>1. IF now = {} THEN NewPlaces[t].len = 0 ELSE NewPlaces[t] = ValueAt(Max(now))
      BY <1>1, <1>2, <2>1, <2>2, ProperRead, Zenon
    <3>2. FieldsRead(t)' = now
      BY <1>1 DEF FieldsRead, Separators, Field, Before
    <3> HIDE DEF now
    <3>3. \A e : ValueAt(e)' = ValueAt(e)
      BY <1>1, SameMessage
    <3> QED
      BY <1>1, <3>1, <3>2, <3>3, Zenon DEF LastRead
  <2>4. position' \in Separators'
    BY <1>1, <1>2 DEF Separators
  <2> QED
    BY <2>3, <2>4 DEF ReadSoFar
<1> QED
  BY <1>3, <1>4, <1>5 DEF ProperInv

(* No field of a proper message fails to be read.                            *)
LEMMA FailAnswers ==
  ASSUME AInv, Fail
  PROVE  ProperInv' /\ AnswersTheMessage'
<1>1. /\ ~Readable /\ position < size
      /\ UNCHANGED <<kind, message, size, position, places, asked, answer, start>>
  BY Zenon DEF Fail, object
<1>2. ~(Fits /\ Proper)
  BY <1>1, ProperField, Zenon DEF AInv, IInv, ProperInv, ReadSoFar
<1>3. ~(Fits' /\ Proper')
  BY <1>1, <1>2 DEF Fits, Proper, Separators, TagCells, Field, Before
<1>4. NothingKept'
  BY <1>1 DEF AInv, ProperInv, NothingKept
<1> QED
  BY <1>3, <1>4, Zenon DEF ProperInv, AnswersTheMessage

(* At the end of a proper message all its fields are read, and the place of  *)
(* the tag is the last of them, whose offset is not 0.                       *)
LEMMA AnswerAnswers ==
  ASSUME AInv, Answer
  PROVE  ProperInv' /\ AnswersTheMessage'
<1>1. /\ answer' = Found /\ places' = [places EXCEPT ![asked] = Found]
      /\ UNCHANGED <<kind, message, size, position, asked, start>>
      /\ position >= size
  BY Zenon DEF Answer, object
<1>2. asked \in Accepted
  BY DEF AInv, IInv, Shapes, Answer
<1>3. /\ places \in [Accepted -> [offset : 0..(Wide - 1), len : 0..(Wide - 1)]]
      /\ size \in Nat /\ position \in Nat
  BY DEF AInv, IInv, Shapes
<1>4. Found.len = places[asked].len
  BY <1>2, <1>3 DEF Found
<1>5. ASSUME NEW e, places[asked] = ValueAt(e) PROVE Found = ValueAt(e)
  <2>1. places[asked].offset # 0
    BY <1>3, <1>5, BeforeIsNat DEF ValueAt
  <2> QED
    BY <1>5, <2>1 DEF Found
<1>6. NothingKept'
  BY <1>1, <1>2, <1>3, <1>4 DEF AInv, ProperInv, NothingKept
<1> HIDE DEF Found
<1>7. ASSUME Fits', Proper' PROVE ReadSoFar' /\ AnswersTheMessage'
  <2>1. Fits /\ Proper
    BY <1>1, <1>7 DEF Fits, Proper, Separators, TagCells, Field, Before
  <2>2. ReadSoFar
    BY <2>1 DEF AInv, ProperInv
  <2>3. ASSUME NEW t \in Accepted
        PROVE  /\ FieldsRead(t)' = FieldsRead(t)
               /\ ValueAt(Max(FieldsRead(t)))' = ValueAt(Max(FieldsRead(t)))
    BY <1>1 DEF FieldsRead, Separators, Field, Before, ValueAt
  <2>4. IF FieldsRead(asked) = {} THEN Found.len = 0
        ELSE Found = ValueAt(Max(FieldsRead(asked)))
    BY <1>2, <1>4, <1>5, <2>2 DEF ReadSoFar, LastRead
  <2>5. ASSUME NEW t \in Accepted PROVE LastRead(t)'
    <3>1. places'[t] = IF t = asked THEN Found ELSE places[t]
      BY <1>1, <1>2, <1>3
    <3>2. IF FieldsRead(t) = {} THEN places'[t].len = 0
          ELSE places'[t] = ValueAt(Max(FieldsRead(t)))
      BY <2>2, <2>4, <3>1 DEF ReadSoFar, LastRead
    <3> QED
      BY <2>3, <3>2, Zenon DEF LastRead
  <2>6. ReadSoFar'
    BY <1>1, <2>2, <2>5 DEF ReadSoFar, Separators
  <2>7. FieldsRead(asked) = {e \in Separators : Field(asked, e)}
    BY <1>1, <1>3 DEF FieldsRead, Separators
  <2>8. {e \in Separators : Field(asked, e)}' = FieldsRead(asked)
    BY <1>1, <2>7 DEF Separators, Field, Before
  <2>9. AnswersTheMessage'
    BY <1>1, <1>2, <2>3, <2>4, <2>8, Zenon DEF AnswersTheMessage
  <2> QED
    BY <2>6, <2>9
<1> QED
  BY <1>6, <1>7, Zenon DEF ProperInv, AnswersTheMessage

(* Any other step leaves the message, the position and the places alone.     *)
LEMMA OtherwiseAnswers ==
  ASSUME AInv, UNCHANGED <<kind, message, size, position, places, start>>,
         reading' \/ UNCHANGED <<asked, reading, answer>>
  PROVE  ProperInv' /\ AnswersTheMessage'
<1>1. /\ Fits' = Fits /\ Proper' = Proper /\ Separators' = Separators
      /\ \A t, e : Field(t, e)' = Field(t, e)
      /\ \A e : ValueAt(e)' = ValueAt(e)
  BY SameMessage
<1>2. \A t : FieldsRead(t)' = FieldsRead(t)
  BY <1>1 DEF FieldsRead
<1>3. \A t : LastRead(t)' = LastRead(t)
  BY <1>1, <1>2 DEF LastRead
<1>4. ReadSoFar' = ReadSoFar /\ NothingKept' = NothingKept
  BY <1>1, <1>3 DEF ReadSoFar, NothingKept
<1>5. ProperInv'
  BY <1>1, <1>4 DEF AInv, ProperInv
<1>6. CASE reading'
  BY <1>5, <1>6 DEF AnswersTheMessage
<1>7. CASE UNCHANGED <<asked, reading, answer>>
  <2>1. {e \in Separators : Field(asked, e)}' = {e \in Separators : Field(asked, e)}
    BY <1>1, <1>7
  <2> DEFINE fields == {e \in Separators : Field(asked, e)}
  <2>2. ASSUME Fits, Proper, asked # NoTag, ~reading
        PROVE  IF fields = {} THEN answer.len = 0 ELSE answer = ValueAt(Max(fields))
    BY <2>2, Zenon DEF AInv, AnswersTheMessage
  <2>3. AnswersTheMessage'
    BY <1>1, <1>7, <2>1, <2>2, Zenon DEF AnswersTheMessage
  <2> QED
    BY <1>5, <2>3
<1> QED
  BY <1>6, <1>7

LEMMA AnswersNext == AInv /\ [Next]_vars => AInv'
<1> SUFFICES ASSUME AInv, [Next]_vars PROVE ProperInv' /\ AnswersTheMessage'
  BY InvNext DEF AInv
<1>0. IInv'
  BY InvNext DEF AInv
<1>1. ASSUME NEW m \in Messages, NEW n \in Kept(m), Set(m, n) PROVE ProperInv' /\ AnswersTheMessage'
  <2>1. CASE ReaderSet(m, n)
    BY <1>0, <2>1, ReaderSetAnswers
  <2>2. CASE MsgSet(m, n) \/ MsgSetRefused(m)
    BY <1>0, <2>2, MsgSetAnswers
  <2>3. CASE ReaderSetAsserts \/ MsgSetAsserts(m, n) \/ MsgSetLoops(m, n)
    BY <2>3, OtherwiseAnswers DEF ReaderSetAsserts, MsgSetAsserts, MsgSetLoops, Stop
  <2> QED
    BY <1>1, <2>1, <2>2, <2>3 DEF Set
<1>2. ASSUME NEW t \in Accepted, GetPair(t) PROVE ProperInv' /\ AnswersTheMessage'
  BY <1>2, OtherwiseAnswers DEF GetPair, object
<1>3. CASE ReadField
  BY <1>3, ReadFieldAnswers
<1>4. CASE Fail
  BY <1>4, FailAnswers
<1>5. CASE Answer
  BY <1>5, AnswerAnswers
<1>6. CASE UNCHANGED vars
  BY <1>6, OtherwiseAnswers DEF vars, object
<1> QED
  BY <1>1, <1>2, <1>3, <1>4, <1>5, <1>6 DEF Next

(* Whatever was asked before, and however often, getPair of either reader    *)
(* answers with the last value that a proper message has for the tag, and    *)
(* with nothing if it has none: no field of such a message fails to be read, *)
(* and the places always are those of the last fields before the position.   *)
THEOREM AnswersTheMessageHolds == Spec => []AnswersTheMessage
<1>1. AInv => AnswersTheMessage
  BY DEF AInv
<1> QED
  BY AnswersInit, AnswersNext, <1>1, PTL DEF Spec

-----------------------------------------------------------------------------
(* The buffer of msg_t.  A set with 0 that has with every number the next    *)
(* one, up to n, has them all.                                               *)
LEMMA UpTo ==
  ASSUME NEW n \in Nat, NEW S, 0 \in S, \A k \in 1..n : k - 1 \in S => k \in S
  PROVE  0..n \subseteq S
<1> DEFINE missing == {k \in Nat : k <= n /\ k \notin S}
<1> SUFFICES ASSUME missing # {} PROVE FALSE
  OBVIOUS
<1> DEFINE k == Min(missing)
<1>1. missing \in SUBSET Nat
  OBVIOUS
<1>2. k \in missing /\ \A y \in missing : k <= y
  <2> HIDE DEF missing
  <2> QED
    BY <1>1, MinIsMember
<1> HIDE DEF k
<1>3. k \in 1..n /\ k \notin S
  BY <1>2
<1>4. k - 1 \notin missing /\ k - 1 \in Nat /\ k - 1 <= n
  BY <1>2, <1>3
<1> QED
  BY <1>3, <1>4

LEMMA PowerIs ==
  /\ Word \in Nat /\ Power[0] = 1
  /\ \A b \in 1..Word : Power[b] = 2 * Power[b - 1]
<1> DEFINE Doubles(f, k) == f = [b \in 0..k |-> IF b = 0 THEN 1 ELSE 2 * f[b - 1]]
           S == {k \in Nat : \E f : Doubles(f, k)}
<1>0. Word \in Nat
  BY TvpAssumption
<1>1. 0 \in S
  <2> DEFINE f == [b \in 0..0 |-> 1]
  <2>1. f = [b \in 0..0 |-> IF b = 0 THEN 1 ELSE 2 * f[b - 1]]
    OBVIOUS
  <2> QED
    BY <2>1
<1>2. ASSUME NEW k \in 1..Word, k - 1 \in S PROVE k \in S
  <2>1. PICK f : Doubles(f, k - 1)
    BY <1>2
  <2>2. /\ DOMAIN f = 0..(k - 1)
        /\ \A b \in 0..(k - 1) : f[b] = IF b = 0 THEN 1 ELSE 2 * f[b - 1]
    BY <2>1
  <2> DEFINE g == [b \in 0..k |-> IF b = k THEN 2 * f[k - 1] ELSE f[b]]
  <2>3. ASSUME NEW b \in 0..k PROVE g[b] = IF b = 0 THEN 1 ELSE 2 * g[b - 1]
    <3>1. CASE b = k
      <4>1. k - 1 \in 0..k /\ k - 1 # k /\ k # 0
        BY <1>2
      <4>2. g[k - 1] = f[k - 1] /\ g[k] = 2 * f[k - 1]
        BY <4>1
      <4> QED
        BY <3>1, <4>1, <4>2
    <3>2. CASE b # k
      <4>1. b \in 0..(k - 1) /\ g[b] = f[b]
        BY <3>2
      <4>2. b # 0 => b - 1 \in 0..k /\ b - 1 # k
        BY <4>1
      <4>3. b # 0 => g[b - 1] = f[b - 1]
        BY <4>2
      <4> QED
        BY <2>2, <4>1, <4>3
    <3> QED
      BY <3>1, <3>2
  <2> HIDE DEF g
  <2>4. Doubles(g, k)
    <3>1. DOMAIN g = 0..k /\ g = [b \in 0..k |-> g[b]]
      BY DEF g
    <3> QED
      BY <2>3, <3>1
  <2>5. k \in Nat
    BY <1>2
  <2> QED
    BY <2>4, <2>5
<1>3. \E f : Doubles(f, Word)
  <2>1. Word \in 0..Word
    BY <1>0
  <2> HIDE DEF S
  <2>2. Word \in S
    BY <1>0, <1>1, <1>2, <2>1, UpTo
  <2> QED
    BY <2>2 DEF S
<1>4. Doubles(Power, Word)
  BY <1>3, Zenon DEF Power
<1> QED
  BY <1>0, <1>4

LEMMA PowerGrows ==
  /\ \A b \in 0..Word : Power[b] \in Nat \ {0}
  /\ \A a, b \in 0..Word : a < b => Power[a] < Power[b]
<1> DEFINE S == {b \in Nat : Power[b] \in Nat \ {0}}
<1>1. Word \in Nat /\ Power[0] = 1 /\ \A b \in 1..Word : Power[b] = 2 * Power[b - 1]
  BY PowerIs
<1>2. 0..Word \subseteq S
  <2>1. 0 \in S
    BY <1>1
  <2>2. ASSUME NEW k \in 1..Word, k - 1 \in S PROVE k \in S
    BY <1>1, <2>2
  <2> HIDE DEF S
  <2> QED
    BY <1>1, <2>1, <2>2, UpTo
<1>3. ASSUME NEW a \in 0..Word PROVE \A b \in 0..Word : a < b => Power[a] < Power[b]
  <2> DEFINE T == {b \in Nat : a < b => Power[a] < Power[b]}
  <2>1. 0 \in T
    BY <1>1
  <2>2. ASSUME NEW k \in 1..Word, k - 1 \in T PROVE k \in T
    <3>1. k - 1 \in 0..Word /\ k \in 0..Word
      BY <1>1
    <3>2. Power[a] \in Nat /\ Power[k - 1] \in Nat /\ Power[k - 1] # 0
          /\ Power[k] = 2 * Power[k - 1]
      BY <1>1, <1>2, <3>1
    <3>3. CASE a = k - 1
      BY <3>2, <3>3
    <3>4. CASE a < k - 1
      <4>1. Power[a] < Power[k - 1]
        BY <2>2, <3>4
      <4> QED
        BY <3>2, <4>1
    <3> QED
      BY <1>1, <3>3, <3>4
  <2> HIDE DEF T
  <2>3. 0..Word \subseteq T
    BY <1>1, <2>1, <2>2, UpTo
  <2> QED
    BY <2>3 DEF T
<1> QED
  BY <1>2, <1>3

(* Bits: below p when the one of p and all above are clear.                  *)
LEMMA HighestClear ==
  ASSUME NEW n \in Nat, NEW p \in Nat \ {0}, n < 2 * p, (n \div p) % 2 # 1
  PROVE  n < p
<1> SUFFICES ASSUME n >= p PROVE FALSE
  OBVIOUS
<1>1. n \div p = 1
  OBVIOUS
<1> QED
  BY <1>1

LEMMA HighBitsClear ==
  ASSUME NEW n \in Nat, NEW p \in Nat \ {0}, n < p
  PROVE  n \div p = 0
OBVIOUS

LEMMA BelowPower ==
  ASSUME NEW n \in Nat, n < Power[Word], NEW c \in 0..Word, \A b \in Bits(n) : b < c
  PROVE  n < Power[c]
<1> DEFINE S == {d \in Nat : d <= Word - c => n < Power[Word - d]}
<1>1. Word \in Nat /\ \A b \in 1..Word : Power[b] = 2 * Power[b - 1]
  BY PowerIs
<1>2. 0 \in S
  BY <1>1
<1>3. ASSUME NEW d \in 1..(Word - c), d - 1 \in S PROVE d \in S
  <2> DEFINE b == Word - d
  <2>1. b \in 0..(Word - 1) /\ b >= c /\ b + 1 \in 1..Word /\ b + 1 - 1 = b
        /\ Word - (d - 1) = b + 1 /\ d - 1 <= Word - c
    BY <1>1
  <2>2. n < Power[b + 1]
    BY <1>3, <2>1
  <2>3. Power[b] \in Nat \ {0} /\ Power[b + 1] = 2 * Power[b]
    BY <1>1, <2>1, PowerGrows
  <2>4. (n \div Power[b]) % 2 # 1
    BY <2>1 DEF Bits
  <2> HIDE DEF b
  <2>5. n < Power[b]
    BY <2>2, <2>3, <2>4, HighestClear
  <2> QED
    BY <1>1, <2>5 DEF b
<1>4. Word - c \in Nat /\ Word - c \in 0..(Word - c) /\ Word - (Word - c) = c
  BY <1>1
<1> HIDE DEF S
<1>5. Word - c \in S
  BY <1>2, <1>3, <1>4, UpTo
<1> QED
  BY <1>4, <1>5 DEF S

LEMMA LowBits ==
  ASSUME NEW n \in Nat, NEW h \in 0..Word, n < Power[h], NEW b \in Bits(n)
  PROVE  b < h
<1> SUFFICES ASSUME b >= h PROVE FALSE
  BY DEF Bits
<1>1. b \in 0..Word /\ Power[b] \in Nat \ {0} /\ Power[h] \in Nat
  BY PowerIs, PowerGrows DEF Bits
<1>2. Power[h] <= Power[b]
  <2>1. b = h \/ h < b
    BY <1>1
  <2> QED
    BY <1>1, <2>1, PowerGrows
<1>3. n \div Power[b] = 0
  <2>1. n < Power[b]
    BY <1>1, <1>2
  <2> QED
    BY <1>1, <2>1, HighBitsClear
<1>4. 0 % 2 # 1
  OBVIOUS
<1> QED
  BY <1>3, <1>4 DEF Bits

(* A set of numbers without a gap from 0 on.                                 *)
LEMMA NoGap ==
  ASSUME NEW w \in Nat, NEW S \in SUBSET (0..(w - 1)), \A x \in S : \A y \in 0..x : y \in S
  PROVE  S = 0..(Cardinality(S) - 1)
<1> DEFINE out == {y \in Nat : y \notin S}
           z == Min(out)
<1>1. z \in out /\ \A y \in out : z <= y
  <2>1. w \in out
    OBVIOUS
  <2>2. out \in SUBSET Nat /\ out # {}
    BY <2>1
  <2> HIDE DEF out
  <2> QED
    BY <2>2, MinIsMember
<1> HIDE DEF z
<1>2. z \in Nat /\ S = 0..(z - 1)
  <2>1. z \in Nat /\ z \notin S
    BY <1>1
  <2>2. ASSUME NEW x \in S PROVE x \in 0..(z - 1)
    <3>1. x \in Nat
      OBVIOUS
    <3>2. ~(z <= x)
      <4>1. z <= x => z \in 0..x
        BY <2>1, <3>1
      <4> QED
        BY <2>1, <4>1
    <3> QED
      BY <2>1, <3>1, <3>2
  <2>3. ASSUME NEW x \in 0..(z - 1) PROVE x \in S
    BY <1>1, <2>1
  <2> QED
    BY <2>1, <2>2, <2>3
<1>3. Cardinality(0..(z - 1)) = z
  BY <1>2, FS_Interval
<1> QED
  BY <1>2, <1>3

(* What smearing makes of a number whose bits are all in the lower half: it  *)
(* never comes to the highest bit before the lowest bits are all set.        *)
LEMMA RoundedIsEnough ==
  ASSUME NEW n \in Nat, NEW J \in 0..Word, Word = 2 * Power[J], n < Power[Power[J]],
         Turns(n) # {}
  PROVE  RoundedUp(n) \in Nat /\ n <= RoundedUp(n)
<1> DEFINE H == Power[J]
           j == Min(Turns(n))
           S == Smeared(n, j)
           c == Cardinality(S)
<1>1. /\ Word \in Nat /\ H \in Nat \ {0} /\ H \in 0..Word /\ H < Word /\ Word \in 0..Word
      /\ Word = 2 * H /\ n < Power[H]
  BY PowerIs, PowerGrows
<1>2. /\ j \in 0..Word /\ Power[j] <= Word /\ S = 0..(c - 1)
      /\ \A i \in Turns(n) : j <= i
  <2>1. Turns(n) \in SUBSET Nat
    BY DEF Turns
  <2>2. j \in Turns(n) /\ \A i \in Turns(n) : j <= i
    <3> HIDE DEF j
    <3> QED
      BY <2>1, MinIsMember DEF j
  <2> HIDE DEF j
  <2> QED
    BY <2>2 DEF Turns
<1> HIDE DEF j, H
<1>3. Power[j] \in Nat \ {0} /\ Power[Word] \in Nat \ {0}
  BY <1>1, <1>2, PowerGrows
<1>4. \A x : x \in S <=> /\ x \in 0..(Word - 1)
                         /\ \E b \in Bits(n), k \in 0..(Power[j] - 1) : x = b + k
  BY DEF Smeared, S
<1>5. \A b \in Bits(n) : b \in 0..(Word - 1) /\ b < H
  <2>1. \A b \in Bits(n) : b < H
    BY <1>1, LowBits
  <2> QED
    BY <2>1 DEF Bits
<1>6. c \in 0..Word
  <2>1. S \subseteq 0..(Word - 1)
    BY <1>4
  <2>2. IsFiniteSet(0..(Word - 1)) /\ Cardinality(0..(Word - 1)) = Word
    <3>1. 0 \in Int /\ Word - 1 \in Int /\ ~(0 > Word - 1) /\ Word - 1 - 0 + 1 = Word
      <4> HIDE DEF S
      <4> QED
        BY <1>1
    <3> HIDE DEF S
    <3> QED
      BY <3>1, FS_Interval, Zenon
  <2> HIDE DEF S
  <2>3. IsFiniteSet(S) /\ Cardinality(S) <= Word
    BY <2>1, <2>2, FS_Subset
  <2>4. Cardinality(S) \in Nat
    BY <2>3, FS_CardinalityType
  <2> QED
    BY <1>1, <2>3, <2>4
<1> HIDE DEF S, c
<1>7. \A b \in Bits(n) : b < c
  <2> SUFFICES ASSUME NEW b \in Bits(n) PROVE b < c
    OBVIOUS
  <2>1. 0 \in 0..(Power[j] - 1) /\ b \in 0..(Word - 1) /\ b = b + 0
    BY <1>3, <1>5
  <2>2. b \in S
    BY <1>4, <2>1
  <2> QED
    BY <1>2, <1>6, <2>2
<1>8. n < Power[c]
  <2>1. n < Power[Word]
    <3>1. Power[H] < Power[Word] /\ Power[H] \in Nat
      BY <1>1, PowerGrows
    <3> QED
      BY <1>1, <1>3, <3>1
  <2> QED
    BY <1>6, <1>7, <2>1, BelowPower
<1>9. c < Word
  <2> SUFFICES ASSUME c = Word PROVE FALSE
    BY <1>1, <1>6
  <2>1. 0 \in S /\ Word - 1 \in S
    BY <1>1, <1>2
  <2>2. 0 \in Bits(n)
    <3>1. PICK b \in Bits(n), k \in 0..(Power[j] - 1) : 0 = b + k
      BY <1>4, <2>1
    <3>2. b = 0
      BY <1>3, <1>5, <3>1
    <3> QED
      BY <3>1, <3>2
  <2>3. J < j
    <3>1. PICK b \in Bits(n), k \in 0..(Power[j] - 1) : Word - 1 = b + k
      BY <1>4, <2>1
    <3>2. b \in 0..(Word - 1) /\ b < H
      BY <1>5, <3>1
    <3>3. H < Power[j]
      BY <1>1, <1>3, <3>1, <3>2
    <3>4. j < J => Power[j] < H
      BY <1>2, PowerGrows DEF H
    <3>5. j # J
      BY <1>1, <3>3 DEF H
    <3> QED
      BY <1>1, <1>2, <1>3, <3>3, <3>4, <3>5
  <2> DEFINE T == Smeared(n, J)
  <2>4. \A x : x \in T <=> /\ x \in 0..(Word - 1)
                           /\ \E b \in Bits(n), k \in 0..(H - 1) : x = b + k
    BY DEF Smeared, H
  <2> HIDE DEF T
  <2>5. \A x \in T : \A y \in 0..x : y \in T
    <3> SUFFICES ASSUME NEW x \in T, NEW y \in 0..x PROVE y \in T
      OBVIOUS
    <3>1. PICK b \in Bits(n), k \in 0..(H - 1) : x = b + k
      BY <2>4
    <3>2. x \in 0..(Word - 1) /\ y \in 0..(Word - 1) /\ b \in Nat /\ b < H
      <4>1. x \in 0..(Word - 1)
        BY <2>4
      <4> QED
        BY <1>1, <1>5, <4>1
    <3>3. CASE y < H
      <4>1. y \in 0..(H - 1) /\ y = 0 + y
        BY <1>1, <3>2, <3>3
      <4> QED
        BY <2>2, <2>4, <3>2, <4>1
    <3>4. CASE y >= H
      <4>1. y - b \in 0..(H - 1) /\ y = b + (y - b)
        BY <1>1, <3>1, <3>2, <3>4
      <4> QED
        BY <2>4, <3>2, <4>1
    <3> QED
      BY <1>1, <3>2, <3>3, <3>4
  <2>6. T = 0..(Cardinality(T) - 1)
    <3>1. T \in SUBSET (0..(Word - 1))
      BY <2>4
    <3> QED
      BY <1>1, <2>5, <3>1, NoGap
  <2>7. J \in Turns(n)
    <3>1. Power[J] <= Word
      BY <1>1 DEF H
    <3> QED
      BY <2>6, <3>1 DEF Turns, T
  <2> QED
    BY <1>2, <2>3, <2>7
<1>10. Power[c] < Power[Word] /\ Power[c] \in Nat
  BY <1>1, <1>6, <1>9, PowerGrows
<1>11. RoundedUp(n) = Power[c] % Power[Word]
  BY DEF RoundedUp, c, S, j
<1>12. \A p, q \in Nat : p < q => p % q = p
  OBVIOUS
<1>13. RoundedUp(n) = Power[c]
  BY <1>3, <1>10, <1>11, <1>12, Zenon
<1> QED
  BY <1>8, <1>10, <1>13

(* The rest of the type invariant, and room for the message.                 *)
RoomInv ==
  /\ checked \in BOOLEAN /\ reading \in BOOLEAN /\ sets \in 0..MaxSets
  /\ halt \in {"no", "assert", "loop"} /\ room \in Nat /\ RoomForMessage

LEMMA MsgSetRoom ==
  ASSUME Shapes, RoomInv, NEW m \in Messages, NEW n \in Kept(m), MsgSet(m, n)
  PROVE  RoomInv'
<1>1. /\ sets < MaxSets /\ sets' = sets + 1 /\ kind = "msg_t" /\ n <= Limit
      /\ UNCHANGED <<kind, checked, halt, reading>> /\ size' = n
      /\ \/ ~Grows(n) /\ room' = room
         \/ Grows(n) /\ Turns(Need(n)) # {} /\ room' = RoundedUp(Need(n))
  <2>1. ~(Len(m) > Limit)
    BY DEF MsgSet, Refused
  <2>2. Len(m) \in Nat /\ Limit \in Nat /\ n \in 0..Len(m)
    BY TvpAssumption, KeptInside
  <2> QED
    BY <2>1, <2>2 DEF MsgSet, SetOnce, Give
<1>2. n \in Nat /\ Limit \in Nat /\ Reserve \in Nat /\ MaxSets \in Nat
  BY TvpAssumption, KeptInside
<1>3. Need(n) = n + Reserve /\ Need(n) \in Nat /\ Need(n) <= Limit + Reserve
  BY <1>1, <1>2 DEF Need
<1>4. room' \in Nat /\ n <= room'
  <2>1. CASE ~Grows(n) /\ room' = room
    <3>1. ~(Need(n) > room) /\ room \in Nat
      BY <2>1 DEF Grows, RoomInv
    <3> QED
      BY <1>2, <1>3, <2>1, <3>1
  <2>2. CASE Turns(Need(n)) # {} /\ room' = RoundedUp(Need(n))
    <3>1. PICK j \in 0..Word : Word = 2 * Power[j] /\ Limit + Reserve < Power[Power[j]]
      BY MsgAssumption
    <3>2. Power[Power[j]] \in Nat
      BY <3>1, PowerIs, PowerGrows
    <3>3. Need(n) < Power[Power[j]]
      BY <1>2, <1>3, <3>1, <3>2
    <3>4. RoundedUp(Need(n)) \in Nat /\ Need(n) <= RoundedUp(Need(n))
      BY <1>3, <2>2, <3>1, <3>3, RoundedIsEnough
    <3> QED
      BY <1>2, <1>3, <2>2, <3>4
  <2> QED
    BY <1>1, <2>1, <2>2
<1> QED
  BY <1>1, <1>2, <1>4 DEF RoomInv, RoomForMessage

LEMMA RoomNext == IInv /\ RoomInv /\ [Next]_vars => RoomInv'
<1> SUFFICES ASSUME IInv, RoomInv, [Next]_vars PROVE RoomInv'
  OBVIOUS
<1> USE DEF RoomInv, RoomForMessage, object
<1>1. ASSUME NEW m \in Messages, NEW n \in Kept(m), Set(m, n) PROVE RoomInv'
  <2>0. MaxSets \in Nat
    BY TvpAssumption
  <2>1. CASE ReaderSet(m, n)
    BY <2>0, <2>1 DEF ReaderSet, SetOnce
  <2>2. CASE MsgSet(m, n)
    BY <2>2, MsgSetRoom DEF IInv
  <2>3. CASE MsgSetRefused(m)
    BY <2>0, <2>3 DEF MsgSetRefused, SetOnce, Give
  <2>4. CASE ReaderSetAsserts \/ MsgSetAsserts(m, n) \/ MsgSetLoops(m, n)
    BY <2>0, <2>4 DEF ReaderSetAsserts, MsgSetAsserts, MsgSetLoops, SetOnce, Stop
  <2> QED
    BY <1>1, <2>1, <2>2, <2>3, <2>4 DEF Set
<1>2. ASSUME NEW t \in Accepted, GetPair(t) PROVE RoomInv'
  BY <1>2 DEF GetPair
<1>3. CASE ReadField \/ Fail \/ Answer
  BY <1>3 DEF ReadField, Fail, Answer
<1>4. CASE UNCHANGED vars
  BY <1>4 DEF vars
<1> QED
  BY <1>1, <1>2, <1>3, <1>4 DEF Next

LEMMA RoomHolds == Spec => [](IInv /\ RoomInv)
<1>1. ASSUME Init PROVE RoomInv
  <2>1. Capacity \in Nat /\ MaxSets \in Nat
    BY TvpAssumption
  <2>2. checked \in BOOLEAN /\ reading = FALSE /\ halt = "no"
    BY <1>1, Zenon DEF Init, Fresh
  <2>3. sets = 0 /\ size = 0 /\ room = Capacity
    BY <1>1, Zenon DEF Init, Fresh
  <2>4. sets \in 0..MaxSets /\ room \in Nat /\ size <= room
    BY <2>1, <2>3
  <2> QED
    BY <2>2, <2>4, Zenon DEF RoomInv, RoomForMessage
<1> QED
  BY <1>1, InvInit, InvNext, RoomNext, PTL DEF Spec

(* Every number and every place of the readers is one of its type: no        *)
(* message is too long for the two numbers of an Offset to be kept.          *)
THEOREM TypeCorrect == Spec => []TypeOK
<1>1. IInv /\ RoomInv => TypeOK
  BY DEF IInv, Shapes, RoomInv, TypeOK
<1> QED
  BY <1>1, RoomHolds, PTL

(* roundUpToPowerOfTwo does not always give the next power of two, and for   *)
(* some lengths it does not end; but when it ends there is room for the      *)
(* message that set copies, in every build.                                  *)
THEOREM RoomForMessageHolds == Spec => []RoomForMessage
<1>1. RoomInv => RoomForMessage
  BY DEF RoomInv
<1> QED
  BY <1>1, RoomHolds, PTL

==============================================================================
