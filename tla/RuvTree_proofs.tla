---------------------------- MODULE RuvTree_proofs ----------------------------
(***************************************************************************)
(* The tree of RuvTree, for any tags, any groups and any messages that its *)
(* Next admits (rmake's have no counter twice in one place): every node    *)
(* but the root is the child of a node, and the calls are nested in the    *)
(* tree (TypeCorrect).      The invariant is Shape: TypeOK with the numbers*)
(* of the nodes, the calls and the positions they have read to, and with   *)
(* what a call knows of its caller, that it is reading the entries of the  *)
(* group of the tag of its node.  A step does one of two things to the     *)
(* tree, filling in a value (ValueSet) or adding a child (ChildAdded), and *)
(* one of three to the calls (CallGoesOn, EntryCalled, CallReturns).       *)
(*                                                                         *)
(* Then of rmake: the entries of a group stay together among the children  *)
(* of a node (EntriesStayTogether), and a first message without repetitions*)
(* gives every field one line (OneLinePerField).  Neither is inductive:    *)
(* rmake makes a node for every pair of the first message without looking  *)
(* at those there are, and no node is there twice because no pair of the   *)
(* message comes twice in one place.  FixInv says what ties the tree to the*)
(* format: the groups whose entries rmake is reading are those the format  *)
(* has open (Following), so that what it reads in its outermost call stands*)
(* outside all groups there as well (RootOutside), while an inner call     *)
(* forgets a tag when it has read it (StillTaken).                         *)
(*                                                                         *)
(* Last, of both: the first column has every field of the first message,   *)
(* and while that is the only one, from left to right in its order         *)
(* (FirstMessageInOrder).  OrderInv says it by the numbers of the nodes,   *)
(* which are given as they are made, so that only the last child of a node *)
(* can have anything put below it; Below is then read off the numbers.     *)
(***************************************************************************)
EXTENDS RuvTree, FiniteSetTheorems, SequenceTheorems, WellFoundedInduction, TLAPS

-----------------------------------------------------------------------------
(* Sequences: the ends, and a new element between two others.                *)
LEMMA FrontIs ==
  ASSUME NEW S, NEW s \in Seq(S), s # <<>>
  PROVE  /\ Front(s) \in Seq(S) /\ Len(Front(s)) = Len(s) - 1 /\ Len(s) \in Nat \ {0}
         /\ \A i \in 1..(Len(s) - 1) : Front(s)[i] = s[i]
         /\ Last(s) = s[Len(s)] /\ Last(s) \in S
<1>1. Len(s) \in Nat \ {0} /\ \A i \in 1..Len(s) : s[i] \in S
  OBVIOUS
<1>2. 1 \in Int /\ Len(s) - 1 \in Int /\ \A i \in 1..(Len(s) - 1) : s[i] \in S
  BY <1>1
<1> DEFINE front == SubSeq(s, 1, Len(s) - 1)
<1>3. /\ front \in Seq(S) /\ Len(front) = IF 1 <= Len(s) - 1 THEN Len(s) - 1 - 1 + 1 ELSE 0
      /\ \A i \in 1..(Len(s) - 1 - 1 + 1) : front[i] = s[1 + i - 1]
  BY <1>2, SubSeqProperties
<1> HIDE DEF front
<1>4. front \in Seq(S) /\ Len(front) = Len(s) - 1 /\ \A i \in 1..(Len(s) - 1) : front[i] = s[i]
  <2>0. \A n \in Nat \ {0} : /\ n - 1 - 1 + 1 = n - 1
                             /\ (IF 1 <= n - 1 THEN n - 1 - 1 + 1 ELSE 0) = n - 1
    OBVIOUS
  <2>1. Len(front) = Len(s) - 1 /\ Len(s) - 1 - 1 + 1 = Len(s) - 1
    BY <1>1, <1>3, <2>0, Zenon
  <2>2. \A i \in 1..(Len(s) - 1) : 1 + i - 1 = i
    BY <1>1
  <2> QED
    BY <1>3, <2>1, <2>2
<1> QED
  BY <1>1, <1>4 DEF Front, Last, front

LEMMA ReplaceLast ==
  ASSUME NEW S, NEW s \in Seq(S), s # <<>>, NEW x \in S
  PROVE  LET r == Front(s) \o <<x>>
         IN  /\ r \in Seq(S) /\ Len(r) = Len(s) /\ Len(s) \in Nat \ {0}
             /\ r[Len(s)] = x /\ \A i \in 1..(Len(s) - 1) : r[i] = s[i]
<1> DEFINE front == Front(s)
<1>1. /\ front \in Seq(S) /\ Len(front) = Len(s) - 1 /\ Len(s) \in Nat \ {0}
      /\ \A i \in 1..(Len(s) - 1) : front[i] = s[i]
  BY FrontIs
<1> HIDE DEF front
<1>2. <<x>> \in Seq(S) /\ Len(<<x>>) = 1 /\ <<x>>[1] = x
  OBVIOUS
<1>3. /\ front \o <<x>> \in Seq(S) /\ Len(front \o <<x>>) = Len(front) + Len(<<x>>)
      /\ \A i \in 1..(Len(front) + Len(<<x>>)) :
           (front \o <<x>>)[i] = IF i <= Len(front) THEN front[i] ELSE <<x>>[i - Len(front)]
  BY <1>1, <1>2, ConcatProperties
<1> DEFINE r == front \o <<x>>
<1> HIDE DEF r
<1>4. /\ r \in Seq(S) /\ Len(r) = Len(s)
      /\ r[Len(s)] = x /\ \A i \in 1..(Len(s) - 1) : r[i] = s[i]
  BY <1>1, <1>2, <1>3 DEF r
<1> QED
  BY <1>1, <1>4 DEF r, front

LEMMA ReplaceLastAppend ==
  ASSUME NEW S, NEW s \in Seq(S), s # <<>>, NEW x \in S, NEW y \in S
  PROVE  LET r == Front(s) \o <<x, y>>
         IN  /\ r \in Seq(S) /\ Len(r) = Len(s) + 1 /\ Len(s) \in Nat \ {0}
             /\ r[Len(s)] = x /\ r[Len(s) + 1] = y /\ \A i \in 1..(Len(s) - 1) : r[i] = s[i]
<1> DEFINE front == Front(s)
<1>1. /\ front \in Seq(S) /\ Len(front) = Len(s) - 1 /\ Len(s) \in Nat \ {0}
      /\ \A i \in 1..(Len(s) - 1) : front[i] = s[i]
  BY FrontIs
<1> HIDE DEF front
<1>2. <<x, y>> \in Seq(S) /\ Len(<<x, y>>) = 2 /\ <<x, y>>[1] = x /\ <<x, y>>[2] = y
  OBVIOUS
<1>3. /\ front \o <<x, y>> \in Seq(S) /\ Len(front \o <<x, y>>) = Len(front) + Len(<<x, y>>)
      /\ \A i \in 1..(Len(front) + Len(<<x, y>>)) :
           (front \o <<x, y>>)[i] =
             IF i <= Len(front) THEN front[i] ELSE <<x, y>>[i - Len(front)]
  BY <1>1, <1>2, ConcatProperties
<1> DEFINE r == front \o <<x, y>>
<1> HIDE DEF r
<1>4. /\ r \in Seq(S) /\ Len(r) = Len(s) + 1
      /\ r[Len(s)] = x /\ r[Len(s) + 1] = y /\ \A i \in 1..(Len(s) - 1) : r[i] = s[i]
  BY <1>1, <1>2, <1>3 DEF r
<1> QED
  BY <1>1, <1>4 DEF r, front

IsInserted(r, s, k, e) ==
  /\ r \in Seq(Nat) /\ Len(r) = Len(s) + 1
  /\ \A i \in 1..(Len(s) + 1) :
       r[i] = IF i < k THEN s[i] ELSE IF i = k THEN e ELSE s[i - 1]

LEMMA Inserted ==
  ASSUME NEW s \in Seq(Nat), NEW k \in 1..(Len(s) + 1), NEW e \in Nat
  PROVE  IsInserted(InsertAt(s, k, e), s, k, e)
<1> DEFINE left == SubSeq(s, 1, k - 1)
           right == SubSeq(s, k, Len(s))
<1>1. Len(s) \in Nat /\ k \in Nat /\ k >= 1 /\ k <= Len(s) + 1 /\ \A i \in 1..Len(s) : s[i] \in Nat
  OBVIOUS
<1>2. 1 \in Int /\ k - 1 \in Int /\ \A i \in 1..(k - 1) : s[i] \in Nat
  BY <1>1
<1>3. /\ left \in Seq(Nat) /\ Len(left) = IF 1 <= k - 1 THEN k - 1 - 1 + 1 ELSE 0
      /\ \A i \in 1..(k - 1 - 1 + 1) : left[i] = s[1 + i - 1]
  BY <1>2, SubSeqProperties, SMTT(40)
<1>4. k \in Int /\ Len(s) \in Int /\ \A i \in k..Len(s) : s[i] \in Nat
  BY <1>1
<1>5. /\ right \in Seq(Nat) /\ Len(right) = IF k <= Len(s) THEN Len(s) - k + 1 ELSE 0
      /\ \A i \in 1..(Len(s) - k + 1) : right[i] = s[k + i - 1]
  BY <1>4, SubSeqProperties
<1> HIDE DEF left, right
<1>6. left \in Seq(Nat) /\ Len(left) = k - 1 /\ \A i \in 1..(k - 1) : left[i] = s[i]
  BY <1>1, <1>3
<1>7. /\ right \in Seq(Nat) /\ Len(right) = Len(s) - k + 1
      /\ \A i \in 1..(Len(s) - k + 1) : right[i] = s[k + i - 1]
  BY <1>1, <1>5
<1>8. <<e>> \in Seq(Nat) /\ Len(<<e>>) = 1 /\ <<e>>[1] = e
  OBVIOUS
<1> DEFINE both == left \o <<e>>
           r == both \o right
<1>9. /\ both \in Seq(Nat) /\ Len(both) = Len(left) + Len(<<e>>)
      /\ \A i \in 1..(Len(left) + Len(<<e>>)) :
           both[i] = IF i <= Len(left) THEN left[i] ELSE <<e>>[i - Len(left)]
  BY <1>6, <1>8, ConcatProperties
<1> HIDE DEF both
<1>10. both \in Seq(Nat) /\ Len(both) = k /\ both[k] = e /\ \A i \in 1..(k - 1) : both[i] = s[i]
  BY <1>1, <1>6, <1>8, <1>9
<1>11. /\ r \in Seq(Nat) /\ Len(r) = Len(both) + Len(right)
       /\ \A i \in 1..(Len(both) + Len(right)) :
            r[i] = IF i <= Len(both) THEN both[i] ELSE right[i - Len(both)]
  BY <1>7, <1>10, ConcatProperties
<1> HIDE DEF r
<1>12. r \in Seq(Nat) /\ Len(r) = Len(s) + 1
  BY <1>1, <1>7, <1>10, <1>11
<1>13. ASSUME NEW i \in 1..(Len(s) + 1)
       PROVE  r[i] = IF i < k THEN s[i] ELSE IF i = k THEN e ELSE s[i - 1]
  <2>1. r[i] = IF i <= k THEN both[i] ELSE right[i - k]
    BY <1>1, <1>7, <1>10, <1>11
  <2>2. CASE i < k
    BY <1>1, <1>10, <2>1, <2>2
  <2>3. CASE i = k
    BY <1>1, <1>10, <2>1, <2>3
  <2>4. CASE i > k
    <3>1. i - k \in 1..(Len(s) - k + 1) /\ k + (i - k) - 1 = i - 1 /\ ~(i <= k)
      BY <1>1, <2>4
    <3>2. right[i - k] = s[k + (i - k) - 1]
      BY <1>7, <3>1
    <3> QED
      BY <1>1, <2>1, <2>4, <3>1, <3>2
  <2> QED
    BY <1>1, <2>2, <2>3, <2>4
<1>14. InsertAt(s, k, e) = r
  BY DEF InsertAt, r, both, left, right
<1>15. IsInserted(r, s, k, e)
  BY <1>12, <1>13 DEF IsInserted
<1> QED
  BY <1>14, <1>15

(* A set of numbers that is not empty has its smallest member.               *)
LEMMA SmallestMember ==
  ASSUME NEW S \in SUBSET Nat, S # {}
  PROVE  Min(S) \in S /\ \A y \in S : Min(S) <= y
<1> DEFINE less == {pair \in Nat \X Nat : pair[1] < pair[2]}
<1>1. PICK x \in S : \A y \in S : <<y, x>> \notin less
  <2>1. IsWellFoundedOn(less, Nat)
    <3>1. OpToRel(<, Nat) = less
      BY Zenon DEF OpToRel
    <3> QED
      BY <3>1, NatLessThanWellFounded, Zenon
  <2> HIDE DEF less
  <2> QED
    BY <2>1, WFMin
<1>2. ASSUME NEW y \in S PROVE x <= y
  <2>1. x \in Nat /\ y \in Nat
    OBVIOUS
  <2>2. <<y, x>> \notin less
    BY <1>1
  <2>3. ~(y < x)
    BY <2>1, <2>2
  <2> QED
    BY <2>1, <2>3
<1> QED
  BY <1>2 DEF Min

-----------------------------------------------------------------------------
(* The shape of the state: the type invariant with what it needs to be kept. *)
AllTags == Tags \cup SsTags

Nodes == [tag : AllTags \cup {"root"}, vals : [Cols -> 0..MaxLen], kids : Seq(Nat)]

Calls ==
  [node : Nat, rest : SUBSET AllTags, seen : [Counters -> Nat], counter : 0..MaxLen]

Size == Cardinality(DOMAIN tree)

(* The tag of a node of the tree.                                            *)
Tag(n) == tree[n].tag

Inputs ==
  /\ maker \in {"rmake", "ssmake"}
  /\ messages \in Seq(Seq(AllTags)) /\ Len(messages) <= Columns
  /\ \A c \in DOMAIN messages : Len(messages[c]) <= MaxLen
  /\ inc \in 1..(MaxLen + 1) /\ alive \in BOOLEAN

IsTree ==
  /\ Size \in Nat \ {0} /\ tree \in [0..(Size - 1) -> Nodes]
  /\ \A p \in DOMAIN tree : \A i \in DOMAIN tree[p].kids : tree[p].kids[i] \in 1..(Size - 1)
  /\ \A n \in 1..(Size - 1) : Tag(n) \in AllTags

HasParents ==
  \A n \in 1..(Size - 1) : \E p \in DOMAIN tree : \E i \in DOMAIN tree[p].kids : tree[p].kids[i] = n

(* The calls: every one but the last reads the entries of a group, and the   *)
(* next is the one for such an entry.                                        *)
IsCall(x) ==
  /\ x \in Calls /\ x.node \in DOMAIN tree /\ x.counter < inc
  /\ x.counter # 0 => message[x.counter] \in Counters

CalledFrom(x, caller) ==
  /\ caller.counter # 0
  /\ x.node \in ToSet(tree[caller.node].kids)
  /\ Tag(x.node) = message[caller.counter]
  /\ x.rest \subseteq Members(Tag(x.node))

Nested ==
  /\ frames \in Seq(Calls)
  /\ frames # <<>> => /\ messages # <<>> /\ inc <= Len(message) + 1
                      /\ frames[1].node = 0
  /\ \A i \in DOMAIN frames : IsCall(frames[i])
  /\ \A i \in DOMAIN frames \ {1} : CalledFrom(frames[i], frames[i - 1])

Shape == Inputs /\ IsTree /\ HasParents /\ Nested

LEMMA ShapeIsType == Shape => TypeOK
<1> SUFFICES ASSUME Shape PROVE TypeOK
  OBVIOUS
<1>1. alive \in BOOLEAN /\ inc \in 1..(MaxLen + 1) /\ Len(messages) <= Columns
  BY DEF Shape, Inputs
<1>2. ToSet(messages) \subseteq Seq(Tags \cup SsTags)
  BY DEF Shape, Inputs, ToSet, AllTags
<1>3. DOMAIN tree = 0..(Size - 1) /\ Size \in Nat
  BY DEF Shape, IsTree
<1>4. ASSUME NEW n \in DOMAIN tree \ {0}
      PROVE  /\ tree[n].tag \in Tags \cup SsTags /\ tree[n].vals \in [Cols -> 0..MaxLen]
             /\ \E p \in DOMAIN tree : \E i \in DOMAIN tree[p].kids : tree[p].kids[i] = n
  <2>1. n \in 1..(Size - 1)
    BY <1>3
  <2>2. tree[n] \in Nodes
    BY <1>3 DEF Shape, IsTree
  <2> QED
    BY <2>1, <2>2 DEF Shape, IsTree, HasParents, Tag, AllTags, Nodes
<1>5. \A i \in DOMAIN frames \ {1} :
        /\ frames[i].node \in ToSet(tree[frames[i - 1].node].kids)
        /\ frames[i].rest \subseteq Members(tree[frames[i].node].tag)
  BY Zenon DEF Shape, Nested, CalledFrom, Tag
<1> QED
  BY <1>1, <1>2, <1>3, <1>4, <1>5, Zenon DEF TypeOK, Size

-----------------------------------------------------------------------------
(* What the state says while a message is read.                              *)
LEMMA Reading ==
  ASSUME Inputs, Nested, frames # <<>>
  PROVE  /\ Columns \in Nat /\ MaxLen \in Nat /\ Len(messages) \in Nat \ {0}
         /\ column \in Nat /\ column \in Cols
         /\ message = messages[Len(messages)] /\ message \in Seq(AllTags)
         /\ Len(message) \in Nat /\ Len(message) <= MaxLen
         /\ inc \in Nat \ {0} /\ inc <= Len(message) + 1
         /\ (More => inc \in 1..Len(message) /\ token \in AllTags)
<1>1. Columns \in Nat /\ MaxLen \in Nat
  BY RuvAssumption
<1>2. messages # <<>> /\ inc <= Len(message) + 1 /\ messages \in Seq(Seq(AllTags))
  BY DEF Nested, Inputs
<1>3. Len(messages) \in Nat \ {0} /\ Len(messages) \in DOMAIN messages
  BY <1>2
<1>4. message = messages[Len(messages)]
  BY DEF message, Last
<1>5. message \in Seq(AllTags) /\ Len(message) \in Nat /\ Len(message) <= MaxLen
  BY <1>2, <1>3, <1>4 DEF Inputs
<1>6. column \in Nat /\ column \in Cols
  BY <1>1, <1>3 DEF Inputs, column, Cols
<1>7. inc \in Nat \ {0}
  BY <1>1 DEF Inputs
<1>8. More => inc \in 1..Len(message) /\ token \in AllTags
  <2> HIDE DEF message
  <2> QED
    BY <1>5, <1>7 DEF More, token
<1> QED
  BY <1>1, <1>2, <1>3, <1>4, <1>5, <1>6, <1>7, <1>8

LEMMA TopCall ==
  ASSUME Nested, frames # <<>>
  PROVE  /\ Len(frames) \in Nat \ {0} /\ DOMAIN frames = 1..Len(frames)
         /\ Len(frames) \in DOMAIN frames
         /\ top = frames[Len(frames)] /\ top \in Calls /\ IsCall(top)
         /\ (~AtRoot => CalledFrom(top, frames[Len(frames) - 1]) /\ Len(frames) - 1 \in DOMAIN frames)
<1>1. frames \in Seq(Calls)
  BY DEF Nested
<1>2. Len(frames) \in Nat \ {0} /\ DOMAIN frames = 1..Len(frames)
  BY <1>1
<1>3. top = frames[Len(frames)]
  BY DEF top, Last
<1>4. IsCall(top) /\ (~AtRoot => CalledFrom(top, frames[Len(frames) - 1]))
  <2>1. Len(frames) \in DOMAIN frames /\ (~AtRoot => Len(frames) \in DOMAIN frames \ {1})
    BY <1>2 DEF AtRoot
  <2> QED
    BY <1>3, <2>1, Zenon DEF Nested
<1>5. ~AtRoot => Len(frames) - 1 \in DOMAIN frames
  BY <1>2 DEF AtRoot
<1> QED
  BY <1>1, <1>2, <1>3, <1>4, <1>5

(* No step takes a node, a tag or a child away.                              *)
KeepsTree ==
  /\ DOMAIN tree \subseteq DOMAIN tree'
  /\ \A n \in DOMAIN tree : /\ tree'[n].tag = tree[n].tag
                            /\ ToSet(tree[n].kids) \subseteq ToSet(tree'[n].kids)

(* A value is filled in.                                                     *)
LEMMA ValueSet ==
  ASSUME IsTree, HasParents, NEW n \in DOMAIN tree, NEW c \in Cols, NEW v \in 0..MaxLen,
         tree' = [tree EXCEPT ![n].vals[c] = v]
  PROVE  /\ IsTree' /\ HasParents' /\ KeepsTree /\ Size' = Size /\ DOMAIN tree' = DOMAIN tree
         /\ \A p \in DOMAIN tree : tree'[p].kids = tree[p].kids
<1>1. Size \in Nat \ {0} /\ tree \in [0..(Size - 1) -> Nodes]
  BY DEF IsTree
<1>2. DOMAIN tree' = DOMAIN tree /\ Size' = Size
  BY DEF Size
<1>3. tree[n] \in Nodes /\ tree[n].vals \in [Cols -> 0..MaxLen]
  BY <1>1 DEF Nodes
<1>4. tree'[n] = [tree[n] EXCEPT !.vals[c] = v]
  BY <1>1
<1>5. tree'[n] \in Nodes /\ tree'[n].tag = tree[n].tag /\ tree'[n].kids = tree[n].kids
  BY <1>3, <1>4 DEF Nodes
<1>6. \A p \in DOMAIN tree : p # n => tree'[p] = tree[p]
  BY <1>1
<1>7. \A p \in DOMAIN tree : tree'[p].tag = tree[p].tag /\ tree'[p].kids = tree[p].kids
  BY <1>5, <1>6
<1>8. tree' \in [0..(Size - 1) -> Nodes]
  BY <1>1, <1>5, <1>6
<1>9. IsTree'
  BY <1>1, <1>2, <1>7, <1>8 DEF IsTree, Tag
<1>10. HasParents'
  BY <1>2, <1>7 DEF HasParents
<1>11. KeepsTree
  BY <1>2, <1>7 DEF KeepsTree, ToSet
<1> QED
  BY <1>2, <1>7, <1>9, <1>10, <1>11

(* A child is put between its siblings; it is the youngest node.             *)
LEMMA ChildAdded ==
  ASSUME IsTree, HasParents, top.node \in DOMAIN tree,
         NEW place \in 1..(Len(Siblings) + 1), NEW tag \in AllTags,
         Value \in [Cols -> 0..MaxLen], NewChild(place, tag)
  PROVE  /\ IsTree' /\ HasParents' /\ KeepsTree
         /\ Size \in Nat \ {0} /\ Size' = Size + 1
         /\ DOMAIN tree = 0..(Size - 1) /\ DOMAIN tree' = 0..Size
         /\ tree'[Size].tag = tag /\ tree'[Size].kids = <<>>
         /\ \A p \in DOMAIN tree : p # top.node => tree'[p].kids = tree[p].kids
         /\ Len(Siblings) \in Nat
         /\ LET kids == tree'[top.node].kids
            IN  /\ kids \in Seq(Nat) /\ Len(kids) = Len(Siblings) + 1
                /\ \A i \in 1..(Len(Siblings) + 1) :
                     kids[i] = IF i < place THEN Siblings[i]
                               ELSE IF i = place THEN Size ELSE Siblings[i - 1]
<1> DEFINE id == Size
           node == Node(tag, Value)
           kids == InsertAt(Siblings, place, id)
           parent == [tree[top.node] EXCEPT !.kids = kids]
<1>1. id \in Nat \ {0} /\ tree \in [0..(id - 1) -> Nodes] /\ DOMAIN tree = 0..(id - 1)
  BY DEF IsTree
<1>2. Siblings \in Seq(Nat) /\ Len(Siblings) \in Nat
  BY <1>1 DEF Nodes, Siblings
<1>3. /\ kids \in Seq(Nat) /\ Len(kids) = Len(Siblings) + 1
      /\ \A i \in 1..(Len(Siblings) + 1) :
           kids[i] = IF i < place THEN Siblings[i] ELSE IF i = place THEN id ELSE Siblings[i - 1]
  <2>1. Siblings \in Seq(Nat) /\ id \in Nat
    BY <1>1, <1>2
  <2> HIDE DEF id
  <2>2. IsInserted(InsertAt(Siblings, place, id), Siblings, place, id)
    BY <2>1, Inserted
  <2> QED
    BY <2>2 DEF IsInserted
<1>4. tree' = [n \in DOMAIN tree \cup {id} |->
                 IF n = id THEN node
                 ELSE IF n = top.node THEN [tree[n] EXCEPT !.kids = InsertAt(@, place, id)]
                 ELSE tree[n]]
  BY Zenon DEF NewChild, Size
<1>4a. [tree[top.node] EXCEPT !.kids = InsertAt(@, place, id)] = parent
  BY DEF Siblings
<1> HIDE DEF kids
<1>5. node \in Nodes /\ node.tag = tag /\ node.kids = <<>>
  BY DEF Node, Nodes
<1> HIDE DEF node
<1>6. parent \in Nodes /\ parent.tag = tree[top.node].tag /\ parent.kids = kids
  BY <1>1, <1>3, ZenonT(60) DEF Nodes
<1>8. (0..(id - 1)) \cup {id} = 0..id /\ ~(id \in 0..(id - 1))
  BY <1>1
<1>7. tree' = [n \in 0..id |->
                 IF n = id THEN node ELSE IF n = top.node THEN parent ELSE tree[n]]
  BY <1>1, <1>4, <1>4a, <1>8
<1> HIDE DEF parent
<1>9. /\ DOMAIN tree' = 0..id /\ tree'[id] = node /\ tree'[top.node] = parent
      /\ \A n \in DOMAIN tree : n # top.node => tree'[n] = tree[n]
  BY <1>1, <1>7, <1>8
<1>10. tree' \in [0..id -> Nodes]
  BY <1>1, <1>5, <1>6, <1>7, <1>8
<1>11. Size' = id + 1
  BY <1>1, <1>9, FS_Interval DEF Size
<1>12. KeepsTree
  <2>1. \A n \in DOMAIN tree : tree'[n].tag = tree[n].tag
    BY <1>6, <1>9
  <2>2. ASSUME NEW k \in ToSet(Siblings) PROVE k \in ToSet(kids)
    <3>1. PICK i \in DOMAIN Siblings : k = Siblings[i]
      BY DEF ToSet
    <3>2. i \in 1..Len(Siblings) /\ DOMAIN kids = 1..(Len(Siblings) + 1)
      BY <1>2, <1>3, <3>1
    <3>3. CASE i < place
      BY <1>2, <1>3, <3>1, <3>2, <3>3, SMTT(30) DEF ToSet
    <3>4. CASE ~(i < place)
      <4>1. i + 1 \in 1..(Len(Siblings) + 1) /\ ~(i + 1 < place) /\ i + 1 # place /\ i + 1 - 1 = i
        BY <1>2, <3>2, <3>4
      <4>2. kids[i + 1] = k
        BY <1>3, <3>1, <4>1
      <4> QED
        BY <3>2, <4>1, <4>2 DEF ToSet
    <3> QED
      BY <3>3, <3>4
  <2>3. ToSet(tree[top.node].kids) \subseteq ToSet(tree'[top.node].kids)
    BY <1>6, <1>9, <2>2 DEF Siblings
  <2> QED
    BY <1>1, <1>8, <1>9, <2>1, <2>3 DEF KeepsTree
<1>13. IsTree'
  <2>1. ASSUME NEW i \in DOMAIN kids PROVE kids[i] \in 1..id
    <3>1. \A j \in DOMAIN Siblings : Siblings[j] \in 1..(id - 1)
      BY DEF IsTree, Siblings
    <3>2. i \in 1..(Len(Siblings) + 1) /\ DOMAIN Siblings = 1..Len(Siblings)
      BY <1>2, <1>3
    <3>3. CASE i < place
      <4>1. i \in DOMAIN Siblings /\ kids[i] = Siblings[i]
        BY <1>2, <1>3, <3>2, <3>3
      <4> QED
        BY <1>1, <3>1, <4>1
    <3>4. CASE i = place
      BY <1>1, <1>3, <3>2, <3>4
    <3>5. CASE i > place
      <4>1. i - 1 \in DOMAIN Siblings /\ kids[i] = Siblings[i - 1]
        BY <1>2, <1>3, <3>2, <3>5
      <4> QED
        BY <1>1, <3>1, <4>1
    <3> QED
      BY <1>2, <3>2, <3>3, <3>4, <3>5
  <2>2. \A p \in DOMAIN tree' : \A i \in DOMAIN tree'[p].kids : tree'[p].kids[i] \in 1..id
    <3> SUFFICES ASSUME NEW p \in DOMAIN tree', NEW i \in DOMAIN tree'[p].kids
                 PROVE  tree'[p].kids[i] \in 1..id
      OBVIOUS
    <3>1. CASE p = id
      BY <1>5, <1>9, <3>1
    <3>2. CASE p = top.node
      BY <1>6, <1>9, <2>1, <3>2
    <3>3. CASE p # id /\ p # top.node
      <4>1. p \in DOMAIN tree /\ tree'[p] = tree[p]
        BY <1>1, <1>8, <1>9, <3>3
      <4>2. tree[p].kids[i] \in 1..(id - 1)
        BY <4>1 DEF IsTree
      <4> QED
        BY <1>1, <4>1, <4>2
    <3> QED
      BY <3>1, <3>2, <3>3
  <2>3. \A n \in 1..id : tree'[n].tag \in AllTags
    <3> SUFFICES ASSUME NEW n \in 1..id PROVE tree'[n].tag \in AllTags
      OBVIOUS
    <3>1. CASE n = id
      BY <1>5, <1>9, <3>1
    <3>2. CASE n # id
      <4>1. n \in 1..(id - 1) /\ n \in DOMAIN tree
        BY <1>1, <3>2
      <4>2. tree'[n].tag = tree[n].tag
        BY <1>12, <4>1 DEF KeepsTree
      <4> QED
        BY <4>1, <4>2 DEF IsTree, Tag
    <3> QED
      BY <3>1, <3>2
  <2>4. Size' - 1 = id /\ Size' \in Nat \ {0}
    BY <1>1, <1>11
  <2> QED
    BY <1>10, <2>2, <2>3, <2>4, Zenon DEF IsTree, Tag
<1>14. HasParents'
  <2> SUFFICES ASSUME NEW n \in 1..id
               PROVE  \E p \in DOMAIN tree' : \E i \in DOMAIN tree'[p].kids : tree'[p].kids[i] = n
    <3>1. Size' - 1 = id
      BY <1>1, <1>11
    <3> QED
      BY <3>1, Zenon DEF HasParents
  <2>1. CASE n = id
    <3>1. place \in DOMAIN kids /\ kids[place] = n
      BY <1>2, <1>3, <2>1
    <3>2. top.node \in DOMAIN tree' /\ tree'[top.node].kids = kids
      BY <1>1, <1>6, <1>8, <1>9
    <3> QED
      BY <3>1, <3>2
  <2>2. CASE n # id
    <3>1. n \in 1..(id - 1)
      BY <1>1, <2>2
    <3>2. PICK p \in DOMAIN tree : n \in ToSet(tree[p].kids)
      BY <3>1 DEF HasParents, ToSet
    <3>3. p \in DOMAIN tree' /\ n \in ToSet(tree'[p].kids)
      BY <1>12, <3>2, Zenon DEF KeepsTree
    <3> QED
      BY <3>3, Zenon DEF ToSet
  <2> QED
    BY <2>1, <2>2
<1>15. \A p \in DOMAIN tree : p # top.node => tree'[p].kids = tree[p].kids
  BY <1>9
<1> QED
  BY <1>1, <1>2, <1>3, <1>5, <1>6, <1>9, <1>11, <1>12, <1>13, <1>14, <1>15

(* A call stays one, and stays called from another, while the tree grows and *)
(* the reading goes on.                                                      *)
LEMMA CallsKept ==
  ASSUME IsTree, Inputs, KeepsTree, UNCHANGED <<maker, messages>>, inc <= inc', inc' \in Nat
  PROVE  /\ Calls' = Calls
         /\ \A x : IsCall(x) => IsCall(x)'
         /\ \A x, y : IsCall(x) /\ IsCall(y) /\ CalledFrom(x, y) => CalledFrom(x, y)'
<1>1. Counters' = Counters /\ message' = message /\ \A g : Members(g)' = Members(g)
  BY DEF Counters, message, Members
<1>2. Calls' = Calls
  BY <1>1, Zenon DEF Calls
<1>3. inc \in Nat /\ MaxLen \in Nat
  BY RuvAssumption DEF Inputs
<1>4. ASSUME NEW x, IsCall(x) PROVE IsCall(x)'
  <2>1. x.counter \in Nat /\ x.counter < inc
    BY <1>3, <1>4 DEF IsCall, Calls
  <2>2. x.counter < inc'
    BY <1>3, <2>1
  <2>3. x.node \in DOMAIN tree'
    BY <1>4, Zenon DEF IsCall, KeepsTree
  <2> QED
    BY <1>1, <1>2, <1>4, <2>2, <2>3, Zenon DEF IsCall
<1>5. ASSUME NEW x, NEW y, IsCall(x), IsCall(y), CalledFrom(x, y) PROVE CalledFrom(x, y)'
  <2>1. tree'[x.node].tag = tree[x.node].tag
    BY <1>5, Zenon DEF IsCall, KeepsTree
  <2>2. x.node \in ToSet(tree'[y.node].kids)
    BY <1>5, Zenon DEF IsCall, CalledFrom, KeepsTree
  <2> QED
    BY <1>1, <1>5, <2>1, <2>2, Zenon DEF CalledFrom, Tag
<1> QED
  BY <1>2, <1>4, <1>5

(* The innermost call goes on.                                               *)
LEMMA CallGoesOn ==
  ASSUME IsTree, Inputs, Nested, KeepsTree, UNCHANGED <<maker, messages>>, frames # <<>>,
         inc <= inc', inc' \in Nat, inc' <= Len(message) + 1,
         NEW x \in Calls, x.node = top.node, x.rest \subseteq top.rest,
         x.counter # 0 => x.counter < inc' /\ message[x.counter] \in Counters,
         frames' = Front(frames) \o <<x>>
  PROVE  Nested'
<1> DEFINE n == Len(frames)
<1>1. /\ n \in Nat \ {0} /\ DOMAIN frames = 1..n /\ top = frames[n] /\ IsCall(top)
      /\ (~AtRoot => CalledFrom(top, frames[n - 1]) /\ n - 1 \in DOMAIN frames)
  BY TopCall
<1>2. /\ Calls' = Calls /\ message' = message /\ Counters' = Counters
      /\ \A y : IsCall(y) => IsCall(y)'
      /\ \A y, z : IsCall(y) /\ IsCall(z) /\ CalledFrom(y, z) => CalledFrom(y, z)'
  BY CallsKept DEF message, Counters
<1>3. /\ frames' \in Seq(Calls) /\ Len(frames') = n
      /\ frames'[n] = x /\ \A i \in 1..(n - 1) : frames'[i] = frames[i]
  BY ReplaceLast DEF Nested
<1>4. DOMAIN frames' = 1..n
  BY <1>3
<1>5. IsCall(x)'
  <2>1. x.counter < inc'
    <3>1. inc \in Nat /\ inc # 0
      BY Reading
    <3> QED
      BY <3>1
  <2>2. x.node \in DOMAIN tree'
    BY <1>1, Zenon DEF IsCall, KeepsTree
  <2> QED
    BY <1>2, <2>1, <2>2, Zenon DEF IsCall
<1> HIDE DEF n
<1>6. \A i \in DOMAIN frames' : IsCall(frames[i])'
  <2> SUFFICES ASSUME NEW i \in 1..n PROVE IsCall(frames[i])'
    BY <1>4
  <2>1. CASE i = n
    BY <1>3, <1>5, <2>1
  <2>2. CASE i # n
    <3>1. i \in 1..(n - 1) /\ i \in DOMAIN frames
      BY <1>1, <2>2
    <3>2. frames'[i] = frames[i] /\ IsCall(frames[i])
      BY <1>3, <3>1 DEF Nested
    <3> QED
      BY <1>2, <3>2
  <2> QED
    BY <2>1, <2>2
<1>7. \A i \in DOMAIN frames' \ {1} : CalledFrom(frames[i], frames[i - 1])'
  <2> SUFFICES ASSUME NEW i \in 2..n PROVE CalledFrom(frames[i], frames[i - 1])'
    BY <1>1, <1>4
  <2>1. i \in DOMAIN frames \ {1} /\ i - 1 \in DOMAIN frames /\ i - 1 \in 1..(n - 1)
    BY <1>1
  <2>2. /\ CalledFrom(frames[i], frames[i - 1]) /\ IsCall(frames[i]) /\ IsCall(frames[i - 1])
        /\ frames'[i - 1] = frames[i - 1]
    BY <1>3, <2>1 DEF Nested
  <2>3. PICK y, z : y = frames[i] /\ z = frames[i - 1]
    OBVIOUS
  <2>4. CalledFrom(y, z)'
    BY <1>2, <2>2, <2>3
  <2>5. CASE i = n
    <3>1. y = top /\ frames'[i] = x
      BY <1>1, <1>3, <2>3, <2>5
    <3>2. CalledFrom(x, z)'
      BY <2>4, <3>1 DEF CalledFrom
    <3> QED
      BY <2>2, <2>3, <3>1, <3>2
  <2>6. CASE i # n
    <3>1. frames'[i] = y
      BY <1>1, <1>3, <2>3, <2>6
    <3> QED
      BY <2>2, <2>3, <2>4, <3>1
  <2> QED
    BY <2>5, <2>6
<1>8. messages' # <<>> /\ frames'[1].node = 0
  <2>1. messages # <<>> /\ frames[1].node = 0
    BY DEF Nested
  <2>2. CASE n = 1
    BY <1>1, <1>3, <2>1, <2>2
  <2>3. CASE n # 1
    BY <1>1, <1>3, <2>1, <2>3
  <2> QED
    BY <2>1, <2>2, <2>3
<1> QED
  BY <1>2, <1>3, <1>6, <1>7, <1>8, Zenon DEF Nested

(* It calls for an entry of its group.                                       *)
LEMMA EntryCalled ==
  ASSUME IsTree, Inputs, Nested, KeepsTree, UNCHANGED <<maker, messages, inc>>, frames # <<>>,
         NEW x \in Calls, x.node = top.node, x.rest \subseteq top.rest,
         x.counter = top.counter, top.counter # 0,
         NEW y \in Calls, y.node \in DOMAIN tree', y.counter = 0,
         y.node \in ToSet(tree'[top.node].kids), tree'[y.node].tag = message[top.counter],
         y.rest \subseteq Members(message[top.counter]),
         frames' = Front(frames) \o <<x, y>>
  PROVE  Nested'
<1> DEFINE n == Len(frames)
<1>1. /\ n \in Nat \ {0} /\ DOMAIN frames = 1..n /\ top = frames[n] /\ IsCall(top)
      /\ (~AtRoot => CalledFrom(top, frames[n - 1]) /\ n - 1 \in DOMAIN frames)
  BY TopCall
<1>2. inc \in Nat \ {0} /\ inc <= Len(message) + 1
  BY Reading
<1>3. /\ Calls' = Calls /\ message' = message /\ Counters' = Counters
      /\ \A g : Members(g)' = Members(g)
      /\ \A u : IsCall(u) => IsCall(u)'
      /\ \A u, v : IsCall(u) /\ IsCall(v) /\ CalledFrom(u, v) => CalledFrom(u, v)'
  <2>1. inc <= inc' /\ inc' \in Nat
    BY <1>2
  <2> QED
    BY <2>1, CallsKept DEF message, Counters, Members
<1>4. /\ frames' \in Seq(Calls) /\ Len(frames') = n + 1
      /\ frames'[n] = x /\ frames'[n + 1] = y /\ \A i \in 1..(n - 1) : frames'[i] = frames[i]
  BY ReplaceLastAppend DEF Nested
<1>5. DOMAIN frames' = 1..(n + 1)
  BY <1>4
<1>6. IsCall(x)' /\ IsCall(y)'
  <2>2. x.node \in DOMAIN tree' /\ x.counter < inc' /\ message[x.counter] \in Counters
    BY <1>1, <1>3 DEF IsCall, KeepsTree
  <2>3. y.counter < inc'
    BY <1>2
  <2> QED
    BY <1>3, <2>2, <2>3, Zenon DEF IsCall
<1>7. CalledFrom(y, x)'
  BY <1>3, Zenon DEF CalledFrom, Tag
<1> HIDE DEF n
<1>8. \A i \in DOMAIN frames' : IsCall(frames[i])'
  <2> SUFFICES ASSUME NEW i \in 1..(n + 1) PROVE IsCall(frames[i])'
    BY <1>5
  <2>1. CASE i = n
    BY <1>4, <1>6, <2>1
  <2>2. CASE i = n + 1
    BY <1>4, <1>6, <2>2
  <2>3. CASE i \in 1..(n - 1)
    <3>1. i \in DOMAIN frames
      BY <1>1, <2>3
    <3>2. frames'[i] = frames[i] /\ IsCall(frames[i])
      BY <1>4, <2>3, <3>1 DEF Nested
    <3> QED
      BY <1>3, <3>2
  <2>4. i = n \/ i = n + 1 \/ i \in 1..(n - 1)
    BY <1>1
  <2> QED
    BY <2>1, <2>2, <2>3, <2>4, ZenonT(60)
<1>9. \A i \in DOMAIN frames' \ {1} : CalledFrom(frames[i], frames[i - 1])'
  <2>0. DOMAIN frames' \ {1} = 2..(n + 1)
    <3>1. \A k \in Nat : (1..(k + 1)) \ {1} = 2..(k + 1)
      OBVIOUS
    <3> QED
      BY <1>1, <1>5, <3>1
  <2> SUFFICES ASSUME NEW i \in 2..(n + 1) PROVE CalledFrom(frames[i], frames[i - 1])'
    BY <2>0, Zenon
  <2>1. CASE i = n + 1
    <3>1. i - 1 = n
      BY <1>1, <2>1
    <3> QED
      BY <1>4, <1>7, <2>1, <3>1
  <2>2. CASE i # n + 1
    <3>1. i \in DOMAIN frames \ {1} /\ i - 1 \in DOMAIN frames /\ i - 1 \in 1..(n - 1)
      BY <1>1, <2>2
    <3>2. /\ CalledFrom(frames[i], frames[i - 1]) /\ IsCall(frames[i]) /\ IsCall(frames[i - 1])
          /\ frames'[i - 1] = frames[i - 1]
      BY <1>4, <3>1 DEF Nested
    <3>3. PICK u, v : u = frames[i] /\ v = frames[i - 1]
      OBVIOUS
    <3>4. CalledFrom(u, v)'
      BY <1>3, <3>2, <3>3
    <3>5. CASE i = n
      <4>1. u = top /\ frames'[i] = x
        BY <1>1, <1>4, <3>3, <3>5
      <4>2. CalledFrom(x, v)'
        BY <3>4, <4>1 DEF CalledFrom
      <4> QED
        BY <3>2, <3>3, <4>1, <4>2
    <3>6. CASE i # n
      <4>1. frames'[i] = u
        BY <1>1, <1>4, <2>2, <3>3, <3>6
      <4> QED
        BY <3>2, <3>3, <3>4, <4>1
    <3> QED
      BY <3>5, <3>6
  <2> QED
    BY <2>1, <2>2
<1>10. messages' # <<>> /\ frames'[1].node = 0
  <2>1. messages # <<>> /\ frames[1].node = 0
    BY DEF Nested
  <2>2. CASE n = 1
    BY <1>1, <1>4, <2>1, <2>2
  <2>3. CASE n # 1
    BY <1>1, <1>4, <2>1, <2>3
  <2> QED
    BY <2>1, <2>2, <2>3
<1>11. inc' <= Len(message') + 1
  BY <1>2, <1>3
<1> QED
  BY <1>3, <1>4, <1>8, <1>9, <1>10, <1>11, Zenon DEF Nested

(* It returns.                                                               *)
LEMMA CallReturns ==
  ASSUME IsTree, Inputs, Nested, UNCHANGED <<maker, messages, inc, tree>>, frames # <<>>,
         frames' = Front(frames)
  PROVE  Nested'
<1> DEFINE n == Len(frames)
<1>1. n \in Nat \ {0} /\ DOMAIN frames = 1..n
  BY TopCall
<1>2. inc \in Nat \ {0} /\ inc <= Len(message) + 1 /\ messages # <<>>
  BY Reading DEF Nested
<1>3. /\ Calls' = Calls /\ message' = message
      /\ \A u : IsCall(u) => IsCall(u)'
      /\ \A u, v : IsCall(u) /\ IsCall(v) /\ CalledFrom(u, v) => CalledFrom(u, v)'
  <2>1. inc <= inc' /\ inc' \in Nat /\ KeepsTree
    BY <1>2 DEF KeepsTree
  <2> QED
    BY <2>1, CallsKept DEF message
<1>4. /\ frames' \in Seq(Calls) /\ Len(frames') = n - 1
      /\ \A i \in 1..(n - 1) : frames'[i] = frames[i]
  BY FrontIs DEF Nested
<1>5. DOMAIN frames' = 1..(n - 1)
  BY <1>4
<1> HIDE DEF n
<1>6. \A i \in DOMAIN frames' : IsCall(frames[i])'
  <2> SUFFICES ASSUME NEW i \in 1..(n - 1) PROVE IsCall(frames[i])'
    BY <1>5
  <2>1. i \in DOMAIN frames
    BY <1>1
  <2>2. frames'[i] = frames[i] /\ IsCall(frames[i])
    BY <1>4, <2>1 DEF Nested
  <2> QED
    BY <1>3, <2>2
<1>7. \A i \in DOMAIN frames' \ {1} : CalledFrom(frames[i], frames[i - 1])'
  <2> SUFFICES ASSUME NEW i \in 2..(n - 1) PROVE CalledFrom(frames[i], frames[i - 1])'
    BY <1>1, <1>5
  <2>1. i \in DOMAIN frames \ {1} /\ i - 1 \in DOMAIN frames /\ i - 1 \in 1..(n - 1)
    BY <1>1
  <2>2. /\ CalledFrom(frames[i], frames[i - 1]) /\ IsCall(frames[i]) /\ IsCall(frames[i - 1])
        /\ frames'[i - 1] = frames[i - 1] /\ frames'[i] = frames[i]
    BY <1>4, <2>1 DEF Nested
  <2> QED
    BY <1>3, <2>2
<1>8. frames' # <<>> => frames'[1].node = 0
  <2>1. frames' # <<>> => n # 1
    BY <1>1, <1>4
  <2>2. n # 1 => frames'[1] = frames[1]
    BY <1>1, <1>4
  <2> QED
    BY <2>1, <2>2 DEF Nested
<1> QED
  BY <1>2, <1>3, <1>4, <1>6, <1>7, <1>8, Zenon DEF Nested

-----------------------------------------------------------------------------
(* Every step keeps the shape.                                               *)
LEMMA ShapeInit == Init => Shape
<1> SUFFICES ASSUME Init PROVE Shape
  OBVIOUS
<1> USE DEF Init
<1>1. Columns \in Nat /\ MaxLen \in Nat
  BY RuvAssumption
<1>2. Inputs
  BY <1>1 DEF Inputs
<1>3. tree = [n \in {0} |-> Node("root", Empty)] /\ DOMAIN tree = {0}
  BY Zenon
<1>4. Size = 1
  BY <1>3, FS_Singleton DEF Size
<1>5. Node("root", Empty) \in Nodes /\ Node("root", Empty).kids = <<>>
  BY <1>1 DEF Node, Nodes, Empty
<1>6. IsTree /\ HasParents
  <2>1. 0..(Size - 1) = {0} /\ 1..(Size - 1) = {}
    BY <1>4
  <2>2. tree[0].kids = <<>> /\ tree \in [{0} -> Nodes]
    BY <1>3, <1>5
  <2>3. IsTree
    BY <1>3, <1>4, <2>1, <2>2 DEF IsTree
  <2> QED
    BY <2>1, <2>3 DEF HasParents
<1>7. Nested
  BY DEF Nested
<1> QED
  BY <1>2, <1>6, <1>7 DEF Shape

(* The call of a step that reads a pair goes on without its tag.             *)
LEMMA Resumed ==
  ASSUME Inputs, IsTree, HasParents, Nested, IsTree', HasParents', KeepsTree,
         UNCHANGED <<maker, messages>>, alive' \in BOOLEAN,
         frames # <<>>, More, NEW c \in {0, inc}, c # 0 => token \in Counters, top.counter = 0,
         Resume([top EXCEPT !.counter = c], inc + 1)
  PROVE  /\ Shape'
         /\ \E x \in Calls :
              /\ x.node = top.node /\ x.counter = c
              /\ x.rest = IF maker = "rmake" THEN top.rest \ {token} ELSE top.rest
              /\ Len(frames') = Len(frames) /\ frames'[Len(frames)] = x
              /\ \A i \in 1..(Len(frames) - 1) : frames'[i] = frames[i]
<1> DEFINE frame == [top EXCEPT !.counter = c]
           x == IF maker = "rmake" THEN [frame EXCEPT !.rest = @ \ {token}] ELSE frame
<1>1. /\ MaxLen \in Nat /\ Len(message) \in Nat /\ Len(message) <= MaxLen
      /\ inc \in Nat \ {0} /\ inc \in 1..Len(message)
  BY Reading
<1>2. top \in Calls /\ IsCall(top)
  BY TopCall
<1>3. c \in 0..MaxLen
  BY <1>1
<1>4. /\ frame \in Calls /\ frame.node = top.node /\ frame.counter = c
      /\ frame.rest = top.rest
  BY <1>2, <1>3 DEF Calls
<1> HIDE DEF frame
<1>5. /\ x \in Calls /\ x.node = top.node /\ x.counter = c
      /\ x.rest = IF maker = "rmake" THEN top.rest \ {token} ELSE top.rest
  BY <1>4 DEF Calls
<1>6. frames' = Front(frames) \o <<x>> /\ inc' = inc + 1
  BY DEF Resume, frame
<1> HIDE DEF x
<1>7. inc <= inc' /\ inc' \in Nat /\ inc' <= Len(message) + 1 /\ inc' \in 1..(MaxLen + 1)
  BY <1>1, <1>6
<1>8. x.rest \subseteq top.rest
  BY <1>5
<1>9. x.counter # 0 => x.counter < inc' /\ message[x.counter] \in Counters
  BY <1>1, <1>5, <1>6 DEF token
<1>10. Nested'
  BY <1>5, <1>6, <1>7, <1>8, <1>9, CallGoesOn
<1>11. Inputs'
  BY <1>7 DEF Inputs, AllTags
<1>12. /\ Len(frames') = Len(frames) /\ frames'[Len(frames)] = x
       /\ \A i \in 1..(Len(frames) - 1) : frames'[i] = frames[i]
  BY <1>5, <1>6, ReplaceLast DEF Nested
<1> QED
  BY <1>5, <1>10, <1>11, <1>12 DEF Shape

LEMMA ValueIsOne ==
  ASSUME Inputs, Nested, frames # <<>>, More
  PROVE  Value \in [Cols -> 0..MaxLen]
<1>1. /\ MaxLen \in Nat /\ Len(message) \in Nat /\ Len(message) <= MaxLen
      /\ inc \in Nat \ {0} /\ inc \in 1..Len(message)
  BY Reading
<1>2. top.counter \in 0..MaxLen
  BY TopCall DEF Calls
<1>3. inc \in 0..MaxLen /\ Empty \in [Cols -> 0..MaxLen]
  BY <1>1 DEF Empty
<1> QED
  BY <1>2, <1>3 DEF Value

(* Where siblings stand, and their nodes.                                    *)
LEMMA SiblingNodes ==
  ASSUME IsTree, top.node \in DOMAIN tree
  PROVE  /\ Siblings \in Seq(Nat) /\ Len(Siblings) \in Nat /\ DOMAIN Siblings = 1..Len(Siblings)
         /\ AtEnd \in 1..(Len(Siblings) + 1)
         /\ \A i \in DOMAIN Siblings : Siblings[i] \in DOMAIN tree
         /\ \A g : Lines(g) \subseteq Places(g) /\ Places(g) \subseteq 1..Len(Siblings)
<1>1. Size \in Nat \ {0} /\ tree \in [0..(Size - 1) -> Nodes] /\ DOMAIN tree = 0..(Size - 1)
  BY DEF IsTree
<1>2. Siblings \in Seq(Nat) /\ Len(Siblings) \in Nat /\ DOMAIN Siblings = 1..Len(Siblings)
  BY <1>1 DEF Nodes, Siblings
<1>3. \A i \in DOMAIN Siblings : Siblings[i] \in DOMAIN tree
  <2>1. \A i \in DOMAIN Siblings : Siblings[i] \in 1..(Size - 1)
    BY DEF IsTree, Siblings
  <2> QED
    BY <1>1, <2>1
<1>4. \A g : Lines(g) \subseteq Places(g) /\ Places(g) \subseteq 1..Len(Siblings)
  BY <1>2, Zenon DEF Lines, Places
<1>5. AtEnd \in 1..(Len(Siblings) + 1)
  BY <1>2 DEF AtEnd
<1> QED
  BY <1>2, <1>3, <1>4, <1>5

LEMMA BehindIsPlace ==
  ASSUME IsTree, top.node \in DOMAIN tree, NEW g
  PROVE  Behind(g) \in 1..(Len(Siblings) + 1)
<1> DEFINE L == Lines(g)
           n == Len(Siblings)
<1>1. n \in Nat /\ L \subseteq 1..n /\ AtEnd \in 1..(n + 1)
  BY SiblingNodes
<1> HIDE DEF L, n
<1>2. CASE L = {}
  BY <1>1, <1>2 DEF Behind, L, n
<1>3. CASE L # {}
  <2>1. L \in SUBSET Nat
    BY <1>1
  <2>2. Min(L) \in L /\ \A y \in L : Min(L) <= y
    BY <1>3, <2>1, SmallestMember
  <2> DEFINE a == Min(L)
  <2>a. a \in 1..n
    BY <1>1, <2>2, Zenon
  <2> HIDE DEF a
  <2>3. a \in Nat /\ a >= 1 /\ a <= n
    BY <1>1, <2>a
  <2>4. L \subseteq a..n
    BY <1>1, <2>1, <2>2 DEF a
  <2>5. IsFiniteSet(a..n) /\ Cardinality(a..n) = n - a + 1
    BY <1>1, <2>3, FS_Interval
  <2>6. IsFiniteSet(L) /\ Cardinality(L) <= n - a + 1
    BY <2>4, <2>5, FS_Subset, ZenonT(60)
  <2>7. Cardinality(L) \in Nat
    BY <2>6, FS_CardinalityType
  <2>8. Behind(g) = a + Cardinality(L)
    BY <1>3, Zenon DEF Behind, L, a
  <2> QED
    BY <1>1, <2>3, <2>6, <2>7, <2>8 DEF n
<1> QED
  BY <1>2, <1>3

(* What the step has done to the tree: nothing but a value, or a child more. *)
SameChildren ==
  DOMAIN tree' = DOMAIN tree /\ \A p \in DOMAIN tree : tree'[p].kids = tree[p].kids

ChildMore(place, tag) ==
  /\ Size \in Nat \ {0} /\ Size' = Size + 1 /\ Len(Siblings) \in Nat
  /\ DOMAIN tree = 0..(Size - 1) /\ DOMAIN tree' = 0..Size
  /\ tree'[Size].tag = tag /\ tree'[Size].kids = <<>>
  /\ \A p \in DOMAIN tree : p # top.node => tree'[p].kids = tree[p].kids
  /\ LET kids == tree'[top.node].kids
     IN  /\ kids \in Seq(Nat) /\ Len(kids) = Len(Siblings) + 1
         /\ \A i \in 1..(Len(Siblings) + 1) :
              kids[i] = IF i < place THEN Siblings[i]
                        ELSE IF i = place THEN Size ELSE Siblings[i - 1]

(* How the calls have changed: the innermost one goes on with counter c, with*)
(* or without its tag.                                                       *)
GoesOn(c, rest) ==
  /\ Len(frames') = Len(frames)
  /\ frames'[Len(frames)].node = top.node /\ frames'[Len(frames)].counter = c
  /\ frames'[Len(frames)].rest = rest
  /\ \A i \in 1..(Len(frames) - 1) : frames'[i] = frames[i]

RestAfter == IF maker = "rmake" THEN top.rest \ {token} ELSE top.rest

LEMMA ReadFieldShape ==
  ASSUME Shape, ReadField
  PROVE  /\ Shape' /\ KeepsTree /\ GoesOn(0, RestAfter)
         /\ \/ Lines(token) # {} /\ SameChildren
            \/ Lines(token) = {} /\ ChildMore(AtEnd, token)
<1>1. /\ frames # <<>> /\ More /\ top.counter = 0
      /\ Resume(top, inc + 1) /\ UNCHANGED <<maker, messages, alive>>
  BY Zenon DEF ReadField, Takes
<1>2. /\ top \in Calls /\ top.node \in DOMAIN tree /\ column \in Cols /\ token \in AllTags
      /\ inc \in Nat /\ inc \in 0..MaxLen
  <2>1. /\ MaxLen \in Nat /\ Len(message) \in Nat /\ Len(message) <= MaxLen
        /\ inc \in 1..Len(message) /\ column \in Cols /\ token \in AllTags
    BY <1>1, Reading DEF Shape
  <2> QED
    BY <1>1, <2>1, TopCall DEF Shape, IsCall
<1>3. Resume([top EXCEPT !.counter = 0], inc + 1)
  <2>1. [top EXCEPT !.counter = 0] = top
    BY <1>1, <1>2 DEF Calls
  <2> QED
    BY <1>1, <2>1, Zenon
<1>4. ASSUME IsTree', HasParents', KeepsTree PROVE Shape' /\ GoesOn(0, RestAfter)
  BY <1>1, <1>3, <1>4, Resumed DEF Shape, GoesOn, RestAfter, Inputs
<1>5. CASE Lines(token) = {}
  <2>1. NewChild(AtEnd, token)
    BY <1>5, Zenon DEF ReadField
  <2>2. Value \in [Cols -> 0..MaxLen] /\ AtEnd \in 1..(Len(Siblings) + 1)
    BY <1>1, <1>2, ValueIsOne, SiblingNodes DEF Shape
  <2>3. IsTree' /\ HasParents' /\ KeepsTree /\ ChildMore(AtEnd, token)
    BY <1>2, <2>1, <2>2, ChildAdded DEF Shape, ChildMore
  <2> QED
    BY <1>4, <1>5, <2>3
<1>6. CASE Lines(token) # {}
  <2> DEFINE n == Siblings[Min(Lines(token))]
  <2>1. tree' = [tree EXCEPT ![n].vals[column] = inc]
    BY <1>6, Zenon DEF ReadField
  <2>2. n \in DOMAIN tree
    <3>1. /\ Lines(token) \subseteq 1..Len(Siblings) /\ Len(Siblings) \in Nat
          /\ DOMAIN Siblings = 1..Len(Siblings)
          /\ \A i \in DOMAIN Siblings : Siblings[i] \in DOMAIN tree
      BY <1>2, SiblingNodes DEF Shape
    <3>2. Lines(token) \in SUBSET Nat
      BY <3>1
    <3>3. Min(Lines(token)) \in Lines(token)
      BY <1>6, <3>2, SmallestMember
    <3> QED
      BY <3>1, <3>3
  <2> HIDE DEF n
  <2>3. IsTree' /\ HasParents' /\ KeepsTree /\ SameChildren
    BY <1>2, <2>1, <2>2, ValueSet DEF Shape, SameChildren
  <2> QED
    BY <1>4, <1>6, <2>3
<1> QED
  BY <1>5, <1>6

LEMMA KeptTree ==
  ASSUME IsTree, HasParents, UNCHANGED tree
  PROVE  IsTree' /\ HasParents' /\ KeepsTree
BY DEF IsTree, HasParents, KeepsTree, Size, Tag, Nodes, Cols

LEMMA CounterShape ==
  ASSUME Shape, SkipCounter \/ SkipLastCounter
  PROVE  Shape' /\ GoesOn(0, RestAfter)
<1>1. /\ frames # <<>> /\ More /\ top.counter = 0 /\ alive' \in BOOLEAN
      /\ Resume(top, inc + 1) /\ UNCHANGED <<maker, messages, tree>>
  BY DEF SkipCounter, SkipLastCounter, Takes, Shape, Inputs
<1>2. top \in Calls
  BY <1>1, TopCall DEF Shape
<1>3. Resume([top EXCEPT !.counter = 0], inc + 1)
  <2>1. [top EXCEPT !.counter = 0] = top
    BY <1>1, <1>2 DEF Calls
  <2> QED
    BY <1>1, <2>1, Zenon
<1>4. IsTree' /\ HasParents' /\ KeepsTree
  BY <1>1, KeptTree DEF Shape
<1> QED
  BY <1>1, <1>3, <1>4, Resumed DEF Shape, GoesOn, RestAfter

LEMMA OpenGroupShape ==
  ASSUME Shape, OpenGroup
  PROVE  Shape' /\ GoesOn(inc, RestAfter)
<1>1. /\ frames # <<>> /\ More /\ top.counter = 0 /\ alive' \in BOOLEAN /\ token \in Counters
      /\ Resume([top EXCEPT !.counter = inc], inc + 1) /\ UNCHANGED <<maker, messages, tree>>
  BY DEF OpenGroup, Takes, Shape, Inputs
<1>2. IsTree' /\ HasParents' /\ KeepsTree
  BY <1>1, KeptTree DEF Shape
<1> QED
  BY <1>1, <1>2, Resumed DEF Shape, GoesOn, RestAfter

LEMMA CloseGroupShape ==
  ASSUME Shape, CloseGroup
  PROVE  Shape' /\ GoesOn(0, top.rest)
<1> DEFINE x == [top EXCEPT !.counter = 0]
<1>1. /\ frames # <<>> /\ frames' = Front(frames) \o <<x>>
      /\ UNCHANGED <<maker, messages, inc, tree, alive>>
  BY Zenon DEF CloseGroup
<1>2. top \in Calls /\ MaxLen \in Nat
  BY <1>1, TopCall, RuvAssumption DEF Shape
<1>3. x \in Calls /\ x.node = top.node /\ x.rest = top.rest /\ x.counter = 0
  BY <1>2 DEF Calls
<1> HIDE DEF x
<1>4. IsTree' /\ HasParents' /\ KeepsTree
  BY <1>1, KeptTree DEF Shape
<1>5. inc <= inc' /\ inc' \in Nat /\ inc' <= Len(message) + 1
  BY <1>1, Reading DEF Shape
<1>6. Nested'
  BY <1>1, <1>3, <1>4, <1>5, CallGoesOn DEF Shape
<1>7. GoesOn(0, top.rest)
  BY <1>1, <1>3, ReplaceLast DEF Shape, Nested, GoesOn
<1>8. Inputs'
  BY <1>1 DEF Shape, Inputs, AllTags
<1> QED
  BY <1>4, <1>6, <1>7, <1>8 DEF Shape

LEMMA ReturnShape ==
  ASSUME Shape, Return
  PROVE  /\ Shape' /\ Len(frames') = Len(frames) - 1
         /\ \A i \in 1..(Len(frames) - 1) : frames'[i] = frames[i]
<1>1. /\ frames # <<>> /\ frames' = Front(frames)
      /\ UNCHANGED <<maker, messages, inc, tree, alive>>
  BY Zenon DEF Return
<1>2. IsTree' /\ HasParents'
  BY <1>1, KeptTree DEF Shape
<1>3. Nested'
  BY <1>1, CallReturns DEF Shape
<1>4. Inputs'
  BY <1>1 DEF Shape, Inputs, AllTags
<1>5. /\ Len(frames') = Len(frames) - 1
      /\ \A i \in 1..(Len(frames) - 1) : frames'[i] = frames[i]
  BY <1>1, FrontIs DEF Shape, Nested
<1> QED
  BY <1>2, <1>3, <1>4, <1>5 DEF Shape

(* A call for an entry: one that is there, or a child more.                  *)
Calling(child) ==
  /\ Len(frames') = Len(frames) + 1
  /\ frames'[Len(frames)].node = top.node /\ frames'[Len(frames)].counter = top.counter
  /\ frames'[Len(frames)].rest = top.rest
  /\ frames'[Len(frames) + 1].node = child /\ frames'[Len(frames) + 1].counter = 0
  /\ frames'[Len(frames) + 1].rest = Members(message[top.counter])
  /\ \A i \in 1..(Len(frames) - 1) : frames'[i] = frames[i]

LEMMA MembersAreTags ==
  ASSUME NEW g \in Counters
  PROVE  Members(g) \subseteq AllTags /\ g \in AllTags
BY RuvAssumption DEF Counters, Members, AllTags

LEMMA ReadEntryShape ==
  ASSUME Shape, ReadEntry
  PROVE  /\ Shape' /\ KeepsTree
         /\ LET group == message[top.counter]
            IN  \/ /\ Entries(group) # {} /\ UNCHANGED tree
                   /\ \E i \in Entries(group) : Calling(Siblings[i])
                \/ /\ Entries(group) = {} /\ Calling(Size)
                   /\ ChildMore(Behind(group), group)
<1> DEFINE group == message[top.counter]
           caller == [top EXCEPT !.seen[group] = Turn(group)]
           called(node) == Frame(node, Members(group))
<1>1. /\ frames # <<>> /\ More /\ top.counter # 0
      /\ UNCHANGED <<maker, messages, inc, alive>>
      /\ \/ /\ \E i \in Entries(group) : frames' = Front(frames) \o <<caller, called(Siblings[i])>>
            /\ UNCHANGED tree
         \/ /\ Entries(group) = {}
            /\ frames' = Front(frames) \o <<caller, called(Size)>>
            /\ NewChild(Behind(group), group)
  BY Zenon DEF ReadEntry, Size
<1>2. /\ top \in Calls /\ top.node \in DOMAIN tree /\ group \in Counters
      /\ frames \in Seq(Calls)
  BY <1>1, TopCall DEF Shape, IsCall, Nested
<1>3. Members(group) \subseteq AllTags /\ group \in AllTags
  BY <1>2, MembersAreTags
<1> HIDE DEF group
<1>4. /\ caller \in Calls /\ caller.node = top.node /\ caller.rest = top.rest
      /\ caller.counter = top.counter
  <2>1. top.seen \in [Counters -> Nat] /\ Turn(group) \in Nat
    BY <1>2 DEF Calls, Turn
  <2>2. [top.seen EXCEPT ![group] = Turn(group)] \in [Counters -> Nat]
    BY <1>2, <2>1
  <2>3. caller = [top EXCEPT !.seen = [top.seen EXCEPT ![group] = Turn(group)]]
    BY <1>2 DEF Calls
  <2> QED
    BY <1>2, <2>2, <2>3 DEF Calls
<1> HIDE DEF caller
<1>5. ASSUME NEW k \in Nat
      PROVE  /\ called(k) \in Calls /\ called(k).node = k /\ called(k).counter = 0
             /\ called(k).rest = Members(group)
  BY <1>3, RuvAssumption DEF Calls, Frame
<1> HIDE DEF called
<1>6. Inputs'
  BY <1>1 DEF Shape, Inputs, AllTags
<1>7. ASSUME NEW k \in Nat, k \in DOMAIN tree', IsTree', HasParents', KeepsTree,
             k \in ToSet(tree'[top.node].kids), tree'[k].tag = group,
             frames' = Front(frames) \o <<caller, called(k)>>
      PROVE  Shape' /\ Calling(k)
  <2>1. Nested'
    <3>1. called(k) \in Calls /\ called(k).node = k /\ called(k).counter = 0
          /\ called(k).rest = Members(group)
      BY <1>5
    <3>2. /\ called(k).node \in DOMAIN tree' /\ called(k).node \in ToSet(tree'[top.node].kids)
          /\ tree'[called(k).node].tag = message[top.counter]
          /\ called(k).rest \subseteq Members(message[top.counter])
      BY <1>7, <3>1 DEF group
    <3>3. caller.rest \subseteq top.rest
      BY <1>4
    <3>4. IsTree /\ Inputs /\ Nested
      BY DEF Shape
    <3> QED
      BY <1>1, <1>4, <1>7, <3>1, <3>2, <3>3, <3>4, EntryCalled
  <2>2. Calling(k)
    <3>1. called(k) \in Calls
      BY <1>5
    <3>2. /\ Len(frames') = Len(frames) + 1
          /\ frames'[Len(frames)] = caller /\ frames'[Len(frames) + 1] = called(k)
          /\ \A i \in 1..(Len(frames) - 1) : frames'[i] = frames[i]
      BY <1>1, <1>2, <1>4, <1>7, <3>1, ReplaceLastAppend
    <3> QED
      BY <1>4, <1>5, <3>2, Zenon DEF Calling, group
  <2> QED
    BY <1>6, <1>7, <2>1, <2>2 DEF Shape
<1>8. CASE \E i \in Entries(group) : /\ frames' = Front(frames) \o <<caller, called(Siblings[i])>>
                                      /\ UNCHANGED tree
  <2>1. PICK i \in Entries(group) : frames' = Front(frames) \o <<caller, called(Siblings[i])>>
    BY <1>8
  <2>2. UNCHANGED tree
    BY <1>8
  <2>3. i \in Places(group) /\ i \in DOMAIN Siblings /\ Siblings[i] \in DOMAIN tree
        /\ tree[Siblings[i]].tag = group
    <3>1. i \in Places(group)
      BY <1>2, <2>1, SiblingNodes DEF Entries, Shape
    <3> QED
      BY <1>2, <3>1, SiblingNodes DEF Places, Shape
  <2>4. IsTree' /\ HasParents' /\ KeepsTree
    BY <2>2, KeptTree DEF Shape
  <2>5. Siblings[i] \in Nat /\ Siblings[i] \in ToSet(tree[top.node].kids)
    BY <1>2, <2>3, SiblingNodes DEF Shape, ToSet, Siblings
  <2>6. Shape' /\ Calling(Siblings[i])
    BY <1>7, <2>1, <2>2, <2>3, <2>4, <2>5
  <2> QED
    BY <2>1, <2>2, <2>4, <2>6 DEF group
<1>9. CASE /\ Entries(group) = {}
           /\ frames' = Front(frames) \o <<caller, called(Size)>>
           /\ NewChild(Behind(group), group)
  <2>1. Value \in [Cols -> 0..MaxLen] /\ Behind(group) \in 1..(Len(Siblings) + 1)
    BY <1>1, <1>2, ValueIsOne, BehindIsPlace DEF Shape
  <2>2. IsTree' /\ HasParents' /\ KeepsTree /\ ChildMore(Behind(group), group)
    BY <1>2, <1>3, <1>9, <2>1, ChildAdded DEF Shape, ChildMore
  <2>3. Size \in Nat /\ Size \in DOMAIN tree' /\ tree'[Size].tag = group
    BY <2>2 DEF ChildMore
  <2>4. Size \in ToSet(tree'[top.node].kids)
    <3> DEFINE kids == tree'[top.node].kids
    <3>1. Behind(group) \in DOMAIN kids /\ kids[Behind(group)] = Size
      <4> DEFINE b == Behind(group)
      <4> HIDE DEF b
      <4>1. b \in 1..(Len(Siblings) + 1) /\ ChildMore(b, group) /\ Len(Siblings) \in Nat
        BY <2>1, <2>2 DEF b, ChildMore
      <4>2. b \in DOMAIN kids /\ kids[b] = Size
        BY <4>1 DEF ChildMore
      <4> QED
        BY <4>2 DEF b
    <3> QED
      BY <3>1 DEF ToSet
  <2>5. Shape' /\ Calling(Size)
    <3>1. PICK k \in Nat : k = Size
      BY <2>3
    <3> QED
      BY <1>7, <1>9, <2>2, <2>3, <2>4, <3>1
  <2> QED
    BY <1>9, <2>2, <2>5 DEF group
<1> QED
  BY <1>1, <1>8, <1>9

LEMMA InputIs ==
  ASSUME NEW S, NEW m \in SeqOf(S, MaxLen)
  PROVE  m \in Seq(S) /\ Len(m) \in Nat /\ Len(m) <= MaxLen
<1>1. PICK n \in 0..MaxLen : m \in [1..n -> S]
  BY DEF SeqOf
<1>2. n \in Nat /\ n <= MaxLen
  BY <1>1, RuvAssumption
<1>3. m \in Seq(S) /\ Len(m) = n
  BY <1>1, <1>2
<1> QED
  BY <1>2, <1>3

LEMMA ReadShape ==
  ASSUME Shape, Len(messages) < Columns, NEW m \in Seq(AllTags), Len(m) <= MaxLen, Read(m)
  PROVE  Shape' /\ message' = m /\ column' = Len(messages) /\ Len(messages') = Len(messages) + 1
         /\ \A c \in DOMAIN messages : messages'[c] = messages[c]
<1>1. /\ messages' = Append(messages, m) /\ inc' = 1 /\ frames' = <<Frame(0, {})>>
      /\ UNCHANGED <<maker, tree, alive>>
  BY Zenon DEF Read
<1>2. messages \in Seq(Seq(AllTags)) /\ Len(messages) \in Nat /\ Columns \in Nat /\ MaxLen \in Nat
  BY RuvAssumption DEF Shape, Inputs
<1>3. /\ messages' \in Seq(Seq(AllTags)) /\ Len(messages') = Len(messages) + 1
      /\ messages'[Len(messages) + 1] = m /\ messages' # <<>>
      /\ \A c \in DOMAIN messages : messages'[c] = messages[c]
  <2> DEFINE S == Seq(AllTags)
  <2>1. messages \in Seq(S) /\ m \in S
    BY <1>2
  <2> HIDE DEF S
  <2>2. /\ messages' \in Seq(S) /\ Len(messages') = Len(messages) + 1 /\ messages' # <<>>
        /\ DOMAIN messages = 1..Len(messages)
        /\ \A c \in 1..Len(messages) : messages'[c] = messages[c]
        /\ messages'[Len(messages) + 1] = m
    BY <1>1, <2>1, AppendProperties
  <2> QED
    BY <2>2 DEF S
<1>4. message' = m /\ column' = Len(messages)
  BY <1>2, <1>3 DEF message, column, Last
<1>5. Inputs'
  <2>1. \A c \in DOMAIN messages' : Len(messages'[c]) <= MaxLen
    <3> SUFFICES ASSUME NEW c \in DOMAIN messages' PROVE Len(messages'[c]) <= MaxLen
      OBVIOUS
    <3>1. c \in 1..(Len(messages) + 1)
      BY <1>3
    <3>2. CASE c = Len(messages) + 1
      BY <1>3, <3>2
    <3>3. CASE c # Len(messages) + 1
      <4>1. c \in DOMAIN messages
        BY <1>2, <3>1, <3>3
      <4> QED
        BY <1>3, <4>1 DEF Shape, Inputs
    <3> QED
      BY <3>2, <3>3
  <2>2. Len(messages') <= Columns /\ 1 \in 1..(MaxLen + 1)
    BY <1>2, <1>3
  <2> QED
    BY <1>1, <1>3, <2>1, <2>2 DEF Shape, Inputs, AllTags
<1>6. IsTree' /\ HasParents'
  BY <1>1, KeptTree DEF Shape
<1>7. Nested'
  <2> DEFINE x == Frame(0, {})
  <2>1. Calls' = Calls /\ Counters' = Counters
    BY <1>1 DEF Calls, Counters
  <2>2. x \in Calls /\ x.node = 0 /\ x.counter = 0
    BY <1>2 DEF Frame, Calls
  <2> HIDE DEF x
  <2>3. frames' \in Seq(Calls) /\ Len(frames') = 1 /\ frames'[1] = x /\ DOMAIN frames' = {1}
    BY <1>1, <2>2 DEF x
  <2>4. 0 \in DOMAIN tree'
    BY <1>1 DEF Shape, IsTree
  <2>5. \A i \in DOMAIN frames' : IsCall(frames[i])'
    BY <1>1, <2>1, <2>2, <2>3, <2>4 DEF IsCall
  <2>6. inc' <= Len(message') + 1
    BY <1>1, <1>4
  <2> QED
    BY <1>3, <2>1, <2>2, <2>3, <2>5, <2>6 DEF Nested
<1> QED
  BY <1>3, <1>4, <1>5, <1>6, <1>7 DEF Shape

LEMMA StutterShape ==
  ASSUME Shape, UNCHANGED vars
  PROVE  Shape'
BY SMTT(30) DEF Shape, vars, Inputs, IsTree, HasParents, Nested, IsCall, CalledFrom, Size, Tag, Calls,
       Counters, Members, message, Nodes, Cols, AllTags

LEMMA ShapeNext == Shape /\ [Next]_vars => Shape'
<1> SUFFICES ASSUME Shape, [Next]_vars PROVE Shape'
  OBVIOUS
<1>1. CASE ReadField
  BY <1>1, ReadFieldShape
<1>2. CASE SkipCounter \/ SkipLastCounter
  BY <1>2, CounterShape
<1>3. CASE OpenGroup
  BY <1>3, OpenGroupShape
<1>4. CASE ReadEntry
  BY <1>4, ReadEntryShape
<1>5. CASE CloseGroup
  BY <1>5, CloseGroupShape
<1>6. CASE Return
  BY <1>6, ReturnShape
<1>7. ASSUME NEW m \in RmakeInputs, Compare(m), Len(messages) < Columns PROVE Shape'
  <2>1. m \in Seq(Tags) /\ Len(m) <= MaxLen
    BY <1>7, InputIs DEF RmakeInputs
  <2>2. m \in Seq(AllTags)
    BY <2>1 DEF AllTags
  <2> QED
    BY <1>7, <2>1, <2>2, ReadShape DEF Compare
<1>8. ASSUME NEW m \in SsmakeInputs, Read(m), messages = <<>> PROVE Shape'
  <2>1. m \in Seq(SsTags) /\ Len(m) <= MaxLen
    BY <1>8, InputIs DEF SsmakeInputs
  <2>2. m \in Seq(AllTags) /\ Len(messages) < Columns
    BY <1>8, <2>1, RuvAssumption DEF AllTags
  <2> QED
    BY <1>8, <2>1, <2>2, ReadShape
<1>9. CASE UNCHANGED vars
  BY <1>9, StutterShape
<1> QED
  BY <1>1, <1>2, <1>3, <1>4, <1>5, <1>6, <1>7, <1>8, <1>9 DEF Next, Rmake

(* The nodes are a tree whatever messages are read: every node but the root  *)
(* is a child of another, a call works on a child of its caller's node, and  *)
(* takes no tag that its group does not have.                                *)
THEOREM TypeCorrect == Spec => []TypeOK
<1>1. Shape /\ [Next]_vars => Shape'
  BY ShapeNext
<1> QED
  BY ShapeInit, <1>1, ShapeIsType, PTL DEF Spec

-----------------------------------------------------------------------------
(* FIX messages: what rmake has open is what the format has open, and where  *)
(* it goes on reading no other open group would take the tag.                *)
Opened == [group : DOMAIN Groups, nth : Nat, has : SUBSET Tags]

InTags == \A c \in DOMAIN messages : messages[c] \in Seq(Tags)

Following ==
  frames # <<>> /\ More =>
    LET outer == Outer(message, OpenEntries(message)[inc - 1], inc)
    IN  /\ outer \in Seq(Opened)
        /\ \A i \in DOMAIN frames : frames[i].counter # 0 =>
             i \in DOMAIN outer /\ outer[i].group = message[frames[i].counter]
        /\ \A d \in DOMAIN outer : token \in Groups[outer[d].group] =>
             d \in DOMAIN frames /\ frames[d].counter # 0

(* Pairs outside all groups, and messages in which no counter and no tag     *)
(* comes twice in one place.                                                 *)
Outside(m, j) == OpenEntries(m)[j] = <<>>

OnceEach(m, tags) ==
  \A i, j \in DOMAIN m : m[i] = m[j] /\ m[i] \in tags /\ FixHome(m)[i] = FixHome(m)[j] => i = j

InOrder == \A c \in DOMAIN messages : OnceEach(messages[c], DOMAIN Groups)

(* While the first message is read, the nodes of the calls are ever younger  *)
(* ones; a call has not yet put a child for a tag it still takes; the        *)
(* entries of its group are its last children; and the children of the root  *)
(* are for pairs outside all groups.                                         *)
Row(p) == [a \in DOMAIN tree[p].kids |-> Tag(tree[p].kids[a])]

Younger == \A i, j \in DOMAIN frames : i < j => frames[i].node < frames[j].node

StillTaken ==
  \A i \in DOMAIN frames \ {1} :
    /\ \A a \in DOMAIN Row(frames[i].node) : Row(frames[i].node)[a] \notin frames[i].rest
    /\ frames[i].counter # 0 => message[frames[i].counter] \notin frames[i].rest

(* From the first of them on, all tags of a row are g.                       *)
GoesOnWith(row, g) == \A a, b \in DOMAIN row : a < b /\ row[a] = g => row[b] = g

EntriesLast ==
  \A i \in DOMAIN frames : frames[i].counter # 0 =>
    GoesOnWith(Row(frames[i].node), message[frames[i].counter])

RootOutside ==
  /\ \A a \in DOMAIN Row(0) : \E q \in 1..(inc - 1) :
       message[q] = Row(0)[a] /\ Outside(message, q)
  /\ frames[1].counter # 0 => Outside(message, frames[1].counter)

FirstColumn ==
  frames # <<>> /\ column = 0 => Younger /\ StillTaken /\ EntriesLast /\ RootOutside

NothingYet == messages = <<>> => Size = 1

(* In a row a field stands once, and the entries of a group stand together.  *)
OneEach(row) ==
  \A a, b \in DOMAIN row : row[a] \notin DOMAIN Groups /\ row[a] = row[b] => a = b

Together(row) ==
  \A i, j, k \in DOMAIN row :
    row[i] \in DOMAIN Groups /\ i < j /\ j < k /\ row[i] = row[k] => row[j] = row[i]

FieldsOnce ==
  messages # <<>> /\ OnceEach(messages[1], Tags) => \A p \in DOMAIN tree : OneEach(Row(p))

RowsTogether == \A p \in DOMAIN tree : Together(Row(p))

FixInv ==
  maker = "rmake" =>
    InTags /\ InOrder /\ NothingYet /\ Following /\ FirstColumn /\ FieldsOnce /\ RowsTogether

IInv == Shape /\ FixInv

-----------------------------------------------------------------------------
LEMMA MaxIs ==
  ASSUME NEW S \in SUBSET Int, NEW m \in S, \A y \in S : y <= m
  PROVE  Max(S) = m
<1>1. \E x \in S : \A y \in S : x >= y
  OBVIOUS
<1>2. Max(S) \in S /\ \A y \in S : Max(S) >= y
  BY <1>1 DEF Max
<1>3. Max(S) \in Int /\ m \in Int /\ m <= Max(S) /\ Max(S) <= m
  BY <1>2
<1> QED
  BY <1>3

(* The entries open at every pair are those of the recursion: the function   *)
(* exists for the pairs up to k, or there would be a first k for which it    *)
(* does not.                                                                 *)
LEMMA OpenEntriesAre ==
  ASSUME NEW m, Len(m) \in Nat
  PROVE  /\ OpenEntries(m)[0] = <<>>
         /\ \A j \in 1..Len(m) : OpenEntries(m)[j] = Holding(m, OpenEntries(m)[j - 1], j)
<1> DEFINE Follows(f, k) == f = [j \in 0..k |-> IF j = 0 THEN <<>> ELSE Holding(m, f[j - 1], j)]
           Bad == {k \in Nat : ~\E f : Follows(f, k)}
<1>1. 0 \notin Bad
  <2> DEFINE f == [j \in 0..0 |-> <<>>]
  <2>1. f = [j \in 0..0 |-> IF j = 0 THEN <<>> ELSE Holding(m, f[j - 1], j)]
    OBVIOUS
  <2> QED
    BY <2>1
<1>2. ASSUME NEW k \in Nat \ {0}, k - 1 \notin Bad PROVE k \notin Bad
  <2>1. PICK f : Follows(f, k - 1)
    BY <1>2
  <2>2. /\ DOMAIN f = 0..(k - 1)
        /\ \A j \in 0..(k - 1) : f[j] = IF j = 0 THEN <<>> ELSE Holding(m, f[j - 1], j)
    BY <2>1
  <2> DEFINE g == [j \in 0..k |-> IF j = k THEN Holding(m, f[k - 1], k) ELSE f[j]]
  <2>3. ASSUME NEW j \in 0..k PROVE g[j] = IF j = 0 THEN <<>> ELSE Holding(m, g[j - 1], j)
    <3>1. CASE j = k
      <4>1. k - 1 \in 0..k /\ k - 1 # k /\ k # 0
        BY <1>2
      <4>2. g[k - 1] = f[k - 1] /\ g[k] = Holding(m, f[k - 1], k)
        BY <4>1
      <4> QED
        BY <3>1, <4>1, <4>2
    <3>2. CASE j # k
      <4>1. j \in 0..(k - 1) /\ g[j] = f[j]
        BY <3>2
      <4>2. j # 0 => j - 1 \in 0..k /\ j - 1 # k
        BY <4>1
      <4>3. j # 0 => g[j - 1] = f[j - 1]
        BY <4>2
      <4> QED
        BY <2>2, <4>1, <4>3
    <3> QED
      BY <3>1, <3>2
  <2> HIDE DEF g
  <2>4. Follows(g, k)
    <3>1. DOMAIN g = 0..k /\ g = [j \in 0..k |-> g[j]]
      BY DEF g
    <3> QED
      BY <2>3, <3>1
  <2> QED
    BY <2>4
<1>3. Bad = {}
  <2> HIDE DEF Bad
  <2> SUFFICES ASSUME Bad # {} PROVE FALSE
    OBVIOUS
  <2> DEFINE k == Min(Bad)
  <2>1. Bad \in SUBSET Nat
    BY DEF Bad
  <2>2. k \in Bad /\ \A y \in Bad : k <= y
    BY <2>1, SmallestMember
  <2> HIDE DEF k
  <2>3. k \in Nat \ {0}
    BY <1>1, <2>1, <2>2
  <2>4. k - 1 \notin Bad
    BY <2>1, <2>2, <2>3
  <2> QED
    BY <1>2, <2>2, <2>3, <2>4
<1>4. \E f : Follows(f, Len(m))
  BY <1>3
<1> DEFINE open == OpenEntries(m)
<1>5. Follows(open, Len(m))
  BY <1>4, Zenon DEF OpenEntries
<1> HIDE DEF open
<1>6. \A j \in 0..Len(m) : open[j] = IF j = 0 THEN <<>> ELSE Holding(m, open[j - 1], j)
  BY <1>5
<1>7. open[0] = <<>>
  BY <1>6
<1>8. \A j \in 1..Len(m) : open[j] = Holding(m, open[j - 1], j)
  BY <1>6
<1> QED
  BY <1>7, <1>8 DEF open

(* Two pairs outside all groups have the same home.                          *)
LEMMA OutsideIsOnePlace ==
  ASSUME NEW m, NEW i \in DOMAIN m, NEW j \in DOMAIN m, Outside(m, i), Outside(m, j)
  PROVE  FixHome(m)[i] = FixHome(m)[j]
<1> DEFINE open == OpenEntries(m)
           home(k) == [d \in DOMAIN open[k] |-> <<open[k][d].group, open[k][d].nth>>]
<1>1. FixHome(m)[i] = home(i) /\ FixHome(m)[j] = home(j)
  BY DEF FixHome
<1>2. open[i] = <<>> /\ open[j] = <<>>
  BY DEF Outside
<1>3. home(i) = home(j)
  BY <1>2
<1> QED
  BY <1>1, <1>3

LEMMA ExtendedBy ==
  ASSUME NEW S, NEW s \in Seq(S), NEW n \in 0..Len(s), NEW x \in S
  PROVE  LET r == Append(SubSeq(s, 1, n), x)
         IN  /\ r \in Seq(S) /\ Len(r) = n + 1
             /\ r[n + 1] = x /\ \A i \in 1..n : r[i] = s[i]
<1> DEFINE front == SubSeq(s, 1, n)
<1>1. Len(s) \in Nat /\ n \in Nat /\ n <= Len(s) /\ \A i \in 1..Len(s) : s[i] \in S
  OBVIOUS
<1>2. 1 \in Int /\ n \in Int /\ \A i \in 1..n : s[i] \in S
  BY <1>1
<1>3. /\ front \in Seq(S) /\ Len(front) = IF 1 <= n THEN n - 1 + 1 ELSE 0
      /\ \A i \in 1..(n - 1 + 1) : front[i] = s[1 + i - 1]
  BY <1>2, SubSeqProperties
<1> HIDE DEF front
<1>4. front \in Seq(S) /\ Len(front) = n
  BY <1>1, <1>3
<1>5. \A i \in 1..n : front[i] = s[i]
  BY <1>1, <1>3
<1>6. /\ Append(front, x) \in Seq(S) /\ Len(Append(front, x)) = n + 1
      /\ Append(front, x)[n + 1] = x /\ \A i \in 1..n : Append(front, x)[i] = front[i]
  BY <1>4, AppendProperties
<1> QED
  BY <1>5, <1>6 DEF front

LEMMA EntryAppended ==
  ASSUME NEW S, NEW s \in Seq(S), NEW x \in S
  PROVE  /\ s \o <<x>> \in Seq(S) /\ Len(s \o <<x>>) = Len(s) + 1 /\ Len(s) \in Nat
         /\ (s \o <<x>>)[Len(s) + 1] = x
         /\ \A i \in 1..Len(s) : (s \o <<x>>)[i] = s[i]
         /\ s \o <<>> = s
OBVIOUS

-----------------------------------------------------------------------------
(* The innermost call takes the next pair.                                   *)
Taken ==
  /\ maker = "rmake" /\ Shape /\ InTags /\ Following
  /\ frames # <<>> /\ More /\ top.counter = 0 /\ (AtRoot \/ token \in top.rest)

LEMMA NextIsOpened ==
  ASSUME NEW e \in Opened, NEW t \in Tags
  PROVE  LET next == IF t \in e.has THEN [group |-> e.group, nth |-> e.nth + 1, has |-> {t}]
                     ELSE [e EXCEPT !.has = @ \cup {t}]
         IN  next \in Opened /\ next.group = e.group
<1>1. CASE t \in e.has
  BY <1>1 DEF Opened
<1>2. CASE t \notin e.has
  <2>1. [e EXCEPT !.has = @ \cup {t}] = [group |-> e.group, nth |-> e.nth, has |-> e.has \cup {t}]
    BY DEF Opened
  <2> QED
    BY <1>2, <2>1 DEF Opened
<1> QED
  BY <1>1, <1>2

(* What a tag leaves of the entry that takes it.                             *)
NextEntry(e, t) ==
  IF t \in e.has THEN [group |-> e.group, nth |-> e.nth + 1, has |-> {t}]
                 ELSE [e EXCEPT !.has = @ \cup {t}]

(* The entries it leaves open are those of the groups of the calls but for   *)
(* the innermost, which is the call for the last of them.                    *)
LEMMA TakenLeavesOpen ==
  ASSUME Taken
  PROVE  LET left  == OpenEntries(message)[inc]
             outer == Outer(message, OpenEntries(message)[inc - 1], inc)
             last  == Len(frames) - 1
         IN  /\ left \in Seq(Opened) /\ Len(left) = last
             /\ \A i \in 1..last :
                  /\ frames[i].counter # 0
                  /\ left[i].group = message[frames[i].counter]
                  /\ left[i] = IF i = last THEN NextEntry(outer[i], token) ELSE outer[i]
<1> DEFINE n == Len(frames)
           outer == Outer(message, OpenEntries(message)[inc - 1], inc)
           takers == {d \in DOMAIN outer : message[inc] \in Groups[outer[d].group]}
           left == OpenEntries(message)[inc]
<1> USE DEF Taken
<1>1. inc \in 1..Len(message) /\ Len(message) \in Nat /\ message = messages[Len(messages)]
      /\ Len(messages) \in DOMAIN messages
  BY Reading DEF Shape, Inputs
<1>2. message \in Seq(Tags) /\ token \in Tags /\ token = message[inc]
  BY <1>1 DEF InTags, token
<1>3. n \in Nat \ {0} /\ DOMAIN frames = 1..n /\ top = frames[n]
      /\ (~AtRoot => CalledFrom(top, frames[n - 1]))
  BY TopCall DEF Shape
<1>4. \A i \in 1..(n - 1) : frames[i].counter # 0
  <2> SUFFICES ASSUME NEW i \in 1..(n - 1) PROVE frames[i].counter # 0
    OBVIOUS
  <2>1. PICK j \in DOMAIN frames \ {1} : j - 1 = i
    BY <1>3
  <2>2. CalledFrom(frames[j], frames[j - 1])
    BY Zenon DEF Shape, Nested
  <2> QED
    BY <2>1, <2>2 DEF CalledFrom
<1>5. /\ outer \in Seq(Opened)
      /\ \A i \in DOMAIN frames : frames[i].counter # 0 =>
           i \in DOMAIN outer /\ outer[i].group = message[frames[i].counter]
      /\ \A d \in DOMAIN outer : token \in Groups[outer[d].group] =>
           d \in DOMAIN frames /\ frames[d].counter # 0
  BY DEF Following
<1>6. left = Holding(message, OpenEntries(message)[inc - 1], inc)
  BY <1>1, OpenEntriesAre
<1> HIDE DEF outer, left
<1>7. \A d \in takers : d \in 1..(n - 1)
  <2> SUFFICES ASSUME NEW d \in takers PROVE d \in 1..(n - 1)
    OBVIOUS
  <2>1. d \in 1..n /\ frames[d].counter # 0
    BY <1>2, <1>3, <1>5
  <2>2. d # n
    BY <1>3, <2>1
  <2> QED
    BY <1>3, <2>1, <2>2
<1>8. CASE n = 1
  <2>1. takers = {}
    BY <1>7, <1>8
  <2>2. left = <<>>
    BY <1>6, <2>1, Zenon DEF Holding, outer
  <2> QED
    BY <1>8, <2>2 DEF left, outer
<1>9. CASE n # 1
  <2> DEFINE last == n - 1
  <2>0. last \in 1..(n - 1) /\ last \in DOMAIN frames /\ last \in Nat
    BY <1>3, <1>9
  <2>1. token \in Groups[message[frames[n - 1].counter]]
    <3>1. ~AtRoot
      BY <1>9 DEF AtRoot
    <3> QED
      BY <1>3, <3>1 DEF CalledFrom, Members
  <2>2. last \in takers
    BY <1>2, <1>4, <1>5, <2>0, <2>1
  <2>3. Max(takers) = last
    <3>1. takers \in SUBSET Int /\ \A y \in takers : y <= last
      BY <1>7, <2>0
    <3> HIDE DEF takers, last
    <3> QED
      BY <2>2, <3>1, MaxIs
  <2> DEFINE entry == outer[last]
             next == IF message[inc] \in entry.has
                     THEN [group |-> entry.group, nth |-> entry.nth + 1, has |-> {message[inc]}]
                     ELSE [entry EXCEPT !.has = @ \cup {message[inc]}]
  <2>4. left = Append(SubSeq(outer, 1, last - 1), next)
    <3>1. left = LET depth == Max(takers)
                     e == outer[depth]
                     x == IF message[inc] \in e.has
                          THEN [group |-> e.group, nth |-> e.nth + 1, has |-> {message[inc]}]
                          ELSE [e EXCEPT !.has = @ \cup {message[inc]}]
                 IN  IF takers = {} THEN <<>> ELSE Append(SubSeq(outer, 1, depth - 1), x)
      BY <1>6, Zenon DEF Holding, outer
    <3> HIDE DEF takers, last
    <3> QED
      BY <2>2, <2>3, <3>1
  <2>5. last \in DOMAIN outer /\ Len(outer) \in Nat /\ DOMAIN outer = 1..Len(outer)
    BY <1>5, <2>2
  <2>6. entry \in Opened /\ message[inc] \in Tags
    BY <1>2, <1>5, <2>5
  <2>7. next \in Opened /\ next.group = entry.group
    <3> HIDE DEF entry
    <3> QED
      BY <2>6, NextIsOpened, Zenon
  <2> HIDE DEF next
  <2>8. last - 1 \in 0..Len(outer)
    BY <2>0, <2>5
  <2>9. /\ left \in Seq(Opened) /\ Len(left) = last - 1 + 1
        /\ left[last - 1 + 1] = next /\ \A i \in 1..(last - 1) : left[i] = outer[i]
    <3> HIDE DEF last
    <3> QED
      BY <1>5, <2>4, <2>7, <2>8, ExtendedBy
  <2>10. last - 1 + 1 = n - 1
    BY <2>0
  <2>11. ASSUME NEW i \in 1..(n - 1)
         PROVE  /\ left[i].group = message[frames[i].counter]
                /\ left[i] = IF i = last THEN NextEntry(outer[i], token) ELSE outer[i]
    <3>1. outer[i].group = message[frames[i].counter]
      BY <1>3, <1>4, <1>5
    <3>2. CASE i = last
      <4>1. left[i] = next
        BY <2>9, <2>10, <3>2
      <4>2. next = NextEntry(outer[i], token)
        BY <1>2, <3>2 DEF next, NextEntry
      <4> QED
        BY <2>7, <3>1, <3>2, <4>1, <4>2
    <3>3. CASE i # last
      <4>1. i \in 1..(last - 1)
        BY <2>0, <3>3
      <4> QED
        BY <2>9, <3>1, <4>1
    <3> QED
      BY <3>2, <3>3
  <2> QED
    BY <1>4, <2>9, <2>10, <2>11 DEF left, outer
<1> QED
  BY <1>8, <1>9

(* The innermost call goes on behind a pair it has taken: a group that the   *)
(* pair opens is the innermost one of those open.                            *)
LEMMA FollowingTaken ==
  ASSUME Taken, UNCHANGED <<maker, messages>>, inc' = inc + 1,
         NEW c, c = IF Opens(message, inc) THEN inc ELSE 0, NEW rest, GoesOn(c, rest),
         frames' \in Seq(Calls)
  PROVE  Following'
<1> DEFINE n == Len(frames)
           left == OpenEntries(message)[inc]
           new == [group |-> message[inc], nth |-> 1, has |-> {}]
           outer == left \o IF Opens(message, inc) THEN <<new>> ELSE <<>>
<1>1. inc \in 1..Len(message) /\ Len(message) \in Nat /\ inc # 0
  BY Reading DEF Taken, Shape
<1>2. n \in Nat \ {0} /\ DOMAIN frames = 1..n
  BY TopCall DEF Taken, Shape
<1>3. /\ left \in Seq(Opened) /\ Len(left) = n - 1
      /\ \A i \in 1..(n - 1) : frames[i].counter # 0 /\ left[i].group = message[frames[i].counter]
  BY TakenLeavesOpen
<1>4. DOMAIN frames' = 1..n /\ frames'[n].counter = c /\ \A i \in 1..(n - 1) : frames'[i] = frames[i]
  BY <1>2 DEF GoesOn
<1>5. message' = message
  BY Taken DEF message, Taken
<1>6. Outer(message', OpenEntries(message')[inc' - 1], inc') = outer
  <2>1. inc' - 1 = inc /\ inc' > 1
    BY <1>1
  <2> QED
    BY <1>5, <2>1 DEF Outer
<1> HIDE DEF left, n
<1>7. CASE Opens(message, inc)
  <2>1. new \in Opened /\ new.group = message[inc]
    BY <1>7 DEF Opens, Opened
  <2> HIDE DEF new
  <2>2. /\ outer \in Seq(Opened) /\ Len(outer) = n /\ outer[n] = new
        /\ \A i \in 1..(n - 1) : outer[i] = left[i]
    BY <1>2, <1>3, <1>7, <2>1, EntryAppended
  <2> HIDE DEF outer
  <2>3. \A i \in 1..n : outer[i].group = message[frames'[i].counter] /\ frames'[i].counter # 0
    BY <1>1, <1>2, <1>3, <1>4, <1>7, <2>1, <2>2, SMTT(30)
  <2>4. DOMAIN outer = 1..n
    BY <1>2, <2>2
  <2> QED
    BY <1>4, <1>5, <1>6, <2>2, <2>3, <2>4 DEF Following
<1>8. CASE ~Opens(message, inc)
  <2>1. outer = left
    BY <1>3, <1>8, EntryAppended
  <2> HIDE DEF outer
  <2>2. DOMAIN left = 1..(n - 1)
    BY <1>2, <1>3
  <2>3. \A i \in 1..n : frames'[i].counter # 0 => i \in 1..(n - 1)
    BY <1>2, <1>4, <1>8
  <2> QED
    BY <1>2, <1>3, <1>4, <1>5, <1>6, <2>1, <2>2, <2>3 DEF Following
<1> QED
  BY <1>7, <1>8

(* The calls for the groups that may take the next pair stay while entries   *)
(* and groups come to their end and new entries begin.                       *)
LEMMA FollowingKept ==
  ASSUME Following, UNCHANGED <<maker, messages, inc>>, frames # <<>>,
         \A i \in DOMAIN frames' : frames'[i].counter # 0 =>
           i \in DOMAIN frames /\ frames[i].counter = frames'[i].counter,
         \A i \in DOMAIN frames :
           frames[i].counter # 0 /\ More /\ token \in Groups[message[frames[i].counter]]
           => i \in DOMAIN frames' /\ frames'[i].counter = frames[i].counter
  PROVE  Following'
<1>1. message' = message
  BY DEF message
<1>2. SUFFICES ASSUME frames' # <<>>, More PROVE Following'
  BY <1>1 DEF Following, More
<1> DEFINE outer == Outer(message, OpenEntries(message)[inc - 1], inc)
<1>3. /\ outer \in Seq(Opened)
      /\ \A i \in DOMAIN frames : frames[i].counter # 0 =>
           i \in DOMAIN outer /\ outer[i].group = message[frames[i].counter]
      /\ \A d \in DOMAIN outer : token \in Groups[outer[d].group] =>
           d \in DOMAIN frames /\ frames[d].counter # 0
  BY <1>2 DEF Following
<1>4. outer = Outer(message', OpenEntries(message')[inc' - 1], inc') /\ token' = token
  BY <1>1 DEF token
<1> HIDE DEF outer
<1>5. \A d \in DOMAIN outer : token \in Groups[outer[d].group] =>
        d \in DOMAIN frames' /\ frames'[d].counter # 0
  <2> SUFFICES ASSUME NEW d \in DOMAIN outer, token \in Groups[outer[d].group]
               PROVE  d \in DOMAIN frames' /\ frames'[d].counter # 0
    OBVIOUS
  <2>1. d \in DOMAIN frames /\ frames[d].counter # 0
    BY <1>3
  <2>2. outer[d].group = message[frames[d].counter]
    BY <1>3, <2>1
  <2> QED
    BY <1>2, <2>1, <2>2
<1>6. \A i \in DOMAIN frames' : frames'[i].counter # 0 =>
        i \in DOMAIN outer /\ outer[i].group = message[frames'[i].counter]
  BY <1>3
<1> QED
  BY <1>1, <1>3, <1>4, <1>5, <1>6 DEF Following

LEMMA TakenOutside ==
  ASSUME Taken, AtRoot
  PROVE  Outside(message, inc)
<1> DEFINE left == OpenEntries(message)[inc]
<1>1. left \in Seq(Opened) /\ Len(left) = Len(frames) - 1
  BY TakenLeavesOpen
<1> HIDE DEF left
<1>2. left = <<>>
  BY <1>1 DEF AtRoot
<1> QED
  BY <1>2 DEF left, Outside

-----------------------------------------------------------------------------
(* Rows: a new tag is put between those of the siblings.                     *)
Grown(old, new, place, tag) ==
  \E n \in Nat :
    /\ place \in 1..(n + 1) /\ DOMAIN old = 1..n /\ DOMAIN new = 1..(n + 1)
    /\ \A i \in 1..(n + 1) :
         new[i] = IF i < place THEN old[i] ELSE IF i = place THEN tag ELSE old[i - 1]

(* What stood in the row stands in it still, in the same order.              *)
LEMMA GrownFrom ==
  ASSUME NEW old, NEW new, NEW place, NEW tag, Grown(old, new, place, tag),
         NEW i \in DOMAIN new, NEW j \in DOMAIN new, i # place, j # place
  PROVE  \E a, b \in DOMAIN old :
           /\ old[a] = new[i] /\ old[b] = new[j] /\ (i < j <=> a < b) /\ (i = j <=> a = b)
           /\ (i < place <=> a < place) /\ (j < place <=> b < place)
<1>1. PICK n \in Nat :
        /\ place \in 1..(n + 1) /\ DOMAIN old = 1..n /\ DOMAIN new = 1..(n + 1)
        /\ \A k \in 1..(n + 1) :
             new[k] = IF k < place THEN old[k] ELSE IF k = place THEN tag ELSE old[k - 1]
  BY DEF Grown
<1> DEFINE from(k) == IF k < place THEN k ELSE k - 1
<1>2. ASSUME NEW k \in DOMAIN new, k # place
      PROVE  from(k) \in DOMAIN old /\ new[k] = old[from(k)] /\ (k < place <=> from(k) < place)
  BY <1>1, <1>2
<1>3. from(i) \in DOMAIN old /\ from(j) \in DOMAIN old
  BY <1>2
<1>4. (i < j <=> from(i) < from(j)) /\ (i = j <=> from(i) = from(j))
  BY <1>1
<1> HIDE DEF from
<1> QED
  BY <1>2, <1>3, <1>4

LEMMA OneEachGrown ==
  ASSUME NEW old, NEW new, NEW place, NEW tag, Grown(old, new, place, tag), OneEach(old),
         tag \in DOMAIN Groups \/ \A a \in DOMAIN old : old[a] # tag
  PROVE  OneEach(new)
<1> SUFFICES ASSUME NEW i \in DOMAIN new, NEW j \in DOMAIN new,
                    new[i] \notin DOMAIN Groups, new[i] = new[j]
             PROVE  i = j
  BY DEF OneEach
<1>1. new[place] = tag /\ place \in DOMAIN new
  BY DEF Grown
<1>2. CASE i = place /\ j # place
  <2>1. PICK b \in DOMAIN old : old[b] = new[j]
    BY <1>2, GrownFrom
  <2> QED
    BY <1>1, <1>2, <2>1
<1>3. CASE i # place /\ j = place
  <2>1. PICK a \in DOMAIN old : old[a] = new[i]
    BY <1>3, GrownFrom
  <2> QED
    BY <1>1, <1>3, <2>1
<1>4. CASE i # place /\ j # place
  <2>1. PICK a \in DOMAIN old, b \in DOMAIN old :
          old[a] = new[i] /\ old[b] = new[j] /\ (i = j <=> a = b)
    BY <1>4, GrownFrom
  <2> QED
    BY <2>1 DEF OneEach
<1> QED
  BY <1>2, <1>3, <1>4

LEMMA GoesOnWithGrown ==
  ASSUME NEW old, NEW new, NEW place, NEW tag, Grown(old, new, place, tag),
         place \notin DOMAIN old, GoesOnWith(old, tag)
  PROVE  GoesOnWith(new, tag)
<1>1. PICK n \in Nat :
        /\ place \in 1..(n + 1) /\ DOMAIN old = 1..n /\ DOMAIN new = 1..(n + 1)
        /\ \A k \in 1..(n + 1) :
             new[k] = IF k < place THEN old[k] ELSE IF k = place THEN tag ELSE old[k - 1]
  BY DEF Grown
<1>2. place = n + 1
  BY <1>1
<1>3. new[n + 1] = tag /\ \A k \in 1..n : new[k] = old[k]
  BY <1>1, <1>2
<1> SUFFICES ASSUME NEW i \in 1..(n + 1), NEW j \in 1..(n + 1), i < j, new[i] = tag
             PROVE  new[j] = tag
  BY <1>1 DEF GoesOnWith
<1>4. i \in 1..n
  BY <1>1
<1>5. CASE j = n + 1
  BY <1>3, <1>5
<1>6. CASE j # n + 1
  <2>1. j \in 1..n
    BY <1>1, <1>6
  <2> QED
    BY <1>1, <1>3, <1>4, <2>1 DEF GoesOnWith
<1> QED
  BY <1>5, <1>6

LEMMA TogetherAtEnd ==
  ASSUME NEW old, NEW new, NEW place, NEW tag, Grown(old, new, place, tag), Together(old),
         place \notin DOMAIN old, tag \notin DOMAIN Groups \/ GoesOnWith(old, tag)
  PROVE  Together(new)
<1>1. PICK n \in Nat :
        /\ place \in 1..(n + 1) /\ DOMAIN old = 1..n /\ DOMAIN new = 1..(n + 1)
        /\ \A k \in 1..(n + 1) :
             new[k] = IF k < place THEN old[k] ELSE IF k = place THEN tag ELSE old[k - 1]
  BY DEF Grown
<1>2. place = n + 1
  BY <1>1
<1>3. new[n + 1] = tag /\ \A k \in 1..n : new[k] = old[k]
  BY <1>1, <1>2
<1> SUFFICES ASSUME NEW i \in 1..(n + 1), NEW j \in 1..(n + 1), NEW k \in 1..(n + 1),
                    new[i] \in DOMAIN Groups, i < j, j < k, new[i] = new[k]
             PROVE  new[j] = new[i]
  BY <1>1 DEF Together
<1>4. i \in 1..n /\ j \in 1..n /\ new[i] = old[i] /\ new[j] = old[j]
  <2>1. i \in 1..n /\ j \in 1..n
    BY <1>1
  <2> QED
    BY <1>3, <2>1
<1>5. CASE k = n + 1
  <2>1. GoesOnWith(old, tag) /\ old[i] = tag
    BY <1>3, <1>4, <1>5
  <2> QED
    BY <1>1, <1>4, <2>1 DEF GoesOnWith
<1>6. CASE k # n + 1
  <2>1. k \in 1..n
    BY <1>1, <1>6
  <2> QED
    BY <1>1, <1>3, <1>4, <2>1 DEF Together
<1> QED
  BY <1>5, <1>6

(* Behind the entries there are: no other group is torn apart.               *)
LEMMA TogetherBehind ==
  ASSUME NEW old, NEW new, NEW tag, NEW a \in Nat, NEW z \in Nat, a <= z,
         Grown(old, new, z + 1, tag), Together(old),
         {i \in DOMAIN old : old[i] = tag} = a..z
  PROVE  Together(new)
<1>1. PICK n \in Nat :
        /\ z + 1 \in 1..(n + 1) /\ DOMAIN old = 1..n /\ DOMAIN new = 1..(n + 1)
        /\ \A k \in 1..(n + 1) :
             new[k] = IF k < z + 1 THEN old[k] ELSE IF k = z + 1 THEN tag ELSE old[k - 1]
  BY DEF Grown
<1>2. /\ new[z + 1] = tag /\ \A k \in 1..z : new[k] = old[k]
      /\ \A k \in (z + 2)..(n + 1) : new[k] = old[k - 1]
  BY <1>1
<1>3. z \in 1..n /\ old[z] = tag /\ 1 <= a
  BY <1>1
<1>4. \A k \in 1..(n + 1) : new[k] = tag <=> k \in a..(z + 1)
  <2> SUFFICES ASSUME NEW k \in 1..(n + 1) PROVE new[k] = tag <=> k \in a..(z + 1)
    OBVIOUS
  <2>1. CASE k <= z
    <3>1. k \in 1..n /\ new[k] = old[k]
      BY <1>1, <1>2, <2>1
    <3> QED
      BY <1>1, <2>1, <3>1
  <2>2. CASE k = z + 1
    BY <1>1, <1>2, <2>2
  <2>3. CASE k > z + 1
    <3>1. k - 1 \in 1..n /\ new[k] = old[k - 1] /\ k - 1 \notin a..z
      BY <1>1, <1>2, <2>3
    <3> QED
      BY <1>1, <2>3, <3>1
  <2> QED
    BY <1>1, <2>1, <2>2, <2>3
<1> SUFFICES ASSUME NEW i \in 1..(n + 1), NEW j \in 1..(n + 1), NEW k \in 1..(n + 1),
                    new[i] \in DOMAIN Groups, i < j, j < k, new[i] = new[k]
             PROVE  new[j] = new[i]
  BY <1>1 DEF Together
<1>5. CASE new[i] = tag
  <2>1. i \in a..(z + 1) /\ k \in a..(z + 1)
    BY <1>4, <1>5
  <2>2. j \in a..(z + 1)
    BY <1>1, <2>1
  <2> QED
    BY <1>4, <1>5, <2>2
<1>6. CASE new[i] # tag
  <2> DEFINE from(x) == IF x < z + 1 THEN x ELSE x - 1
  <2>1. i # z + 1 /\ k # z + 1
    BY <1>2, <1>6
  <2>2. ASSUME NEW x \in 1..(n + 1), x # z + 1
        PROVE  from(x) \in 1..n /\ new[x] = old[from(x)]
    BY <1>1, <1>2, <2>2
  <2>3. from(i) \in 1..n /\ new[i] = old[from(i)] /\ from(k) \in 1..n /\ new[k] = old[from(k)]
    BY <2>1, <2>2
  <2>4. CASE j # z + 1
    <3>1. from(j) \in 1..n /\ new[j] = old[from(j)]
      BY <2>2, <2>4
    <3>2. from(i) < from(j) /\ from(j) < from(k)
      BY <1>1, <2>1, <2>4
    <3> HIDE DEF from
    <3> QED
      BY <1>1, <2>3, <3>1, <3>2 DEF Together
  <2>5. CASE j = z + 1
    <3>1. from(i) <= z /\ z < from(k)
      BY <1>1, <2>1, <2>5
    <3> HIDE DEF from
    <3>2. from(i) # z
      BY <1>3, <1>6, <2>3
    <3>3. from(i) < z
      BY <1>1, <2>3, <3>1, <3>2
    <3>4. old[z] = old[from(i)]
      BY <1>1, <1>3, <2>3, <3>1, <3>3 DEF Together
    <3> QED
      BY <1>3, <1>6, <2>3, <3>4
  <2> QED
    BY <2>4, <2>5
<1> QED
  BY <1>5, <1>6

(* The rows of the tree, before and after a step.                            *)
LEMMA RowKept ==
  ASSUME IsTree, KeepsTree, NEW p \in DOMAIN tree, tree'[p].kids = tree[p].kids
  PROVE  Row(p)' = Row(p)
<1>1. Size \in Nat /\ DOMAIN tree = 0..(Size - 1)
  BY DEF IsTree
<1>2. ASSUME NEW a \in DOMAIN tree[p].kids PROVE tree'[tree[p].kids[a]].tag = Tag(tree[p].kids[a])
  <2>1. tree[p].kids[a] \in DOMAIN tree
    <3>1. tree[p].kids[a] \in 1..(Size - 1)
      BY DEF IsTree
    <3> QED
      BY <1>1, <3>1
  <2> QED
    BY <2>1 DEF KeepsTree, Tag
<1>3. Row(p)' = [a \in DOMAIN tree[p].kids |-> tree'[tree[p].kids[a]].tag]
  BY Zenon DEF Row, Tag
<1> QED
  BY <1>2, <1>3 DEF Row

LEMMA RowsKept ==
  ASSUME IsTree, KeepsTree, SameChildren
  PROVE  DOMAIN tree' = DOMAIN tree /\ \A p \in DOMAIN tree : Row(p)' = Row(p)
BY RowKept DEF SameChildren

LEMMA RowsMore ==
  ASSUME IsTree, KeepsTree, top.node \in DOMAIN tree, NEW tag,
         NEW place \in 1..(Len(Siblings) + 1), ChildMore(place, tag)
  PROVE  /\ \A p \in DOMAIN tree : p # top.node => Row(p)' = Row(p)
         /\ \A p \in DOMAIN tree : p = top.node => Grown(Row(p), Row(p)', place, tag)
         /\ \A p \in DOMAIN tree' : p \notin DOMAIN tree => p = Size /\ DOMAIN Row(p)' = {}
<1>1. /\ Size \in Nat \ {0} /\ DOMAIN tree = 0..(Size - 1) /\ DOMAIN tree' = 0..Size
      /\ Len(Siblings) \in Nat /\ DOMAIN Siblings = 1..Len(Siblings)
  BY SiblingNodes DEF ChildMore
<1>2. \A p \in DOMAIN tree : p # top.node => Row(p)' = Row(p)
  BY RowKept DEF ChildMore
<1>3. ASSUME NEW p \in DOMAIN tree', p \notin DOMAIN tree PROVE p = Size /\ DOMAIN Row(p)' = {}
  <2>1. p = Size
    BY <1>1, <1>3
  <2>2. tree'[p].kids = <<>>
    BY <2>1 DEF ChildMore
  <2>3. DOMAIN tree'[p].kids = {}
    BY <2>2
  <2> QED
    BY <2>1, <2>3 DEF Row
<1>4. ASSUME NEW p \in DOMAIN tree, p = top.node PROVE Grown(Row(p), Row(p)', place, tag)
  <2> DEFINE n == Len(Siblings)
             kids == tree'[p].kids
  <2>1. /\ kids \in Seq(Nat) /\ Len(kids) = n + 1
        /\ \A i \in 1..(n + 1) :
             kids[i] = IF i < place THEN Siblings[i]
                       ELSE IF i = place THEN Size ELSE Siblings[i - 1]
    BY <1>4 DEF ChildMore
  <2>2. DOMAIN kids = 1..(n + 1)
    BY <2>1
  <2>3. DOMAIN Row(p) = 1..n /\ \A i \in 1..n : Row(p)[i] = tree[Siblings[i]].tag
    BY <1>1, <1>4 DEF Row, Siblings, Tag
  <2>4. DOMAIN Row(p)' = 1..(n + 1) /\ \A i \in 1..(n + 1) : Row(p)'[i] = tree'[kids[i]].tag
    BY <2>2 DEF Row, Tag
  <2>5. \A i \in 1..n : tree'[Siblings[i]].tag = tree[Siblings[i]].tag
    BY <1>1, SiblingNodes DEF KeepsTree
  <2>6. tree'[Size].tag = tag
    BY DEF ChildMore
  <2>7. n \in Nat /\ place \in 1..(n + 1)
    BY <1>1
  <2> HIDE DEF n, kids
  <2>8. ASSUME NEW i \in 1..(n + 1)
        PROVE  Row(p)'[i] = IF i < place THEN Row(p)[i]
                            ELSE IF i = place THEN tag ELSE Row(p)[i - 1]
    <3>1. CASE i < place
      <4>1. i \in 1..n
        BY <2>7, <3>1
      <4> QED
        BY <2>1, <2>3, <2>4, <2>5, <3>1, <4>1
    <3>2. CASE i = place
      BY <2>1, <2>4, <2>6, <2>7, <3>2
    <3>3. CASE i > place
      <4>1. i - 1 \in 1..n /\ ~(i < place) /\ i # place
        BY <2>7, <3>3
      <4>2. kids[i] = Siblings[i - 1]
        BY <2>1, <4>1
      <4> QED
        BY <2>3, <2>4, <2>5, <4>1, <4>2
    <3> QED
      BY <2>7, <3>1, <3>2, <3>3
  <2> QED
    BY <2>3, <2>4, <2>7, <2>8 DEF Grown
<1> QED
  BY <1>2, <1>3, <1>4

(* The lines of a group are without a gap, and Behind is behind them.        *)
LEMMA BehindIs ==
  ASSUME IsTree, top.node \in DOMAIN tree, NEW g \in DOMAIN Groups, Lines(g) # {},
         Together(Row(top.node))
  PROVE  \E a, z \in Nat : /\ a <= z /\ Lines(g) = a..z /\ Behind(g) = z + 1
                           /\ {i \in DOMAIN Row(top.node) : Row(top.node)[i] = g} = a..z
<1> DEFINE L == Lines(g)
           n == Len(Siblings)
           row == Row(top.node)
           above == {y \in Nat : \A i \in L : i <= y}
           a == Min(L)
           z == Min(above)
<1>1. n \in Nat /\ DOMAIN Siblings = 1..n
  BY SiblingNodes
<1>2. DOMAIN row = 1..n /\ \A i \in 1..n : row[i] = tree[Siblings[i]].tag
  BY <1>1 DEF Row, Siblings, Tag
<1>3. L = {i \in DOMAIN row : row[i] = g}
  BY <1>1, <1>2 DEF Lines, Places
<1> HIDE DEF L, n, row
<1>4. L \in SUBSET Nat /\ L \subseteq 1..n /\ L # {}
  BY <1>1, <1>2, <1>3 DEF L
<1>5. a \in L /\ \A y \in L : a <= y
  BY <1>4, SmallestMember
<1>6. z \in above /\ \A y \in above : z <= y
  <2>1. n \in above
    BY <1>1, <1>4
  <2>2. above \in SUBSET Nat /\ above # {}
    BY <2>1
  <2> HIDE DEF above
  <2> QED
    BY <2>2, SmallestMember
<1> HIDE DEF a, z
<1>7. a \in Nat /\ z \in Nat /\ a <= z /\ 1 <= a
  BY <1>4, <1>5, <1>6
<1>8. z \in L
  <2> SUFFICES ASSUME z \notin L PROVE FALSE
    OBVIOUS
  <2>1. z - 1 \in above
    <3>1. z - 1 \in Nat
      BY <1>7
    <3>2. ASSUME NEW i \in L PROVE i <= z - 1
      <4>1. i \in Nat /\ i <= z /\ i # z
        BY <1>4, <1>6
      <4> QED
        BY <1>7, <4>1
    <3> QED
      BY <3>1, <3>2
  <2>2. z <= z - 1
    BY <1>6, <2>1
  <2> QED
    BY <1>7, <2>2
<1>9. L = a..z
  <2>1. ASSUME NEW i \in L PROVE i \in a..z
    BY <1>4, <1>5, <1>6, <1>7
  <2>2. ASSUME NEW i \in a..z PROVE i \in L
    <3>1. i \in DOMAIN row /\ a \in DOMAIN row /\ z \in DOMAIN row /\ row[a] = g /\ row[z] = g
      <4>1. a \in DOMAIN row /\ z \in DOMAIN row /\ row[a] = g /\ row[z] = g
        BY <1>3, <1>5, <1>8
      <4>2. z <= n
        BY <1>2, <4>1
      <4>3. i \in 1..n
        BY <1>1, <1>7, <4>2
      <4> QED
        BY <1>2, <4>1, <4>3
    <3>2. CASE i = a \/ i = z
      BY <1>5, <1>8, <3>2
    <3>3. CASE i # a /\ i # z
      <4>1. a < i /\ i < z
        BY <1>7, <3>3
      <4>2. row[i] = row[a]
        BY <3>1, <4>1 DEF Together, row
      <4> QED
        BY <1>3, <3>1, <4>2
    <3> QED
      BY <3>2, <3>3
  <2> QED
    BY <2>1, <2>2
<1>10. Cardinality(L) = z - a + 1
  BY <1>7, <1>9, FS_Interval
<1>11. Behind(g) = a + Cardinality(L)
  BY <1>4, Zenon DEF Behind, L, a
<1>12. Behind(g) = z + 1
  BY <1>7, <1>10, <1>11
<1> QED
  BY <1>3, <1>7, <1>9, <1>12 DEF L, row

-----------------------------------------------------------------------------
(* The node of a call that takes a tag has no child for it yet, while the    *)
(* first message is read and the tag does not come twice in one place, and   *)
(* later when there is no line for it.                                       *)
LEMMA NoneYet ==
  ASSUME Taken, FirstColumn, Lines(token) = {}, NEW S, token \in S,
         column = 0 => OnceEach(message, S)
  PROVE  \A a \in DOMAIN Row(top.node) : Row(top.node)[a] # token
<1> SUFFICES ASSUME NEW a \in DOMAIN Row(top.node), Row(top.node)[a] = token PROVE FALSE
  OBVIOUS
<1> DEFINE n == Len(frames)
<1>1. /\ n \in Nat \ {0} /\ DOMAIN frames = 1..n /\ top = frames[n] /\ frames[1].node = 0
      /\ frames # <<>> /\ (AtRoot \/ token \in top.rest)
  BY TopCall DEF Taken, Shape, Nested
<1>2. inc \in 1..Len(message) /\ Len(message) \in Nat /\ token = message[inc] /\ message \in Seq(AllTags)
  BY Reading DEF Taken, Shape, token
<1> HIDE DEF n
<1>3. CASE column # 0
  <2>1. Places(token) = {}
    BY <1>3 DEF Lines
  <2> QED
    BY <2>1, Zenon DEF Places, Row, Siblings, Tag
<1>4. CASE column = 0 /\ n # 1
  <2>1. n \in DOMAIN frames \ {1} /\ token \in frames[n].rest
    BY <1>1, <1>4 DEF AtRoot, n
  <2>2. Row(frames[n].node)[a] \notin frames[n].rest
    <3>1. StillTaken /\ a \in DOMAIN Row(frames[n].node)
      BY <1>1, <1>4 DEF FirstColumn
    <3> QED
      BY <2>1, <3>1, Zenon DEF StillTaken
  <2> QED
    BY <1>1, <2>1, <2>2
<1>5. CASE column = 0 /\ n = 1
  <2>1. top.node = 0 /\ RootOutside /\ Outside(message, inc)
    BY <1>1, <1>5, TakenOutside DEF FirstColumn, AtRoot, n
  <2>2. PICK q \in 1..(inc - 1) : message[q] = token /\ Outside(message, q)
    BY <2>1 DEF RootOutside
  <2>3. q \in DOMAIN message /\ inc \in DOMAIN message /\ q # inc
    BY <1>2
  <2>4. FixHome(message)[q] = FixHome(message)[inc]
    BY <2>1, <2>2, <2>3, OutsideIsOnePlace
  <2> QED
    BY <1>2, <1>5, <2>2, <2>3, <2>4, Zenon DEF OnceEach
<1> QED
  BY <1>3, <1>4, <1>5

LEMMA EarlierPairs ==
  ASSUME NEW i \in Nat, NEW j \in Nat, i <= j
  PROVE  \A q \in 1..(i - 1) : q \in 1..(j - 1)
OBVIOUS

(* In the first column: the tree stays, and calls go on or return.           *)
LEMMA FirstKept ==
  ASSUME Shape, FirstColumn, frames # <<>>, column = 0, UNCHANGED messages,
         0 \in DOMAIN tree, \A p \in DOMAIN tree : Row(p)' = Row(p),
         inc' \in Nat, inc <= inc',
         NEW k \in 0..Len(frames), DOMAIN frames' = 1..k,
         \A i \in 1..k :
           /\ frames'[i].node = frames[i].node /\ frames'[i].rest \subseteq frames[i].rest
           /\ \/ frames'[i].counter \in {0, frames[i].counter}
              \/ /\ GoesOnWith(Row(frames[i].node), message[frames'[i].counter])
                 /\ message[frames'[i].counter] \notin frames'[i].rest
                 /\ i = 1 => Outside(message, frames'[i].counter)
  PROVE  k # 0 => (Younger /\ StillTaken /\ EntriesLast /\ RootOutside)'
<1> DEFINE n == Len(frames)
<1>1. /\ n \in Nat \ {0} /\ DOMAIN frames = 1..n
      /\ Younger /\ StillTaken /\ EntriesLast /\ RootOutside
  BY TopCall DEF Shape, FirstColumn
<1>2. message' = message /\ inc \in Nat
  BY Reading DEF message, Shape
<1>3. \A i \in 1..k : i \in DOMAIN frames /\ frames[i].node \in DOMAIN tree
  BY <1>1 DEF Shape, Nested, IsCall
<1>4. Younger'
  BY <1>1, <1>3 DEF Younger
<1>5. StillTaken'
  <2> SUFFICES ASSUME NEW i \in 1..k, i # 1, NEW p, p = frames'[i].node
               PROVE  /\ \A a \in DOMAIN Row(p)' : Row(p)'[a] \notin frames'[i].rest
                      /\ frames'[i].counter # 0 => message[frames'[i].counter] \notin frames'[i].rest
    BY <1>2, Zenon DEF StillTaken
  <2>1. /\ \A a \in DOMAIN Row(frames[i].node) : Row(frames[i].node)[a] \notin frames[i].rest
        /\ frames[i].counter # 0 => message[frames[i].counter] \notin frames[i].rest
    BY <1>1, <1>3 DEF StillTaken
  <2>2. p = frames[i].node /\ Row(p)' = Row(p)
    BY <1>3
  <2> QED
    BY <2>1, <2>2
<1>6. EntriesLast'
  <2> SUFFICES ASSUME NEW i \in 1..k, frames'[i].counter # 0, NEW p, p = frames'[i].node
               PROVE  GoesOnWith(Row(p)', message[frames'[i].counter])
    BY <1>2, Zenon DEF EntriesLast
  <2>1. frames[i].counter # 0 => GoesOnWith(Row(frames[i].node), message[frames[i].counter])
    BY <1>1, <1>3 DEF EntriesLast
  <2>2. p = frames[i].node /\ Row(p)' = Row(p)
    BY <1>3
  <2> QED
    BY <2>1, <2>2
<1>7. k # 0 => RootOutside'
  <2> SUFFICES ASSUME k # 0 PROVE RootOutside'
    OBVIOUS
  <2>1. 1 \in 1..k
    OBVIOUS
  <2>2. frames'[1].counter # 0 => Outside(message, frames'[1].counter)
    BY <1>1, <2>1 DEF RootOutside
  <2>3. \A q \in 1..(inc - 1) : q \in 1..(inc' - 1)
    BY <1>2, EarlierPairs, Zenon
  <2>4. Row(0)' = Row(0)
    OBVIOUS
  <2>5. \A a \in DOMAIN Row(0) : \E q \in 1..(inc' - 1) : message[q] = Row(0)[a] /\ Outside(message, q)
    BY <1>1, <2>3 DEF RootOutside
  <2> QED
    BY <1>2, <2>2, <2>4, <2>5, Zenon DEF RootOutside
<1> QED
  BY <1>4, <1>5, <1>6, <1>7

(* The innermost call has put a child behind the others, for a pair it has   *)
(* read or for an entry of its group, for which it may have called.          *)
LEMMA FirstGrown ==
  ASSUME Shape, FirstColumn, frames # <<>>, column = 0, UNCHANGED messages,
         NEW q \in 1..(inc' - 1), AtRoot => Outside(message, q), inc' \in Nat, inc <= inc',
         NEW place, place \notin DOMAIN Row(top.node),
         \A p \in DOMAIN tree : p # top.node => Row(p)' = Row(p),
         \A p \in DOMAIN tree : p = top.node => Grown(Row(p), Row(p)', place, message[q]),
         NEW k \in {Len(frames), Len(frames) + 1}, DOMAIN frames' = 1..k,
         \A i \in 1..Len(frames) :
           /\ frames'[i].node = frames[i].node /\ frames'[i].rest \subseteq frames[i].rest
           /\ frames'[i].counter = frames[i].counter,
         top.counter # 0 => message[top.counter] = message[q],
         ~AtRoot => message[q] \notin frames'[Len(frames)].rest,
         k = Len(frames) + 1 => /\ frames'[k].node = Size /\ frames'[k].counter = 0
                                /\ \A p : p = Size => DOMAIN Row(p)' = {}
  PROVE  (Younger /\ StillTaken /\ EntriesLast /\ RootOutside)'
<1> DEFINE n == Len(frames)
           t == message[q]
<1>1. /\ n \in Nat \ {0} /\ DOMAIN frames = 1..n /\ top = frames[n] /\ frames[1].node = 0
      /\ Younger /\ StillTaken /\ EntriesLast /\ RootOutside
  BY TopCall DEF Shape, FirstColumn, Nested
<1>2. message' = message /\ inc \in Nat
  BY Reading DEF message, Shape
<1>3. /\ Size \in Nat /\ DOMAIN tree = 0..(Size - 1)
      /\ \A i \in 1..n : frames[i].node \in DOMAIN tree /\ frames[i].node < Size
  <2>1. Size \in Nat /\ DOMAIN tree = 0..(Size - 1)
    BY DEF Shape, IsTree
  <2>2. \A i \in 1..n : frames[i].node \in DOMAIN tree
    BY <1>1 DEF Shape, Nested, IsCall
  <2> QED
    BY <2>1, <2>2
<1>4. \A i \in 1..(n - 1) : frames[i].node # top.node
  <2> SUFFICES ASSUME NEW i \in 1..(n - 1) PROVE frames[i].node # top.node
    OBVIOUS
  <2>1. i \in 1..n /\ n \in 1..n /\ i < n
    BY <1>1
  <2>2. frames[i].node < frames[n].node
    BY <1>1, <2>1 DEF Younger
  <2>3. frames[i].node \in Nat /\ frames[n].node \in Nat
    BY <1>3, <2>1
  <2> QED
    BY <1>1, <2>2, <2>3
<1>5. \A i \in 1..k : i \in 1..n \/ (i = n + 1 /\ k = n + 1)
  BY <1>1
<1>6. Younger'
  <2> SUFFICES ASSUME NEW i \in 1..k, NEW j \in 1..k, i < j
               PROVE  frames'[i].node < frames'[j].node
    BY DEF Younger
  <2>1. CASE j \in 1..n
    <3>1. i \in 1..n
      BY <1>1, <2>1
    <3> QED
      BY <1>1, <2>1, <3>1 DEF Younger
  <2>2. CASE j = n + 1 /\ k = n + 1
    <3>1. i \in 1..n
      BY <1>1, <2>2
    <3> QED
      BY <1>3, <2>2, <3>1
  <2> QED
    BY <1>5, <2>1, <2>2
<1> HIDE DEF n
<1>7. top.node \in DOMAIN tree /\ n \in 1..n
  BY <1>1, <1>3
<1>8. PICK m \in Nat :
        /\ place \in 1..(m + 1) /\ DOMAIN Row(top.node) = 1..m
        /\ \A p : p = top.node =>
             /\ DOMAIN Row(p)' = 1..(m + 1)
             /\ \A i \in 1..(m + 1) :
                  Row(p)'[i] = IF i < place THEN Row(p)[i] ELSE IF i = place THEN t ELSE Row(p)[i - 1]
  <2>1. \A p : p = top.node => Grown(Row(p), Row(p)', place, t)
    BY <1>7
  <2> QED
    BY <2>1 DEF Grown
<1>9. \A p : p = top.node => \A a \in DOMAIN Row(p)' :
        (a \in DOMAIN Row(p) /\ Row(p)'[a] = Row(p)[a]) \/ Row(p)'[a] = t
  <2>1. place = m + 1
    BY <1>8
  <2>2. \A a \in 1..(m + 1) : a # m + 1 => a < m + 1 /\ a \in 1..m
    BY <1>8
  <2> QED
    BY <1>8, <2>1, <2>2
<1>10. StillTaken'
  <2> SUFFICES ASSUME NEW i \in 1..k, i # 1, NEW p, p = frames'[i].node
               PROVE  /\ \A a \in DOMAIN Row(p)' : Row(p)'[a] \notin frames'[i].rest
                      /\ frames'[i].counter # 0 => message[frames'[i].counter] \notin frames'[i].rest
    BY <1>2, Zenon DEF StillTaken
  <2>1. CASE i \in 1..n
    <3>1. /\ \A a \in DOMAIN Row(frames[i].node) : Row(frames[i].node)[a] \notin frames[i].rest
          /\ frames[i].counter # 0 => message[frames[i].counter] \notin frames[i].rest
      BY <1>1, <2>1 DEF StillTaken
    <3>2. p = frames[i].node /\ frames'[i].rest \subseteq frames[i].rest /\ frames'[i].counter = frames[i].counter
      BY <2>1 DEF n
    <3>3. CASE i = n
      <4>1. p = top.node /\ t \notin frames'[i].rest
        BY <1>1, <3>2, <3>3 DEF AtRoot, n
      <4> QED
        BY <1>9, <3>1, <3>2, <4>1
    <3>4. CASE i # n
      <4>1. Row(p)' = Row(p)
        <5>1. i \in 1..(n - 1)
          BY <1>1, <2>1, <3>4
        <5> QED
          BY <1>3, <1>4, <2>1, <3>2, <5>1
      <4> QED
        BY <3>1, <3>2, <4>1
    <3> QED
      BY <3>3, <3>4
  <2>2. CASE i = n + 1 /\ k = n + 1
    <3>1. DOMAIN Row(p)' = {} /\ frames'[i].counter = 0
      BY <2>2 DEF n
    <3> QED
      BY <3>1
  <2> QED
    BY <1>5, <2>1, <2>2
<1>11. EntriesLast'
  <2> SUFFICES ASSUME NEW i \in 1..k, frames'[i].counter # 0, NEW p, p = frames'[i].node
               PROVE  GoesOnWith(Row(p)', message[frames'[i].counter])
    BY <1>2, Zenon DEF EntriesLast
  <2>1. i \in 1..n
    BY <1>5 DEF n
  <2>2. p = frames[i].node /\ frames'[i].counter = frames[i].counter
    BY <2>1 DEF n
  <2>3. GoesOnWith(Row(p), message[frames'[i].counter])
    BY <1>1, <2>1, <2>2 DEF EntriesLast
  <2>4. CASE i = n
    <3>1. p = top.node /\ message[frames'[i].counter] = t
      BY <1>1, <2>2, <2>4
    <3>2. Grown(Row(p), Row(p)', place, t) /\ place \notin DOMAIN Row(p)
      BY <1>7, <3>1
    <3> QED
      BY <2>3, <3>1, <3>2, GoesOnWithGrown
  <2>5. CASE i # n
    <3>1. i \in 1..(n - 1)
      BY <1>1, <2>1, <2>5
    <3>2. Row(p)' = Row(p)
      BY <1>3, <1>4, <2>1, <2>2, <3>1
    <3> QED
      BY <2>3, <3>2
  <2> QED
    BY <2>4, <2>5
<1>12. RootOutside'
  <2>1. 1 \in 1..n
    BY <1>1
  <2>2. frames'[1].counter # 0 => Outside(message, frames'[1].counter)
    BY <1>1, <2>1 DEF RootOutside, n
  <2>3. \A x \in 1..(inc - 1) : x \in 1..(inc' - 1)
    BY <1>2, EarlierPairs, Zenon
  <2>4. \A a \in DOMAIN Row(0) : \E x \in 1..(inc' - 1) : message[x] = Row(0)[a] /\ Outside(message, x)
    BY <1>1, <2>3 DEF RootOutside
  <2>5. \A a \in DOMAIN Row(0)' : \E x \in 1..(inc' - 1) : message[x] = Row(0)'[a] /\ Outside(message, x)
    <3>1. CASE n = 1
      <4>1. top.node = 0 /\ Outside(message, q)
        BY <1>1, <3>1 DEF AtRoot, n
      <4>2. \A a \in DOMAIN Row(0)' :
              (a \in DOMAIN Row(0) /\ Row(0)'[a] = Row(0)[a]) \/ Row(0)'[a] = t
        BY <1>9, <4>1, ZenonT(60)
      <4>3. ASSUME NEW a \in DOMAIN Row(0)'
            PROVE  \E x \in 1..(inc' - 1) : message[x] = Row(0)'[a] /\ Outside(message, x)
        <5>1. CASE a \in DOMAIN Row(0) /\ Row(0)'[a] = Row(0)[a]
          BY <2>4, <5>1
        <5>2. CASE Row(0)'[a] = t
          BY <4>1, <5>2
        <5> QED
          BY <4>2, <4>3, <5>1, <5>2
      <4> QED
        BY <4>3
    <3>2. CASE n # 1
      <4>1. 1 \in 1..(n - 1)
        BY <1>1, <3>2
      <4>2. Row(0)' = Row(0)
        BY <1>1, <1>3, <1>4, <2>1, <4>1
      <4> QED
        BY <2>4, <4>2
    <3> QED
      BY <3>1, <3>2
  <2> QED
    BY <1>2, <2>2, <2>5, Zenon DEF RootOutside
<1> QED
  BY <1>6, <1>10, <1>11, <1>12

-----------------------------------------------------------------------------
(* What every step of rmake leaves, and the rows after it.                   *)
LEMMA InputsStay ==
  ASSUME FixInv, maker = "rmake", messages # <<>>, UNCHANGED <<maker, messages>>,
         Following', FirstColumn', FieldsOnce', RowsTogether'
  PROVE  FixInv'
<1>1. InTags' /\ InOrder' /\ NothingYet'
  BY DEF FixInv, InTags, InOrder, NothingYet
<1> QED
  BY <1>1 DEF FixInv

LEMMA RowsStay ==
  ASSUME FieldsOnce, RowsTogether, UNCHANGED messages, DOMAIN tree' = DOMAIN tree,
         \A p \in DOMAIN tree : Row(p)' = Row(p)
  PROVE  FieldsOnce' /\ RowsTogether'
<1>1. FieldsOnce'
  BY Zenon DEF FieldsOnce
<1>2. RowsTogether'
  BY Zenon DEF RowsTogether
<1> QED
  BY <1>1, <1>2

LEMMA RowsGrow ==
  ASSUME FieldsOnce, RowsTogether, UNCHANGED messages, messages # <<>>,
         \A p \in DOMAIN tree : p # top.node => Row(p)' = Row(p),
         \A p \in DOMAIN tree' : p \notin DOMAIN tree => DOMAIN Row(p)' = {},
         \A p \in DOMAIN tree : p = top.node =>
           Together(Row(p)') /\ (OnceEach(messages[1], Tags) => OneEach(Row(p)'))
  PROVE  FieldsOnce' /\ RowsTogether'
<1>1. ASSUME NEW p \in DOMAIN tree' PROVE Together(Row(p)')
  <2>1. CASE p \in DOMAIN tree /\ p # top.node
    BY <2>1, Zenon DEF RowsTogether
  <2>2. CASE p \in DOMAIN tree /\ p = top.node
    BY <2>2
  <2>3. CASE p \notin DOMAIN tree
    BY <1>1, <2>3, Zenon DEF Together
  <2> QED
    BY <2>1, <2>2, <2>3
<1>2. ASSUME NEW p \in DOMAIN tree', OnceEach(messages[1], Tags) PROVE OneEach(Row(p)')
  <2>1. CASE p \in DOMAIN tree /\ p # top.node
    BY <1>2, <2>1, Zenon DEF FieldsOnce
  <2>2. CASE p \in DOMAIN tree /\ p = top.node
    BY <1>2, <2>2
  <2>3. CASE p \notin DOMAIN tree
    BY <1>2, <2>3, Zenon DEF OneEach
  <2> QED
    BY <2>1, <2>2, <2>3
<1>3. RowsTogether'
  BY <1>1, Zenon DEF RowsTogether
<1>4. FieldsOnce'
  BY <1>2, Zenon DEF FieldsOnce
<1> QED
  BY <1>3, <1>4

LEMMA TakesTaken ==
  ASSUME Shape, FixInv, maker = "rmake", Takes
  PROVE  /\ Taken /\ messages # <<>> /\ Counters = DOMAIN Groups /\ token \in Tags
         /\ \A g : Members(g) = Groups[g]
         /\ inc \in Nat \ {0} /\ inc <= Len(message) /\ Len(message) \in Nat
         /\ token = message[inc] /\ Len(frames) \in Nat \ {0} /\ column \in Nat
         /\ (column = 0 => message = messages[1])
<1>1. Taken
  BY DEF Taken, Takes, FixInv
<1>2. /\ messages # <<>> /\ inc \in 1..Len(message) /\ Len(message) \in Nat /\ column \in Nat
      /\ message = messages[Len(messages)] /\ Len(messages) \in DOMAIN messages
  BY <1>1, Reading DEF Taken, Shape, Inputs, Nested
<1>3. message \in Seq(Tags)
  BY <1>2 DEF FixInv, InTags
<1>4. Len(frames) \in Nat \ {0}
  BY <1>1, TopCall DEF Taken, Shape
<1>5. column = 0 => message = messages[1]
  <2>1. Len(messages) \in Nat
    BY <1>1, Reading DEF Taken, Shape
  <2>2. column = 0 => Len(messages) = 1
    BY <2>1 DEF column
  <2> QED
    BY <1>2, <2>2, Zenon
<1> QED
  BY <1>1, <1>2, <1>3, <1>4, <1>5 DEF Counters, Members, token

LEMMA CallsSame ==
  ASSUME Shape', UNCHANGED maker
  PROVE  frames' \in Seq(Calls)
<1>1. Calls' = Calls
  BY DEF Calls, Counters
<1> QED
  BY <1>1 DEF Shape, Nested

LEMMA FieldFix ==
  ASSUME Shape, FixInv, maker = "rmake", ReadField
  PROVE  FixInv'
<1> DEFINE n == Len(frames)
<1>1. Takes /\ token \notin Counters /\ Resume(top, inc + 1) /\ UNCHANGED <<maker, messages>>
  BY Zenon DEF ReadField
<1>2. /\ Taken /\ messages # <<>> /\ Counters = DOMAIN Groups /\ token \in Tags
      /\ inc \in Nat \ {0} /\ token = message[inc] /\ n \in Nat \ {0} /\ frames # <<>>
      /\ column \in Nat /\ (column = 0 => message = messages[1])
  BY <1>1, TakesTaken DEF Taken
<1>3. /\ Shape' /\ KeepsTree /\ GoesOn(0, RestAfter)
      /\ \/ Lines(token) # {} /\ SameChildren
         \/ Lines(token) = {} /\ ChildMore(AtEnd, token)
  BY ReadFieldShape
<1>4. Following /\ FirstColumn /\ FieldsOnce /\ RowsTogether
  BY DEF FixInv
<1>5. inc' = inc + 1 /\ inc' \in Nat /\ inc <= inc' /\ inc \in 1..(inc' - 1)
  BY <1>1, <1>2 DEF Resume
<1>6. column' = column /\ message' = message
  BY <1>1 DEF column, message
<1>7. Following'
  <2>1. 0 = IF Opens(message, inc) THEN inc ELSE 0
    BY <1>1, <1>2 DEF Opens
  <2>2. frames' \in Seq(Calls)
    BY <1>1, <1>3, CallsSame
  <2> QED
    BY <1>1, <1>2, <1>3, <1>5, <2>1, <2>2, FollowingTaken
<1>8. top.node \in DOMAIN tree /\ IsTree /\ top = frames[n] /\ DOMAIN frames = 1..n
  BY <1>2, TopCall DEF Shape, IsCall
<1>9. CASE Lines(token) # {} /\ SameChildren
  <2>1. FieldsOnce' /\ RowsTogether'
    BY <1>1, <1>3, <1>4, <1>8, <1>9, RowsKept, RowsStay
  <2>2. FirstColumn'
    <3>1. column # 0
      BY <1>9 DEF Lines
    <3> QED
      BY <1>6, <3>1 DEF FirstColumn
  <2> QED
    BY <1>1, <1>2, <1>7, <2>1, <2>2, InputsStay
<1>10. CASE Lines(token) = {} /\ ChildMore(AtEnd, token)
  <2>1. AtEnd \in 1..(Len(Siblings) + 1) /\ DOMAIN Siblings = 1..Len(Siblings) /\ Len(Siblings) \in Nat
    BY <1>8, SiblingNodes
  <2>2. /\ \A p \in DOMAIN tree : p # top.node => Row(p)' = Row(p)
        /\ \A p \in DOMAIN tree : p = top.node => Grown(Row(p), Row(p)', AtEnd, token)
        /\ \A p \in DOMAIN tree' : p \notin DOMAIN tree => p = Size /\ DOMAIN Row(p)' = {}
    BY <1>3, <1>8, <1>10, <2>1, RowsMore
  <2>3. AtEnd \notin DOMAIN Row(top.node)
    <3>1. DOMAIN Row(top.node) = 1..Len(Siblings)
      BY <2>1 DEF Row, Siblings
    <3> QED
      BY <2>1, <3>1 DEF AtEnd
  <2>4. ASSUME NEW p \in DOMAIN tree, p = top.node
        PROVE  Together(Row(p)') /\ (OnceEach(messages[1], Tags) => OneEach(Row(p)'))
    <3>1. Grown(Row(p), Row(p)', AtEnd, token) /\ AtEnd \notin DOMAIN Row(p)
      BY <2>2, <2>3, <2>4
    <3>2. Together(Row(p)')
      <4>1. Together(Row(p)) /\ token \notin DOMAIN Groups
        BY <1>1, <1>2, <1>4 DEF RowsTogether
      <4> QED
        BY <3>1, <4>1, TogetherAtEnd
    <3>3. ASSUME OnceEach(messages[1], Tags) PROVE OneEach(Row(p)')
      <4>1. OneEach(Row(p))
        BY <1>2, <1>4, <3>3 DEF FieldsOnce
      <4>2. column = 0 => OnceEach(message, Tags)
        BY <1>2, <3>3, Zenon
      <4>3. \A a \in DOMAIN Row(p) : Row(p)[a] # token
        BY <1>2, <1>4, <1>10, <2>4, <4>2, NoneYet
      <4> QED
        BY <3>1, <4>1, <4>3, OneEachGrown
    <3> QED
      BY <3>2, <3>3
  <2>5. FieldsOnce' /\ RowsTogether'
    <3>1. \A p \in DOMAIN tree' : p \notin DOMAIN tree => DOMAIN Row(p)' = {}
      BY <2>2
    <3> QED
      BY <1>1, <1>2, <1>4, <2>2, <2>4, <3>1, RowsGrow
  <2>6. FirstColumn'
    <3> SUFFICES ASSUME column = 0 PROVE (Younger /\ StillTaken /\ EntriesLast /\ RootOutside)'
      BY <1>6, Zenon DEF FirstColumn
    <3>1. AtRoot => Outside(message, inc)
      BY <1>2, TakenOutside
    <3>2. top.counter = 0 /\ RestAfter = top.rest \ {token}
      BY <1>2 DEF Taken, RestAfter
    <3>3. /\ Len(frames') = n /\ frames'[n].node = top.node /\ frames'[n].counter = 0
          /\ frames'[n].rest = top.rest \ {token}
          /\ \A i \in 1..(n - 1) : frames'[i] = frames[i]
      BY <1>3, <3>2 DEF GoesOn
    <3>4. DOMAIN frames' = 1..n
      <4>1. frames' \in Seq(Calls)
        BY <1>1, <1>3, CallsSame
      <4> QED
        BY <3>3, <4>1
    <3>5. \A i \in 1..n :
            /\ frames'[i].node = frames[i].node /\ frames'[i].rest \subseteq frames[i].rest
            /\ frames'[i].counter = frames[i].counter
      <4> SUFFICES ASSUME NEW i \in 1..n
                   PROVE  /\ frames'[i].node = frames[i].node
                          /\ frames'[i].rest \subseteq frames[i].rest
                          /\ frames'[i].counter = frames[i].counter
        OBVIOUS
      <4>1. CASE i = n
        BY <1>8, <3>2, <3>3, <4>1
      <4>2. CASE i # n
        <5>1. i \in 1..(n - 1)
          BY <1>2, <4>2
        <5> QED
          BY <3>3, <5>1
      <4> QED
        BY <4>1, <4>2
    <3>6. message[inc] \notin frames'[n].rest /\ n # n + 1
      BY <1>2, <3>3
    <3> HIDE DEF n
    <3>7. \A p \in DOMAIN tree : p = top.node => Grown(Row(p), Row(p)', AtEnd, message[inc])
      BY <1>2, <2>2
    <3> QED
      BY <1>1, <1>2, <1>4, <1>5, <2>2, <2>3, <3>1, <3>2, <3>4, <3>5, <3>6, <3>7, FirstGrown DEF n
  <2> QED
    BY <1>1, <1>2, <1>7, <2>5, <2>6, InputsStay
<1> QED
  BY <1>3, <1>9, <1>10

(* Steps that leave the tree alone.                                          *)
LEMMA TreeStays ==
  ASSUME Shape, FixInv, maker = "rmake", frames # <<>>, UNCHANGED <<messages, tree>>,
         inc' \in Nat, inc <= inc',
         NEW k \in 0..Len(frames), frames' \in Seq(Calls), Len(frames') = k,
         column = 0 =>
           \A i \in 1..k :
             /\ frames'[i].node = frames[i].node /\ frames'[i].rest \subseteq frames[i].rest
             /\ \/ frames'[i].counter \in {0, frames[i].counter}
                \/ /\ GoesOnWith(Row(frames[i].node), message[frames'[i].counter])
                   /\ message[frames'[i].counter] \notin frames'[i].rest
                   /\ i = 1 => Outside(message, frames'[i].counter)
  PROVE  FirstColumn' /\ FieldsOnce' /\ RowsTogether'
<1>1. IsTree /\ KeepsTree /\ SameChildren
  BY KeptTree DEF Shape, SameChildren
<1>2. DOMAIN tree' = DOMAIN tree /\ \A p \in DOMAIN tree : Row(p)' = Row(p)
  BY <1>1, RowsKept
<1>3. FieldsOnce' /\ RowsTogether'
  BY <1>2, RowsStay DEF FixInv
<1>4. DOMAIN frames' = 1..k /\ (frames' # <<>> => k # 0)
  OBVIOUS
<1>5. 0 \in DOMAIN tree
  BY DEF Shape, IsTree
<1>6. FirstColumn'
  <2> SUFFICES ASSUME column = 0, k # 0 PROVE (Younger /\ StillTaken /\ EntriesLast /\ RootOutside)'
    <3>1. column' = column
      BY DEF column
    <3> QED
      BY <1>4, <3>1, Zenon DEF FirstColumn
  <2>1. FirstColumn
    BY DEF FixInv
  <2> QED
    BY <1>2, <1>4, <1>5, <2>1, FirstKept
<1> QED
  BY <1>3, <1>6

LEMMA CounterFix ==
  ASSUME Shape, FixInv, maker = "rmake", SkipCounter \/ SkipLastCounter
  PROVE  FixInv'
<1> DEFINE n == Len(frames)
<1>1. /\ Takes /\ Resume(top, inc + 1) /\ UNCHANGED <<maker, messages, tree>>
      /\ inc < Len(message) => message[inc + 1] \notin Members(token)
  <2>1. SkipLastCounter => inc = Len(message)
    BY DEF SkipLastCounter
  <2>2. frames # <<>>
    BY DEF SkipCounter, SkipLastCounter, Takes
  <2>3. Len(message) \in Nat
    BY <2>2, Reading DEF Shape
  <2> QED
    BY <2>1, <2>3 DEF SkipCounter, SkipLastCounter
<1>2. /\ Taken /\ messages # <<>> /\ \A g : Members(g) = Groups[g]
      /\ inc \in Nat \ {0} /\ token = message[inc] /\ n \in Nat \ {0} /\ frames # <<>>
      /\ top.counter = 0
  BY <1>1, TakesTaken DEF Taken
<1>3. Shape' /\ GoesOn(0, RestAfter)
  BY CounterShape
<1>4. inc' = inc + 1 /\ inc' \in Nat /\ inc <= inc'
  BY <1>1, <1>2 DEF Resume
<1>5. frames' \in Seq(Calls)
  BY <1>1, <1>3, CallsSame
<1>6. Following'
  <2>1. 0 = IF Opens(message, inc) THEN inc ELSE 0
    BY <1>1, <1>2 DEF Opens
  <2> QED
    BY <1>1, <1>2, <1>3, <1>4, <1>5, <2>1, FollowingTaken
<1>7. top = frames[n]
  BY <1>2, TopCall DEF Shape
<1>8. \A i \in 1..n : /\ frames'[i].node = frames[i].node /\ frames'[i].rest \subseteq frames[i].rest
                      /\ frames'[i].counter \in {0, frames[i].counter}
  <2> SUFFICES ASSUME NEW i \in 1..n
               PROVE  /\ frames'[i].node = frames[i].node /\ frames'[i].rest \subseteq frames[i].rest
                      /\ frames'[i].counter \in {0, frames[i].counter}
    OBVIOUS
  <2>1. CASE i = n
    BY <1>3, <1>7, <2>1 DEF GoesOn, RestAfter
  <2>2. CASE i # n
    <3>1. i \in 1..(n - 1)
      BY <1>2, <2>2
    <3> QED
      BY <1>3, <3>1 DEF GoesOn
  <2> QED
    BY <2>1, <2>2
<1>9. Len(frames') = n /\ n \in 0..n
  BY <1>2, <1>3 DEF GoesOn
<1> HIDE DEF n
<1>10. FirstColumn' /\ FieldsOnce' /\ RowsTogether'
  BY <1>1, <1>2, <1>4, <1>5, <1>8, <1>9, TreeStays DEF n
<1> QED
  BY <1>1, <1>2, <1>6, <1>10, InputsStay

LEMMA OpenGroupFix ==
  ASSUME Shape, FixInv, maker = "rmake", OpenGroup
  PROVE  FixInv'
<1> DEFINE n == Len(frames)
<1>1. /\ Takes /\ token \in Counters /\ inc < Len(message) /\ message[inc + 1] \in Members(token)
      /\ Resume([top EXCEPT !.counter = inc], inc + 1) /\ UNCHANGED <<maker, messages, tree>>
  BY Zenon DEF OpenGroup
<1>2. /\ Taken /\ messages # <<>> /\ Counters = DOMAIN Groups /\ \A g : Members(g) = Groups[g]
      /\ inc \in Nat \ {0} /\ token = message[inc] /\ n \in Nat \ {0} /\ frames # <<>>
      /\ top.counter = 0 /\ Len(messages) \in DOMAIN messages /\ message = messages[Len(messages)]
  BY <1>1, TakesTaken, Reading DEF Taken, Shape
<1>3. Shape' /\ GoesOn(inc, RestAfter)
  BY OpenGroupShape
<1>4. inc' = inc + 1 /\ inc' \in Nat /\ inc <= inc'
  BY <1>1, <1>2 DEF Resume
<1>5. frames' \in Seq(Calls)
  BY <1>1, <1>3, CallsSame
<1>6. Following'
  <2>1. inc = IF Opens(message, inc) THEN inc ELSE 0
    BY <1>1, <1>2 DEF Opens
  <2> QED
    BY <1>1, <1>2, <1>3, <1>4, <1>5, <2>1, FollowingTaken
<1>7. top = frames[n] /\ RestAfter = top.rest \ {token}
  BY <1>2, TopCall DEF Shape, RestAfter
<1>8. ASSUME column = 0
      PROVE  \A i \in 1..n :
               /\ frames'[i].node = frames[i].node /\ frames'[i].rest \subseteq frames[i].rest
               /\ \/ frames'[i].counter \in {0, frames[i].counter}
                  \/ /\ GoesOnWith(Row(frames[i].node), message[frames'[i].counter])
                     /\ message[frames'[i].counter] \notin frames'[i].rest
                     /\ i = 1 => Outside(message, frames'[i].counter)
  <2> SUFFICES ASSUME NEW i \in 1..n
               PROVE  /\ frames'[i].node = frames[i].node /\ frames'[i].rest \subseteq frames[i].rest
                      /\ \/ frames'[i].counter \in {0, frames[i].counter}
                         \/ /\ GoesOnWith(Row(frames[i].node), message[frames'[i].counter])
                            /\ message[frames'[i].counter] \notin frames'[i].rest
                            /\ i = 1 => Outside(message, frames'[i].counter)
    OBVIOUS
  <2>1. CASE i = n
    <3>1. /\ frames'[i].node = frames[i].node /\ frames'[i].counter = inc
          /\ frames'[i].rest = frames[i].rest \ {token}
      BY <1>3, <1>7, <2>1 DEF GoesOn
    <3>2. i = 1 => Outside(message, inc)
      BY <1>2, <2>1, TakenOutside DEF AtRoot
    <3>3. GoesOnWith(Row(top.node), token)
      <4>1. Lines(token) = {} /\ OnceEach(message, DOMAIN Groups) /\ FirstColumn
        BY <1>2, <1>8 DEF Lines, FixInv, InOrder
      <4>2. \A a \in DOMAIN Row(top.node) : Row(top.node)[a] # token
        BY <1>1, <1>2, <4>1, NoneYet
      <4> QED
        BY <4>2 DEF GoesOnWith
    <3> QED
      BY <1>2, <1>7, <2>1, <3>1, <3>2, <3>3
  <2>2. CASE i # n
    <3>1. i \in 1..(n - 1)
      BY <1>2, <2>2
    <3> QED
      BY <1>3, <3>1 DEF GoesOn
  <2> QED
    BY <2>1, <2>2
<1>9. Len(frames') = n /\ n \in 0..n
  BY <1>2, <1>3 DEF GoesOn
<1> HIDE DEF n
<1>10. FirstColumn' /\ FieldsOnce' /\ RowsTogether'
  BY <1>1, <1>2, <1>4, <1>5, <1>8, <1>9, TreeStays DEF n
<1> QED
  BY <1>1, <1>2, <1>6, <1>10, InputsStay

LEMMA CloseGroupFix ==
  ASSUME Shape, FixInv, maker = "rmake", CloseGroup
  PROVE  FixInv'
<1> DEFINE n == Len(frames)
<1>1. /\ frames # <<>> /\ top.counter # 0
      /\ More => token \notin Members(message[top.counter])
      /\ UNCHANGED <<maker, messages, inc, tree>>
  BY DEF CloseGroup
<1>2. /\ n \in Nat \ {0} /\ top = frames[n] /\ DOMAIN frames = 1..n
      /\ inc \in Nat /\ messages # <<>>
  BY <1>1, TopCall, Reading DEF Shape, Nested
<1>3. Shape' /\ GoesOn(0, top.rest)
  BY CloseGroupShape
<1>4. frames' \in Seq(Calls)
  BY <1>1, <1>3, CallsSame
<1>5. /\ Len(frames') = n /\ n \in 0..n /\ DOMAIN frames' = 1..n
      /\ frames'[n].node = top.node /\ frames'[n].counter = 0 /\ frames'[n].rest = top.rest
      /\ \A i \in 1..(n - 1) : frames'[i] = frames[i]
  BY <1>2, <1>3, <1>4 DEF GoesOn
<1> HIDE DEF n
<1>6. \A i \in 1..n : i = n \/ (i \in 1..(n - 1) /\ frames'[i] = frames[i])
  BY <1>2, <1>5
<1>7. Following'
  <2>1. \A i \in DOMAIN frames' : frames'[i].counter # 0 =>
          i \in DOMAIN frames /\ frames[i].counter = frames'[i].counter
    BY <1>2, <1>5, <1>6
  <2>2. \A i \in DOMAIN frames :
          frames[i].counter # 0 /\ More /\ token \in Groups[message[frames[i].counter]]
          => i \in DOMAIN frames' /\ frames'[i].counter = frames[i].counter
    <3> SUFFICES ASSUME NEW i \in 1..n, frames[i].counter # 0,
                        More, token \in Groups[message[frames[i].counter]]
                 PROVE  i \in DOMAIN frames' /\ frames'[i].counter = frames[i].counter
      BY <1>2
    <3>1. i # n
      <4>1. Members(message[top.counter]) = Groups[message[top.counter]]
        BY DEF Members
      <4> QED
        BY <1>1, <1>2, <4>1
    <3> QED
      BY <1>2, <1>5, <1>6, <3>1
  <2>3. Following
    BY DEF FixInv
  <2> QED
    BY <1>1, <2>1, <2>2, <2>3, FollowingKept
<1>8. \A i \in 1..n : /\ frames'[i].node = frames[i].node /\ frames'[i].rest \subseteq frames[i].rest
                      /\ frames'[i].counter \in {0, frames[i].counter}
  BY <1>2, <1>5, <1>6
<1>9. inc' \in Nat /\ inc <= inc'
  BY <1>1, <1>2
<1>10. FirstColumn' /\ FieldsOnce' /\ RowsTogether'
  BY <1>1, <1>4, <1>5, <1>8, <1>9, TreeStays DEF n
<1> QED
  BY <1>1, <1>2, <1>7, <1>10, InputsStay

LEMMA ReturnFix ==
  ASSUME Shape, FixInv, maker = "rmake", Return
  PROVE  FixInv'
<1> DEFINE n == Len(frames)
<1>1. frames # <<>> /\ top.counter = 0 /\ UNCHANGED <<maker, messages, inc, tree>>
  BY DEF Return
<1>2. /\ n \in Nat \ {0} /\ top = frames[n] /\ DOMAIN frames = 1..n
      /\ inc \in Nat /\ messages # <<>>
  BY <1>1, TopCall, Reading DEF Shape, Nested
<1>3. Shape' /\ Len(frames') = n - 1 /\ \A i \in 1..(n - 1) : frames'[i] = frames[i]
  BY ReturnShape
<1>4. frames' \in Seq(Calls)
  BY <1>1, <1>3, CallsSame
<1>5. DOMAIN frames' = 1..(n - 1) /\ n - 1 \in 0..n
  BY <1>2, <1>3, <1>4
<1> HIDE DEF n
<1>6. \A i \in 1..n : i = n \/ i \in 1..(n - 1)
  BY <1>2
<1>7. Following'
  <2>1. \A i \in DOMAIN frames' : frames'[i].counter # 0 =>
          i \in DOMAIN frames /\ frames[i].counter = frames'[i].counter
    BY <1>2, <1>3, <1>5
  <2>2. \A i \in DOMAIN frames :
          frames[i].counter # 0 /\ More /\ token \in Groups[message[frames[i].counter]]
          => i \in DOMAIN frames' /\ frames'[i].counter = frames[i].counter
    BY <1>1, <1>2, <1>3, <1>5, <1>6
  <2>3. Following
    BY DEF FixInv
  <2> QED
    BY <1>1, <2>1, <2>2, <2>3, FollowingKept
<1>8. \A i \in 1..(n - 1) :
        /\ frames'[i].node = frames[i].node /\ frames'[i].rest \subseteq frames[i].rest
        /\ frames'[i].counter \in {0, frames[i].counter}
  BY <1>3
<1>9. inc' \in Nat /\ inc <= inc'
  BY <1>1, <1>2
<1>10. FirstColumn' /\ FieldsOnce' /\ RowsTogether'
  <2> DEFINE k == n - 1
  <2>1. k \in 0..Len(frames) /\ Len(frames') = k
    BY <1>3, <1>5 DEF n
  <2>2. \A i \in 1..k :
          /\ frames'[i].node = frames[i].node /\ frames'[i].rest \subseteq frames[i].rest
          /\ frames'[i].counter \in {0, frames[i].counter}
    BY <1>8
  <2> HIDE DEF k
  <2> QED
    BY <1>1, <1>4, <1>9, <2>1, <2>2, TreeStays
<1> QED
  BY <1>1, <1>2, <1>7, <1>10, InputsStay

LEMMA ReadEntryFix ==
  ASSUME Shape, FixInv, maker = "rmake", ReadEntry
  PROVE  FixInv'
<1> DEFINE n == Len(frames)
           group == message[top.counter]
<1>1. frames # <<>> /\ top.counter # 0 /\ UNCHANGED <<maker, messages, inc>>
  BY DEF ReadEntry
<1>2. /\ n \in Nat \ {0} /\ top = frames[n] /\ DOMAIN frames = 1..n
      /\ IsCall(top) /\ top.node \in DOMAIN tree /\ top.counter \in Nat
  BY <1>1, TopCall DEF Shape, IsCall, Calls
<1>3. /\ inc \in Nat \ {0} /\ inc' \in Nat /\ inc <= inc' /\ messages # <<>> /\ column \in Nat
      /\ column' = column
  BY <1>1, Reading DEF Shape, Nested, column
<1>4. group \in DOMAIN Groups
  BY <1>1, <1>2 DEF IsCall, Counters
<1>5. Following /\ FirstColumn /\ FieldsOnce /\ RowsTogether /\ IsTree
  BY DEF FixInv, Shape
<1>6. /\ Shape' /\ KeepsTree
      /\ \/ /\ Entries(group) # {} /\ UNCHANGED tree
            /\ \E i \in Entries(group) : Calling(Siblings[i])
         \/ /\ Entries(group) = {} /\ Calling(Size)
            /\ ChildMore(Behind(group), group)
  BY ReadEntryShape
<1>7. frames' \in Seq(Calls)
  BY <1>1, <1>6, CallsSame
<1>8. ASSUME NEW child, Calling(child)
      PROVE  /\ Len(frames') = n + 1 /\ DOMAIN frames' = 1..(n + 1)
             /\ frames'[n + 1].node = child /\ frames'[n + 1].counter = 0
             /\ \A i \in 1..n :
                  /\ frames'[i].node = frames[i].node /\ frames'[i].rest = frames[i].rest
                  /\ frames'[i].counter = frames[i].counter
  <2>1. /\ Len(frames') = n + 1
        /\ frames'[n].node = top.node /\ frames'[n].counter = top.counter
        /\ frames'[n].rest = top.rest
        /\ frames'[n + 1].node = child /\ frames'[n + 1].counter = 0
        /\ \A i \in 1..(n - 1) : frames'[i] = frames[i]
    BY <1>8 DEF Calling
  <2>2. DOMAIN frames' = 1..(n + 1)
    BY <1>2, <1>7, <2>1
  <2> HIDE DEF n
  <2>3. \A i \in 1..n : i = n \/ i \in 1..(n - 1)
    BY <1>2
  <2> QED
    BY <1>2, <2>1, <2>2, <2>3
<1>9. ASSUME NEW child, Calling(child) PROVE Following'
  <2>1. \A i \in 1..(n + 1) : i = n + 1 \/ i \in 1..n
    BY <1>2
  <2>2. \A i \in 1..n : i \in 1..(n + 1)
    BY <1>2
  <2>3. /\ DOMAIN frames' = 1..(n + 1) /\ frames'[n + 1].counter = 0
        /\ \A i \in 1..n : frames'[i].counter = frames[i].counter
    BY <1>8, <1>9
  <2> HIDE DEF n
  <2>4. \A i \in DOMAIN frames' : frames'[i].counter # 0 =>
          i \in DOMAIN frames /\ frames[i].counter = frames'[i].counter
    BY <1>2, <2>1, <2>3
  <2>5. \A i \in DOMAIN frames : i \in DOMAIN frames' /\ frames'[i].counter = frames[i].counter
    BY <1>2, <2>2, <2>3
  <2> QED
    BY <1>1, <1>5, <2>4, <2>5, FollowingKept
<1> HIDE DEF group
<1>10. CASE Entries(group) # {} /\ UNCHANGED tree /\ \E i \in Entries(group) : Calling(Siblings[i])
  <2>1. PICK i \in Entries(group) : Calling(Siblings[i])
    BY <1>10
  <2>2. Following'
    BY <1>9, <2>1
  <2>3. FirstColumn'
    <3>1. Entries(group) \subseteq Lines(group)
      BY Zenon DEF Entries
    <3>2. column # 0
      BY <1>10, <3>1 DEF Lines
    <3> QED
      BY <1>3, <3>2 DEF FirstColumn
  <2>4. FieldsOnce' /\ RowsTogether'
    <3>1. SameChildren
      BY <1>10 DEF SameChildren
    <3> QED
      BY <1>1, <1>5, <1>6, <3>1, RowsKept, RowsStay
  <2> QED
    BY <1>1, <1>3, <2>2, <2>3, <2>4, InputsStay
<1>11. CASE Entries(group) = {} /\ Calling(Size) /\ ChildMore(Behind(group), group)
  <2> DEFINE place == Behind(group)
  <2>1. /\ place \in 1..(Len(Siblings) + 1) /\ DOMAIN Siblings = 1..Len(Siblings)
        /\ Len(Siblings) \in Nat
    BY <1>2, <1>5, SiblingNodes, BehindIsPlace
  <2>2. /\ \A p \in DOMAIN tree : p # top.node => Row(p)' = Row(p)
        /\ \A p \in DOMAIN tree : p = top.node => Grown(Row(p), Row(p)', place, group)
        /\ \A p \in DOMAIN tree' : p \notin DOMAIN tree => p = Size /\ DOMAIN Row(p)' = {}
    BY <1>2, <1>5, <1>6, <1>11, <2>1, RowsMore
  <2>3. Lines(group) = {} => place \notin DOMAIN Row(top.node)
    <3>1. DOMAIN Row(top.node) = 1..Len(Siblings)
      BY <2>1 DEF Row, Siblings
    <3>2. Lines(group) = {} => place = Len(Siblings) + 1
      BY DEF Behind, AtEnd
    <3> QED
      BY <2>1, <3>1, <3>2
  <2>4. Following'
    BY <1>9, <1>11
  <2>5. column = 0 => GoesOnWith(Row(top.node), group)
    <3>1. ASSUME column = 0 PROVE EntriesLast
      BY <1>1, <1>5, <3>1 DEF FirstColumn
    <3>2. n \in DOMAIN frames
      BY <1>2
    <3> QED
      BY <1>1, <1>2, <3>1, <3>2, Zenon DEF EntriesLast, group
  <2>6. ASSUME NEW p \in DOMAIN tree, p = top.node
        PROVE  Together(Row(p)') /\ (OnceEach(messages[1], Tags) => OneEach(Row(p)'))
    <3>1. Grown(Row(p), Row(p)', place, group) /\ Together(Row(p))
      BY <1>5, <2>2, <2>6 DEF RowsTogether
    <3>2. OnceEach(messages[1], Tags) => OneEach(Row(p)')
      <4>1. OnceEach(messages[1], Tags) => OneEach(Row(p))
        BY <1>3, <1>5 DEF FieldsOnce
      <4> HIDE DEF place
      <4> QED
        BY <1>4, <3>1, <4>1, OneEachGrown
    <3>3. CASE Lines(group) = {}
      <4>1. place \notin DOMAIN Row(p)
        BY <2>3, <2>6, <3>3
      <4>2. GoesOnWith(Row(p), group)
        <5>1. CASE column = 0
          BY <2>5, <2>6, <5>1
        <5>2. CASE column # 0
          <6>1. \A a \in DOMAIN Row(p) : Row(p)[a] # group
            <7>1. Places(group) = {}
              BY <3>3, <5>2 DEF Lines
            <7> QED
              BY <2>6, <7>1, Zenon DEF Places, Row, Siblings, Tag
          <6> QED
            BY <6>1 DEF GoesOnWith
        <5> QED
          BY <5>1, <5>2
      <4> HIDE DEF place
      <4> QED
        BY <3>1, <3>2, <4>1, <4>2, TogetherAtEnd
    <3>4. CASE Lines(group) # {}
      <4>1. PICK a \in Nat, z \in Nat :
              /\ a <= z /\ place = z + 1
              /\ {i \in DOMAIN Row(p) : Row(p)[i] = group} = a..z
        BY <1>2, <1>4, <1>5, <2>6, <3>1, <3>4, BehindIs
      <4> HIDE DEF place
      <4> QED
        BY <3>1, <3>2, <4>1, TogetherBehind
    <3> QED
      BY <3>3, <3>4
  <2>7. FieldsOnce' /\ RowsTogether'
    <3>1. \A p \in DOMAIN tree' : p \notin DOMAIN tree => DOMAIN Row(p)' = {}
      BY <2>2
    <3> QED
      BY <1>1, <1>3, <1>5, <2>2, <2>6, <3>1, RowsGrow
  <2>8. FirstColumn'
    <3> SUFFICES ASSUME column = 0 PROVE (Younger /\ StillTaken /\ EntriesLast /\ RootOutside)'
      BY <1>3, Zenon DEF FirstColumn
    <3>1. place \notin DOMAIN Row(top.node)
      BY <2>3 DEF Lines
    <3>2. StillTaken /\ RootOutside
      BY <1>1, <1>5 DEF FirstColumn
    <3> DEFINE q == top.counter
    <3>3. q \in 1..(inc' - 1) /\ message[q] = group
      BY <1>1, <1>2, <1>3 DEF IsCall, group
    <3>4. AtRoot => Outside(message, q)
      BY <1>1, <1>2, <3>2 DEF RootOutside, AtRoot
    <3>5. /\ DOMAIN frames' = 1..(n + 1) /\ n + 1 \in {n, n + 1}
          /\ frames'[n + 1].node = Size /\ frames'[n + 1].counter = 0
          /\ \A i \in 1..n :
               /\ frames'[i].node = frames[i].node /\ frames'[i].rest = frames[i].rest
               /\ frames'[i].counter = frames[i].counter
      BY <1>8, <1>11
    <3>6. ~AtRoot => message[q] \notin frames'[n].rest
      <4>1. ~AtRoot => n \in DOMAIN frames \ {1} /\ n \in 1..n
        BY <1>2 DEF AtRoot
      <4> QED
        BY <1>1, <1>2, <3>2, <3>5, <4>1 DEF StillTaken
    <3>7. \A p \in DOMAIN tree : p = top.node => Grown(Row(p), Row(p)', place, message[q])
      BY <2>2, <3>3
    <3>8. \A p : p = Size => DOMAIN Row(p)' = {}
      <4>1. Size \in DOMAIN tree' /\ Size \notin DOMAIN tree
        BY <1>11 DEF ChildMore
      <4> QED
        BY <2>2, <4>1
    <3> DEFINE k == n + 1
    <3>9. /\ k \in {n, n + 1} /\ DOMAIN frames' = 1..k
          /\ k = n + 1 => frames'[k].node = Size /\ frames'[k].counter = 0
                          /\ \A p : p = Size => DOMAIN Row(p)' = {}
      BY <3>5, <3>8
    <3>10. \A i \in 1..n :
               /\ frames'[i].node = frames[i].node /\ frames'[i].rest \subseteq frames[i].rest
               /\ frames'[i].counter = frames[i].counter
      BY <3>5
    <3> HIDE DEF k, n, q, place
    <3>11. top.counter # 0 => message[top.counter] = message[q]
      BY DEF q
    <3> QED
      BY <1>1, <1>3, <1>5, <2>2, <3>1, <3>3, <3>4, <3>6, <3>7, <3>9, <3>10, <3>11, FirstGrown DEF n
  <2> QED
    BY <1>1, <1>3, <2>4, <2>7, <2>8, InputsStay
<1> QED
  BY <1>6, <1>10, <1>11

(* Another message is read: the first one into a tree without children.      *)
LEMMA ReadFix ==
  ASSUME Shape, FixInv, maker = "rmake", frames = <<>>, Len(messages) < Columns,
         NEW m \in RmakeInputs, WellFormed(m), Read(m)
  PROVE  FixInv'
<1>1. m \in Seq(Tags) /\ Len(m) <= MaxLen
  BY InputIs DEF RmakeInputs
<1>2. m \in Seq(AllTags)
  BY <1>1 DEF AllTags
<1>3. /\ Shape' /\ message' = m /\ column' = Len(messages) /\ Len(messages') = Len(messages) + 1
      /\ \A c \in DOMAIN messages : messages'[c] = messages[c]
  BY <1>1, <1>2, ReadShape
<1>4. /\ messages' = Append(messages, m) /\ inc' = 1 /\ frames' = <<Frame(0, {})>>
      /\ UNCHANGED <<maker, tree, alive>>
  BY Zenon DEF Read
<1>5. messages \in Seq(Seq(AllTags)) /\ Len(messages) \in Nat
  BY DEF Shape, Inputs
<1>6. /\ DOMAIN messages = 1..Len(messages) /\ DOMAIN messages' = 1..(Len(messages) + 1)
      /\ messages'[Len(messages) + 1] = m /\ messages' # <<>>
      /\ \A c \in 1..(Len(messages) + 1) : c = Len(messages) + 1 \/ c \in DOMAIN messages
  BY <1>4, <1>5
<1>7. OnceEach(m, DOMAIN Groups)
  <2>1. Home(m) = FixHome(m) /\ Counters = DOMAIN Groups
    BY DEF Home, Counters
  <2>2. \A i, j \in DOMAIN m : m[i] = m[j] /\ m[i] \in Counters /\ Home(m)[i] = Home(m)[j] => i = j
    BY Zenon DEF WellFormed
  <2> QED
    BY <2>1, <2>2, Zenon DEF OnceEach
<1>8. InTags' /\ InOrder' /\ NothingYet'
  <2>1. \A c \in DOMAIN messages' : messages'[c] \in Seq(Tags) /\ OnceEach(messages'[c], DOMAIN Groups)
    <3> SUFFICES ASSUME NEW c \in DOMAIN messages'
                 PROVE  messages'[c] \in Seq(Tags) /\ OnceEach(messages'[c], DOMAIN Groups)
      OBVIOUS
    <3>1. CASE c = Len(messages) + 1
      BY <1>1, <1>6, <1>7, <3>1
    <3>2. CASE c \in DOMAIN messages
      BY <1>3, <3>2 DEF FixInv, InTags, InOrder
    <3> QED
      BY <1>6, <3>1, <3>2
  <2> QED
    BY <1>6, <2>1 DEF InTags, InOrder, NothingYet
<1>9. DOMAIN frames' = {1} /\ frames'[1].counter = 0 /\ frames'[1].node = 0
  BY <1>4 DEF Frame
<1>10. Following'
  <2>1. Outer(message', OpenEntries(message')[inc' - 1], inc') = <<>>
    <3>1. OpenEntries(m)[0] = <<>>
      BY <1>1, OpenEntriesAre
    <3>2. Outer(m, <<>>, 1) = <<>> \o <<>>
      BY DEF Outer
    <3>3. inc' - 1 = 0
      BY <1>4
    <3> QED
      BY <1>3, <1>4, <3>1, <3>2, <3>3
  <2>2. <<>> \in Seq(Opened) /\ DOMAIN <<>> = {}
    OBVIOUS
  <2>3. \A i \in DOMAIN frames' : frames'[i].counter = 0
    BY <1>9
  <2> QED
    BY <2>1, <2>2, <2>3, Zenon DEF Following
<1>11. messages = <<>> => DOMAIN tree = {0} /\ DOMAIN Row(0) = {}
  <2>1. messages = <<>> => Size = 1
    BY DEF FixInv, NothingYet
  <2>2. /\ DOMAIN tree = 0..(Size - 1) /\ tree \in [0..(Size - 1) -> Nodes]
        /\ \A p \in DOMAIN tree : \A i \in DOMAIN tree[p].kids : tree[p].kids[i] \in 1..(Size - 1)
    BY DEF Shape, IsTree
  <2>3. 0..(1 - 1) = {0} /\ 1..(1 - 1) = {}
    OBVIOUS
  <2>4. messages = <<>> => DOMAIN tree[0].kids = {}
    BY <2>1, <2>2, <2>3
  <2> QED
    BY <2>1, <2>2, <2>3, <2>4 DEF Row
<1>12. \A p \in DOMAIN tree : Row(p)' = Row(p)
  BY <1>4 DEF Row, Tag
<1>13. FirstColumn'
  <2> SUFFICES ASSUME column' = 0 PROVE (Younger /\ StillTaken /\ EntriesLast /\ RootOutside)'
    BY Zenon DEF FirstColumn
  <2>1. messages = <<>>
    BY <1>3, <1>5
  <2>2. DOMAIN Row(0)' = {}
    BY <1>11, <1>12, <2>1
  <2>3. Younger'
    BY <1>9 DEF Younger
  <2>4. StillTaken'
    BY <1>9 DEF StillTaken
  <2>5. EntriesLast'
    BY <1>9 DEF EntriesLast
  <2>6. RootOutside'
    BY <1>9, <2>2 DEF RootOutside
  <2> QED
    BY <2>3, <2>4, <2>5, <2>6
<1>14. RowsTogether'
  <2>1. RowsTogether
    BY DEF FixInv
  <2> QED
    BY <1>4, <1>12, <2>1, Zenon DEF RowsTogether
<1>15. FieldsOnce'
  <2> SUFFICES ASSUME OnceEach(messages'[1], Tags), NEW p \in DOMAIN tree PROVE OneEach(Row(p))
    BY <1>4, <1>12, Zenon DEF FieldsOnce
  <2>1. CASE messages = <<>>
    <3>1. p = 0 /\ DOMAIN Row(p) = {}
      BY <1>11, <2>1
    <3> QED
      BY <3>1 DEF OneEach
  <2>2. CASE messages # <<>>
    <3>1. messages'[1] = messages[1]
      BY <1>3, <1>5, <1>6, <2>2
    <3> QED
      BY <2>2, <3>1 DEF FixInv, FieldsOnce
  <2> QED
    BY <2>1, <2>2
<1> QED
  BY <1>8, <1>10, <1>13, <1>14, <1>15 DEF FixInv

-----------------------------------------------------------------------------
LEMMA FixInit == Init => FixInv
<1> SUFFICES ASSUME Init, maker = "rmake" PROVE FixInv
  BY DEF FixInv
<1>1. Shape
  BY ShapeInit
<1>2. /\ messages = <<>> /\ frames = <<>> /\ DOMAIN messages = {}
      /\ tree = [n \in {0} |-> Node("root", Empty)]
  <2>1. messages = <<>> /\ frames = <<>> /\ tree = [n \in {0} |-> Node("root", Empty)]
    BY Zenon DEF Init
  <2> QED
    BY <2>1
<1>3. InTags /\ InOrder /\ Following /\ FirstColumn /\ FieldsOnce
  BY <1>2 DEF InTags, InOrder, Following, FirstColumn, FieldsOnce
<1>4. NothingYet
  BY <1>2, FS_Singleton DEF NothingYet, Size
<1>5. RowsTogether
  <2>1. DOMAIN tree = {0} /\ tree[0].kids = <<>>
    BY <1>2 DEF Node
  <2>2. DOMAIN Row(0) = {}
    BY <2>1 DEF Row
  <2> QED
    BY <2>1, <2>2 DEF RowsTogether, Together
<1> QED
  BY <1>3, <1>4, <1>5 DEF FixInv

LEMMA FixStutter ==
  ASSUME FixInv, UNCHANGED vars
  PROVE  FixInv'
<1>1. /\ message' = message /\ column' = column /\ token' = token /\ More' = More
      /\ maker' = maker /\ messages' = messages /\ frames' = frames /\ tree' = tree /\ inc' = inc
  BY DEF vars, message, column, token, More
<1>2. (Following => Following') /\ (FirstColumn => FirstColumn')
  BY <1>1 DEF Following, FirstColumn, Younger, StillTaken, EntriesLast, RootOutside, Row, Tag
<1>3. (FieldsOnce => FieldsOnce') /\ (RowsTogether => RowsTogether')
  BY <1>1 DEF FieldsOnce, RowsTogether, Row, Tag
<1>4. (InTags => InTags') /\ (InOrder => InOrder') /\ (NothingYet => NothingYet')
  BY <1>1 DEF InTags, InOrder, NothingYet, Size
<1> QED
  BY <1>1, <1>2, <1>3, <1>4 DEF FixInv

LEMMA FixNext == IInv /\ [Next]_vars => IInv'
<1> SUFFICES ASSUME Shape, FixInv, [Next]_vars PROVE FixInv'
  BY ShapeNext DEF IInv
<1>1. CASE UNCHANGED vars
  BY <1>1, FixStutter
<1>2. CASE Next /\ maker # "rmake"
  <2>1. maker' = maker
    BY <1>2 DEF Next, Rmake, ReadField, SkipCounter, SkipLastCounter, OpenGroup, ReadEntry,
                CloseGroup, Return, Compare, Read
  <2> QED
    BY <1>2, <2>1 DEF FixInv
<1>3. CASE Rmake /\ maker = "rmake"
  <2>1. CASE ReadField
    BY <1>3, <2>1, FieldFix
  <2>2. CASE SkipCounter \/ SkipLastCounter
    BY <1>3, <2>2, CounterFix
  <2>3. CASE OpenGroup
    BY <1>3, <2>3, OpenGroupFix
  <2>4. CASE ReadEntry
    BY <1>3, <2>4, ReadEntryFix
  <2>5. CASE CloseGroup
    BY <1>3, <2>5, CloseGroupFix
  <2>6. CASE Return
    BY <1>3, <2>6, ReturnFix
  <2> QED
    BY <1>3, <2>1, <2>2, <2>3, <2>4, <2>5, <2>6 DEF Rmake
<1>4. ASSUME MayRead, maker = "rmake", Len(messages) < Columns,
             NEW m \in RmakeInputs, Compare(m)
      PROVE  FixInv'
  BY <1>4, ReadFix, Zenon DEF MayRead, Compare
<1>5. "ssmake" # "rmake"
  OBVIOUS
<1> QED
  BY <1>1, <1>2, <1>3, <1>4, <1>5, Zenon DEF Next

LEMMA AlwaysIInv == Spec => []IInv
<1>1. Init => IInv
  BY ShapeInit, FixInit DEF IInv
<1> QED
  BY <1>1, FixNext, PTL DEF Spec

(* Whatever messages follow one another, wherever a later one brings more    *)
(* entries of a group than there were: an entry is put behind those of its   *)
(* group, never among other children.                                        *)
THEOREM EntriesStayTogether == Spec => []EntriesTogether
<1>1. IInv => EntriesTogether
  <2> SUFFICES ASSUME IInv, maker = "rmake", NEW p \in DOMAIN tree,
                      NEW i \in DOMAIN tree[p].kids, NEW j \in DOMAIN tree[p].kids,
                      NEW k \in DOMAIN tree[p].kids,
                      tree[tree[p].kids[i]].tag \in Counters, i < j, j < k,
                      tree[tree[p].kids[i]].tag = tree[tree[p].kids[k]].tag
               PROVE  tree[tree[p].kids[j]].tag = tree[tree[p].kids[i]].tag
    BY Zenon DEF EntriesTogether
  <2>1. Together(Row(p)) /\ Counters = DOMAIN Groups
    BY DEF IInv, FixInv, RowsTogether, Counters
  <2> QED
    BY <2>1 DEF Together, Row, Tag
<1> QED
  BY <1>1, AlwaysIInv, PTL

(* If the first message names no tag twice in one place, no node ever has    *)
(* two children for the same field: what a later message says of the field   *)
(* is written into the line that is there.                                   *)
THEOREM OneLinePerField == Spec => []SideBySide
<1>1. IInv => SideBySide
  <2> SUFFICES ASSUME IInv, maker = "rmake", messages # <<>>, NoRepeats(messages[1]),
                      NEW p \in DOMAIN tree,
                      NEW i \in DOMAIN tree[p].kids, NEW j \in DOMAIN tree[p].kids,
                      tree[p].kids[i] \in Fields,
                      tree[tree[p].kids[i]].tag = tree[tree[p].kids[j]].tag
               PROVE  i = j
    BY Zenon DEF SideBySide
  <2>1. Home(messages[1]) = FixHome(messages[1]) /\ Counters = DOMAIN Groups
    BY DEF Home, Counters
  <2>2. OnceEach(messages[1], Tags)
    BY <2>1, Zenon DEF NoRepeats, OnceEach
  <2>3. OneEach(Row(p))
    BY <2>2 DEF IInv, FixInv, FieldsOnce
  <2>4. tree[tree[p].kids[i]].tag \notin DOMAIN Groups
    BY <2>1 DEF Fields
  <2> QED
    BY <2>3, <2>4 DEF OneEach, Row, Tag
<1> QED
  BY <1>1, AlwaysIInv, PTL

-----------------------------------------------------------------------------
(* What a first message leaves from left to right, for both makers.  Nodes   *)
(* are numbered as they are made, so that a child is younger than its parent *)
(* (KidsYounger).  While the first message is read the children of a node    *)
(* are in the order of their numbers (Ascending), what is below a child is   *)
(* made before its next sibling (Preorder), since the calls are for the last *)
(* children there are (CallsLast); and of two fields the younger node has    *)
(* the later pair (LaterHigher).                                             *)
Kids(p) == ToSet(tree[p].kids)

KidsYounger == \A p \in DOMAIN tree : \A c \in Kids(p) : p < c

First(n) == tree[n].vals[0]

FirstFields ==
  messages # <<>> =>
    {First(n) : n \in Fields} \ {0} =
      {j \in DOMAIN messages[1] : /\ messages[1][j] \notin Counters
                                  /\ Len(messages) = 1 => j < inc}

ReadThrough == messages # <<>> /\ frames = <<>> => inc > Len(message)

Ascending ==
  \A p \in DOMAIN tree : \A a, b \in DOMAIN tree[p].kids :
    a < b => tree[p].kids[a] < tree[p].kids[b]

Preorder ==
  \A p, q \in DOMAIN tree : \A c \in Kids(p), d \in Kids(q) : p < q /\ q < c => d < c

CallsLast ==
  \A i \in DOMAIN frames : \A p \in DOMAIN tree :
    p < frames[i].node => \A c \in Kids(p) : c <= frames[i].node

LaterHigher == \A m, n \in Fields : m < n => First(m) < First(n)

Ordered == Younger /\ Ascending /\ Preorder /\ CallsLast /\ LaterHigher

OrderInv ==
  NothingYet /\ KidsYounger /\ FirstFields /\ ReadThrough /\ (Len(messages) <= 1 => Ordered)

(* The children are nodes, and the values of the first column numbers.       *)
LEMMA KidsAreNodes ==
  ASSUME Shape
  PROVE  /\ Size \in Nat \ {0} /\ DOMAIN tree = 0..(Size - 1)
         /\ \A p \in DOMAIN tree : Kids(p) \subseteq 1..(Size - 1) /\ First(p) \in Nat
         /\ \A p \in DOMAIN tree : /\ Len(tree[p].kids) \in Nat
                                   /\ DOMAIN tree[p].kids = 1..Len(tree[p].kids)
                                   /\ \A a \in DOMAIN tree[p].kids : tree[p].kids[a] \in Kids(p)
<1>1. Size \in Nat \ {0} /\ tree \in [0..(Size - 1) -> Nodes]
  BY DEF Shape, IsTree
<1>2. 0 \in Cols /\ MaxLen \in Nat
  BY RuvAssumption DEF Cols
<1>3. ASSUME NEW p \in DOMAIN tree
      PROVE  /\ Kids(p) \subseteq 1..(Size - 1) /\ First(p) \in Nat
             /\ Len(tree[p].kids) \in Nat /\ DOMAIN tree[p].kids = 1..Len(tree[p].kids)
             /\ \A a \in DOMAIN tree[p].kids : tree[p].kids[a] \in Kids(p)
  <2>1. tree[p] \in Nodes
    BY <1>1
  <2>2. tree[p].kids \in Seq(Nat) /\ tree[p].vals \in [Cols -> 0..MaxLen]
    BY <2>1 DEF Nodes
  <2>3. Kids(p) \subseteq 1..(Size - 1)
    BY DEF Kids, ToSet, Shape, IsTree
  <2>4. \A a \in DOMAIN tree[p].kids : tree[p].kids[a] \in Kids(p)
    BY DEF Kids, ToSet
  <2> QED
    BY <1>2, <2>2, <2>3, <2>4 DEF First
<1> QED
  BY <1>1, <1>3

(* What a new child changes, and what it leaves as it is.                    *)
LEMMA KidMore ==
  ASSUME IsTree, top.node \in DOMAIN tree, NEW place \in 1..(Len(Siblings) + 1), NEW tag,
         ChildMore(place, tag)
  PROVE  \A p : /\ p = Size => Kids(p)' = {}
                /\ p = top.node => Kids(p)' = Kids(p) \cup {Size}
                /\ p \in DOMAIN tree \ {top.node} => Kids(p)' = Kids(p)
<1> DEFINE s == Size
           t == top.node
           kids == tree'[t].kids
           n == Len(Siblings)
<1>1. /\ n \in Nat /\ kids \in Seq(Nat) /\ Len(kids) = n + 1
      /\ tree'[s].kids = <<>> /\ Siblings = tree[t].kids /\ DOMAIN Siblings = 1..n
      /\ \A p \in DOMAIN tree : p # t => tree'[p].kids = tree[p].kids
      /\ \A i \in 1..(n + 1) :
           kids[i] = IF i < place THEN Siblings[i] ELSE IF i = place THEN s ELSE Siblings[i - 1]
  BY SiblingNodes DEF ChildMore, Siblings
<1>2. \A x : x \in {kids[i] : i \in 1..(n + 1)} <=> x = s \/ x \in {Siblings[i] : i \in 1..n}
  <2> HIDE DEF n, kids, s
  <2>1. ASSUME NEW i \in 1..(n + 1) PROVE kids[i] = s \/ kids[i] \in {Siblings[k] : k \in 1..n}
    <3>1. CASE i < place
      <4>1. i \in 1..n
        BY <1>1, <3>1
      <4> QED
        BY <1>1, <3>1, <4>1
    <3>2. CASE i = place
      BY <1>1, <3>2
    <3>3. CASE i > place
      <4>1. i - 1 \in 1..n /\ ~(i < place) /\ i # place
        BY <1>1, <3>3
      <4> QED
        BY <1>1, <4>1
    <3> QED
      BY <1>1, <3>1, <3>2, <3>3
  <2>2. place \in 1..(n + 1) /\ kids[place] = s
    BY <1>1 DEF n
  <2>3. ASSUME NEW i \in 1..n PROVE Siblings[i] \in {kids[k] : k \in 1..(n + 1)}
    <3>1. CASE i < place
      <4>1. i \in 1..(n + 1)
        BY <1>1
      <4> QED
        BY <1>1, <3>1, <4>1
    <3>2. CASE i >= place
      <4>1. i + 1 \in 1..(n + 1) /\ ~(i + 1 < place) /\ i + 1 # place /\ i + 1 - 1 = i
        BY <1>1, <3>2
      <4>2. kids[i + 1] = Siblings[i]
        BY <1>1, <4>1
      <4> QED
        BY <4>1, <4>2
    <3> QED
      BY <1>1, <3>1, <3>2
  <2> QED
    BY <2>1, <2>2, <2>3
<1>3. DOMAIN kids = 1..(n + 1)
  BY <1>1
<1> HIDE DEF n, kids, s
<1>4. ToSet(kids) = ToSet(Siblings) \cup {s}
  BY <1>1, <1>2, <1>3 DEF ToSet
<1>5. ToSet(<<>>) = {}
  BY DEF ToSet
<1>6. \A p : p = s => ToSet(tree'[p].kids) = {}
  BY <1>1, <1>5
<1>7. \A p : p = t => ToSet(tree'[p].kids) = ToSet(tree[p].kids) \cup {s}
  BY <1>1, <1>4 DEF kids
<1>8. \A p \in DOMAIN tree \ {t} : ToSet(tree'[p].kids) = ToSet(tree[p].kids)
  BY <1>1
<1> QED
  BY <1>6, <1>7, <1>8 DEF Kids, s

LEMMA ValuesMore ==
  ASSUME IsTree, NEW place, NEW tag, NewChild(place, tag)
  PROVE  /\ \A n \in DOMAIN tree : tree'[n].vals = tree[n].vals /\ tree'[n].tag = tree[n].tag
         /\ \A n : n = Size => tree'[n].vals = Value /\ tree'[n].tag = tag
<1> DEFINE id == Size
           kids == InsertAt(tree[top.node].kids, place, id)
<1>1. id \in Nat \ {0} /\ DOMAIN tree = 0..(id - 1) /\ tree \in [0..(id - 1) -> Nodes]
  BY DEF IsTree
<1>2. tree' = [n \in DOMAIN tree \cup {id} |->
                 IF n = id THEN Node(tag, Value)
                 ELSE IF n = top.node THEN [tree[n] EXCEPT !.kids = InsertAt(@, place, id)]
                 ELSE tree[n]]
  BY Zenon DEF NewChild, Size
<1>3. tree'[id] = Node(tag, Value)
  BY <1>2
<1>4. ASSUME NEW n \in DOMAIN tree
      PROVE  tree'[n].vals = tree[n].vals /\ tree'[n].tag = tree[n].tag
  <2>1. n # id /\ tree[n] \in Nodes
    BY <1>1
  <2>2. tree'[n] = tree[n] \/ tree'[n] = [tree[n] EXCEPT !.kids = InsertAt(tree[n].kids, place, id)]
    BY <1>2, <2>1
  <2> QED
    BY <2>1, <2>2 DEF Nodes
<1>5. Node(tag, Value).vals = Value /\ Node(tag, Value).tag = tag
  BY DEF Node
<1> QED
  BY <1>3, <1>4, <1>5

LEMMA KidsYoungerMore ==
  ASSUME Shape, KidsYounger, top.node \in DOMAIN tree,
         NEW place \in 1..(Len(Siblings) + 1), NEW tag, ChildMore(place, tag)
  PROVE  KidsYounger'
<1> DEFINE s == Size
           t == top.node
<1>1. /\ s \in Nat \ {0} /\ DOMAIN tree = 0..(s - 1) /\ DOMAIN tree' = 0..s /\ t \in 0..(s - 1)
  BY DEF ChildMore
<1>2. /\ \A p : p = s => Kids(p)' = {}
      /\ \A p : p = t => Kids(p)' = Kids(p) \cup {s}
      /\ \A p \in 0..(s - 1) : p # t => Kids(p)' = Kids(p)
  BY <1>1, KidMore DEF Shape
<1> HIDE DEF s, t
<1> SUFFICES ASSUME NEW p \in 0..s, NEW c \in Kids(p)' PROVE p < c
  BY <1>1 DEF KidsYounger
<1>3. p \in 0..(s - 1) /\ (c \in Kids(p) \/ c = s)
  <2>1. p # s
    BY <1>2
  <2> QED
    BY <1>1, <1>2, <2>1
<1>4. c \in Kids(p) => p < c
  BY <1>1, <1>3 DEF KidsYounger
<1> QED
  BY <1>1, <1>3, <1>4

(* A last child keeps the order.                                             *)
LEMMA ChildLast ==
  ASSUME Shape, frames # <<>>, KidsYounger, Ordered, NEW tag, ChildMore(AtEnd, tag)
  PROVE  /\ Ascending' /\ Preorder'
         /\ \A p \in DOMAIN tree' :
              /\ \A i \in DOMAIN frames :
                   p < frames[i].node => \A c \in Kids(p)' : c <= frames[i].node
              /\ \A c \in Kids(p)' : c <= Size
<1> DEFINE s == Size
           t == top.node
           n == Len(Siblings)
           kids == tree'[t].kids
<1>0. /\ t \in DOMAIN tree /\ Len(frames) \in DOMAIN frames /\ t = frames[Len(frames)].node
      /\ DOMAIN frames = 1..Len(frames) /\ Len(frames) \in Nat
      /\ \A i \in DOMAIN frames : frames[i].node \in DOMAIN tree
  BY TopCall DEF Shape, IsCall, Nested
<1>1. /\ s \in Nat \ {0} /\ DOMAIN tree = 0..(s - 1) /\ DOMAIN tree' = 0..s /\ t \in 0..(s - 1)
      /\ \A p \in DOMAIN tree : Kids(p) \subseteq 1..(s - 1)
      /\ n \in Nat /\ AtEnd = n + 1 /\ AtEnd \in 1..(n + 1)
  BY <1>0, KidsAreNodes DEF ChildMore, AtEnd
<1>2. /\ \A p : p = s => Kids(p)' = {}
      /\ \A p : p = t => Kids(p)' = Kids(p) \cup {s}
      /\ \A p \in 0..(s - 1) : p # t => Kids(p)' = Kids(p)
  BY <1>0, <1>1, KidMore DEF Shape
<1>3. \A i \in DOMAIN frames : frames[i].node <= t
  <2> SUFFICES ASSUME NEW i \in 1..Len(frames) PROVE frames[i].node <= t
    BY <1>0
  <2>1. i < Len(frames) => frames[i].node < t
    BY <1>0 DEF Ordered, Younger
  <2>2. i = Len(frames) => frames[i].node = t
    BY <1>0
  <2>3. frames[i].node \in 0..(s - 1)
    BY <1>0, <1>1
  <2> HIDE DEF t, s
  <2> QED
    BY <1>0, <1>1, <2>1, <2>2, <2>3
<1>4. \A p \in 0..(s - 1) : p < t => \A c \in Kids(p) : c <= t
  BY <1>0, <1>1 DEF Ordered, CallsLast
<1>5. Ascending'
  <2> SUFFICES ASSUME NEW p \in 0..s, NEW a \in DOMAIN tree'[p].kids, NEW b \in DOMAIN tree'[p].kids,
                      a < b
               PROVE  tree'[p].kids[a] < tree'[p].kids[b]
    BY <1>1 DEF Ascending
  <2>1. CASE p = s
    BY <2>1 DEF ChildMore
  <2>2. CASE p \in 0..(s - 1) /\ p # t
    BY <1>1, <2>2 DEF ChildMore, Ordered, Ascending
  <2>3. CASE p = t
    <3>1. /\ DOMAIN kids = 1..(n + 1) /\ DOMAIN Siblings = 1..n
          /\ \A i \in 1..(n + 1) : kids[i] = IF i < n + 1 THEN Siblings[i]
                                            ELSE IF i = n + 1 THEN s ELSE Siblings[i - 1]
      <4>1. kids \in Seq(Nat) /\ Len(kids) = n + 1
        BY DEF ChildMore
      <4>2. DOMAIN Siblings = 1..n
        BY <1>0, SiblingNodes DEF Shape
      <4> QED
        BY <1>1, <4>1, <4>2 DEF ChildMore
    <3>2. a \in 1..n /\ b \in 1..(n + 1) /\ kids[a] = Siblings[a]
      BY <1>1, <2>3, <3>1
    <3>3. Siblings[a] \in 1..(s - 1)
      <4>1. Siblings[a] \in Kids(t)
        BY <3>1, <3>2 DEF Kids, ToSet, Siblings
      <4> QED
        BY <1>1, <4>1
    <3>4. CASE b = n + 1
      <4>1. kids[b] = s
        BY <1>1, <3>1, <3>4
      <4> HIDE DEF kids, s, t, n
      <4> QED
        BY <1>1, <2>3, <3>2, <3>3, <4>1 DEF kids
    <3>5. CASE b # n + 1
      <4>1. b \in 1..n /\ kids[b] = Siblings[b]
        BY <1>1, <3>1, <3>2, <3>5
      <4>2. Siblings[a] < Siblings[b]
        BY <1>1, <3>1, <3>2, <4>1 DEF Ordered, Ascending, Siblings
      <4> QED
        BY <2>3, <3>2, <4>1, <4>2
    <3> QED
      BY <3>4, <3>5
  <2> QED
    BY <1>1, <2>1, <2>2, <2>3
<1> HIDE DEF s, t, n, kids
<1>6. Preorder'
  <2> SUFFICES ASSUME NEW p \in 0..s, NEW q \in 0..s, NEW c \in Kids(p)', NEW d \in Kids(q)',
                      p < q, q < c
               PROVE  d < c
    BY <1>1 DEF Preorder
  <2>1. p \in 0..(s - 1) /\ q \in 0..(s - 1)
    BY <1>1, <1>2
  <2>2. c \in Kids(p) \/ (p = t /\ c = s)
    BY <1>2, <2>1
  <2>3. d \in Kids(q) \/ (q = t /\ d = s)
    BY <1>2, <2>1
  <2>4. CASE q = t /\ d = s
    <3>1. c \in Kids(p) /\ c <= t
      BY <1>1, <1>4, <2>1, <2>2, <2>4
    <3>2. c \in 1..(s - 1)
      BY <1>1, <2>1, <3>1
    <3> QED
      BY <1>1, <2>4, <3>1, <3>2
  <2>5. CASE d \in Kids(q) /\ c = s
    BY <1>1, <2>1, <2>5
  <2>6. CASE d \in Kids(q) /\ c \in Kids(p)
    BY <1>1, <2>1, <2>6 DEF Ordered, Preorder
  <2> QED
    BY <2>2, <2>3, <2>4, <2>5, <2>6
<1>7. ASSUME NEW p \in 0..s, NEW i \in DOMAIN frames, p < frames[i].node, NEW c \in Kids(p)'
      PROVE  c <= frames[i].node
  <2>1. frames[i].node \in 0..(s - 1) /\ frames[i].node <= t
    BY <1>0, <1>1, <1>3
  <2>2. p \in 0..(s - 1) /\ p # t
    BY <1>1, <1>7, <2>1
  <2> QED
    BY <1>1, <1>2, <1>7, <2>2 DEF Ordered, CallsLast
<1>8. ASSUME NEW p \in 0..s, NEW c \in Kids(p)' PROVE c <= s
  <2>1. p \in 0..(s - 1)
    BY <1>1, <1>2
  <2>2. c \in Kids(p) \/ c = s
    BY <1>2, <2>1
  <2>3. Kids(p) \subseteq 1..(s - 1)
    BY <1>1, <2>1
  <2> QED
    BY <1>1, <2>2, <2>3
<1> QED
  BY <1>1, <1>5, <1>6, <1>7, <1>8 DEF s

(* Calls that go on or return keep the order.                                *)
LEMMA OrderKept ==
  ASSUME Shape, Ordered, UNCHANGED <<maker, tree>>, Len(frames') \in Nat,
         Len(frames') <= Len(frames), DOMAIN frames' = 1..Len(frames'),
         \A i \in 1..Len(frames') : frames'[i].node = frames[i].node
  PROVE  Ordered'
<1>1. Len(frames) \in Nat /\ DOMAIN frames = 1..Len(frames)
  BY DEF Shape, Nested
<1>2. \A i \in DOMAIN frames' : i \in DOMAIN frames /\ frames'[i].node = frames[i].node
  BY <1>1
<1>3. Younger' /\ CallsLast'
  BY <1>2 DEF Ordered, Younger, CallsLast, Kids
<1>4. Ascending' /\ Preorder'
  BY DEF Ordered, Ascending, Preorder, Kids
<1>5. LaterHigher'
  BY DEF Ordered, LaterHigher, Fields, Counters, First
<1> QED
  BY <1>3, <1>4, <1>5 DEF Ordered

LEMMA NodesStay ==
  ASSUME Shape, Shape', frames # <<>>, NEW c, NEW rest, GoesOn(c, rest)
  PROVE  /\ Len(frames') = Len(frames) /\ Len(frames') \in Nat \ {0}
         /\ DOMAIN frames' = 1..Len(frames') /\ frames' # <<>>
         /\ \A i \in 1..Len(frames') : frames'[i].node = frames[i].node
<1>1. Len(frames) \in Nat \ {0} /\ top = frames[Len(frames)]
  BY TopCall DEF Shape
<1>2. frames' \in Seq(Calls') /\ Len(frames') = Len(frames)
  BY DEF Shape, Nested, GoesOn
<1>3. DOMAIN frames' = 1..Len(frames') /\ frames' # <<>>
  BY <1>1, <1>2
<1>4. \A i \in 1..Len(frames') : frames'[i].node = frames[i].node
  <2> SUFFICES ASSUME NEW i \in 1..Len(frames') PROVE frames'[i].node = frames[i].node
    OBVIOUS
  <2>1. i = Len(frames) \/ i \in 1..(Len(frames) - 1)
    BY <1>1, <1>2
  <2> QED
    BY <1>1, <2>1 DEF GoesOn
<1> QED
  BY <1>1, <1>2, <1>3, <1>4

(* Of the fields, with their values in the first column, a new child leaves  *)
(* those there are.                                                          *)
LEMMA FieldsMore ==
  ASSUME Shape, NEW place, NEW tag, NewChild(place, tag), ChildMore(place, tag), UNCHANGED maker
  PROVE  /\ Fields' = Fields \cup {n \in {Size} : tag \notin Counters}
         /\ \A n \in Fields : First(n)' = First(n) /\ n < Size
         /\ \A n : n = Size => First(n)' = Value[0]
<1> DEFINE s == Size
<1>1. s \in Nat \ {0} /\ DOMAIN tree = 0..(s - 1) /\ DOMAIN tree' = 0..s
  BY DEF ChildMore
<1>2. /\ \A n \in DOMAIN tree : tree'[n].vals = tree[n].vals /\ tree'[n].tag = tree[n].tag
      /\ tree'[s].vals = Value /\ tree'[s].tag = tag
  BY ValuesMore DEF Shape
<1>3. Counters' = Counters
  BY DEF Counters
<1> HIDE DEF s
<1>4. \A n : n \in Fields' <=> n \in Fields \/ (n = s /\ tag \notin Counters)
  <2>1. \A n : n \in Fields' <=> n \in 1..s /\ tree'[n].tag \notin Counters
    BY <1>1, <1>3 DEF Fields
  <2>2. \A n : n \in Fields <=> n \in 1..(s - 1) /\ tree[n].tag \notin Counters
    BY <1>1 DEF Fields
  <2>3. \A n : n \in 1..s <=> n \in 1..(s - 1) \/ n = s
    BY <1>1
  <2>4. \A n \in 1..(s - 1) : tree'[n].tag = tree[n].tag /\ n # s
    BY <1>1, <1>2
  <2> QED
    BY <1>2, <2>1, <2>2, <2>3, <2>4
<1>5. ASSUME NEW n \in Fields PROVE First(n)' = First(n) /\ n < s
  <2>1. n \in DOMAIN tree /\ n \in 0..(s - 1)
    BY <1>1 DEF Fields
  <2> QED
    BY <1>1, <1>2, <2>1 DEF First
<1>6. \A n : n = s => First(n)' = Value[0]
  BY <1>2 DEF First
<1> QED
  BY <1>4, <1>5, <1>6 DEF s

(* What the first message says in front of inc, after another pair of it.    *)
LEMMA OnePairMore ==
  ASSUME Shape, FirstFields, frames # <<>>, More, Len(messages) = 1,
         UNCHANGED <<maker, messages>>, inc' = inc + 1,
         {First(n) : n \in Fields}' \ {0} =
           ({First(n) : n \in Fields} \ {0}) \cup {i \in {inc} : token \notin Counters}
  PROVE  FirstFields'
<1>1. /\ message = messages[1] /\ message \in Seq(AllTags) /\ inc \in 1..Len(message)
      /\ messages # <<>> /\ Counters' = Counters
  <2>1. /\ message = messages[Len(messages)] /\ message \in Seq(AllTags)
        /\ inc \in 1..Len(message)
    BY Reading DEF Shape
  <2>2. messages # <<>>
    BY DEF Shape, Nested
  <2>3. Counters' = Counters
    BY DEF Counters
  <2> QED
    BY <2>1, <2>2, <2>3
<1> DEFINE m == messages[1]
           said == {j \in DOMAIN m : m[j] \notin Counters /\ j < inc}
           says == {j \in DOMAIN m : m[j] \notin Counters /\ j < inc + 1}
<1>2. m \in Seq(AllTags) /\ inc \in 1..Len(m) /\ m[inc] = token /\ Len(m) \in Nat
  BY <1>1 DEF token
<1>3. says = said \cup {i \in {inc} : token \notin Counters}
  <2> HIDE DEF m
  <2>1. \A j \in DOMAIN m : j < inc + 1 <=> (j < inc \/ j = inc)
    BY <1>2
  <2>2. inc \in DOMAIN m
    BY <1>2
  <2> QED
    BY <1>2, <2>1, <2>2
<1>4. {First(n) : n \in Fields} \ {0} = said
  BY <1>1 DEF FirstFields
<1>5. {First(n) : n \in Fields}' \ {0} = says
  BY <1>3, <1>4
<1>6. FirstFields' <=> {First(n) : n \in Fields}' \ {0} = says
  BY <1>1, Zenon DEF FirstFields
<1> QED
  BY <1>5, <1>6

(* Nothing is said of the first message by a step without a value for it.    *)
LEMMA NoPairMore ==
  ASSUME FirstFields, UNCHANGED <<maker, messages>>, Len(messages) = 1 => inc' = inc,
         {First(n) : n \in Fields}' \ {0} = {First(n) : n \in Fields} \ {0}
  PROVE  FirstFields'
<1>1. Counters' = Counters
  BY DEF Counters
<1> DEFINE said == {j \in DOMAIN messages[1] : /\ messages[1][j] \notin Counters
                                               /\ Len(messages) = 1 => j < inc}
<1>2. said' = said
  BY <1>1
<1> HIDE DEF said
<1>3. FirstFields => (messages # <<>> => {First(n) : n \in Fields} \ {0} = said)
  BY DEF FirstFields, said
<1>4. (messages' # <<>> => {First(n) : n \in Fields}' \ {0} = said') => FirstFields'
  BY DEF FirstFields, said
<1> QED
  BY <1>2, <1>3, <1>4

(* Every step keeps the order.                                               *)
LEMMA ValueFirst ==
  ASSUME Shape, frames # <<>>, More
  PROVE  /\ column # 0 => Value[0] = 0
         /\ column = 0 /\ top.counter = 0 => Value[0] = inc
         /\ column = 0 <=> Len(messages) = 1
<1>1. 0 \in Cols /\ column \in Cols /\ column \in Nat /\ Len(messages) \in Nat
  BY RuvAssumption, Reading DEF Shape, Cols
<1>2. Value[0] = IF column = 0 THEN (IF top.counter = 0 THEN inc ELSE top.counter) ELSE 0
  BY <1>1 DEF Value, Empty
<1>3. column = 0 <=> Len(messages) = 1
  BY <1>1 DEF column
<1> QED
  BY <1>2, <1>3

LEMMA FieldOrder ==
  ASSUME Shape, OrderInv, ReadField
  PROVE  OrderInv'
<1>1. /\ frames # <<>> /\ More /\ top.counter = 0 /\ token \notin Counters
      /\ Resume(top, inc + 1) /\ UNCHANGED <<maker, messages, alive>>
  BY Zenon DEF ReadField, Takes
<1>2. /\ Shape' /\ GoesOn(0, RestAfter)
      /\ \/ Lines(token) # {} /\ SameChildren
         \/ Lines(token) = {} /\ ChildMore(AtEnd, token)
  BY ReadFieldShape
<1>3. inc' = inc + 1
  BY <1>1, Zenon DEF Resume
<1>4. /\ messages # <<>> /\ Len(messages) \in Nat \ {0} /\ inc \in 1..Len(message)
      /\ Len(message) \in Nat /\ column \in Cols
  BY <1>1, Reading DEF Shape, Nested
<1>5. /\ Len(frames') = Len(frames) /\ Len(frames') \in Nat \ {0}
      /\ DOMAIN frames' = 1..Len(frames') /\ frames' # <<>>
      /\ \A i \in 1..Len(frames') : frames'[i].node = frames[i].node
  BY <1>1, <1>2, NodesStay
<1>6. NothingYet' /\ ReadThrough'
  BY <1>1, <1>4, <1>5 DEF NothingYet, ReadThrough
<1>7. /\ column # 0 => Value[0] = 0
      /\ column = 0 => Value[0] = inc
      /\ column = 0 <=> Len(messages) = 1
  BY <1>1, ValueFirst
<1>8. top.node \in DOMAIN tree /\ AtEnd \in 1..(Len(Siblings) + 1)
  BY <1>1, TopCall, SiblingNodes DEF Shape, IsCall
<1>9. column # 0 => ~(Len(messages') <= 1)
  <2>1. column # 0 => Len(messages) # 1
    BY <1>7, Zenon
  <2>2. Len(messages) # 1 => ~(Len(messages) <= 1)
    <3>1. \A k \in Nat \ {0} : k # 1 => ~(k <= 1)
      OBVIOUS
    <3> QED
      BY <1>4, <3>1, Zenon
  <2>3. messages' = messages
    BY <1>1
  <2> QED
    BY <2>1, <2>2, <2>3, Zenon
<1>10. CASE Lines(token) = {}
  <2> DEFINE s == Size
  <2>1. NewChild(AtEnd, token) /\ ChildMore(AtEnd, token)
    BY <1>2, <1>10, Zenon DEF ReadField
  <2>2. KidsYounger'
    BY <1>8, <2>1, KidsYoungerMore DEF OrderInv
  <2>3. /\ Fields' = Fields \cup {n \in {s} : token \notin Counters}
        /\ \A n \in Fields : First(n)' = First(n) /\ n < s
        /\ \A n : n = s => First(n)' = Value[0]
    BY <1>1, <2>1, FieldsMore
  <2> HIDE DEF s
  <2>4. Fields' = Fields \cup {s}
    BY <1>1, <2>3
  <2>5. {First(n) : n \in Fields}' = {First(n) : n \in Fields} \cup {Value[0]}
    BY <2>3, <2>4
  <2>6. CASE column # 0
    <3>1. {First(n) : n \in Fields}' \ {0} = {First(n) : n \in Fields} \ {0}
      BY <1>7, <2>5, <2>6
    <3>2. FirstFields'
      BY <1>1, <1>7, <2>6, <3>1, NoPairMore DEF OrderInv
    <3>3. ~(Len(messages') <= 1)
      BY <1>9, <2>6
    <3> QED
      BY <1>6, <2>2, <3>2, <3>3 DEF OrderInv
  <2>7. CASE column = 0
    <3>0. Len(messages) = 1 /\ Value[0] = inc /\ inc \in Nat \ {0} /\ Ordered
      <4>1. Len(messages) = 1 /\ Value[0] = inc
        BY <1>7, <2>7
      <4>2. Len(messages) <= 1
        BY <4>1
      <4> QED
        BY <1>4, <4>1, <4>2 DEF OrderInv
    <3>1. {First(n) : n \in Fields}' \ {0} =
            ({First(n) : n \in Fields} \ {0}) \cup {i \in {inc} : token \notin Counters}
      BY <1>1, <2>5, <3>0
    <3>2. FirstFields'
      BY <1>1, <1>3, <3>0, <3>1, OnePairMore DEF OrderInv
    <3>3. /\ Ascending' /\ Preorder'
          /\ \A p \in DOMAIN tree' : \A i \in DOMAIN frames :
               p < frames[i].node => \A c \in Kids(p)' : c <= frames[i].node
      BY <1>1, <2>1, <3>0, ChildLast DEF OrderInv
    <3>4. Younger' /\ CallsLast'
      <4>1. \A i \in DOMAIN frames' : i \in DOMAIN frames /\ frames'[i].node = frames[i].node
        BY <1>5 DEF Shape, Nested
      <4> QED
        BY <3>0, <3>3, <4>1 DEF Ordered, Younger, CallsLast
    <3>5. LaterHigher'
      <4>1. ASSUME NEW n \in Fields PROVE First(n) < inc /\ First(n) \in Nat
        <5>1. First(n) \in Nat
          BY KidsAreNodes DEF Fields
        <5>2. First(n) # 0 => First(n) < inc
          BY <1>4, <3>0 DEF OrderInv, FirstFields
        <5> QED
          BY <3>0, <5>1, <5>2
      <4> SUFFICES ASSUME NEW m \in Fields', NEW n \in Fields', m < n
                   PROVE  First(m)' < First(n)'
        BY DEF LaterHigher
      <4>2. \A x \in Fields : x < s /\ x \in Nat /\ s \in Nat
        BY <2>3, KidsAreNodes DEF Fields, s
      <4>3. CASE n = s
        <5>1. m \in Fields
          BY <2>4, <4>2, <4>3, KidsAreNodes DEF s
        <5> QED
          BY <2>3, <3>0, <4>1, <4>3, <5>1
      <4>4. CASE n \in Fields
        <5>1. m \in Fields
          BY <2>4, <4>2, <4>4
        <5> QED
          BY <2>3, <3>0, <4>4, <5>1 DEF Ordered, LaterHigher
      <4> QED
        BY <2>4, <4>3, <4>4
    <3> QED
      BY <1>6, <2>2, <3>2, <3>3, <3>4, <3>5 DEF OrderInv, Ordered
  <2> QED
    BY <2>6, <2>7
<1>11. CASE Lines(token) # {}
  <2>1. column # 0 /\ SameChildren
    BY <1>2, <1>11 DEF Lines
  <2>2. PICK x : tree' = [tree EXCEPT ![x].vals[column] = inc]
    BY <1>11, Zenon DEF ReadField
  <2>3. ASSUME NEW n \in DOMAIN tree PROVE First(n)' = First(n) /\ tree'[n].tag = tree[n].tag
    <3>1. tree[n] \in Nodes
      BY DEF Shape, IsTree
    <3>2. tree'[n] = tree[n] \/ tree'[n] = [tree[n] EXCEPT !.vals[column] = inc]
      BY <2>2
    <3>3. tree[n].vals \in [Cols -> 0..MaxLen] /\ DOMAIN tree[n] = {"tag", "vals", "kids"}
      BY <3>1 DEF Nodes
    <3> DEFINE old == tree[n]
               new == [old EXCEPT !.vals[column] = inc]
    <3>4. new.tag = old.tag /\ new.vals[0] = old.vals[0]
      <4>1. new.tag = old.tag /\ new.vals = [old.vals EXCEPT ![column] = inc]
        BY <3>3
      <4>2. 0 \in DOMAIN old.vals
        BY <3>3, RuvAssumption DEF Cols
      <4> HIDE DEF old, new
      <4> QED
        BY <2>1, <4>1, <4>2
    <3>5. tree'[n].tag = tree[n].tag /\ tree'[n].vals[0] = tree[n].vals[0]
      <4> HIDE DEF new
      <4> QED
        BY <3>2, <3>4 DEF new
    <3> QED
      BY <3>5 DEF First
  <2>4. Fields' = Fields
    BY <1>1, <2>1, <2>3 DEF Fields, Counters, SameChildren
  <2>5. {First(n) : n \in Fields}' \ {0} = {First(n) : n \in Fields} \ {0}
    <3>1. \A n \in Fields : First(n)' = First(n)
      BY <2>3 DEF Fields
    <3> QED
      BY <2>4, <3>1
  <2>6. FirstFields'
    BY <1>1, <1>7, <2>1, <2>5, NoPairMore DEF OrderInv
  <2>7. KidsYounger'
    BY <2>1 DEF SameChildren, OrderInv, KidsYounger, Kids
  <2>8. ~(Len(messages') <= 1)
    BY <1>9, <2>1
  <2> QED
    BY <1>6, <2>6, <2>7, <2>8 DEF OrderInv
<1> QED
  BY <1>10, <1>11

LEMMA StayedOrder ==
  ASSUME Shape, Shape', OrderInv, messages # <<>>, UNCHANGED <<maker, messages, tree>>,
         Len(frames') \in Nat, Len(frames') <= Len(frames), DOMAIN frames' = 1..Len(frames'),
         \A i \in 1..Len(frames') : frames'[i].node = frames[i].node,
         FirstFields', ReadThrough'
  PROVE  OrderInv'
<1>1. NothingYet' /\ KidsYounger'
  BY DEF OrderInv, NothingYet, KidsYounger, Kids
<1>2. Len(messages') <= 1 => Ordered'
  BY OrderKept DEF OrderInv
<1> QED
  BY <1>1, <1>2 DEF OrderInv

LEMMA CounterOrder ==
  ASSUME Shape, OrderInv, SkipCounter \/ SkipLastCounter \/ OpenGroup
  PROVE  OrderInv'
<1>1. /\ frames # <<>> /\ More /\ token \in Counters /\ inc' = inc + 1
      /\ UNCHANGED <<maker, messages, tree>>
  BY DEF SkipCounter, SkipLastCounter, OpenGroup, Takes, Resume
<1>2. Shape' /\ \E c : GoesOn(c, RestAfter)
  BY CounterShape, OpenGroupShape
<1>3. /\ Len(frames') = Len(frames) /\ Len(frames') \in Nat \ {0}
      /\ DOMAIN frames' = 1..Len(frames') /\ frames' # <<>>
      /\ \A i \in 1..Len(frames') : frames'[i].node = frames[i].node
  BY <1>1, <1>2, NodesStay
<1>4. messages # <<>> /\ Len(messages) \in Nat \ {0}
  BY <1>1, Reading DEF Shape, Nested
<1>5. ReadThrough'
  BY <1>3 DEF ReadThrough
<1>6. {First(n) : n \in Fields}' = {First(n) : n \in Fields}
  BY <1>1 DEF First, Fields, Counters
<1>7. FirstFields'
  <2>1. CASE Len(messages) = 1
    <3>1. {First(n) : n \in Fields}' \ {0} =
            ({First(n) : n \in Fields} \ {0}) \cup {i \in {inc} : token \notin Counters}
      BY <1>1, <1>6
    <3> QED
      BY <1>1, <2>1, <3>1, OnePairMore DEF OrderInv
  <2>2. CASE Len(messages) # 1
    BY <1>1, <1>6, <2>2, NoPairMore DEF OrderInv
  <2> QED
    BY <2>1, <2>2
<1>8. Len(frames') \in Nat /\ Len(frames') <= Len(frames)
  BY <1>3
<1> QED
  BY <1>1, <1>2, <1>3, <1>4, <1>5, <1>7, <1>8, StayedOrder

LEMMA CloseGroupOrder ==
  ASSUME Shape, OrderInv, CloseGroup
  PROVE  OrderInv'
<1>1. frames # <<>> /\ UNCHANGED <<maker, messages, tree, inc>>
  BY DEF CloseGroup
<1>2. Shape' /\ GoesOn(0, top.rest)
  BY CloseGroupShape
<1>3. /\ Len(frames') = Len(frames) /\ Len(frames') \in Nat \ {0}
      /\ DOMAIN frames' = 1..Len(frames') /\ frames' # <<>>
      /\ \A i \in 1..Len(frames') : frames'[i].node = frames[i].node
  BY <1>1, <1>2, NodesStay
<1>4. messages # <<>>
  BY <1>1 DEF Shape, Nested
<1>5. ReadThrough' /\ FirstFields'
  BY <1>1, <1>3 DEF ReadThrough, FirstFields, OrderInv, First, Fields, Counters
<1>6. Len(frames') \in Nat /\ Len(frames') <= Len(frames)
  BY <1>3
<1> QED
  BY <1>1, <1>2, <1>3, <1>4, <1>5, <1>6, StayedOrder

(* The outermost call returns at the end of the message only.                *)
LEMMA ReturnOrder ==
  ASSUME Shape, OrderInv, Return
  PROVE  OrderInv'
<1>1. /\ frames # <<>> /\ UNCHANGED <<maker, messages, tree, inc>>
      /\ (More => ~AtRoot)
  BY DEF Return
<1>2. /\ Shape' /\ Len(frames') = Len(frames) - 1
      /\ \A i \in 1..(Len(frames) - 1) : frames'[i] = frames[i]
  BY ReturnShape
<1>3. /\ messages # <<>> /\ Len(frames) \in Nat \ {0} /\ inc \in Nat /\ Len(message) \in Nat
      /\ message' = message
  <2>1. message' = message
    BY <1>1 DEF message
  <2> QED
    BY <1>1, <2>1, Reading, TopCall DEF Shape, Nested
<1>4. Len(frames') \in Nat /\ DOMAIN frames' = 1..Len(frames') /\ Len(frames') <= Len(frames)
  <2>1. frames' \in Seq(Calls')
    BY <1>2 DEF Shape, Nested
  <2> QED
    BY <1>2, <1>3, <2>1
<1>5. ReadThrough'
  <2> SUFFICES ASSUME frames' = <<>> PROVE inc > Len(message)
    BY <1>1, <1>3 DEF ReadThrough
  <2>1. Len(frames) = 1
    BY <1>2, <1>3
  <2>2. ~More
    BY <1>1, <2>1 DEF AtRoot
  <2> QED
    BY <1>3, <2>2 DEF More
<1>6. FirstFields'
  BY <1>1 DEF FirstFields, OrderInv, First, Fields, Counters
<1>7. \A i \in 1..Len(frames') : frames'[i].node = frames[i].node
  BY <1>2, <1>3
<1> QED
  BY <1>1, <1>2, <1>3, <1>4, <1>5, <1>6, <1>7, StayedOrder

LEMMA ReadEntryOrder ==
  ASSUME Shape, OrderInv, ReadEntry
  PROVE  OrderInv'
<1> DEFINE group == message[top.counter]
<1>1. /\ frames # <<>> /\ More /\ top.counter # 0
      /\ UNCHANGED <<maker, messages, inc, alive>>
  BY DEF ReadEntry
<1>2. /\ Shape'
      /\ \/ /\ Entries(group) # {} /\ UNCHANGED tree
            /\ \E i \in Entries(group) : Calling(Siblings[i])
         \/ /\ Entries(group) = {} /\ Calling(Size) /\ ChildMore(Behind(group), group)
  BY ReadEntryShape
<1>3. /\ top.node \in DOMAIN tree /\ group \in Counters /\ messages # <<>>
      /\ Len(frames) \in Nat \ {0} /\ DOMAIN frames = 1..Len(frames) /\ top = frames[Len(frames)]
  BY <1>1, TopCall DEF Shape, IsCall, Nested
<1>4. /\ column # 0 => Value[0] = 0
      /\ column = 0 <=> Len(messages) = 1
      /\ Len(messages) \in Nat \ {0}
  BY <1>1, ValueFirst, Reading DEF Shape
<1>5. Len(frames') = Len(frames) + 1 /\ frames' # <<>> /\ DOMAIN frames' = 1..(Len(frames) + 1)
  <2>1. frames' \in Seq(Calls') /\ Len(frames') = Len(frames) + 1
    BY <1>2 DEF Shape, Nested, Calling
  <2> QED
    BY <1>3, <2>1
<1>6. NothingYet' /\ ReadThrough'
  BY <1>1, <1>3, <1>5 DEF NothingYet, ReadThrough
<1> HIDE DEF group
<1>7. CASE Entries(group) # {} /\ UNCHANGED tree
  <2>1. column # 0
    BY <1>7 DEF Entries, Lines
  <2>2. ~(Len(messages) <= 1)
    <3>1. \A k \in Nat \ {0} : k # 1 => ~(k <= 1)
      OBVIOUS
    <3> QED
      BY <1>4, <2>1, <3>1, Zenon
  <2>3. KidsYounger' /\ FirstFields'
    BY <1>1, <1>7 DEF OrderInv, KidsYounger, Kids, FirstFields, First, Fields, Counters
  <2> QED
    BY <1>1, <1>6, <2>2, <2>3 DEF OrderInv
<1>8. CASE Entries(group) = {} /\ Calling(Size) /\ ChildMore(Behind(group), group)
  <2> DEFINE s == Size
  <2>1. NewChild(Behind(group), group)
    BY <1>8, Zenon DEF ReadEntry, group
  <2>2. Behind(group) \in 1..(Len(Siblings) + 1)
    BY <1>3, BehindIsPlace DEF Shape
  <2>3. KidsYounger'
    BY <1>3, <1>8, <2>2, KidsYoungerMore DEF OrderInv
  <2>4. /\ Fields' = Fields \cup {n \in {s} : group \notin Counters}
        /\ \A n \in Fields : First(n)' = First(n) /\ n < s
    BY <1>1, <1>8, <2>1, FieldsMore
  <2>5. Fields' = Fields
    BY <1>3, <2>4
  <2>6. {First(n) : n \in Fields}' = {First(n) : n \in Fields}
    BY <2>4, <2>5
  <2>7. FirstFields'
    BY <1>1, <2>6, NoPairMore DEF OrderInv
  <2>8. ASSUME Len(messages) <= 1 PROVE Ordered'
    <3>1. Ordered /\ column = 0
      <4>1. Len(messages) = 1
        BY <1>4, <2>8
      <4> QED
        BY <1>4, <2>8, <4>1 DEF OrderInv
    <3>2. ChildMore(AtEnd, group)
      <4>1. Behind(group) = AtEnd
        BY <3>1 DEF Behind, Lines
      <4> QED
        BY <1>8, <4>1
    <3>3. /\ Ascending' /\ Preorder'
          /\ \A p \in DOMAIN tree' :
               /\ \A i \in DOMAIN frames :
                    p < frames[i].node => \A c \in Kids(p)' : c <= frames[i].node
               /\ \A c \in Kids(p)' : c <= Size
      BY <1>1, <3>1, <3>2, ChildLast DEF OrderInv
    <3>4. /\ frames'[Len(frames) + 1].node = s
          /\ \A i \in 1..Len(frames) : frames'[i].node = frames[i].node
      <4>1. ASSUME NEW i \in 1..Len(frames) PROVE frames'[i].node = frames[i].node
        <5>0. \A k \in Nat \ {0} : \A x \in 1..k : x = k \/ x \in 1..(k - 1)
          OBVIOUS
        <5>1. i = Len(frames) \/ i \in 1..(Len(frames) - 1)
          BY <1>3, <5>0, Zenon
        <5> QED
          BY <1>3, <1>8, <5>1 DEF Calling
      <4> QED
        BY <1>8, <4>1 DEF Calling
    <3>5. \A i \in 1..Len(frames) : frames[i].node \in Nat /\ frames[i].node < s /\ s \in Nat
      <4>1. \A i \in 1..Len(frames) : frames[i].node \in DOMAIN tree
        BY <1>3 DEF Shape, Nested, IsCall
      <4> QED
        BY <4>1, KidsAreNodes
    <3> HIDE DEF s
    <3>6. Younger'
      <4> SUFFICES ASSUME NEW i \in 1..(Len(frames) + 1), NEW j \in 1..(Len(frames) + 1), i < j
                   PROVE  frames'[i].node < frames'[j].node
        BY <1>5 DEF Younger
      <4>1. i \in 1..Len(frames)
        BY <1>3
      <4>2. j = Len(frames) + 1 \/ j \in 1..Len(frames)
        BY <1>3
      <4> QED
        BY <1>3, <3>1, <3>4, <3>5, <4>1, <4>2 DEF Ordered, Younger
    <3>7. CallsLast'
      <4> SUFFICES ASSUME NEW i \in 1..(Len(frames) + 1), NEW p \in DOMAIN tree',
                          p < frames'[i].node, NEW c \in Kids(p)'
                   PROVE  c <= frames'[i].node
        BY <1>5 DEF CallsLast
      <4>1. CASE i = Len(frames) + 1
        BY <3>3, <3>4, <4>1 DEF s
      <4>2. CASE i # Len(frames) + 1
        <5>1. i \in 1..Len(frames) /\ frames'[i].node = frames[i].node
          BY <1>3, <3>4, <4>2
        <5> QED
          BY <1>3, <3>3, <5>1
      <4> QED
        BY <4>1, <4>2
    <3>8. LaterHigher'
      BY <2>4, <2>5, <3>1 DEF Ordered, LaterHigher
    <3> QED
      BY <3>3, <3>6, <3>7, <3>8 DEF Ordered
  <2> QED
    BY <1>1, <1>6, <2>3, <2>7, <2>8 DEF OrderInv
<1> QED
  BY <1>2, <1>7, <1>8

LEMMA RootAlone ==
  ASSUME Shape, Size = 1
  PROVE  DOMAIN tree = {0} /\ Kids(0) = {} /\ DOMAIN tree[0].kids = {} /\ Fields = {}
<1>1. /\ DOMAIN tree = 0..(1 - 1) /\ 0..(1 - 1) = {0} /\ 1..(1 - 1) = {} /\ 0 \in DOMAIN tree
  BY KidsAreNodes
<1>2. Kids(0) \subseteq 1..(1 - 1) /\ \A a \in DOMAIN tree[0].kids : tree[0].kids[a] \in Kids(0)
  BY <1>1, KidsAreNodes
<1>3. DOMAIN tree = {0} /\ Kids(0) = {} /\ DOMAIN tree[0].kids = {}
  BY <1>1, <1>2
<1> QED
  BY <1>3 DEF Fields

(* Another message is read when the one before has been read through.        *)
LEMMA ReadOrder ==
  ASSUME Shape, OrderInv, frames = <<>>, Len(messages) < Columns,
         NEW m \in Seq(AllTags), Len(m) <= MaxLen, Read(m)
  PROVE  OrderInv'
<1>1. /\ Shape' /\ message' = m /\ Len(messages') = Len(messages) + 1
      /\ \A c \in DOMAIN messages : messages'[c] = messages[c]
  BY ReadShape
<1>2. /\ inc' = 1 /\ frames' = <<Frame(0, {})>> /\ UNCHANGED <<maker, tree, alive>>
  BY DEF Read
<1>3. /\ messages \in Seq(Seq(AllTags)) /\ Len(messages) \in Nat
      /\ DOMAIN messages = 1..Len(messages) /\ (messages # <<>> => 1 \in DOMAIN messages)
  BY DEF Shape, Inputs
<1>4. frames' # <<>> /\ DOMAIN frames' = {1} /\ frames'[1].node = 0
  BY <1>2 DEF Frame
<1>5. messages' # <<>> /\ ReadThrough' /\ NothingYet'
  <2>1. messages' \in Seq(Seq(AllTags')) /\ Len(messages') # 0
    BY <1>1, <1>3 DEF Shape, Inputs
  <2>2. messages' # <<>>
    BY <2>1
  <2> QED
    BY <1>4, <2>2 DEF ReadThrough, NothingYet
<1>6. KidsYounger'
  BY <1>2 DEF OrderInv, KidsYounger, Kids
<1>7. /\ {First(n) : n \in Fields}' = {First(n) : n \in Fields}
      /\ Fields' = Fields /\ Counters' = Counters
  BY <1>2 DEF First, Fields, Counters
<1>8. CASE messages = <<>>
  <2>1. Size = 1 /\ Len(messages') = 1
    BY <1>1, <1>8 DEF OrderInv, NothingYet
  <2>2. DOMAIN tree = {0} /\ Kids(0) = {} /\ DOMAIN tree[0].kids = {} /\ Fields = {}
    BY <2>1, RootAlone
  <2>3. FirstFields'
    <3> DEFINE pairs == DOMAIN messages'[1]
    <3>1. {First(n) : n \in Fields}' \ {0} = {}
      BY <1>7, <2>2
    <3>2. \A j \in pairs : ~(j < 1)
      <4>1. messages' \in Seq(Seq(AllTags')) /\ 1 \in DOMAIN messages'
        BY <1>1, <2>1 DEF Shape, Inputs
      <4>2. pairs = 1..Len(messages'[1]) /\ Len(messages'[1]) \in Nat
        BY <4>1
      <4> HIDE DEF pairs
      <4> QED
        BY <4>2
    <3>3. {j \in pairs : /\ messages'[1][j] \notin Counters'
                         /\ Len(messages') = 1 => j < inc'} = {}
      BY <1>2, <2>1, <3>2
    <3> QED
      BY <3>1, <3>3 DEF FirstFields
  <2>4. Kids(0)' = {} /\ DOMAIN tree' = {0} /\ DOMAIN tree'[0].kids = {}
    BY <1>2, <2>2 DEF Kids
  <2>5. Younger' /\ CallsLast' /\ Ascending' /\ Preorder' /\ LaterHigher'
    BY <1>4, <1>7, <2>2, <2>4 DEF Younger, CallsLast, Ascending, Preorder, LaterHigher
  <2> QED
    BY <1>5, <1>6, <2>3, <2>5 DEF OrderInv, Ordered
<1>9. CASE messages # <<>>
  <2>1. Len(messages) \in Nat \ {0} /\ ~(Len(messages') <= 1) /\ Len(messages') # 1
    BY <1>1, <1>3, <1>9
  <2>2. messages'[1] = messages[1]
    BY <1>1, <1>3, <1>9
  <2>3. Len(messages) = 1 => \A j \in DOMAIN messages[1] : j < inc
    <3> SUFFICES ASSUME Len(messages) = 1, NEW j \in DOMAIN messages[1] PROVE j < inc
      OBVIOUS
    <3>1. message = messages[1] /\ messages[1] \in Seq(AllTags)
      BY <1>3, <1>9 DEF message, Last
    <3>2. inc > Len(messages[1]) /\ inc \in Nat
      BY <1>9, <3>1, RuvAssumption DEF OrderInv, ReadThrough, Shape, Inputs
    <3> QED
      BY <3>1, <3>2
  <2>4. {First(n) : n \in Fields} \ {0} =
          {j \in DOMAIN messages[1] : messages[1][j] \notin Counters}
    BY <1>9, <2>3 DEF OrderInv, FirstFields
  <2>5. FirstFields'
    BY <1>7, <2>1, <2>2, <2>4 DEF FirstFields
  <2> QED
    BY <1>5, <1>6, <2>1, <2>5 DEF OrderInv
<1> QED
  BY <1>8, <1>9

LEMMA InitOrder == Init => OrderInv
<1> SUFFICES ASSUME Init PROVE OrderInv
  OBVIOUS
<1>1. Shape /\ messages = <<>> /\ frames = <<>>
  BY ShapeInit DEF Init
<1>2. Size = 1
  <2>1. DOMAIN tree = {0}
    BY DEF Init
  <2> QED
    BY <2>1, FS_Singleton DEF Size
<1>3. DOMAIN tree = {0} /\ Kids(0) = {} /\ DOMAIN tree[0].kids = {} /\ Fields = {}
  BY <1>1, <1>2, RootAlone
<1>4. NothingYet /\ FirstFields /\ ReadThrough
  BY <1>1, <1>2 DEF NothingYet, FirstFields, ReadThrough
<1>5. KidsYounger /\ Ascending /\ Preorder /\ LaterHigher
  BY <1>3 DEF KidsYounger, Ascending, Preorder, LaterHigher
<1>6. Younger /\ CallsLast
  BY <1>1 DEF Younger, CallsLast
<1> QED
  BY <1>4, <1>5, <1>6 DEF OrderInv, Ordered

LEMMA StutterOrder ==
  ASSUME OrderInv, UNCHANGED vars
  PROVE  OrderInv'
<1> USE DEF vars, Fields, Counters, First, Kids, message
<1>1. NothingYet' /\ KidsYounger' /\ FirstFields' /\ ReadThrough'
  BY DEF OrderInv, NothingYet, Size, KidsYounger, FirstFields, ReadThrough
<1>2. Ordered => Ordered'
  BY DEF Ordered, Younger, Ascending, Preorder, CallsLast, LaterHigher
<1> QED
  BY <1>1, <1>2 DEF OrderInv

LEMMA OrderNext == Shape /\ OrderInv /\ [Next]_vars => OrderInv'
<1> SUFFICES ASSUME Shape, OrderInv, [Next]_vars PROVE OrderInv'
  OBVIOUS
<1>1. CASE ReadField
  BY <1>1, FieldOrder
<1>2. CASE SkipCounter \/ SkipLastCounter \/ OpenGroup
  BY <1>2, CounterOrder
<1>3. CASE ReadEntry
  BY <1>3, ReadEntryOrder
<1>4. CASE CloseGroup
  BY <1>4, CloseGroupOrder
<1>5. CASE Return
  BY <1>5, ReturnOrder
<1>6. ASSUME MayRead, NEW m \in RmakeInputs, Compare(m), Len(messages) < Columns PROVE OrderInv'
  <2>1. m \in Seq(Tags) /\ Len(m) <= MaxLen
    BY InputIs DEF RmakeInputs
  <2>2. m \in Seq(AllTags)
    BY <2>1 DEF AllTags
  <2> QED
    BY <1>6, <2>1, <2>2, ReadOrder DEF Compare, MayRead
<1>7. ASSUME MayRead, NEW m \in SsmakeInputs, Read(m), messages = <<>> PROVE OrderInv'
  <2>1. m \in Seq(SsTags) /\ Len(m) <= MaxLen
    BY InputIs DEF SsmakeInputs
  <2>2. m \in Seq(AllTags) /\ Len(messages) < Columns
    BY <1>7, <2>1, RuvAssumption DEF AllTags
  <2> QED
    BY <1>7, <2>1, <2>2, ReadOrder DEF MayRead
<1>8. CASE UNCHANGED vars
  BY <1>8, StutterOrder
<1> QED
  BY <1>1, <1>2, <1>3, <1>4, <1>5, <1>6, <1>7, <1>8 DEF Next, Rmake

LEMMA AlwaysOrdered == Spec => [](Shape /\ OrderInv)
<1>1. Shape /\ OrderInv /\ [Next]_vars => Shape' /\ OrderInv'
  BY ShapeNext, OrderNext
<1> QED
  BY ShapeInit, InitOrder, <1>1, PTL DEF Spec

(* Below goes down a tree whose children are younger than their parents, and *)
(* so it comes to an end.                                                    *)
LEMMA BelowIs ==
  ASSUME Shape, KidsYounger
  PROVE  \A n \in DOMAIN tree :
           Below[n] = (IF n \in Fields THEN {First(n)} ELSE {}) \cup UNION {Below[k] : k \in Kids(n)}
<1> DEFINE s == Size
           Own(n) == IF n \in Fields THEN {First(n)} ELSE {}
           Follows(f, d) ==
             f = [n \in (s - d)..(s - 1) |-> Own(n) \cup UNION {f[k] : k \in Kids(n)}]
           Bad == {d \in Nat : d <= s /\ ~\E f : Follows(f, d)}
<1>1. s \in Nat \ {0} /\ DOMAIN tree = 0..(s - 1)
  BY KidsAreNodes
<1>2. \A n \in 0..(s - 1) : \A k \in Kids(n) : k \in (n + 1)..(s - 1)
  BY KidsAreNodes DEF KidsYounger
<1> HIDE DEF s, Own
<1>3. 0 \notin Bad
  <2> DEFINE f == [n \in (s - 0)..(s - 1) |-> {}]
  <2>1. (s - 0)..(s - 1) = {}
    BY <1>1
  <2>2. Follows(f, 0)
    BY <2>1
  <2> QED
    BY <2>2
<1>4. ASSUME NEW d \in Nat \ {0}, d <= s, d - 1 \notin Bad PROVE d \notin Bad
  <2>1. d - 1 \in Nat /\ d - 1 <= s
    BY <1>1, <1>4
  <2>2. PICK f : Follows(f, d - 1)
    BY <1>4, <2>1
  <2> DEFINE a == s - d
  <2>3. a \in Nat /\ s - (d - 1) = a + 1 /\ a <= s - 1
    BY <1>1, <1>4
  <2>4. \A n \in (a + 1)..(s - 1) : f[n] = Own(n) \cup UNION {f[k] : k \in Kids(n)}
    BY <2>2, <2>3
  <2> DEFINE g == [n \in a..(s - 1) |->
                     IF n = a THEN Own(a) \cup UNION {f[k] : k \in Kids(a)} ELSE f[n]]
  <2> HIDE DEF a
  <2>5. ASSUME NEW n \in a..(s - 1) PROVE g[n] = Own(n) \cup UNION {g[k] : k \in Kids(n)}
    <3>1. n \in 0..(s - 1) /\ (n = a \/ n \in (a + 1)..(s - 1))
      BY <1>1, <2>3
    <3>2. ASSUME NEW k \in Kids(n) PROVE g[k] = f[k]
      <4>1. k \in (n + 1)..(s - 1)
        BY <1>2, <3>1
      <4>2. k \in a..(s - 1) /\ k # a
        BY <1>1, <2>3, <4>1
      <4> QED
        BY <4>2
    <3>3. {g[k] : k \in Kids(n)} = {f[k] : k \in Kids(n)}
      BY <3>2
    <3>4. g[n] = Own(n) \cup UNION {f[k] : k \in Kids(n)}
      <4>1. CASE n = a
        BY <4>1
      <4>2. CASE n # a
        BY <2>4, <3>1, <4>2
      <4> QED
        BY <4>1, <4>2
    <3> QED
      BY <3>3, <3>4
  <2>6. DOMAIN g = a..(s - 1) /\ g = [n \in a..(s - 1) |-> g[n]]
    OBVIOUS
  <2> HIDE DEF g
  <2>7. g = [n \in a..(s - 1) |-> Own(n) \cup UNION {g[k] : k \in Kids(n)}]
    BY <2>5, <2>6
  <2>8. Follows(g, d)
    BY <2>7 DEF a
  <2> QED
    BY <2>8
<1>5. Bad = {}
  <2> HIDE DEF Bad
  <2> SUFFICES ASSUME Bad # {} PROVE FALSE
    OBVIOUS
  <2> DEFINE d == Min(Bad)
  <2>1. Bad \in SUBSET Nat /\ \A e \in Bad : e <= s
    BY DEF Bad
  <2>2. d \in Bad /\ \A y \in Bad : d <= y
    BY <2>1, SmallestMember
  <2> HIDE DEF d
  <2>3. d \in Nat \ {0} /\ d <= s
    BY <1>3, <2>1, <2>2
  <2>4. d - 1 \notin Bad
    BY <2>1, <2>2, <2>3
  <2> QED
    BY <1>4, <2>2, <2>3, <2>4
<1>6. \E f : Follows(f, s)
  <2>1. s \in Nat /\ s <= s
    BY <1>1
  <2> QED
    BY <1>5, <2>1, Zenon
<1>7. s - s = 0
  BY <1>1
<1>8. \E f : f = [n \in DOMAIN tree |-> Own(n) \cup UNION {f[k] : k \in Kids(n)}]
  BY <1>1, <1>6, <1>7
<1> DEFINE below == Below
<1>9. below = [n \in DOMAIN tree |-> Own(n) \cup UNION {below[k] : k \in Kids(n)}]
  BY <1>8, Zenon DEF Below, Own, First, Kids
<1> HIDE DEF below
<1>10. \A n \in DOMAIN tree : below[n] = Own(n) \cup UNION {below[k] : k \in Kids(n)}
  BY <1>9
<1> QED
  BY <1>10 DEF below, Own

(* Whatever holds of a node when it holds of its children holds of all nodes:*)
(* the last node of which it would not has no such children.                 *)
LEMMA LastOfNodes ==
  ASSUME Shape, NEW S \in SUBSET DOMAIN tree, S # {}
  PROVE  \E n \in S : \A k \in S : k <= n
<1> DEFINE s == Size
           Up == {s - n : n \in S}
           u == Min(Up)
<1>1. s \in Nat \ {0} /\ DOMAIN tree = 0..(s - 1)
  BY KidsAreNodes
<1> HIDE DEF s
<1>2. Up \in SUBSET Nat /\ Up # {}
  BY <1>1
<1>3. u \in Up /\ \A y \in Up : u <= y
  BY <1>2, SmallestMember
<1> HIDE DEF u
<1>4. PICK n \in S : u = s - n
  BY <1>3
<1>5. ASSUME NEW k \in S PROVE k <= n
  <2>1. s - n <= s - k
    BY <1>3, <1>4
  <2> QED
    BY <1>1, <2>1
<1> QED
  BY <1>5

(* What is below a node is from this node on; all of it is below the root.   *)
LEMMA BelowFrom ==
  ASSUME Shape, KidsYounger, NEW n \in DOMAIN tree
  PROVE  \A x \in Below[n] : \E f \in Fields : n <= f /\ x = First(f)
<1> DEFINE Good(q) == \A x \in Below[q] : \E f \in Fields : q <= f /\ x = First(f)
           Bad == {q \in DOMAIN tree : ~Good(q)}
<1>1. ASSUME NEW q \in DOMAIN tree, \A k \in Kids(q) : Good(k) PROVE Good(q)
  <2> SUFFICES ASSUME NEW x \in Below[q] PROVE \E f \in Fields : q <= f /\ x = First(f)
    OBVIOUS
  <2>1. (q \in Fields /\ x = First(q)) \/ \E k \in Kids(q) : x \in Below[k]
    BY BelowIs
  <2>2. q \in Nat
    BY KidsAreNodes
  <2>3. CASE q \in Fields /\ x = First(q)
    BY <2>2, <2>3
  <2>4. ASSUME NEW k \in Kids(q), x \in Below[k] PROVE \E f \in Fields : q <= f /\ x = First(f)
    <3>1. PICK f \in Fields : k <= f /\ x = First(f)
      BY <1>1, <2>4
    <3>2. q < k /\ k \in Nat /\ f \in Nat
      BY KidsAreNodes DEF KidsYounger, Fields
    <3> QED
      BY <2>2, <3>1, <3>2
  <2> QED
    BY <2>1, <2>3, <2>4
<1> HIDE DEF Good
<1>2. Bad = {}
  <2> SUFFICES ASSUME Bad # {} PROVE FALSE
    OBVIOUS
  <2>1. PICK q \in Bad : \A k \in Bad : k <= q
    BY LastOfNodes
  <2>2. ASSUME NEW k \in Kids(q) PROVE Good(k)
    <3>1. k \in DOMAIN tree /\ q < k /\ k \in Nat /\ q \in Nat
      BY KidsAreNodes DEF KidsYounger
    <3>2. ~(k <= q)
      BY <3>1
    <3> QED
      BY <2>1, <3>1, <3>2
  <2> QED
    BY <1>1, <2>2
<1> QED
  BY <1>2 DEF Good

LEMMA BelowRoot ==
  ASSUME Shape, KidsYounger
  PROVE  Below[0] = {First(n) : n \in Fields}
<1>1. 0 \in DOMAIN tree /\ DOMAIN tree = 0..(Size - 1) /\ Size \in Nat \ {0}
  BY KidsAreNodes
<1>2. Below[0] \subseteq {First(n) : n \in Fields}
  BY <1>1, BelowFrom
<1> DEFINE Bad == {n \in DOMAIN tree : ~(Below[n] \subseteq Below[0])}
<1>3. Bad = {}
  <2> SUFFICES ASSUME Bad # {} PROVE FALSE
    OBVIOUS
  <2> DEFINE n == Min(Bad)
  <2>1. Bad \in SUBSET Nat
    BY <1>1
  <2>2. n \in Bad /\ \A y \in Bad : n <= y
    BY <2>1, SmallestMember
  <2> HIDE DEF n
  <2>3. n \in 1..(Size - 1)
    BY <1>1, <2>2
  <2>4. PICK p \in DOMAIN tree : n \in Kids(p)
    BY <2>3 DEF Shape, HasParents, Kids, ToSet
  <2>5. p < n
    BY <2>4 DEF KidsYounger
  <2>6. Below[p] \subseteq Below[0]
    <3>1. p \in Nat /\ n \in Nat /\ ~(n <= p)
      BY <1>1, <2>3, <2>5
    <3> QED
      BY <2>2, <3>1
  <2>7. Below[n] \subseteq Below[p]
    BY <2>4, BelowIs
  <2> QED
    BY <2>2, <2>6, <2>7
<1>4. ASSUME NEW n \in Fields PROVE First(n) \in Below[0]
  <2>1. n \in DOMAIN tree /\ Below[n] \subseteq Below[0]
    BY <1>3 DEF Fields
  <2> QED
    BY <2>1, BelowIs
<1> QED
  BY <1>2, <1>4

(* While the tree is that of one message, what is below a child was made     *)
(* before its next sibling.                                                  *)
LEMMA BelowBefore ==
  ASSUME Shape, KidsYounger, Preorder, NEW p \in DOMAIN tree, NEW d \in Kids(p),
         NEW c \in DOMAIN tree, p < c, c < d
  PROVE  \A x \in Below[c] : \E f \in Fields : f < d /\ x = First(f)
<1> DEFINE Good(q) == \A x \in Below[q] : \E f \in Fields : f < d /\ x = First(f)
           Bad == {q \in DOMAIN tree : c <= q /\ q < d /\ ~Good(q)}
<1>0. \A n \in DOMAIN tree : n \in Nat
  BY KidsAreNodes
<1>1. ASSUME NEW q \in DOMAIN tree, q < d, \A k \in Kids(q) : Good(k) PROVE Good(q)
  <2> SUFFICES ASSUME NEW x \in Below[q] PROVE \E f \in Fields : f < d /\ x = First(f)
    OBVIOUS
  <2>1. (q \in Fields /\ x = First(q)) \/ \E k \in Kids(q) : x \in Below[k]
    BY BelowIs
  <2> QED
    BY <1>1, <2>1
<1> HIDE DEF Good
<1>2. Bad = {}
  <2> SUFFICES ASSUME Bad # {} PROVE FALSE
    OBVIOUS
  <2>1. PICK q \in Bad : \A k \in Bad : k <= q
    BY LastOfNodes
  <2>2. ASSUME NEW k \in Kids(q) PROVE Good(k)
    <3>1. k \in DOMAIN tree /\ q < k
      BY KidsAreNodes DEF KidsYounger
    <3>2. d \in DOMAIN tree
      BY KidsAreNodes
    <3>3. p < q
      BY <1>0
    <3>4. k < d
      BY <2>1, <3>3 DEF Preorder
    <3>5. c <= k /\ ~(k <= q)
      BY <1>0, <3>1
    <3> QED
      BY <2>1, <3>1, <3>4, <3>5
  <2> QED
    BY <1>1, <2>2
<1>3. c <= c
  BY <1>0
<1> QED
  BY <1>2, <1>3 DEF Good

(* The first column has every field of the first message, whatever its order *)
(* and whatever has been read since; and as long as it is the only one, what *)
(* stands further left in the tree stands earlier in the message.            *)
LEMMA OrderShows == Shape /\ OrderInv => FirstInOrder
<1> SUFFICES ASSUME Shape, OrderInv, messages # <<>>, frames = <<>>
             PROVE  /\ Below[0] \ {0} = {j \in DOMAIN messages[1] : messages[1][j] \notin Counters}
                    /\ column = 0 =>
                         \A p \in DOMAIN tree : \A i, j \in DOMAIN tree[p].kids : i < j =>
                           \A x \in Below[tree[p].kids[i]], y \in Below[tree[p].kids[j]] : x < y
  BY DEF FirstInOrder
<1>1. KidsYounger
  BY DEF OrderInv
<1>2. Len(messages) \in Nat \ {0} /\ messages \in Seq(Seq(AllTags)) /\ 1 \in DOMAIN messages
  BY DEF Shape, Inputs
<1>3. Len(messages) = 1 => \A j \in DOMAIN messages[1] : j < inc
  <2> SUFFICES ASSUME Len(messages) = 1, NEW j \in DOMAIN messages[1] PROVE j < inc
    OBVIOUS
  <2>1. message = messages[1] /\ messages[1] \in Seq(AllTags)
    BY <1>2 DEF message, Last
  <2>2. inc > Len(messages[1]) /\ inc \in Nat
    BY <2>1, RuvAssumption DEF OrderInv, ReadThrough, Shape, Inputs
  <2> QED
    BY <2>1, <2>2
<1>4. Below[0] \ {0} = {j \in DOMAIN messages[1] : messages[1][j] \notin Counters}
  BY <1>1, <1>3, BelowRoot DEF OrderInv, FirstFields
<1>5. ASSUME column = 0, NEW p \in DOMAIN tree, NEW i \in DOMAIN tree[p].kids,
             NEW j \in DOMAIN tree[p].kids, i < j,
             NEW x \in Below[tree[p].kids[i]], NEW y \in Below[tree[p].kids[j]]
      PROVE  x < y
  <2> DEFINE c == tree[p].kids[i]
             d == tree[p].kids[j]
  <2>1. Ordered
    <3>1. Len(messages) - 1 = 0
      BY <1>5 DEF column
    <3>2. \A k \in Nat \ {0} : k - 1 = 0 => k <= 1
      OBVIOUS
    <3>3. Len(messages) <= 1
      BY <1>2, <3>1, <3>2, Zenon
    <3> QED
      BY <3>3 DEF OrderInv
  <2>2. c \in Kids(p) /\ d \in Kids(p) /\ c \in DOMAIN tree /\ d \in DOMAIN tree
    BY KidsAreNodes
  <2>3. c < d /\ p < c
    BY <1>1, <1>5, <2>1, <2>2 DEF Ordered, Ascending, KidsYounger
  <2> HIDE DEF c, d
  <2>4. PICK m \in Fields : m < d /\ x = First(m)
    <3>1. x \in Below[c]
      BY <1>5 DEF c
    <3> QED
      BY <1>1, <2>1, <2>2, <2>3, <3>1, BelowBefore DEF Ordered
  <2>5. PICK n \in Fields : d <= n /\ y = First(n)
    <3>1. y \in Below[d]
      BY <1>5 DEF d
    <3> QED
      BY <1>1, <2>2, <3>1, BelowFrom
  <2>6. m < n
    <3>1. m \in Nat /\ n \in Nat /\ d \in Nat
      BY <2>2, KidsAreNodes DEF Fields
    <3> QED
      BY <2>4, <2>5, <3>1
  <2> QED
    BY <2>1, <2>4, <2>5, <2>6 DEF Ordered, LaterHigher
<1> QED
  BY <1>4, <1>5

(* The first column has every field of the first message, and from left to   *)
(* right they are the message again; when others have been read it still has *)
(* every field.  ssmake's message may be in no order at all, with stops      *)
(* missing, repeated or crossed; rmake's has no counter twice in one place.  *)
THEOREM FirstMessageInOrder == Spec => []FirstInOrder
<1> QED
  BY AlwaysOrdered, OrderShows, PTL
==============================================================================
