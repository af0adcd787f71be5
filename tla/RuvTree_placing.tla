--------------------------- MODULE RuvTree_placing ---------------------------
(***************************************************************************)
(* PlacedAsWritten of RuvTree, for any tags, any groups and all messages:  *)
(* between two messages the column of each of them holds every field of it *)
(* at the entry and the group that the format gives it, and nothing else.  *)
(*                                                                         *)
(* The invariant is PlaceInv, beside Shape, FixInv and OrderInv of         *)
(* RuvTree_proofs.  It says of the tree that a node has one parent and so  *)
(* one path (PathIsOwn), and of the calls that the path of the node a call *)
(* fills in can be read off the calls outside it: of every one of them the *)
(* group whose entries it reads, and the turn it is at (CallsPlaced).  The *)
(* format gives the pair that is read next that very place (HomeIsPlace),  *)
(* because the entries it has open there are those the calls are for:      *)
(* EntriesFollow of rmake, StartsFollow of ssmake.  For the turn of a call *)
(* to be the number of its entry in the tree, the tree must have as many   *)
(* entries as the calls have seen, or more from earlier messages           *)
(* (EntriesMade); and for a turn of rmake to be the first of its group in  *)
(* its place no group may stand twice in one, which is the assumption on   *)
(* the input (SeenBefore), while ssmake counts the starts in front         *)
(* (StartsCounted).  Then the columns: what has been read of a message is  *)
(* what its column holds (ColumnsPlaced), since ReadField adds one value,  *)
(* in the node of this place (FieldGoes, FieldColumn).                     *)
(***************************************************************************)
EXTENDS RuvTree_proofs

-----------------------------------------------------------------------------

(* Rows: how many of the first n tags of a row are t.                        *)
Upto(row, n, t) == Cardinality({i \in 1..n : row[i] = t})

LEMMA UptoIs ==
  ASSUME NEW row, NEW t
  PROVE  /\ Upto(row, 0, t) = 0
         /\ \A n \in Nat : /\ Upto(row, n, t) \in Nat
                           /\ Upto(row, n + 1, t) = Upto(row, n, t) + (IF row[n + 1] = t THEN 1 ELSE 0)
<1> DEFINE of(n) == {i \in 1..n : row[i] = t}
<1>1. ASSUME NEW n \in Nat PROVE IsFiniteSet(of(n)) /\ Cardinality(of(n)) \in Nat
  <2>1. IsFiniteSet(1..n)
    BY FS_Interval
  <2>2. IsFiniteSet(of(n))
    BY <2>1, FS_Subset
  <2> QED
    BY <2>2, FS_CardinalityType
<1>2. of(0) = {}
  OBVIOUS
<1>3. ASSUME NEW n \in Nat
      PROVE  Cardinality(of(n + 1)) = Cardinality(of(n)) + (IF row[n + 1] = t THEN 1 ELSE 0)
  <2>1. CASE row[n + 1] = t
    <3>1. of(n + 1) = of(n) \cup {n + 1} /\ n + 1 \notin of(n)
      BY <2>1
    <3> HIDE DEF of
    <3>2. Cardinality(of(n) \cup {n + 1}) = Cardinality(of(n)) + 1
      BY <1>1, <3>1, FS_AddElement
    <3> QED
      BY <2>1, <3>1, <3>2
  <2>2. CASE row[n + 1] # t
    <3>1. of(n + 1) = of(n)
      BY <2>2
    <3> HIDE DEF of
    <3> QED
      BY <1>1, <2>2, <3>1
  <2> QED
    BY <2>1, <2>2
<1>4. Cardinality(of(0)) = 0
  BY <1>2, FS_EmptySet
<1> QED
  BY <1>1, <1>3, <1>4 DEF Upto

LEMMA UptoSame ==
  ASSUME NEW old, NEW new, NEW n \in Nat, NEW t, \A i \in 1..n : old[i] = t <=> new[i] = t
  PROVE  Upto(old, n, t) = Upto(new, n, t)
<1>1. {i \in 1..n : old[i] = t} = {i \in 1..n : new[i] = t}
  OBVIOUS
<1> QED
  BY <1>1 DEF Upto

LEMMA UptoNone ==
  ASSUME NEW row, NEW k \in Nat, NEW n \in Nat, k <= n, NEW t,
         \A i \in 1..n : row[i] = t => i <= k
  PROVE  Upto(row, n, t) = Upto(row, k, t)
<1>1. {i \in 1..n : row[i] = t} = {i \in 1..k : row[i] = t}
  OBVIOUS
<1> QED
  BY <1>1 DEF Upto

LEMMA UptoLess ==
  ASSUME NEW row, NEW a \in Nat, NEW b \in Nat \ {0}, a < b
  PROVE  /\ Upto(row, a, row[b]) < Upto(row, b, row[b])
         /\ \A t : Upto(row, a, t) <= Upto(row, b, t)
<1>1. ASSUME NEW m \in Nat, NEW n \in Nat, m <= n, NEW t PROVE Upto(row, m, t) <= Upto(row, n, t)
  <2>1. IsFiniteSet(1..n)
    BY FS_Interval
  <2>2. IsFiniteSet({i \in 1..n : row[i] = t})
    BY <2>1, FS_Subset
  <2>3. {i \in 1..m : row[i] = t} \in SUBSET {i \in 1..n : row[i] = t}
    BY <1>1
  <2> QED
    BY <2>2, <2>3, FS_Subset DEF Upto
<1> DEFINE t == row[b]
           k == b - 1
<1>2. k \in Nat /\ a <= k /\ k + 1 = b
  OBVIOUS
<1> HIDE DEF k
<1>3. /\ Upto(row, k, t) \in Nat /\ Upto(row, a, t) \in Nat
      /\ Upto(row, k + 1, t) = Upto(row, k, t) + (IF row[k + 1] = t THEN 1 ELSE 0)
  BY <1>2, UptoIs
<1>4. Upto(row, a, t) <= Upto(row, k, t)
  BY <1>1, <1>2
<1>5. Upto(row, b, t) = Upto(row, k, t) + 1
  BY <1>2, <1>3
<1>6. Upto(row, a, t) < Upto(row, b, t)
  BY <1>3, <1>4, <1>5
<1> QED
  BY <1>1, <1>6

(* Tags that stand together are counted by their places.                     *)
LEMMA UptoTogether ==
  ASSUME NEW row, NEW n \in Nat, NEW t, NEW a \in Nat, NEW z \in Nat, a <= z,
         {i \in 1..n : row[i] = t} = a..z
  PROVE  /\ Upto(row, n, t) = z - a + 1
         /\ \A k \in a..z : Upto(row, k, t) = k - a + 1
<1>1. ASSUME NEW k \in a..z PROVE {i \in 1..k : row[i] = t} = a..k
  <2>1. a \in 1..n /\ z \in 1..n
    OBVIOUS
  <2>2. \A i \in 1..k : i \in 1..n
    BY <2>1
  <2>3. \A i : i \in 1..k /\ row[i] = t <=> i \in 1..k /\ i \in a..z
    BY <2>2
  <2>4. \A i : i \in 1..k /\ i \in a..z <=> i \in a..k
    BY <2>1
  <2> QED
    BY <2>3, <2>4
<1>2. ASSUME NEW k \in a..z PROVE Cardinality(a..k) = k - a + 1
  BY FS_Interval
<1>3. \A k \in a..z : Upto(row, k, t) = k - a + 1
  BY <1>1, <1>2 DEF Upto
<1>4. z \in a..z
  OBVIOUS
<1>5. Cardinality(a..z) = z - a + 1
  BY <1>2, <1>4
<1> QED
  BY <1>3, <1>5 DEF Upto

(* A new tag that stands behind those like it leaves every other its turn,   *)
(* and is the last of its own.                                               *)
LEMMA GrownTurns ==
  ASSUME NEW old, NEW new, NEW place, NEW tag, Grown(old, new, place, tag),
         NEW n \in Nat, DOMAIN old = 1..n,
         \A i \in 1..n : old[i] = tag => i < place
  PROVE  /\ new[place] = tag /\ Upto(new, place, tag) = Upto(old, n, tag) + 1
         /\ Upto(new, n + 1, tag) = Upto(old, n, tag) + 1
         /\ \A g : g # tag => Upto(new, n + 1, g) = Upto(old, n, g)
         /\ \A a \in 1..n : \E b \in 1..(n + 1) :
              /\ b = IF a < place THEN a ELSE a + 1
              /\ new[b] = old[a] /\ Upto(new, b, old[a]) = Upto(old, a, old[a])
<1>1. /\ place \in 1..(n + 1) /\ DOMAIN new = 1..(n + 1)
      /\ \A i \in 1..(n + 1) :
           new[i] = IF i < place THEN old[i] ELSE IF i = place THEN tag ELSE old[i - 1]
  <2>1. PICK k \in Nat :
          /\ place \in 1..(k + 1) /\ DOMAIN old = 1..k /\ DOMAIN new = 1..(k + 1)
          /\ \A i \in 1..(k + 1) :
               new[i] = IF i < place THEN old[i] ELSE IF i = place THEN tag ELSE old[i - 1]
    BY DEF Grown
  <2>2. 1..k = 1..n
    BY <2>1
  <2>3. k = n
    BY <2>2
  <2> QED
    BY <2>1, <2>3
<1> DEFINE p == place - 1
<1>2. p \in 0..n /\ p \in Nat /\ p + 1 = place /\ place \in Nat
  BY <1>1
<1>3. \A i \in 1..p : new[i] = old[i]
  BY <1>1
<1>4. \A i \in 1..n : i > p => new[i + 1] = old[i]
  <2> SUFFICES ASSUME NEW i \in 1..n, i > p PROVE new[i + 1] = old[i]
    OBVIOUS
  <2>1. i + 1 \in 1..(n + 1) /\ ~(i + 1 < place) /\ i + 1 # place /\ (i + 1) - 1 = i
    BY <1>2
  <2> QED
    BY <1>1, <2>1
<1>5. new[place] = tag
  BY <1>1
<1>6. \A i \in 1..n : old[i] = tag => i <= p
  BY <1>2
<1>7. \A i \in 1..(n + 1) : new[i] = tag => i <= place
  BY <1>1, <1>2, <1>4, <1>6
<1> HIDE DEF p
<1>8. \A k \in 0..p : \A t : Upto(new, k, t) = Upto(old, k, t)
  <2> SUFFICES ASSUME NEW k \in 0..p, NEW t PROVE Upto(new, k, t) = Upto(old, k, t)
    OBVIOUS
  <2>1. k \in Nat /\ \A i \in 1..k : i \in 1..p
    BY <1>2
  <2>2. \A i \in 1..k : old[i] = t <=> new[i] = t
    BY <1>3, <2>1
  <2> QED
    BY <2>1, <2>2, UptoSame
<1>9. Upto(new, place, tag) = Upto(old, n, tag) + 1
  <2>1. Upto(new, p + 1, tag) = Upto(new, p, tag) + 1
    BY <1>2, <1>5, UptoIs
  <2>2. Upto(old, n, tag) = Upto(old, p, tag)
    BY <1>2, <1>6, UptoNone
  <2>3. p \in 0..p
    BY <1>2
  <2> QED
    BY <1>2, <1>8, <2>1, <2>2, <2>3
<1>10. Upto(new, n + 1, tag) = Upto(new, place, tag)
  BY <1>1, <1>2, <1>7, UptoNone
<1>11. ASSUME NEW t, t # tag PROVE \A k \in p..n : Upto(new, k + 1, t) = Upto(old, k, t)
  <2> DEFINE Bad == {k \in p..n : Upto(new, k + 1, t) # Upto(old, k, t)}
  <2> SUFFICES ASSUME Bad # {} PROVE FALSE
    OBVIOUS
  <2>1. Bad \in SUBSET Nat
    BY <1>2
  <2> DEFINE k == Min(Bad)
  <2>2. k \in Bad /\ \A y \in Bad : k <= y
    BY <2>1, SmallestMember
  <2> HIDE DEF k
  <2>3. k \in Nat /\ k \in p..n /\ Upto(new, k + 1, t) # Upto(old, k, t)
    BY <2>1, <2>2
  <2>4. Upto(new, k + 1, t) = Upto(new, k, t) + (IF new[k + 1] = t THEN 1 ELSE 0)
    BY <2>3, UptoIs
  <2>5. CASE k = p
    <3>1. new[k + 1] # t /\ k \in 0..p
      BY <1>2, <1>5, <1>11, <2>5
    <3>2. Upto(new, k, t) = Upto(old, k, t) /\ Upto(new, k, t) \in Nat
      BY <1>8, <2>3, <3>1, UptoIs
    <3> QED
      BY <2>3, <2>4, <3>1, <3>2
  <2>6. CASE k # p
    <3> DEFINE j == k - 1
    <3>1. j \in Nat /\ j \in p..n /\ j + 1 = k /\ ~(k <= j) /\ k \in 1..n /\ k > p
      BY <1>2, <2>3, <2>6
    <3> HIDE DEF j
    <3>2. Upto(new, j + 1, t) = Upto(old, j, t)
      BY <2>2, <3>1
    <3>3. Upto(old, j + 1, t) = Upto(old, j, t) + (IF old[j + 1] = t THEN 1 ELSE 0)
      BY <3>1, UptoIs
    <3>4. new[k + 1] = old[k]
      BY <1>4, <3>1
    <3> QED
      BY <2>3, <2>4, <3>1, <3>2, <3>3, <3>4
  <2> QED
    BY <2>5, <2>6
<1>12. \A g : g # tag => Upto(new, n + 1, g) = Upto(old, n, g)
  <2>1. n \in p..n
    BY <1>2
  <2> QED
    BY <1>11, <2>1
<1>13. ASSUME NEW a \in 1..n
       PROVE  \E b \in 1..(n + 1) :
                /\ b = IF a < place THEN a ELSE a + 1
                /\ new[b] = old[a] /\ Upto(new, b, old[a]) = Upto(old, a, old[a])
  <2>1. CASE a < place
    <3>1. a \in 1..p /\ a \in 0..p /\ a \in 1..(n + 1)
      BY <1>2, <2>1
    <3> QED
      BY <1>3, <1>8, <2>1, <3>1
  <2>2. CASE ~(a < place)
    <3>1. a > p /\ a \in p..n /\ a + 1 \in 1..(n + 1) /\ old[a] # tag
      BY <1>2, <1>6, <2>2
    <3> QED
      BY <1>4, <1>11, <2>2, <3>1
  <2> QED
    BY <2>1, <2>2
<1> QED
  BY <1>5, <1>9, <1>10, <1>12, <1>13
(* The way from the root, read off the calls: of every call but the last the *)
(* group whose entries it reads, and the turn it is at.                      *)
Reads(d) == message[frames[d].counter]
Place(d) == [e \in 1..(d - 1) |-> <<Reads(e), frames[e].seen[Reads(e)]>>]

Made(p, g) == Upto(Row(p), Len(tree[p].kids), g)

Proper(m) == maker = "ssmake" => WellFormed(m)

OneParent ==
  \A p, q \in DOMAIN tree : \A a \in DOMAIN tree[p].kids, b \in DOMAIN tree[q].kids :
    tree[p].kids[a] = tree[q].kids[b] => p = q /\ a = b

CallsPlaced == \A d \in DOMAIN frames : Path[frames[d].node] = Place(d)

CountersPlaced ==
  \A d \in DOMAIN frames : frames[d].counter # 0 => Home(message)[frames[d].counter] = Place(d)

EntriesMade ==
  \A d \in DOMAIN frames : \A g \in Counters :
    LET made == Made(frames[d].node, g)
    IN  frames[d].seen[g] <= made /\ (column = 0 => frames[d].seen[g] = made)

(* A group whose entries are read has a member behind its counter.           *)
CountersOpen ==
  \A d \in DOMAIN frames : frames[d].counter # 0 =>
    frames[d].counter < Len(message) /\ message[frames[d].counter + 1] \in Members(Reads(d))

HomesInTree ==
  \A k \in 1..(inc - 1) : \E q \in DOMAIN tree : Home(message)[k] = Path[q]

(* rmake: the entry of every open group is the one the call is for.          *)
EntryRead(d, e) ==
  LET x == frames[d + 1]
  IN  \/ /\ frames[d].seen[e.group] = e.nth /\ e.has = Groups[e.group] \ x.rest
      \/ /\ frames[d].seen[e.group] = e.nth + 1 /\ token \in e.has
         /\ d + 1 = Len(frames) /\ x.counter = 0 /\ x.rest = Groups[e.group] /\ token \in x.rest

EntryToCome(d, e) ==
  \/ frames[d].seen[e.group] = e.nth - 1 /\ e.has = {}
  \/ frames[d].seen[e.group] = e.nth /\ (token \in Groups[e.group] => token \in e.has)

EntriesFollow ==
  More =>
    LET outer == Outer(message, OpenEntries(message)[inc - 1], inc)
    IN  \A d \in DOMAIN frames : frames[d].counter # 0 =>
          IF d < Len(frames) THEN EntryRead(d, outer[d]) ELSE EntryToCome(d, outer[d])

SeenBefore ==
  \A d \in DOMAIN frames : \A g \in Counters : frames[d].seen[g] > 0 =>
    \E k \in 1..(inc - 1) : message[k] = g /\ Home(message)[k] = Place(d)

(* ssmake: the calls are for the entries that are open; behind the last pair *)
(* of an entry its stop is still to be read.                                 *)
InSsTags == \A c \in DOMAIN messages : messages[c] \in Seq(SsTags)

RestWhole ==
  \A d \in DOMAIN frames \ {1} : frames[d].rest = Members(Reads(d - 1))

OpenNow == Inside(message, StartStopEntries(message), inc)

StartsFollow ==
  More =>
    LET n == Len(frames)
        outer == OpenNow
    IN  /\ \A d \in 1..(n - 1) : outer[d] = <<Reads(d), frames[d].seen[Reads(d)]>>
        /\ IF top.counter = 0
           THEN Len(outer) = n - 1 \/ (Len(outer) = n /\ token = Stops[outer[n][1]])
           ELSE /\ Len(outer) = n /\ outer[n][1] = Reads(n)
                /\ \/ token = Stops[Reads(n)] /\ outer[n][2] = top.seen[Reads(n)]
                   \/ /\ token # Stops[Reads(n)] /\ top.counter = inc - 1
                      /\ outer[n][2] = top.seen[Reads(n)] + 1

(* The starts that a call has read the entry of: all in its place, but for   *)
(* the one it has just read.                                                 *)
Counted(d, g, k) ==
  /\ Starts(message, k) /\ message[k] = g /\ Home(message)[k] = Place(d)
  /\ ~(d = Len(frames) /\ frames[d].counter = k /\ k = inc - 1)

StartsCounted ==
  \A d \in DOMAIN frames : \A g \in Counters :
    frames[d].seen[g] = Cardinality({k \in 1..(inc - 1) : Counted(d, g, k)})

CallsFollow ==
  frames # <<>> /\ Proper(message) =>
    /\ CallsPlaced /\ CountersPlaced /\ HomesInTree
    /\ maker = "rmake" => EntriesFollow /\ SeenBefore
    /\ maker = "ssmake" => StartsFollow /\ StartsCounted

WrittenTo(c, n) ==
  LET m == messages[c + 1]
      home == Home(m)
  IN  {<<home[j], m[j], j>> : j \in
         {i \in 1..n : /\ m[i] \notin Counters
                       /\ c > 0 => ~\E k \in 1..n : k > i /\ m[k] = m[i] /\ home[k] = home[i]}}

ReadTo(c) == IF c = column THEN inc - 1 ELSE Len(messages[c + 1])

ColumnsPlaced ==
  \A c \in 0..column : Proper(messages[c + 1]) => Column(c) = WrittenTo(c, ReadTo(c))

EmptyAhead == \A n \in DOMAIN tree : \A c \in Cols : c > column => tree[n].vals[c] = 0

FirstOfTag ==
  \A n \in Fields : \A c \in Cols : c > 0 /\ tree[n].vals[c] # 0 => Rank(n) = 1

ReadNoFurther == messages # <<>> => inc <= Len(message) + 1

OneSs == maker = "ssmake" => Len(messages) <= 1

PlaceInv ==
  /\ OneParent /\ CountersOpen /\ EntriesMade /\ CallsFollow
  /\ maker = "ssmake" => InSsTags /\ RestWhole
  /\ ColumnsPlaced /\ EmptyAhead /\ FirstOfTag /\ ReadNoFurther /\ OneSs

-----------------------------------------------------------------------------
(* Paths: every node but the root is the child of one node, has the rank of  *)
(* its place in the row there, and its path is its parent's and one step.    *)
LEMMA OnlyParent ==
  ASSUME Shape, OneParent, NEW p \in DOMAIN tree, NEW a \in DOMAIN tree[p].kids
  PROVE  Parent(tree[p].kids[a]) = p /\ Rank(tree[p].kids[a]) = Upto(Row(p), a, Row(p)[a])
<1> DEFINE n == tree[p].kids[a]
<1>1. \A q \in DOMAIN tree : (\E i \in DOMAIN tree[q].kids : tree[q].kids[i] = n) <=> q = p
  BY DEF OneParent
<1>2. Parent(n) = p
  BY <1>1 DEF Parent
<1>3. (CHOOSE i \in DOMAIN tree[p].kids : tree[p].kids[i] = n) = a
  BY DEF OneParent
<1>4. Rank(n) = Cardinality({i \in 1..a : tree[tree[p].kids[i]].tag = tree[n].tag})
  BY <1>2, <1>3 DEF Rank
<1>5. /\ DOMAIN tree[p].kids = 1..Len(tree[p].kids) /\ Len(tree[p].kids) \in Nat
  BY KidsAreNodes
<1>6. \A i \in 1..a : i \in DOMAIN tree[p].kids /\ Row(p)[i] = tree[tree[p].kids[i]].tag
  BY <1>5 DEF Row, Tag
<1>7. Row(p)[a] = tree[n].tag
  BY DEF Row, Tag
<1>8. {i \in 1..a : tree[tree[p].kids[i]].tag = tree[n].tag} = {i \in 1..a : Row(p)[i] = Row(p)[a]}
  BY <1>6, <1>7
<1> QED
  BY <1>2, <1>4, <1>8 DEF Upto

LEMMA ParentOf ==
  ASSUME Shape, KidsYounger, OneParent, NEW n \in DOMAIN tree \ {0}
  PROVE  \E p \in DOMAIN tree : \E a \in DOMAIN tree[p].kids :
           /\ tree[p].kids[a] = n /\ p < n /\ p = Parent(n) /\ Rank(n) = Upto(Row(p), a, Row(p)[a])
           /\ Row(p)[a] = Tag(n) /\ Tag(n) \in AllTags /\ Rank(n) \in Nat
<1>1. Size \in Nat \ {0} /\ DOMAIN tree = 0..(Size - 1)
  BY KidsAreNodes
<1>2. n \in 1..(Size - 1)
  BY <1>1
<1>3. PICK p \in DOMAIN tree : \E i \in DOMAIN tree[p].kids : tree[p].kids[i] = n
  BY <1>2 DEF Shape, HasParents
<1>4. PICK a \in DOMAIN tree[p].kids : tree[p].kids[a] = n
  BY <1>3
<1>5. p < n
  <2>1. n \in Kids(p)
    BY <1>4, KidsAreNodes
  <2> QED
    BY <2>1 DEF KidsYounger
<1>6. p = Parent(n) /\ Rank(n) = Upto(Row(p), a, Row(p)[a])
  BY <1>4, OnlyParent
<1>7. Row(p)[a] = Tag(n) /\ Tag(n) \in AllTags
  BY <1>2, <1>4 DEF Row, Shape, IsTree
<1>8. a \in Nat
  BY KidsAreNodes
<1>9. Upto(Row(p), a, Row(p)[a]) \in Nat
  BY <1>8, UptoIs
<1> QED
  BY <1>4, <1>5, <1>6, <1>7, <1>9

LEMMA PathIs ==
  ASSUME Shape, KidsYounger, OneParent
  PROVE  /\ Path[0] = <<>>
         /\ \A n \in DOMAIN tree \ {0} : Path[n] = Append(Path[Parent(n)], <<Tag(n), Rank(n)>>)
<1> DEFINE s == Size
           step(n) == <<tree[n].tag, Rank(n)>>
           Follows(f, k) ==
             f = [n \in 0..(k - 1) |-> IF n = 0 THEN <<>> ELSE Append(f[Parent(n)], step(n))]
           Bad == {k \in Nat : k <= s /\ ~\E f : Follows(f, k)}
<1>1. s \in Nat \ {0} /\ DOMAIN tree = 0..(s - 1)
  BY KidsAreNodes
<1>2. \A n \in 1..(s - 1) : Parent(n) \in 0..(n - 1)
  <2> SUFFICES ASSUME NEW n \in 1..(s - 1) PROVE Parent(n) \in 0..(n - 1)
    OBVIOUS
  <2>1. n \in DOMAIN tree \ {0}
    BY <1>1
  <2>2. Parent(n) \in DOMAIN tree /\ Parent(n) < n
    BY <2>1, ParentOf
  <2> QED
    BY <1>1, <2>2
<1> HIDE DEF s, step
<1>3. 0 \notin Bad
  <2> DEFINE f == [n \in 0..(0 - 1) |-> <<>>]
  <2>1. 0..(0 - 1) = {}
    OBVIOUS
  <2>2. Follows(f, 0)
    BY <2>1
  <2> QED
    BY <2>2
<1>4. ASSUME NEW k \in Nat \ {0}, k <= s, k - 1 \notin Bad PROVE k \notin Bad
  <2> DEFINE l == k - 1
  <2>1. l \in Nat /\ l <= s /\ l \in 0..(k - 1) /\ l <= s - 1
    BY <1>1, <1>4
  <2>2. PICK f : Follows(f, l)
    BY <1>4, <2>1
  <2> HIDE DEF l
  <2>3. \A n \in 0..(l - 1) : f[n] = IF n = 0 THEN <<>> ELSE Append(f[Parent(n)], step(n))
    BY <2>2
  <2> DEFINE g == [n \in 0..l |-> IF n = l THEN IF l = 0 THEN <<>> ELSE Append(f[Parent(l)], step(l))
                                  ELSE f[n]]
  <2>4. ASSUME NEW n \in 0..l PROVE g[n] = IF n = 0 THEN <<>> ELSE Append(g[Parent(n)], step(n))
    <3>1. CASE n = 0
      <4>1. n # l => n \in 0..(l - 1)
        BY <2>1, <3>1
      <4> QED
        BY <2>3, <3>1, <4>1
    <3>2. CASE n # 0
      <4>1. n \in 1..(s - 1)
        BY <1>1, <2>1, <3>2
      <4>2. Parent(n) \in 0..(n - 1)
        BY <1>2, <4>1
      <4>3. Parent(n) \in 0..l /\ Parent(n) # l
        BY <2>1, <4>2
      <4>4. g[Parent(n)] = f[Parent(n)]
        BY <4>3
      <4>5. n # l => n \in 0..(l - 1)
        BY <2>1
      <4> QED
        BY <2>3, <3>2, <4>4, <4>5
    <3> QED
      BY <3>1, <3>2
  <2>5. DOMAIN g = 0..l /\ g = [n \in 0..l |-> g[n]]
    OBVIOUS
  <2> HIDE DEF g
  <2>6. g = [n \in 0..l |-> IF n = 0 THEN <<>> ELSE Append(g[Parent(n)], step(n))]
    BY <2>4, <2>5
  <2>7. Follows(g, k)
    BY <2>6 DEF l
  <2> QED
    BY <2>7
<1>5. Bad = {}
  <2> HIDE DEF Bad
  <2> SUFFICES ASSUME Bad # {} PROVE FALSE
    OBVIOUS
  <2> DEFINE k == Min(Bad)
  <2>1. Bad \in SUBSET Nat /\ \A e \in Bad : e <= s
    BY DEF Bad
  <2>2. k \in Bad /\ \A y \in Bad : k <= y
    BY <2>1, SmallestMember
  <2> HIDE DEF k
  <2>3. k \in Nat \ {0} /\ k <= s
    BY <1>3, <2>1, <2>2
  <2>4. k - 1 \notin Bad
    BY <2>1, <2>2, <2>3
  <2> QED
    BY <1>4, <2>2, <2>3, <2>4
<1>6. \E f : Follows(f, s)
  <2>1. s \in Nat /\ s <= s
    BY <1>1
  <2> QED
    BY <1>5, <2>1, Zenon
<1>7. \E f : f = [n \in DOMAIN tree |-> IF n = 0 THEN <<>> ELSE Append(f[Parent(n)], step(n))]
  BY <1>1, <1>6
<1> DEFINE path == Path
<1>8. path = [n \in DOMAIN tree |-> IF n = 0 THEN <<>> ELSE Append(path[Parent(n)], step(n))]
  BY <1>7, Zenon DEF Path, step
<1> HIDE DEF path
<1>9. \A n \in DOMAIN tree : path[n] = IF n = 0 THEN <<>> ELSE Append(path[Parent(n)], step(n))
  BY <1>8
<1>10. 0 \in DOMAIN tree
  BY <1>1
<1>11. path[0] = <<>>
  BY <1>9, <1>10
<1>12. \A n \in DOMAIN tree \ {0} : path[n] = Append(path[Parent(n)], step(n))
  BY <1>9
<1> QED
  BY <1>11, <1>12 DEF path, step, Tag

(* A path is a sequence of steps, and no two nodes have the same.            *)
Steps == AllTags \X Nat

LEMMA PathIsSteps ==
  ASSUME Shape, KidsYounger, OneParent
  PROVE  \A n \in DOMAIN tree : Path[n] \in Seq(Steps)
<1> DEFINE Bad == {n \in DOMAIN tree : Path[n] \notin Seq(Steps)}
<1> SUFFICES ASSUME Bad # {} PROVE FALSE
  OBVIOUS
<1>1. Bad \in SUBSET Nat
  BY KidsAreNodes
<1> DEFINE n == Min(Bad)
<1>2. n \in Bad /\ \A y \in Bad : n <= y
  BY <1>1, SmallestMember
<1> HIDE DEF n
<1>3. n \in DOMAIN tree /\ Path[n] \notin Seq(Steps) /\ n \in Nat
  BY <1>1, <1>2
<1>4. n # 0
  <2>1. <<>> \in Seq(Steps)
    OBVIOUS
  <2> QED
    BY <1>3, <2>1, PathIs
<1>5. PICK p \in DOMAIN tree : p = Parent(n) /\ p < n /\ Tag(n) \in AllTags /\ Rank(n) \in Nat
  BY <1>3, <1>4, ParentOf
<1>6. p \in Nat /\ p \notin Bad
  BY <1>2, <1>3, <1>5, KidsAreNodes
<1>7. Path[p] \in Seq(Steps) /\ <<Tag(n), Rank(n)>> \in Steps
  BY <1>5, <1>6 DEF Steps
<1>8. Path[n] = Append(Path[p], <<Tag(n), Rank(n)>>)
  BY <1>3, <1>4, <1>5, PathIs
<1> QED
  BY <1>3, <1>7, <1>8

LEMMA AppendSame ==
  ASSUME NEW s \in Seq(Steps), NEW t \in Seq(Steps), NEW x \in Steps, NEW y \in Steps,
         Append(s, x) = Append(t, y)
  PROVE  s = t /\ x = y
<1>1. Len(s) + 1 = Len(t) + 1
  <2>1. Len(Append(s, x)) = Len(s) + 1 /\ Len(Append(t, y)) = Len(t) + 1
    OBVIOUS
  <2> QED
    BY <2>1
<1>2. Len(s) = Len(t) /\ Len(s) \in Nat
  BY <1>1
<1>3. x = y
  <2>1. Append(s, x)[Len(s) + 1] = x /\ Append(t, y)[Len(t) + 1] = y
    OBVIOUS
  <2> QED
    BY <1>2, <2>1
<1>4. \A i \in 1..Len(s) : s[i] = t[i]
  <2>1. \A i \in 1..Len(s) : Append(s, x)[i] = s[i] /\ Append(t, y)[i] = t[i]
    BY <1>2
  <2> QED
    BY <2>1
<1>5. s = t
  BY <1>2, <1>4
<1> QED
  BY <1>3, <1>5

LEMMA PathIsOwn ==
  ASSUME Shape, KidsYounger, OneParent
  PROVE  \A m, n \in DOMAIN tree : Path[m] = Path[n] => m = n
<1> DEFINE Bad == {m \in DOMAIN tree : \E n \in DOMAIN tree : m # n /\ Path[m] = Path[n]}
<1> SUFFICES ASSUME Bad # {} PROVE FALSE
  OBVIOUS
<1>1. Bad \in SUBSET Nat
  BY KidsAreNodes
<1> DEFINE m == Min(Bad)
<1>2. m \in Bad /\ \A y \in Bad : m <= y
  BY <1>1, SmallestMember
<1> HIDE DEF m
<1>3. PICK n \in DOMAIN tree : m # n /\ Path[m] = Path[n]
  BY <1>2
<1>4. m \in DOMAIN tree /\ m \in Nat /\ n \in Nat /\ n \in Bad
  BY <1>1, <1>2, <1>3, KidsAreNodes
<1>5. ASSUME NEW k \in DOMAIN tree \ {0}
      PROVE  Path[k] # <<>>
  <2>1. PICK p \in DOMAIN tree : p = Parent(k) /\ Tag(k) \in AllTags /\ Rank(k) \in Nat
    BY ParentOf
  <2>2. Path[k] = Append(Path[p], <<Tag(k), Rank(k)>>) /\ Path[p] \in Seq(Steps)
    BY <2>1, PathIs, PathIsSteps
  <2> QED
    BY <2>2
<1>6. m # 0 /\ n # 0
  BY <1>3, <1>4, <1>5, PathIs
<1>7. PICK p \in DOMAIN tree : \E a \in DOMAIN tree[p].kids :
        /\ tree[p].kids[a] = m /\ p < m /\ p = Parent(m) /\ Rank(m) = Upto(Row(p), a, Row(p)[a])
        /\ Row(p)[a] = Tag(m) /\ Tag(m) \in AllTags /\ Rank(m) \in Nat
  BY <1>4, <1>6, ParentOf
<1>70. PICK a \in DOMAIN tree[p].kids :
        /\ tree[p].kids[a] = m /\ p < m /\ p = Parent(m) /\ Rank(m) = Upto(Row(p), a, Row(p)[a])
        /\ Row(p)[a] = Tag(m) /\ Tag(m) \in AllTags /\ Rank(m) \in Nat
  BY <1>7
<1>8. PICK q \in DOMAIN tree : \E b \in DOMAIN tree[q].kids :
        /\ tree[q].kids[b] = n /\ q < n /\ q = Parent(n) /\ Rank(n) = Upto(Row(q), b, Row(q)[b])
        /\ Row(q)[b] = Tag(n) /\ Tag(n) \in AllTags /\ Rank(n) \in Nat
  BY <1>4, <1>6, ParentOf
<1>80. PICK b \in DOMAIN tree[q].kids :
        /\ tree[q].kids[b] = n /\ q < n /\ q = Parent(n) /\ Rank(n) = Upto(Row(q), b, Row(q)[b])
        /\ Row(q)[b] = Tag(n) /\ Tag(n) \in AllTags /\ Rank(n) \in Nat
  BY <1>8
<1>9. Path[p] = Path[q] /\ Tag(m) = Tag(n) /\ Rank(m) = Rank(n)
  <2>1. /\ Path[m] = Append(Path[p], <<Tag(m), Rank(m)>>)
        /\ Path[n] = Append(Path[q], <<Tag(n), Rank(n)>>)
    BY <1>4, <1>6, <1>70, <1>80, PathIs
  <2>2. Path[p] \in Seq(Steps) /\ Path[q] \in Seq(Steps)
    BY PathIsSteps
  <2> DEFINE x == <<Tag(m), Rank(m)>>
             y == <<Tag(n), Rank(n)>>
  <2>3. x \in Steps /\ y \in Steps
    BY <1>70, <1>80 DEF Steps
  <2>4. Append(Path[p], x) = Append(Path[q], y)
    BY <1>3, <2>1
  <2>5. Path[p] = Path[q] /\ x = y
    <3> HIDE DEF x, y
    <3> QED
      BY <2>2, <2>3, <2>4, AppendSame
  <2> QED
    BY <2>5
<1>10. p = q
  <2>1. p \in Nat /\ p < m /\ q \in DOMAIN tree /\ p \in DOMAIN tree
    BY <1>7, <1>8, <1>70, KidsAreNodes
  <2>2. p \notin Bad
    BY <1>2, <1>4, <2>1
  <2> QED
    BY <1>9, <2>1, <2>2
<1>11. a \in Nat \ {0} /\ b \in Nat \ {0}
  <2>1. DOMAIN tree[p].kids = 1..Len(tree[p].kids) /\ Len(tree[p].kids) \in Nat
    BY <1>7, KidsAreNodes
  <2>2. DOMAIN tree[q].kids = 1..Len(tree[q].kids) /\ Len(tree[q].kids) \in Nat
    BY <1>8, KidsAreNodes
  <2> QED
    BY <1>70, <1>80, <2>1, <2>2
<1>12. Upto(Row(p), a, Tag(m)) = Upto(Row(p), b, Tag(m)) /\ Row(p)[b] = Tag(m) /\ Row(p)[a] = Tag(m)
  BY <1>70, <1>80, <1>9, <1>10
<1>13. Upto(Row(p), a, Tag(m)) \in Nat /\ Upto(Row(p), b, Tag(m)) \in Nat
  BY <1>11, UptoIs
<1>14. ~(a < b)
  <2> SUFFICES ASSUME a < b PROVE FALSE
    OBVIOUS
  <2>1. Upto(Row(p), a, Row(p)[b]) < Upto(Row(p), b, Row(p)[b])
    BY <1>11, UptoLess
  <2> QED
    BY <1>12, <1>13, <2>1
<1>15. ~(b < a)
  <2> SUFFICES ASSUME b < a PROVE FALSE
    OBVIOUS
  <2>1. Upto(Row(p), b, Row(p)[a]) < Upto(Row(p), a, Row(p)[a])
    BY <1>11, UptoLess
  <2> QED
    BY <1>12, <1>13, <2>1
<1>16. a = b
  BY <1>11, <1>14, <1>15
<1> QED
  BY <1>3, <1>70, <1>80, <1>10, <1>16

(* What the paths are, and what they stay when the tree grows.               *)
Turns(p, a) == Upto(Row(p), a, Row(p)[a])

PathFacts ==
  /\ Path[0] = <<>>
  /\ \A n \in DOMAIN tree : Path[n] \in Seq(Steps)
  /\ \A m, n \in DOMAIN tree : Path[m] = Path[n] => m = n
  /\ \A p \in DOMAIN tree : \A a \in DOMAIN tree[p].kids :
       LET n == tree[p].kids[a]
       IN  /\ Parent(n) = p /\ Rank(n) = Turns(p, a) /\ Tag(n) = Row(p)[a]
           /\ Path[n] = Append(Path[p], <<Row(p)[a], Turns(p, a)>>)

LEMMA PathsAre == Shape /\ KidsYounger /\ OneParent => PathFacts
<1> SUFFICES ASSUME Shape, KidsYounger, OneParent PROVE PathFacts
  OBVIOUS
<1>1. ASSUME NEW p \in DOMAIN tree, NEW a \in DOMAIN tree[p].kids
      PROVE  LET n == tree[p].kids[a]
             IN  /\ Parent(n) = p /\ Rank(n) = Turns(p, a) /\ Tag(n) = Row(p)[a]
                 /\ Path[n] = Append(Path[p], <<Row(p)[a], Turns(p, a)>>)
  <2> DEFINE n == tree[p].kids[a]
  <2>1. Parent(n) = p /\ Rank(n) = Turns(p, a)
    BY OnlyParent DEF Turns
  <2>2. Tag(n) = Row(p)[a]
    BY DEF Row
  <2>3. n \in DOMAIN tree \ {0}
    BY KidsAreNodes
  <2>4. Path[n] = Append(Path[Parent(n)], <<Tag(n), Rank(n)>>)
    BY <2>3, PathIs
  <2> QED
    BY <2>1, <2>2, <2>4
<1> QED
  BY <1>1, PathIs, PathIsSteps, PathIsOwn DEF PathFacts

LEMMA PathsAreNext == (Shape /\ KidsYounger /\ OneParent)' => PathFacts'
BY PathsAre, PTL

KeepsPaths ==
  /\ DOMAIN tree \subseteq DOMAIN tree'
  /\ \A n \in DOMAIN tree : Path'[n] = Path[n]
  /\ \A n \in DOMAIN tree \ {0} : Parent(n)' = Parent(n) /\ Rank(n)' = Rank(n)

LEMMA PathsKept ==
  ASSUME Shape, KidsYounger, OneParent, Shape', KidsYounger', OneParent', KeepsTree,
         \A p \in DOMAIN tree : \A a \in DOMAIN tree[p].kids : \E b \in DOMAIN tree'[p].kids :
           /\ tree'[p].kids[b] = tree[p].kids[a]
           /\ Row(p)'[b] = Row(p)[a] /\ Turns(p, b)' = Turns(p, a)
  PROVE  KeepsPaths
<1>1. PathFacts /\ PathFacts'
  BY PathsAre, PathsAreNext
<1>2. DOMAIN tree \subseteq DOMAIN tree'
  BY DEF KeepsTree
<1>3. ASSUME NEW n \in DOMAIN tree \ {0}
      PROVE  /\ Parent(n)' = Parent(n) /\ Rank(n)' = Rank(n)
             /\ Parent(n) \in DOMAIN tree /\ Parent(n) < n
             /\ Path'[Parent(n)] = Path[Parent(n)] => Path'[n] = Path[n]
  <2>1. PICK p \in DOMAIN tree : \E a \in DOMAIN tree[p].kids :
          tree[p].kids[a] = n /\ p < n /\ p = Parent(n)
    BY ParentOf
  <2>2. PICK a \in DOMAIN tree[p].kids : tree[p].kids[a] = n
    BY <2>1
  <2>3. PICK b \in DOMAIN tree'[p].kids :
          /\ tree'[p].kids[b] = n
          /\ Row(p)'[b] = Row(p)[a] /\ Turns(p, b)' = Turns(p, a)
    BY <2>1, <2>2
  <2>4. /\ Parent(n) = p /\ Rank(n) = Turns(p, a)
        /\ Path[n] = Append(Path[p], <<Row(p)[a], Turns(p, a)>>)
    BY <1>1, <2>1, <2>2, ZenonT(40) DEF PathFacts
  <2>5. p \in DOMAIN tree'
    BY <1>2, <2>1
  <2>6. /\ Parent(n)' = p /\ Rank(n)' = Turns(p, b)'
        /\ Path'[n] = Append(Path'[p], <<Row(p)'[b], Turns(p, b)'>>)
    BY <1>1, <2>3, <2>5, ZenonT(40) DEF PathFacts
  <2> QED
    BY <2>1, <2>3, <2>4, <2>6
<1>4. \A n \in DOMAIN tree : Path'[n] = Path[n]
  <2> DEFINE Bad == {n \in DOMAIN tree : Path'[n] # Path[n]}
  <2> SUFFICES ASSUME Bad # {} PROVE FALSE
    OBVIOUS
  <2>1. Bad \in SUBSET Nat
    BY KidsAreNodes
  <2> DEFINE n == Min(Bad)
  <2>2. n \in Bad /\ \A y \in Bad : n <= y
    BY <2>1, SmallestMember
  <2> HIDE DEF n
  <2>3. n \in DOMAIN tree /\ n \in Nat /\ Path'[n] # Path[n]
    BY <2>1, <2>2
  <2>4. n # 0
    <3>1. Path[0] = <<>> /\ Path'[0] = <<>>
      BY <1>1 DEF PathFacts
    <3> QED
      BY <2>3, <3>1
  <2>5. PICK p \in DOMAIN tree : p < n /\ (Path'[p] = Path[p] => Path'[n] = Path[n])
    BY <1>3, <2>3, <2>4
  <2>6. p \in Nat /\ p \notin Bad
    BY <2>2, <2>3, <2>5, KidsAreNodes
  <2> QED
    BY <2>3, <2>5, <2>6
<1> QED
  BY <1>2, <1>3, <1>4 DEF KeepsPaths

LEMMA ValuePaths ==
  ASSUME Shape, Shape', KidsYounger, KidsYounger', OneParent, KeepsTree, SameChildren
  PROVE  /\ OneParent' /\ KeepsPaths
         /\ \A p \in DOMAIN tree : \A g : Made(p, g)' = Made(p, g)
<1>1. OneParent'
  BY DEF OneParent, SameChildren
<1>2. DOMAIN tree' = DOMAIN tree /\ \A p \in DOMAIN tree : Row(p)' = Row(p)
  BY RowsKept DEF Shape
<1>3. \A p \in DOMAIN tree : tree'[p].kids = tree[p].kids
  BY DEF SameChildren
<1>4. ASSUME NEW p \in DOMAIN tree, NEW a \in DOMAIN tree[p].kids
      PROVE  \E b \in DOMAIN tree'[p].kids :
               /\ tree'[p].kids[b] = tree[p].kids[a]
               /\ Row(p)'[b] = Row(p)[a] /\ Turns(p, b)' = Turns(p, a)
  <2>1. tree'[p].kids = tree[p].kids /\ Row(p)' = Row(p)
    BY <1>2, <1>3
  <2>2. Turns(p, a)' = Turns(p, a)
    BY <2>1 DEF Turns, Upto
  <2> QED
    BY <2>1, <2>2
<1>5. KeepsPaths
  BY <1>1, <1>4, PathsKept
<1>6. \A p \in DOMAIN tree : \A g : Made(p, g)' = Made(p, g)
  BY <1>2, <1>3 DEF Made, Upto
<1> QED
  BY <1>1, <1>5, <1>6

(* A child put behind those with its tag.                                    *)
LEMMA ChildPlaced ==
  ASSUME Shape, top.node \in DOMAIN tree, NEW place \in 1..(Len(Siblings) + 1), NEW tag,
         ChildMore(place, tag)
  PROVE  \A p \in DOMAIN tree' : \A b \in DOMAIN tree'[p].kids :
           \/ p = top.node /\ b = place /\ tree'[p].kids[b] = Size
           \/ /\ p \in DOMAIN tree
              /\ \E a \in DOMAIN tree[p].kids :
                   /\ tree'[p].kids[b] = tree[p].kids[a] /\ tree[p].kids[a] < Size
                   /\ b = IF p # top.node \/ a < place THEN a ELSE a + 1
<1> SUFFICES ASSUME NEW p \in DOMAIN tree', NEW b \in DOMAIN tree'[p].kids
             PROVE  \/ p = top.node /\ b = place /\ tree'[p].kids[b] = Size
                    \/ /\ p \in DOMAIN tree
                       /\ \E a \in DOMAIN tree[p].kids :
                            /\ tree'[p].kids[b] = tree[p].kids[a] /\ tree[p].kids[a] < Size
                            /\ b = IF p # top.node \/ a < place THEN a ELSE a + 1
  OBVIOUS
<1>1. /\ Size \in Nat \ {0} /\ DOMAIN tree = 0..(Size - 1) /\ DOMAIN tree' = 0..Size
      /\ tree'[Size].kids = <<>> /\ Len(Siblings) \in Nat
      /\ \A q \in DOMAIN tree : q # top.node => tree'[q].kids = tree[q].kids
  BY DEF ChildMore
<1>2. \A q \in DOMAIN tree : \A a \in DOMAIN tree[q].kids : tree[q].kids[a] < Size
  BY <1>1 DEF Shape, IsTree
<1>3. p \in DOMAIN tree
  <2>1. p # Size
    BY <1>1
  <2> QED
    BY <1>1, <2>1
<1>4. CASE p # top.node
  <2>1. tree'[p].kids = tree[p].kids
    BY <1>1, <1>3, <1>4
  <2> QED
    BY <1>2, <1>3, <1>4, <2>1
<1>5. CASE p = top.node
  <2> DEFINE kids == tree'[top.node].kids
  <2>1. /\ kids \in Seq(Nat) /\ Len(kids) = Len(Siblings) + 1
        /\ \A i \in 1..(Len(Siblings) + 1) :
             kids[i] = IF i < place THEN Siblings[i] ELSE IF i = place THEN Size ELSE Siblings[i - 1]
    BY DEF ChildMore
  <2>2. b \in 1..(Len(Siblings) + 1)
    BY <1>5, <2>1
  <2>3. DOMAIN Siblings = 1..Len(Siblings)
    BY SiblingNodes DEF Shape
  <2>4. Siblings = tree[p].kids
    BY <1>5 DEF Siblings
  <2>5. CASE b = place
    BY <1>5, <2>1, <2>2, <2>5
  <2>6. CASE b < place
    <3>1. b \in DOMAIN tree[p].kids /\ tree'[p].kids[b] = tree[p].kids[b]
      BY <1>5, <2>1, <2>2, <2>3, <2>4, <2>6
    <3> QED
      BY <1>2, <1>3, <2>6, <3>1
  <2>7. CASE b > place
    <3> DEFINE a == b - 1
    <3>1. a \in 1..Len(Siblings) /\ b = a + 1 /\ ~(a < place) /\ ~(b < place) /\ b # place
      BY <1>1, <2>2, <2>7
    <3>2. a \in DOMAIN tree[p].kids /\ tree'[p].kids[b] = tree[p].kids[a]
      BY <1>5, <2>1, <2>2, <2>3, <2>4, <3>1
    <3> HIDE DEF a
    <3> QED
      BY <1>2, <1>3, <1>5, <3>1, <3>2
  <2> QED
    BY <2>2, <2>5, <2>6, <2>7
<1> QED
  BY <1>4, <1>5

LEMMA OneParentMore ==
  ASSUME Shape, OneParent, top.node \in DOMAIN tree,
         NEW place \in 1..(Len(Siblings) + 1), NEW tag, ChildMore(place, tag)
  PROVE  OneParent'
<1> SUFFICES ASSUME NEW p \in DOMAIN tree', NEW q \in DOMAIN tree',
                    NEW a \in DOMAIN tree'[p].kids, NEW b \in DOMAIN tree'[q].kids,
                    tree'[p].kids[a] = tree'[q].kids[b]
             PROVE  p = q /\ a = b
  BY DEF OneParent
<1>1. \/ p = top.node /\ a = place /\ tree'[p].kids[a] = Size
      \/ /\ p \in DOMAIN tree
         /\ \E i \in DOMAIN tree[p].kids :
              /\ tree'[p].kids[a] = tree[p].kids[i] /\ tree[p].kids[i] < Size
              /\ a = IF p # top.node \/ i < place THEN i ELSE i + 1
  BY ChildPlaced
<1>2. \/ q = top.node /\ b = place /\ tree'[q].kids[b] = Size
      \/ /\ q \in DOMAIN tree
         /\ \E i \in DOMAIN tree[q].kids :
              /\ tree'[q].kids[b] = tree[q].kids[i] /\ tree[q].kids[i] < Size
              /\ b = IF q # top.node \/ i < place THEN i ELSE i + 1
  BY ChildPlaced
<1>3. Size \in Nat
  BY KidsAreNodes
<1>4. CASE tree'[p].kids[a] = Size
  BY <1>1, <1>2, <1>3, <1>4
<1>5. CASE tree'[p].kids[a] # Size
  <2>1. PICK i \in DOMAIN tree[p].kids :
          /\ p \in DOMAIN tree /\ tree'[p].kids[a] = tree[p].kids[i]
          /\ a = IF p # top.node \/ i < place THEN i ELSE i + 1
    BY <1>1, <1>5
  <2>2. PICK j \in DOMAIN tree[q].kids :
          /\ q \in DOMAIN tree /\ tree'[q].kids[b] = tree[q].kids[j]
          /\ b = IF q # top.node \/ j < place THEN j ELSE j + 1
    BY <1>2, <1>5
  <2>3. tree[p].kids[i] = tree[q].kids[j]
    BY <2>1, <2>2
  <2>4. p = q /\ i = j
    <3>1. p \in DOMAIN tree /\ q \in DOMAIN tree
      BY <2>1, <2>2
    <3>2. \A x \in DOMAIN tree[p].kids, y \in DOMAIN tree[q].kids :
            tree[p].kids[x] = tree[q].kids[y] => p = q /\ x = y
      BY <3>1 DEF OneParent
    <3> QED
      BY <2>3, <3>2
  <2> QED
    BY <2>1, <2>2, <2>4
<1> QED
  BY <1>4, <1>5

LEMMA ChildPaths ==
  ASSUME Shape, Shape', KidsYounger, KidsYounger', OneParent, KeepsTree,
         top.node \in DOMAIN tree, NEW place \in 1..(Len(Siblings) + 1), NEW tag,
         ChildMore(place, tag), \A i \in Places(tag) : i < place
  PROVE  /\ OneParent' /\ KeepsPaths
         /\ \A n : n = Size =>
              /\ Path'[n] = Append(Path[top.node], <<tag, Made(top.node, tag) + 1>>)
              /\ Parent(n)' = top.node /\ Rank(n)' = Made(top.node, tag) + 1
              /\ \A g : Made(n, g)' = 0
         /\ \A p \in DOMAIN tree : \A g :
              Made(p, g)' = IF p = top.node /\ g = tag THEN Made(p, g) + 1 ELSE Made(p, g)
<1>1. OneParent'
  BY OneParentMore
<1>2. PathFacts'
  BY <1>1, PathsAreNext
<1>3. /\ Size \in Nat \ {0} /\ DOMAIN tree = 0..(Size - 1) /\ DOMAIN tree' = 0..Size
      /\ tree'[Size].kids = <<>> /\ Len(Siblings) \in Nat
      /\ \A q \in DOMAIN tree : q # top.node => tree'[q].kids = tree[q].kids
      /\ Siblings = tree[top.node].kids
  BY DEF ChildMore, Siblings
<1>4. /\ \A p \in DOMAIN tree : p # top.node => Row(p)' = Row(p)
      /\ \A p \in DOMAIN tree : p = top.node => Grown(Row(p), Row(p)', place, tag)
  BY RowsMore DEF Shape
<1> DEFINE n == Len(Siblings)
<1>5. ASSUME NEW p, p = top.node
      PROVE  LET old == Row(p)
                 new == Row(p)'
             IN  /\ new[place] = tag /\ Upto(new, place, tag) = Upto(old, n, tag) + 1
                 /\ Upto(new, n + 1, tag) = Upto(old, n, tag) + 1
                 /\ \A g : g # tag => Upto(new, n + 1, g) = Upto(old, n, g)
                 /\ \A a \in 1..n : \E b \in 1..(n + 1) :
                      /\ b = IF a < place THEN a ELSE a + 1
                      /\ new[b] = old[a] /\ Upto(new, b, old[a]) = Upto(old, a, old[a])
  <2> DEFINE old == Row(p)
             new == Row(p)'
  <2>1. Grown(old, new, place, tag)
    BY <1>4, <1>5
  <2>2. DOMAIN Siblings = 1..n
    BY SiblingNodes DEF Shape
  <2>3. DOMAIN old = 1..n
    BY <1>3, <1>5, <2>2 DEF Row
  <2>4. \A i \in 1..n : old[i] = tag => i < place
    <3>1. \A i \in 1..n : old[i] = tree[Siblings[i]].tag
      BY <1>3, <1>5, <2>2 DEF Row, Tag
    <3> QED
      BY <2>2, <3>1 DEF Places
  <2> HIDE DEF old, new
  <2>5. n \in Nat
    BY <1>3
  <2>6. /\ new[place] = tag /\ Upto(new, place, tag) = Upto(old, n, tag) + 1
        /\ Upto(new, n + 1, tag) = Upto(old, n, tag) + 1
        /\ \A g : g # tag => Upto(new, n + 1, g) = Upto(old, n, g)
        /\ \A a \in 1..n : \E b \in 1..(n + 1) :
             /\ b = IF a < place THEN a ELSE a + 1
             /\ new[b] = old[a] /\ Upto(new, b, old[a]) = Upto(old, a, old[a])
    <3> HIDE DEF n
    <3> QED
      BY <2>1, <2>3, <2>4, <2>5, GrownTurns
  <2> QED
    BY <2>6 DEF old, new
<1>6. /\ Len(tree'[top.node].kids) = n + 1 /\ DOMAIN tree'[top.node].kids = 1..(n + 1)
      /\ \A i \in 1..(n + 1) :
           tree'[top.node].kids[i] = IF i < place THEN Siblings[i]
                                     ELSE IF i = place THEN Size ELSE Siblings[i - 1]
  <2> DEFINE kids == tree'[top.node].kids
  <2>1. /\ kids \in Seq(Nat) /\ Len(kids) = n + 1
        /\ \A i \in 1..(n + 1) :
             kids[i] = IF i < place THEN Siblings[i] ELSE IF i = place THEN Size ELSE Siblings[i - 1]
    BY DEF ChildMore
  <2> HIDE DEF kids, n
  <2>2. DOMAIN kids = 1..(n + 1)
    BY <2>1
  <2> QED
    BY <2>1, <2>2 DEF kids
<1>7. ASSUME NEW p \in DOMAIN tree, NEW a \in DOMAIN tree[p].kids
      PROVE  \E b \in DOMAIN tree'[p].kids :
               /\ tree'[p].kids[b] = tree[p].kids[a]
               /\ Row(p)'[b] = Row(p)[a] /\ Turns(p, b)' = Turns(p, a)
  <2>1. CASE p # top.node
    <3>1. tree'[p].kids = tree[p].kids /\ Row(p)' = Row(p)
      BY <1>3, <1>4, <2>1
    <3>2. Turns(p, a)' = Turns(p, a)
      BY <3>1 DEF Turns, Upto
    <3> QED
      BY <3>1, <3>2
  <2>2. CASE p = top.node
    <3>1. a \in 1..n
      BY <1>3, <2>2, SiblingNodes DEF Shape
    <3>2. PICK b \in 1..(n + 1) :
            /\ b = IF a < place THEN a ELSE a + 1
            /\ Row(p)'[b] = Row(p)[a]
            /\ Upto(Row(p)', b, Row(p)[a]) = Upto(Row(p), a, Row(p)[a])
      BY <1>5, <2>2, <3>1
    <3>3. tree'[p].kids[b] = tree[p].kids[a]
      BY <1>3, <1>6, <2>2, <3>1, <3>2, SMTT(30)
    <3>4. Turns(p, b)' = Turns(p, a)
      BY <3>2 DEF Turns, Upto
    <3> QED
      BY <1>6, <2>2, <3>2, <3>3, <3>4
  <2> QED
    BY <2>1, <2>2
<1>8. KeepsPaths
  BY <1>1, <1>7, PathsKept
<1>9. ASSUME NEW m, m = Size
      PROVE  /\ Path'[m] = Append(Path[top.node], <<tag, Made(top.node, tag) + 1>>)
             /\ Parent(m)' = top.node /\ Rank(m)' = Made(top.node, tag) + 1
             /\ \A g : Made(m, g)' = 0
  <2>1. PICK p \in DOMAIN tree : p = top.node
    OBVIOUS
  <2>2. p \in DOMAIN tree' /\ place \in DOMAIN tree'[p].kids /\ tree'[p].kids[place] = m
    BY <1>3, <1>6, <1>9, <2>1
  <2>3. /\ Parent(m)' = p /\ Rank(m)' = Turns(p, place)'
        /\ Path'[m] = Append(Path'[p], <<Row(p)'[place], Turns(p, place)'>>)
    BY <1>2, <2>2 DEF PathFacts
  <2>4. Row(p)'[place] = tag /\ Turns(p, place)' = Made(p, tag) + 1
    <3>1. Row(p)'[place] = tag /\ Upto(Row(p)', place, tag) = Upto(Row(p), n, tag) + 1
      BY <1>5, <2>1
    <3> QED
      BY <1>3, <2>1, <3>1 DEF Turns, Made, Upto
  <2>5. Path'[p] = Path[p]
    BY <1>8, <2>1 DEF KeepsPaths
  <2>6. ASSUME NEW g PROVE Made(m, g)' = 0
    <3>1. Len(tree'[m].kids) = 0
      BY <1>3, <1>9
    <3>2. Upto(Row(m)', 0, g) = 0
      BY UptoIs
    <3> QED
      BY <3>1, <3>2 DEF Made, Upto
  <2> QED
    BY <2>1, <2>3, <2>4, <2>5, <2>6
<1>10. ASSUME NEW p \in DOMAIN tree, NEW g
       PROVE  Made(p, g)' = IF p = top.node /\ g = tag THEN Made(p, g) + 1 ELSE Made(p, g)
  <2>1. CASE p # top.node
    <3>1. tree'[p].kids = tree[p].kids /\ Row(p)' = Row(p)
      BY <1>3, <1>4, <2>1
    <3> QED
      BY <2>1, <3>1 DEF Made, Upto
  <2>2. CASE p = top.node
    <3>1. /\ Upto(Row(p)', n + 1, tag) = Upto(Row(p), n, tag) + 1
          /\ g # tag => Upto(Row(p)', n + 1, g) = Upto(Row(p), n, g)
      BY <1>5, <2>2
    <3>2. Len(tree'[p].kids) = n + 1 /\ Len(tree[p].kids) = n
      BY <1>3, <1>6, <2>2
    <3> QED
      BY <2>2, <3>1, <3>2 DEF Made, Upto
  <2> QED
    BY <2>1, <2>2
<1> QED
  BY <1>1, <1>8, <1>9, <1>10

-----------------------------------------------------------------------------
(* The format with start and stop: the place of every pair is that of the    *)
(* recursion, a sequence of starts and numbers.                              *)
LEMMA InsideBefore ==
  ASSUME NEW m, NEW f, NEW g, NEW j \in Nat \ {0}, \A k \in 0..(j - 1) : f[k] = g[k]
  PROVE  Inside(m, f, j) = Inside(m, g, j) /\ Stopping(m, f, j) = Stopping(m, g, j)
<1>1. f[j - 1] = g[j - 1] /\ \A k \in 1..(j - 1) : f[k] = g[k]
  OBVIOUS
<1>2. {k \in 1..(j - 1) : Starts(m, k) /\ m[k] = m[j - 1] /\ f[k] = f[j - 1]} =
        {k \in 1..(j - 1) : Starts(m, k) /\ m[k] = m[j - 1] /\ g[k] = g[j - 1]}
  BY <1>1
<1>3. Inside(m, f, j) = Inside(m, g, j)
  BY <1>1, <1>2, Zenon DEF Inside
<1> QED
  BY <1>3 DEF Stopping

LEMMA StartStopEntriesAre ==
  ASSUME NEW m, Len(m) \in Nat
  PROVE  LET home == StartStopEntries(m)
         IN  home[0] = <<>> /\ \A j \in 1..Len(m) : home[j] = Stopping(m, home, j)
<1> DEFINE Follows(f, k) == f = [j \in 0..k |-> IF j = 0 THEN <<>> ELSE Stopping(m, f, j)]
           Bad == {k \in Nat : ~\E f : Follows(f, k)}
<1>1. 0 \notin Bad
  <2> DEFINE f == [j \in 0..0 |-> <<>>]
  <2>1. f = [j \in 0..0 |-> IF j = 0 THEN <<>> ELSE Stopping(m, f, j)]
    OBVIOUS
  <2> QED
    BY <2>1
<1>2. ASSUME NEW k \in Nat \ {0}, k - 1 \notin Bad PROVE k \notin Bad
  <2>1. PICK f : Follows(f, k - 1)
    BY <1>2
  <2>2. /\ DOMAIN f = 0..(k - 1)
        /\ \A j \in 0..(k - 1) : f[j] = IF j = 0 THEN <<>> ELSE Stopping(m, f, j)
    BY <2>1
  <2> DEFINE g == [j \in 0..k |-> IF j = k THEN Stopping(m, f, k) ELSE f[j]]
  <2>3. ASSUME NEW j \in 0..k PROVE g[j] = IF j = 0 THEN <<>> ELSE Stopping(m, g, j)
    <3>1. \A i \in 0..(j - 1) : f[i] = g[i]
      <4> SUFFICES ASSUME NEW i \in 0..(j - 1) PROVE f[i] = g[i]
        OBVIOUS
      <4>1. i \in 0..k /\ i # k
        BY <1>2
      <4> QED
        BY <4>1
    <3>2. j # 0 => Stopping(m, f, j) = Stopping(m, g, j)
      <4> HIDE DEF g
      <4> QED
        BY <3>1, InsideBefore
    <3>3. CASE j = k
      <4>1. g[j] = Stopping(m, f, j) /\ j # 0
        BY <1>2, <3>3
      <4> QED
        BY <3>2, <4>1
    <3>4. CASE j # k
      <4>1. j \in 0..(k - 1) /\ g[j] = f[j]
        BY <3>4
      <4> QED
        BY <2>2, <3>2, <4>1
    <3> QED
      BY <3>3, <3>4
  <2> HIDE DEF g
  <2>4. Follows(g, k)
    <3>1. DOMAIN g = 0..k /\ g = [j \in 0..k |-> g[j]]
      BY DEF g
    <3> QED
      BY <2>3, <3>1
  <2> QED
    BY <2>4
<1>3. Bad = {}
  <2> HIDE DEF Bad
  <2> SUFFICES ASSUME Bad # {} PROVE FALSE
    OBVIOUS
  <2> DEFINE k == Min(Bad)
  <2>1. Bad \in SUBSET Nat
    BY DEF Bad
  <2>2. k \in Bad /\ \A y \in Bad : k <= y
    BY <2>1, SmallestMember
  <2> HIDE DEF k
  <2>3. k \in Nat \ {0}
    BY <1>1, <2>1, <2>2
  <2>4. k - 1 \notin Bad
    BY <2>1, <2>2, <2>3
  <2> QED
    BY <1>2, <2>2, <2>3, <2>4
<1>4. \E f : Follows(f, Len(m))
  BY <1>3
<1> DEFINE home == StartStopEntries(m)
<1>5. Follows(home, Len(m))
  BY <1>4, Zenon DEF StartStopEntries
<1> HIDE DEF home
<1>6. \A j \in 0..Len(m) : home[j] = IF j = 0 THEN <<>> ELSE Stopping(m, home, j)
  BY <1>5
<1>7. home[0] = <<>>
  BY <1>6
<1>8. \A j \in 1..Len(m) : home[j] = Stopping(m, home, j)
  BY <1>6
<1> QED
  BY <1>7, <1>8 DEF home

(* An open entry: its start and its number.                                  *)
Entry == (DOMAIN Stops) \X Nat

LEMMA EntryOf ==
  ASSUME NEW x \in DOMAIN Stops, NEW n \in Nat
  PROVE  <<x, n>> \in Entry
BY DEF Entry

Like(m, home, j) ==
  {k \in 1..(j - 1) : Starts(m, k) /\ m[k] = m[j - 1] /\ home[k] = home[j - 1]}

LEMMA InsideIs ==
  ASSUME NEW m, NEW home, NEW j \in Nat \ {0}, home[j - 1] \in Seq(Entry)
  PROVE  /\ Inside(m, home, j) \in Seq(Entry)
         /\ ~(j > 1 /\ Starts(m, j - 1)) => Inside(m, home, j) = home[j - 1]
         /\ j > 1 /\ Starts(m, j - 1) =>
              /\ Inside(m, home, j) = Append(home[j - 1], <<m[j - 1], Cardinality(Like(m, home, j))>>)
              /\ Cardinality(Like(m, home, j)) \in Nat
<1>1. CASE ~(j > 1 /\ Starts(m, j - 1))
  <2>1. Inside(m, home, j) = home[j - 1] \o <<>>
    BY <1>1, Zenon DEF Inside
  <2>2. home[j - 1] \o <<>> = home[j - 1]
    OBVIOUS
  <2> QED
    BY <1>1, <2>1, <2>2
<1>2. CASE j > 1 /\ Starts(m, j - 1)
  <2> DEFINE e == <<m[j - 1], Cardinality(Like(m, home, j))>>
  <2>1. Inside(m, home, j) = home[j - 1] \o <<e>>
    BY <1>2, Zenon DEF Inside, Like
  <2>2. Cardinality(Like(m, home, j)) \in Nat
    <3>1. IsFiniteSet(1..(j - 1))
      BY FS_Interval
    <3>2. IsFiniteSet(Like(m, home, j))
      BY <3>1, FS_Subset DEF Like
    <3> QED
      BY <3>2, FS_CardinalityType
  <2>3. e \in Entry
    <3>1. m[j - 1] \in DOMAIN Stops
      BY <1>2, Zenon DEF Starts
    <3> QED
      BY <2>2, <3>1, EntryOf
  <2> HIDE DEF e
  <2>4. home[j - 1] \o <<e>> = Append(home[j - 1], e) /\ Append(home[j - 1], e) \in Seq(Entry)
    BY <2>3
  <2> QED
    BY <1>2, <2>1, <2>2, <2>4 DEF e
<1> QED
  BY <1>1, <1>2

LEMMA StoppingIs ==
  ASSUME NEW m, NEW home, NEW j \in Nat \ {0}, Inside(m, home, j) \in Seq(Entry)
  PROVE  LET inside == Inside(m, home, j)
         IN  /\ Stopping(m, home, j) \in Seq(Entry)
             /\ \/ inside = <<>> /\ Stopping(m, home, j) = <<>>
                \/ /\ inside # <<>> /\ m[j] = Stops[inside[Len(inside)][1]]
                   /\ Stopping(m, home, j) = Front(inside)
                   /\ Len(Stopping(m, home, j)) = Len(inside) - 1
                   /\ \A d \in 1..(Len(inside) - 1) : Stopping(m, home, j)[d] = inside[d]
                \/ /\ inside # <<>> /\ m[j] # Stops[inside[Len(inside)][1]]
                   /\ Stopping(m, home, j) = inside
<1> DEFINE inside == Inside(m, home, j)
<1>1. Stopping(m, home, j) =
        IF inside # <<>> /\ m[j] = Stops[Last(inside)[1]] THEN Front(inside) ELSE inside
  BY DEF Stopping
<1> HIDE DEF inside
<1>2. inside \in Seq(Entry)
  BY DEF inside
<1>3. CASE inside = <<>>
  BY <1>1, <1>2, <1>3 DEF inside
<1>4. CASE inside # <<>>
  <2>1. /\ Front(inside) \in Seq(Entry) /\ Len(Front(inside)) = Len(inside) - 1
        /\ \A i \in 1..(Len(inside) - 1) : Front(inside)[i] = inside[i]
        /\ Last(inside) = inside[Len(inside)]
    BY <1>2, <1>4, FrontIs
  <2> QED
    BY <1>1, <1>2, <1>4, <2>1 DEF inside
<1> QED
  BY <1>3, <1>4

LEMMA EntriesAreSequences ==
  ASSUME NEW m, Len(m) \in Nat
  PROVE  LET home == StartStopEntries(m)
         IN  /\ \A j \in 0..Len(m) : home[j] \in Seq(Entry)
             /\ \A j \in 1..Len(m) : Inside(m, home, j) \in Seq(Entry)
<1> DEFINE home == StartStopEntries(m)
<1>1. home[0] = <<>> /\ \A j \in 1..Len(m) : home[j] = Stopping(m, home, j)
  BY StartStopEntriesAre
<1> HIDE DEF home
<1> DEFINE Bad == {j \in 0..Len(m) : home[j] \notin Seq(Entry)}
<1>2. Bad = {}
  <2> SUFFICES ASSUME Bad # {} PROVE FALSE
    OBVIOUS
  <2>1. Bad \in SUBSET Nat
    OBVIOUS
  <2> DEFINE j == Min(Bad)
  <2>2. j \in Bad /\ \A y \in Bad : j <= y
    BY <2>1, SmallestMember
  <2> HIDE DEF j
  <2>3. j \in 0..Len(m) /\ home[j] \notin Seq(Entry)
    BY <2>2
  <2>4. j # 0
    <3>1. <<>> \in Seq(Entry)
      OBVIOUS
    <3> QED
      BY <1>1, <2>3, <3>1
  <2>5. j \in Nat \ {0} /\ j - 1 \in 0..Len(m) /\ j \in 1..Len(m) /\ ~(j <= j - 1)
    BY <2>3, <2>4
  <2>6. home[j - 1] \in Seq(Entry)
    BY <2>2, <2>5
  <2>7. Inside(m, home, j) \in Seq(Entry)
    BY <2>5, <2>6, InsideIs
  <2>8. Stopping(m, home, j) \in Seq(Entry)
    BY <2>5, <2>7, StoppingIs
  <2> QED
    BY <1>1, <2>3, <2>5, <2>8
<1>3. \A j \in 0..Len(m) : home[j] \in Seq(Entry)
  BY <1>2
<1>4. \A j \in 1..Len(m) : Inside(m, home, j) \in Seq(Entry)
  <2> SUFFICES ASSUME NEW j \in 1..Len(m) PROVE Inside(m, home, j) \in Seq(Entry)
    OBVIOUS
  <2>1. j \in Nat \ {0} /\ j - 1 \in 0..Len(m)
    OBVIOUS
  <2> QED
    BY <1>3, <2>1, InsideIs
<1> QED
  BY <1>3, <1>4 DEF home

(* In a well-formed message no open entry has the stop of the one around it. *)
LEMMA StopsDiffer ==
  ASSUME NEW m, Len(m) \in Nat, DOMAIN m = 1..Len(m), maker = "ssmake", WellFormed(m),
         NEW j \in 1..Len(m)
  PROVE  LET inside == Inside(m, StartStopEntries(m), j)
         IN  \A d \in 2..Len(inside) : Stops[inside[d][1]] # Stops[inside[d - 1][1]]
<1> DEFINE home == StartStopEntries(m)
           inside == Inside(m, home, j)
           Differ(s) == \A d \in 2..Len(s) : Stops[s[d][1]] # Stops[s[d - 1][1]]
<1>1. /\ home[0] = <<>> /\ \A k \in 1..Len(m) : home[k] = Stopping(m, home, k)
      /\ \A k \in 0..Len(m) : home[k] \in Seq(Entry)
      /\ \A k \in 1..Len(m) : Inside(m, home, k) \in Seq(Entry)
  BY StartStopEntriesAre, EntriesAreSequences
<1>2. \A k \in 1..Len(m) : \A d \in DOMAIN home[k] :
        d > 1 => Stops[home[k][d][1]] # Stops[home[k][d - 1][1]]
  <2>1. maker # "rmake"
    OBVIOUS
  <2>2. \A k \in DOMAIN m : Home(m)[k] = home[k]
    BY <2>1, Zenon DEF Home, StartStopHome
  <2>3. \A k \in DOMAIN m : \A d \in DOMAIN Home(m)[k] :
          d > 1 => Stops[Home(m)[k][d][1]] # Stops[Home(m)[k][d - 1][1]]
    BY <2>1, Zenon DEF WellFormed
  <2> HIDE DEF home
  <2> QED
    BY <2>2, <2>3
<1> HIDE DEF home
<1>3. \A k \in 0..Len(m) : Differ(home[k])
  <2> SUFFICES ASSUME NEW k \in 0..Len(m), NEW d \in 2..Len(home[k])
               PROVE  Stops[home[k][d][1]] # Stops[home[k][d - 1][1]]
    OBVIOUS
  <2>1. home[k] \in Seq(Entry)
    BY <1>1
  <2>2. k # 0
    BY <1>1
  <2>3. k \in 1..Len(m) /\ d \in DOMAIN home[k] /\ d > 1
    BY <2>1, <2>2
  <2> QED
    BY <1>2, <2>3
<1>4. j \in Nat \ {0} /\ j - 1 \in 0..Len(m) /\ home[j - 1] \in Seq(Entry)
  BY <1>1
<1>5. CASE ~(j > 1 /\ Starts(m, j - 1))
  <2>1. inside = home[j - 1]
    BY <1>4, <1>5, InsideIs
  <2>2. Differ(inside)
    BY <1>3, <1>4, <2>1
  <2> QED
    BY <2>2 DEF home
<1>6. CASE j > 1 /\ Starts(m, j - 1)
  <2> DEFINE i == j - 1
             e == <<m[i], Cardinality(Like(m, home, j))>>
  <2>1. inside = Append(home[i], e) /\ inside \in Seq(Entry) /\ home[i] \in Seq(Entry)
    BY <1>4, <1>6, InsideIs
  <2>2. inside # <<>> /\ Len(inside) = Len(home[i]) + 1 /\ inside[Len(inside)] = e
    BY <2>1, SMTT(30)
  <2>3. m[j] # Stops[e[1]]
    BY <1>6 DEF Starts
  <2>4. Stopping(m, home, j) = inside
    <3> HIDE DEF e, inside
    <3> QED
      BY <1>4, <2>1, <2>2, <2>3, StoppingIs DEF inside
  <2>5. home[j] = inside /\ j \in 0..Len(m)
    BY <1>1, <2>4
  <2>6. Differ(inside)
    <3> HIDE DEF inside
    <3> QED
      BY <1>3, <2>5
  <2> QED
    BY <2>6 DEF home
<1> QED
  BY <1>5, <1>6

-----------------------------------------------------------------------------
(* The calls: what they have seen, and what that makes the place of each.    *)
LEMMA CallFacts ==
  ASSUME Shape, frames # <<>>
  PROVE  /\ Len(frames) \in Nat \ {0} /\ DOMAIN frames = 1..Len(frames)
         /\ Len(frames) \in DOMAIN frames /\ top = frames[Len(frames)] /\ top \in Calls
         /\ top.node \in DOMAIN tree /\ message = messages[Len(messages)]
         /\ \A d \in 1..Len(frames) :
              /\ frames[d] \in Calls /\ frames[d].node \in DOMAIN tree
              /\ frames[d].counter \in Nat /\ frames[d].counter < inc
              /\ frames[d].counter # 0 => Reads(d) \in Counters
              /\ \A g \in Counters : frames[d].seen[g] \in Nat
         /\ \A d \in 1..(Len(frames) - 1) :
              /\ frames[d].counter # 0 /\ Reads(d) \in Counters
              /\ frames[d + 1].node \in Kids(frames[d].node) /\ Tag(frames[d + 1].node) = Reads(d)
              /\ frames[d + 1].rest \subseteq Members(Reads(d))
<1>1. /\ Len(frames) \in Nat \ {0} /\ DOMAIN frames = 1..Len(frames)
      /\ Len(frames) \in DOMAIN frames /\ top = frames[Len(frames)] /\ top \in Calls
      /\ IsCall(top)
  BY TopCall DEF Shape
<1>2. message = messages[Len(messages)]
  BY Reading DEF Shape
<1>3. ASSUME NEW d \in 1..Len(frames)
      PROVE  /\ frames[d] \in Calls /\ frames[d].node \in DOMAIN tree
             /\ frames[d].counter \in Nat /\ frames[d].counter < inc
             /\ frames[d].counter # 0 => Reads(d) \in Counters
             /\ \A g \in Counters : frames[d].seen[g] \in Nat
  <2>1. IsCall(frames[d])
    BY <1>1 DEF Shape, Nested
  <2>2. MaxLen \in Nat
    BY RuvAssumption
  <2> QED
    BY <2>1, <2>2 DEF IsCall, Calls, Reads
<1>4. ASSUME NEW d \in 1..(Len(frames) - 1)
      PROVE  /\ frames[d].counter # 0 /\ Reads(d) \in Counters
             /\ frames[d + 1].node \in Kids(frames[d].node) /\ Tag(frames[d + 1].node) = Reads(d)
             /\ frames[d + 1].rest \subseteq Members(Reads(d))
  <2>1. d + 1 \in DOMAIN frames \ {1} /\ d \in 1..Len(frames) /\ (d + 1) - 1 = d
    BY <1>1
  <2>2. CalledFrom(frames[d + 1], frames[(d + 1) - 1])
    BY <2>1 DEF Shape, Nested
  <2>3. CalledFrom(frames[d + 1], frames[d])
    BY <2>1, <2>2
  <2> QED
    BY <1>3, <2>1, <2>3 DEF CalledFrom, Reads, Kids
<1>5. top.node \in DOMAIN tree
  BY <1>1 DEF IsCall
<1> QED
  BY <1>1, <1>2, <1>3, <1>4, <1>5

Wide == [node : Nat, rest : SUBSET AllTags, seen : [Counters -> Nat], counter : Nat]

(* A step that goes on in the innermost call leaves what it has seen.        *)
LEMMA SeenStays ==
  ASSUME Shape, ReadField \/ SkipCounter \/ SkipLastCounter \/ OpenGroup \/ CloseGroup
  PROVE  frames'[Len(frames)].seen = top.seen
<1>1. frames # <<>>
  BY DEF ReadField, SkipCounter, SkipLastCounter, OpenGroup, CloseGroup, Takes
<1>2. top \in Calls /\ frames \in Seq(Calls) /\ inc \in Nat
  BY <1>1, CallFacts DEF Shape, Nested, Inputs
<1>3. PICK x : frames' = Front(frames) \o <<x>> /\ x.seen = top.seen /\ x \in Wide
  <2>1. ASSUME NEW y \in Wide,
               y.seen = top.seen, NEW p, Resume(y, p)
        PROVE  \E x : frames' = Front(frames) \o <<x>> /\ x.seen = top.seen
                        /\ x \in Wide
    <3> DEFINE x == IF maker = "rmake" THEN [y EXCEPT !.rest = @ \ {token}] ELSE y
    <3>1. x.seen = top.seen /\ x \in Wide
      BY <2>1 DEF Wide
    <3>2. frames' = Front(frames) \o <<x>>
      BY <2>1 DEF Resume
    <3> QED
      BY <3>1, <3>2
  <2>2. top \in Wide
    BY <1>2, RuvAssumption DEF Calls, Wide
  <2>3. CASE ReadField \/ SkipCounter \/ SkipLastCounter
    BY <2>1, <2>2, <2>3, Zenon DEF ReadField, SkipCounter, SkipLastCounter
  <2>4. CASE OpenGroup
    <3> DEFINE y == [top EXCEPT !.counter = inc]
    <3>1. y.seen = top.seen
          /\ y \in Wide
      BY <1>2, <2>2 DEF Wide
    <3>2. Resume(y, inc + 1)
      BY <2>4, Zenon DEF OpenGroup
    <3> QED
      BY <2>1, <3>1, <3>2
  <2>5. CASE CloseGroup
    <3> DEFINE x == [top EXCEPT !.counter = 0]
    <3>1. x.seen = top.seen
          /\ x \in Wide
      BY <1>2, <2>2 DEF Wide
    <3>2. frames' = Front(frames) \o <<x>>
      BY <2>5, Zenon DEF CloseGroup
    <3> QED
      BY <3>1, <3>2
  <2> QED
    BY <2>3, <2>4, <2>5
<1>4. frames \in Seq(Wide)
  <2>1. MaxLen \in Nat
    BY RuvAssumption
  <2>2. Calls \subseteq Wide
    BY <2>1 DEF Calls, Wide
  <2>3. \A i \in 1..Len(frames) :
          frames[i] \in Wide
    BY <1>2, <2>2
  <2> QED
    BY <1>2, <2>3
<1>5. frames'[Len(frames)] = x
  BY <1>1, <1>3, <1>4, ReplaceLast
<1> QED
  BY <1>3, <1>5

LEMMA ReadEntrySeen ==
  ASSUME Shape, ReadEntry
  PROVE  \A h \in Counters :
           /\ frames'[Len(frames)].seen[h] = IF h = Reads(Len(frames)) THEN top.seen[h] + 1 ELSE top.seen[h]
           /\ frames'[Len(frames) + 1].seen[h] = 0
<1> DEFINE group == message[top.counter]
           caller == [top EXCEPT !.seen[group] = Turn(group)]
           called(node) == Frame(node, Members(group))
<1>1. /\ frames # <<>> /\ top.counter # 0
      /\ \E node : frames' = Front(frames) \o <<caller, called(node)>>
  BY Zenon DEF ReadEntry
<1>2. PICK node : frames' = Front(frames) \o <<caller, called(node)>>
  BY <1>1
<1>3. top \in Calls /\ frames \in Seq(Calls) /\ top = frames[Len(frames)]
  BY <1>1, CallFacts DEF Shape, Nested
<1>4. group = Reads(Len(frames))
  BY <1>3 DEF Reads
<1> HIDE DEF group
<1>5. \A h \in Counters : caller.seen[h] = IF h = group THEN top.seen[h] + 1 ELSE top.seen[h]
  BY <1>3 DEF Calls, Turn
<1>6. \A h \in Counters : called(node).seen[h] = 0
  BY DEF Frame
<1>7. frames'[Len(frames)] = caller /\ frames'[Len(frames) + 1] = called(node)
  <2> DEFINE S == Calls \cup {caller, called(node)}
  <2>1. frames \in Seq(S)
    <3>1. \A i \in 1..Len(frames) : frames[i] \in S
      BY <1>3
    <3> QED
      BY <1>3, <3>1
  <2>2. caller \in S /\ called(node) \in S
    OBVIOUS
  <2> HIDE DEF S, caller, called
  <2> QED
    BY <1>1, <1>2, <2>1, <2>2, ReplaceLastAppend
<1> QED
  BY <1>4, <1>5, <1>6, <1>7

LEMMA OneMore ==
  ASSUME NEW S, NEW n \in Nat \ {0}, NEW f, \A e \in 1..n : f[e] \in S
  PROVE  LET short == [e \in 1..(n - 1) |-> f[e]]
         IN  /\ short \in Seq(S) /\ Len(short) = n - 1
             /\ [e \in 1..n |-> f[e]] = Append(short, f[n])
<1> DEFINE short == [e \in 1..(n - 1) |-> f[e]]
           long == [e \in 1..n |-> f[e]]
<1>1. short \in Seq(S) /\ Len(short) = n - 1
  OBVIOUS
<1>2. long \in Seq(S) /\ Len(long) = n
  OBVIOUS
<1>3. Append(short, f[n]) \in Seq(S) /\ Len(Append(short, f[n])) = n
  BY <1>1
<1>4. \A i \in 1..n : long[i] = Append(short, f[n])[i]
  BY <1>1
<1>5. long = Append(short, f[n])
  <2> HIDE DEF short, long
  <2> QED
    BY <1>2, <1>3, <1>4
<1> QED
  BY <1>1, <1>5

(* The places of two calls are of different length.                          *)
LEMMA PlaceIs ==
  ASSUME Shape, frames # <<>>
  PROVE  /\ \A d \in 1..Len(frames) : Place(d) \in Seq(Steps) /\ Len(Place(d)) = d - 1
         /\ top.counter # 0 =>
              Place(Len(frames) + 1) =
                Append(Place(Len(frames)), <<Reads(Len(frames)), top.seen[Reads(Len(frames))]>>)
<1> DEFINE n == Len(frames)
           f == [e \in 1..n |-> <<Reads(e), frames[e].seen[Reads(e)]>>]
<1>1. /\ n \in Nat \ {0} /\ top = frames[n]
      /\ \A e \in 1..n : frames[e].counter # 0 =>
           Reads(e) \in Counters /\ frames[e].seen[Reads(e)] \in Nat
      /\ \A e \in 1..(n - 1) : frames[e].counter # 0
  BY CallFacts
<1>2. Counters \subseteq AllTags
  BY MembersAreTags
<1>3. ASSUME NEW e \in 1..n, frames[e].counter # 0 PROVE f[e] \in Steps
  BY <1>1, <1>2, <1>3 DEF Steps
<1>4. ASSUME NEW d \in 1..n
      PROVE  Place(d) \in Seq(Steps) /\ Len(Place(d)) = d - 1
  <2>1. \A e \in 1..(d - 1) : <<Reads(e), frames[e].seen[Reads(e)]>> \in Steps
    <3> SUFFICES ASSUME NEW e \in 1..(d - 1) PROVE <<Reads(e), frames[e].seen[Reads(e)]>> \in Steps
      OBVIOUS
    <3>1. e \in 1..n /\ frames[e].counter # 0
      BY <1>1
    <3> QED
      BY <1>3, <3>1
  <2> QED
    BY <2>1 DEF Place
<1>5. ASSUME top.counter # 0
      PROVE  Place(n + 1) = Append(Place(n), <<Reads(n), top.seen[Reads(n)]>>)
  <2>1. \A e \in 1..n : f[e] \in Steps
    <3> SUFFICES ASSUME NEW e \in 1..n PROVE f[e] \in Steps
      OBVIOUS
    <3>1. frames[e].counter # 0
      BY <1>1, <1>5
    <3> QED
      BY <1>3, <3>1
  <2>2. [e \in 1..n |-> f[e]] = Append([e \in 1..(n - 1) |-> f[e]], f[n])
    <3> HIDE DEF f, n
    <3> QED
      BY <1>1, <2>1, OneMore
  <2>3. Place(n + 1) = [e \in 1..n |-> f[e]]
    <3>1. (n + 1) - 1 = n
      BY <1>1
    <3>2. Place(n + 1) = [e \in 1..n |-> <<Reads(e), frames[e].seen[Reads(e)]>>]
      BY <3>1 DEF Place
    <3> QED
      BY <3>2
  <2>4. Place(n) = [e \in 1..(n - 1) |-> f[e]]
    BY <1>1 DEF Place
  <2>5. f[n] = <<Reads(n), top.seen[Reads(n)]>>
    BY <1>1
  <2> HIDE DEF f
  <2> QED
    BY <2>2, <2>3, <2>4, <2>5
<1> QED
  BY <1>4, <1>5

LEMMA PlaceSame ==
  ASSUME UNCHANGED messages, NEW d \in Nat,
         \A e \in 1..(d - 1) : frames'[e].counter = frames[e].counter /\ frames'[e].seen = frames[e].seen
  PROVE  Place(d)' = Place(d) /\ \A e \in 1..(d - 1) : Reads(e)' = Reads(e)
<1>1. message' = message
  BY DEF message
<1>2. \A e \in 1..(d - 1) : Reads(e)' = Reads(e)
  BY <1>1 DEF Reads
<1> QED
  BY <1>2 DEF Place

-----------------------------------------------------------------------------
(* The place the format gives the pair that is taken is the one of the call  *)
(* that takes it.  Of rmake: the entries that the pair leaves open are those *)
(* the calls are for.                                                        *)
LEMMA RmakeLeaves ==
  ASSUME Shape, FixInv, maker = "rmake", Takes, EntriesFollow
  PROVE  LET left == OpenEntries(message)[inc]
         IN  /\ left \in Seq(Opened) /\ Len(left) = Len(frames) - 1
             /\ \A d \in 1..(Len(frames) - 1) :
                  /\ left[d].group = Reads(d) /\ left[d].nth = frames[d].seen[Reads(d)]
                  /\ left[d].has = Groups[Reads(d)] \ (IF d + 1 = Len(frames) THEN top.rest \ {token}
                                                        ELSE frames[d + 1].rest)
<1> DEFINE left == OpenEntries(message)[inc]
           outer == Outer(message, OpenEntries(message)[inc - 1], inc)
           n == Len(frames)
           last == n - 1
<1>1. Taken /\ frames # <<>> /\ More /\ (\A g : Members(g) = Groups[g]) /\ token \in Tags
  BY TakesTaken DEF Taken
<1>2. /\ left \in Seq(Opened) /\ Len(left) = last
      /\ \A d \in 1..last : /\ frames[d].counter # 0 /\ left[d].group = Reads(d)
                            /\ left[d] = IF d = last THEN NextEntry(outer[d], token) ELSE outer[d]
  BY <1>1, TakenLeavesOpen DEF Reads
<1>3. /\ n \in Nat \ {0} /\ DOMAIN frames = 1..n /\ top = frames[n]
      /\ \A d \in 1..last : frames[d + 1].rest \subseteq Groups[Reads(d)]
  BY <1>1, CallFacts
<1>4. /\ outer \in Seq(Opened)
      /\ \A d \in 1..last : d \in DOMAIN outer /\ outer[d].group = Reads(d)
  <2>1. /\ outer \in Seq(Opened)
        /\ \A i \in DOMAIN frames : frames[i].counter # 0 =>
             i \in DOMAIN outer /\ outer[i].group = Reads(i)
    BY <1>1, Zenon DEF Taken, Following, Reads
  <2>2. \A d \in 1..last : d \in DOMAIN frames
    BY <1>3
  <2> HIDE DEF outer, left
  <2> QED
    BY <1>2, <2>1, <2>2
<1>5. \A d \in 1..last : EntryRead(d, outer[d])
  <2>1. \A d \in DOMAIN frames : frames[d].counter # 0 =>
          IF d < n THEN EntryRead(d, outer[d]) ELSE EntryToCome(d, outer[d])
    BY <1>1, Zenon DEF EntriesFollow
  <2> SUFFICES ASSUME NEW d \in 1..last PROVE EntryRead(d, outer[d])
    OBVIOUS
  <2>2. d \in DOMAIN frames /\ d < n /\ frames[d].counter # 0
    <3> HIDE DEF outer, left
    <3>1. d \in 1..n /\ d < n
      BY <1>3
    <3>2. frames[d].counter # 0
      BY <1>2
    <3> QED
      BY <1>3, <3>1, <3>2
  <2> HIDE DEF outer, left, n
  <2> QED
    BY <2>1, <2>2, Zenon
<1> HIDE DEF outer, left
<1>6. ASSUME NEW d \in 1..last
      PROVE  /\ left[d].nth = frames[d].seen[Reads(d)]
             /\ left[d].has = Groups[Reads(d)] \ (IF d + 1 = n THEN top.rest \ {token}
                                                   ELSE frames[d + 1].rest)
  <2>1. outer[d] \in Opened /\ outer[d].group = Reads(d)
    BY <1>4
  <2>2. frames[d + 1].rest \subseteq Groups[Reads(d)]
    BY <1>3
  <2>3. \/ /\ frames[d].seen[Reads(d)] = outer[d].nth
           /\ outer[d].has = Groups[Reads(d)] \ frames[d + 1].rest
        \/ /\ frames[d].seen[Reads(d)] = outer[d].nth + 1 /\ token \in outer[d].has
           /\ d + 1 = n /\ frames[d + 1].rest = Groups[Reads(d)] /\ token \in frames[d + 1].rest
    BY <1>5, <2>1 DEF EntryRead
  <2>4. CASE d = last
    <3>1. d + 1 = n /\ token \in frames[d + 1].rest
      <4>1. d + 1 = n /\ ~AtRoot
        BY <1>3, <2>4 DEF AtRoot
      <4> QED
        BY <1>1, <1>3, <4>1 DEF Taken
    <3>2. left[d] = NextEntry(outer[d], token)
      BY <1>2, <2>4
    <3>3. CASE token \in outer[d].has
      <4>1. left[d].nth = outer[d].nth + 1 /\ left[d].has = {token}
        BY <3>2, <3>3 DEF NextEntry
      <4> QED
        BY <1>3, <2>2, <2>3, <3>1, <3>3, <4>1
    <3>4. CASE token \notin outer[d].has
      <4>1. left[d].nth = outer[d].nth /\ left[d].has = outer[d].has \cup {token}
        BY <2>1, <3>2, <3>4 DEF NextEntry, Opened
      <4> QED
        BY <1>3, <2>2, <2>3, <3>1, <3>4, <4>1
    <3> QED
      BY <3>3, <3>4
  <2>5. CASE d # last
    <3>1. left[d] = outer[d] /\ d + 1 # n
      BY <1>2, <2>5
    <3> QED
      BY <2>3, <3>1
  <2> QED
    BY <2>4, <2>5
<1> QED
  BY <1>2, <1>6 DEF left

LEMMA RmakePlace ==
  ASSUME Shape, FixInv, maker = "rmake", Takes, EntriesFollow
  PROVE  Home(message)[inc] = Place(Len(frames))
<1> DEFINE left == OpenEntries(message)[inc]
           n == Len(frames)
<1>1. frames # <<>> /\ More
  BY DEF Takes
<1>2. inc \in 1..Len(message) /\ message \in Seq(AllTags)
  BY <1>1, Reading DEF Shape
<1>3. Home(message)[inc] = [d \in DOMAIN left |-> <<left[d].group, left[d].nth>>]
  <2>1. inc \in DOMAIN message
    BY <1>2
  <2>2. Home(message) = FixHome(message)
    BY DEF Home
  <2> QED
    BY <2>1, <2>2 DEF FixHome
<1>4. /\ left \in Seq(Opened) /\ Len(left) = n - 1
      /\ \A d \in 1..(n - 1) : left[d].group = Reads(d) /\ left[d].nth = frames[d].seen[Reads(d)]
  BY RmakeLeaves
<1> HIDE DEF left
<1>5. n \in Nat \ {0}
  BY <1>1, CallFacts
<1>6. DOMAIN left = 1..(n - 1)
  BY <1>4, <1>5
<1> QED
  BY <1>3, <1>4, <1>6 DEF Place

(* Of ssmake: a stop ends the entry behind whose pairs it stands, and every  *)
(* other pair stands in it.                                                  *)
LEMMA SsmakePlace ==
  ASSUME Shape, maker = "ssmake", Takes, RestWhole, StartsFollow
  PROVE  Home(message)[inc] = Place(Len(frames))
<1> DEFINE home == StartStopEntries(message)
           n == Len(frames)
           outer == OpenNow
<1>1. frames # <<>> /\ More /\ top.counter = 0 /\ (AtRoot \/ token \in top.rest)
  BY DEF Takes
<1>2. inc \in 1..Len(message) /\ message \in Seq(AllTags) /\ Len(message) \in Nat
  BY <1>1, Reading DEF Shape
<1>3. Home(message)[inc] = Stopping(message, home, inc)
  <2>1. inc \in DOMAIN message
    BY <1>2
  <2>2. Home(message) = StartStopHome(message)
    BY DEF Home
  <2>3. Home(message)[inc] = home[inc]
    BY <2>1, <2>2 DEF StartStopHome
  <2> QED
    BY <1>2, <2>3, StartStopEntriesAre
<1>4. outer = Inside(message, home, inc) /\ outer \in Seq(Entry)
  BY <1>2, EntriesAreSequences DEF OpenNow
<1>5. n \in Nat \ {0} /\ top = frames[n] /\ DOMAIN frames = 1..n
  BY <1>1, CallFacts
<1>6. /\ \A d \in 1..(n - 1) : outer[d] = <<Reads(d), frames[d].seen[Reads(d)]>>
      /\ Len(outer) = n - 1 \/ (Len(outer) = n /\ token = Stops[outer[n][1]])
  BY <1>1, Zenon DEF StartsFollow
<1> HIDE DEF outer, home
<1> DEFINE place == Stopping(message, home, inc)
<1>7. /\ place \in Seq(Entry)
      /\ \/ outer = <<>> /\ place = <<>>
         \/ /\ outer # <<>> /\ token = Stops[outer[Len(outer)][1]]
            /\ Len(place) = Len(outer) - 1
            /\ \A d \in 1..(Len(outer) - 1) : place[d] = outer[d]
         \/ outer # <<>> /\ token # Stops[outer[Len(outer)][1]] /\ place = outer
  <2>1. inc \in Nat \ {0} /\ token = message[inc]
    BY <1>2 DEF token
  <2> QED
    BY <1>4, <2>1, StoppingIs
<1> HIDE DEF place
<1>8. CASE Len(outer) = n - 1
  <2>1. CASE n = 1
    <3>1. outer = <<>>
      BY <1>4, <1>8, <2>1
    <3>2. place = <<>>
      BY <1>7, <3>1
    <3>3. Place(n) = <<>>
      BY <2>1 DEF Place
    <3> QED
      BY <1>3, <3>2, <3>3 DEF place
  <2>2. CASE n # 1
    <3>1. n \in DOMAIN frames \ {1} /\ n - 1 \in 1..(n - 1) /\ ~AtRoot
      BY <1>5, <2>2 DEF AtRoot
    <3>2. token \in Members(Reads(n - 1))
      BY <1>1, <1>5, <3>1 DEF RestWhole
    <3>3. token # Stops[Reads(n - 1)]
      BY <3>2 DEF Members
    <3>4. outer[Len(outer)][1] = Reads(n - 1)
      BY <1>6, <1>8, <3>1
    <3>5. outer # <<>>
      BY <1>4, <1>5, <1>8, <2>2
    <3>6. place = outer
      BY <1>7, <3>3, <3>4, <3>5
    <3>7. outer = [d \in 1..(n - 1) |-> outer[d]]
      BY <1>4, <1>5, <1>8
    <3>8. outer = Place(n)
      BY <1>6, <3>7 DEF Place
    <3> QED
      BY <1>3, <3>6, <3>8 DEF place
  <2> QED
    BY <2>1, <2>2
<1>9. CASE Len(outer) = n /\ token = Stops[outer[n][1]]
  <2>1. outer # <<>>
    BY <1>4, <1>5, <1>9
  <2>2. Len(place) = n - 1 /\ \A d \in 1..(n - 1) : place[d] = outer[d]
    BY <1>7, <1>9, <2>1
  <2>3. place = [d \in 1..(n - 1) |-> place[d]]
    BY <1>5, <1>7, <2>2
  <2>4. place = Place(n)
    BY <1>6, <2>2, <2>3 DEF Place
  <2> QED
    BY <1>3, <2>4 DEF place
<1> QED
  BY <1>6, <1>8, <1>9

LEMMA LastOrBefore ==
  ASSUME NEW n \in Nat \ {0}
  PROVE  \A d \in 1..n : d = n \/ d \in 1..(n - 1)
OBVIOUS

LEMMA HomeIsPlace ==
  ASSUME Shape, FixInv, PlaceInv, Takes, Proper(message)
  PROVE  Home(message)[inc] = Place(Len(frames))
<1>1. frames # <<>>
  BY DEF Takes
<1>2. maker \in {"rmake", "ssmake"}
  BY DEF Shape, Inputs
<1>3. maker = "rmake" => EntriesFollow
  BY <1>1 DEF PlaceInv, CallsFollow
<1>4. maker = "ssmake" => RestWhole /\ StartsFollow
  BY <1>1 DEF PlaceInv, CallsFollow
<1> QED
  BY <1>2, <1>3, <1>4, RmakePlace, SsmakePlace

(* What a step that reads on in the same messages leaves as it is.           *)
LEMMA SameFormat ==
  ASSUME UNCHANGED <<maker, messages>>
  PROVE  /\ message' = message /\ column' = column /\ Counters' = Counters
         /\ \A m : Home(m)' = Home(m)
         /\ \A g : Members(g)' = Members(g)
         /\ \A m : Proper(m)' = Proper(m)
<1>1. message' = message /\ column' = column /\ Counters' = Counters
  BY DEF message, column, Counters
<1>2. \A m : Home(m)' = Home(m)
  BY DEF Home
<1>3. \A g : Members(g)' = Members(g)
  BY DEF Members
<1>4. \A m : Proper(m)' = Proper(m)
  <2> SUFFICES ASSUME NEW m PROVE Proper(m)' = Proper(m)
    OBVIOUS
  <2>1. Home(m)' = Home(m)
    BY <1>2
  <2>2. WellFormed(m)' = WellFormed(m)
    BY <1>1, <2>1 DEF WellFormed
  <2> QED
    BY <2>2 DEF Proper
<1> QED
  BY <1>1, <1>2, <1>3, <1>4

LEMMA GoneOn ==
  ASSUME Shape, Shape', frames # <<>>, UNCHANGED <<maker, messages>>,
         NEW c, NEW rest, GoesOn(c, rest), frames'[Len(frames)].seen = top.seen
  PROVE  /\ Len(frames') = Len(frames) /\ DOMAIN frames' = 1..Len(frames)
         /\ frames' # <<>> /\ top' = frames'[Len(frames)]
         /\ frames'[Len(frames)].counter = c /\ frames'[Len(frames)].rest = rest
         /\ \A d \in 1..Len(frames) : /\ frames'[d].node = frames[d].node
                                      /\ frames'[d].seen = frames[d].seen
                                      /\ Place(d)' = Place(d)
         /\ \A d \in 1..(Len(frames) - 1) : frames'[d] = frames[d] /\ Reads(d)' = Reads(d)
<1> DEFINE n == Len(frames)
<1>1. n \in Nat \ {0} /\ top = frames[n]
  BY CallFacts
<1>2. /\ Len(frames') = n /\ frames'[n].node = top.node /\ frames'[n].counter = c
      /\ frames'[n].rest = rest /\ \A d \in 1..(n - 1) : frames'[d] = frames[d]
  BY DEF GoesOn
<1>3. frames' # <<>> /\ DOMAIN frames' = 1..n /\ top' = frames'[n]
  <2>1. frames' \in Seq(Calls')
    BY DEF Shape, Nested
  <2>2. frames' # <<>> /\ DOMAIN frames' = 1..n
    BY <1>1, <1>2, <2>1
  <2>3. top' = frames'[Len(frames')]
    BY <2>1, <2>2 DEF top, Last
  <2> QED
    BY <1>2, <2>2, <2>3
<1>4. ASSUME NEW d \in 1..n
      PROVE  /\ frames'[d].node = frames[d].node /\ frames'[d].seen = frames[d].seen
             /\ Place(d)' = Place(d)
  <2>1. \A e \in 1..(d - 1) : e \in 1..(n - 1)
    BY <1>1
  <2>2. \A e \in 1..(d - 1) : frames'[e].counter = frames[e].counter /\ frames'[e].seen = frames[e].seen
    BY <1>2, <2>1
  <2>3. d \in Nat
    OBVIOUS
  <2>4. Place(d)' = Place(d)
    BY <2>2, <2>3, PlaceSame
  <2>5. d \in 1..(n - 1) \/ d = n
    BY <1>1
  <2> QED
    BY <1>1, <1>2, <2>4, <2>5
<1>5. \A d \in 1..(n - 1) : Reads(d)' = Reads(d)
  <2>1. message' = message
    BY SameFormat
  <2> QED
    BY <1>2, <2>1 DEF Reads
<1> QED
  BY <1>2, <1>3, <1>4, <1>5

(* A group opens where a member stands behind its counter.                   *)
GroupOpens == token \in Counters /\ inc < Len(message) /\ message[inc + 1] \in Members(token)

TookPair(c) ==
  /\ Takes /\ UNCHANGED <<maker, messages>> /\ inc' = inc + 1
  /\ GoesOn(c, RestAfter) /\ frames'[Len(frames)].seen = top.seen
  /\ c = IF GroupOpens THEN inc ELSE 0

LEMMA TakenPlaces ==
  ASSUME Shape, Shape', FixInv, PlaceInv, NEW c, TookPair(c), KeepsPaths, Proper(message)
  PROVE  (CallsPlaced /\ CountersPlaced /\ HomesInTree)'
<1> DEFINE n == Len(frames)
<1>1. frames # <<>> /\ UNCHANGED <<maker, messages>> /\ inc' = inc + 1 /\ More
  BY DEF TookPair, Takes
<1>2. /\ Len(frames') = n /\ DOMAIN frames' = 1..n /\ frames'[n].counter = c
      /\ \A d \in 1..n : /\ frames'[d].node = frames[d].node /\ Place(d)' = Place(d)
      /\ \A d \in 1..(n - 1) : frames'[d] = frames[d]
  BY <1>1, GoneOn DEF TookPair
<1>3. /\ n \in Nat \ {0} /\ DOMAIN frames = 1..n /\ top = frames[n] /\ top.node \in DOMAIN tree
      /\ \A d \in 1..n : frames[d].node \in DOMAIN tree
  BY <1>1, CallFacts
<1>4. message' = message /\ Home(message)' = Home(message)
  BY <1>1, SameFormat
<1>5. Home(message)[inc] = Place(n)
  BY HomeIsPlace DEF TookPair
<1>6. CallsPlaced /\ CountersPlaced /\ HomesInTree
  BY <1>1 DEF PlaceInv, CallsFollow
<1>7. CallsPlaced'
  BY <1>2, <1>3, <1>6 DEF CallsPlaced, KeepsPaths
<1>8. CountersPlaced'
  <2> SUFFICES ASSUME NEW d \in 1..n, frames'[d].counter # 0
               PROVE  Home(message)'[frames'[d].counter] = Place(d)'
    BY <1>2, <1>4 DEF CountersPlaced
  <2>1. CASE d = n
    <3>1. frames'[d].counter = inc
      BY <1>2, <2>1 DEF TookPair
    <3> QED
      BY <1>2, <1>4, <1>5, <2>1, <3>1
  <2>2. CASE d # n
    <3>0. d \in 1..(n - 1)
      BY <1>3, <2>2, LastOrBefore
    <3>1. frames'[d] = frames[d]
      BY <1>2, <3>0
    <3> QED
      BY <1>2, <1>3, <1>4, <1>6, <3>1 DEF CountersPlaced
  <2> QED
    BY <2>1, <2>2
<1>9. HomesInTree'
  <2> SUFFICES ASSUME NEW k \in 1..(inc' - 1)
               PROVE  \E q \in DOMAIN tree' : Home(message)'[k] = Path'[q]
    BY <1>4 DEF HomesInTree
  <2>1. inc \in Nat
    BY DEF Shape, Inputs
  <2>2. CASE k = inc
    <3>1. Path[top.node] = Place(n)
      BY <1>3, <1>6 DEF CallsPlaced
    <3> QED
      BY <1>3, <1>4, <1>5, <2>2, <3>1 DEF KeepsPaths
  <2>3. CASE k # inc
    <3>1. k \in 1..(inc - 1)
      BY <1>1, <2>1, <2>3
    <3>2. PICK q \in DOMAIN tree : Home(message)[k] = Path[q]
      BY <1>6, <3>1 DEF HomesInTree
    <3> QED
      BY <1>4, <3>2 DEF KeepsPaths
  <2> QED
    BY <2>2, <2>3
<1> QED
  BY <1>7, <1>8, <1>9

LEMMA TakenOpen ==
  ASSUME Shape, Shape', PlaceInv, NEW c, TookPair(c)
  PROVE  CountersOpen' /\ (maker' = "ssmake" => InSsTags' /\ RestWhole')
<1> DEFINE n == Len(frames)
<1>1. frames # <<>> /\ UNCHANGED <<maker, messages>> /\ inc' = inc + 1 /\ More
  BY DEF TookPair, Takes
<1>2. /\ Len(frames') = n /\ DOMAIN frames' = 1..n /\ frames'[n].counter = c
      /\ frames'[n].rest = RestAfter
      /\ \A d \in 1..(n - 1) : frames'[d] = frames[d] /\ Reads(d)' = Reads(d)
  BY <1>1, GoneOn DEF TookPair
<1>3. n \in Nat \ {0} /\ DOMAIN frames = 1..n /\ top = frames[n]
  BY <1>1, CallFacts
<1>4. message' = message /\ \A g : Members(g)' = Members(g)
  BY <1>1, SameFormat
<1>5. CountersOpen'
  <2> SUFFICES ASSUME NEW d \in 1..n, frames'[d].counter # 0
               PROVE  /\ frames'[d].counter < Len(message)
                      /\ message[frames'[d].counter + 1] \in Members(message[frames'[d].counter])
    BY <1>2, <1>4 DEF CountersOpen, Reads
  <2>1. CASE d = n
    <3>1. GroupOpens /\ frames'[d].counter = inc
      BY <1>2, <2>1 DEF TookPair
    <3> QED
      BY <3>1 DEF GroupOpens, token
  <2>2. CASE d # n
    <3>0. d \in 1..(n - 1)
      BY <1>3, <2>2, LastOrBefore
    <3>1. frames'[d] = frames[d]
      BY <1>2, <3>0
    <3>2. CountersOpen
      BY DEF PlaceInv
    <3> QED
      BY <1>3, <3>1, <3>2 DEF CountersOpen, Reads
  <2> QED
    BY <2>1, <2>2
<1>6. ASSUME maker' = "ssmake" PROVE InSsTags' /\ RestWhole'
  <2>1. maker = "ssmake" /\ maker # "rmake"
    BY <1>1, <1>6
  <2>2. InSsTags /\ RestWhole
    BY <2>1 DEF PlaceInv
  <2>3. InSsTags'
    BY <1>1, <2>2 DEF InSsTags
  <2>4. RestWhole'
    <3> SUFFICES ASSUME NEW d \in 1..n, d # 1
                 PROVE  frames'[d].rest = Members(Reads(d - 1)')
      BY <1>2, <1>4 DEF RestWhole
    <3>1. d - 1 \in 1..(n - 1)
      BY <1>3
    <3>2. frames[d].rest = Members(Reads(d - 1))
      BY <1>3, <2>2 DEF RestWhole
    <3>3. frames'[d].rest = frames[d].rest
      <4>1. CASE d = n
        BY <1>2, <1>3, <2>1, <4>1 DEF RestAfter
      <4>2. CASE d # n
        <5>1. d \in 1..(n - 1)
          BY <1>3, <4>2, LastOrBefore
        <5> QED
          BY <1>2, <5>1
      <4> QED
        BY <4>1, <4>2
    <3> QED
      BY <1>2, <3>1, <3>2, <3>3
  <2> QED
    BY <2>3, <2>4
<1> QED
  BY <1>5, <1>6

LEMMA InOneOrder ==
  ASSUME Shape, FixInv, maker = "rmake", messages # <<>>,
         NEW i \in DOMAIN message, NEW j \in DOMAIN message,
         message[i] = message[j], message[i] \in DOMAIN Groups, Home(message)[i] = Home(message)[j]
  PROVE  i = j
<1>1. message = messages[Len(messages)] /\ Len(messages) \in DOMAIN messages
  <2>1. messages \in Seq(Seq(AllTags))
    BY DEF Shape, Inputs
  <2> QED
    BY <2>1 DEF message, Last
<1>2. OnceEach(message, DOMAIN Groups)
  BY <1>1 DEF FixInv, InOrder
<1>3. Home(message) = FixHome(message)
  BY DEF Home
<1> QED
  BY <1>2, <1>3, Zenon DEF OnceEach

LEMMA TakenFollowing ==
  ASSUME Shape, Shape', FixInv, PlaceInv, NEW c, TookPair(c), KeepsPaths, maker = "rmake"
  PROVE  (EntriesFollow /\ SeenBefore)'
<1> DEFINE n == Len(frames)
           left == OpenEntries(message)[inc]
<1>1. frames # <<>> /\ UNCHANGED <<maker, messages>> /\ inc' = inc + 1 /\ More /\ messages # <<>>
      /\ Takes /\ inc \in Nat
  BY DEF TookPair, Takes, Shape, Nested, Inputs
<1>2. /\ Len(frames') = n /\ DOMAIN frames' = 1..n /\ frames'[n].counter = c
      /\ frames'[n].rest = RestAfter
      /\ \A d \in 1..n : frames'[d].seen = frames[d].seen /\ Place(d)' = Place(d)
      /\ \A d \in 1..(n - 1) : frames'[d] = frames[d] /\ Reads(d)' = Reads(d)
  BY <1>1, GoneOn DEF TookPair
<1>3. /\ n \in Nat \ {0} /\ DOMAIN frames = 1..n /\ top = frames[n] /\ Counters = DOMAIN Groups
      /\ \A g \in Counters : top.seen[g] \in Nat
  BY <1>1, CallFacts DEF Counters
<1>4. message' = message /\ Home(message)' = Home(message) /\ Counters' = Counters
  BY <1>1, SameFormat
<1>5. Proper(message)
  BY DEF Proper
<1>6. Home(message)[inc] = Place(n)
  BY <1>5, HomeIsPlace DEF TookPair
<1>7. EntriesFollow /\ SeenBefore
  BY <1>1, <1>5 DEF PlaceInv, CallsFollow
<1>8. SeenBefore'
  <2> SUFFICES ASSUME NEW d \in 1..n, NEW g \in Counters, frames'[d].seen[g] > 0
               PROVE  \E k \in 1..(inc' - 1) : message[k] = g /\ Home(message)[k] = Place(d)'
    BY <1>2, <1>4 DEF SeenBefore
  <2>1. PICK k \in 1..(inc - 1) : message[k] = g /\ Home(message)[k] = Place(d)
    BY <1>2, <1>3, <1>7 DEF SeenBefore
  <2>2. k \in 1..(inc' - 1)
    BY <1>1
  <2> QED
    BY <1>2, <2>1, <2>2
<1>9. /\ left \in Seq(Opened) /\ Len(left) = n - 1
      /\ \A d \in 1..(n - 1) :
           /\ left[d].group = Reads(d) /\ left[d].nth = frames[d].seen[Reads(d)]
           /\ left[d].has = Groups[Reads(d)] \ (IF d + 1 = n THEN top.rest \ {token}
                                                 ELSE frames[d + 1].rest)
  BY <1>1, <1>7, RmakeLeaves
<1>10. inc \in 1..Len(message) /\ message \in Seq(AllTags) /\ Len(message) \in Nat /\ token = message[inc]
  BY <1>1, Reading DEF Shape, token
<1>11. GroupOpens <=> Opens(message, inc)
  BY <1>3, <1>10 DEF GroupOpens, Opens, Members
<1>12. ASSUME GroupOpens PROVE frames[n].seen[token] = 0
  <2>1. token \in Counters
    BY <1>12 DEF GroupOpens
  <2> SUFFICES ASSUME frames[n].seen[token] > 0 PROVE FALSE
    BY <1>3, <2>1
  <2>2. n \in DOMAIN frames
    BY <1>3
  <2>3. PICK k \in 1..(inc - 1) : message[k] = token /\ Home(message)[k] = Place(n)
    BY <1>7, <2>1, <2>2 DEF SeenBefore
  <2>4. k \in DOMAIN message /\ inc \in DOMAIN message /\ k # inc
    BY <1>10
  <2>5. k = inc
    BY <1>1, <1>3, <1>6, <1>10, <2>1, <2>3, <2>4, InOneOrder
  <2> QED
    BY <2>4, <2>5
<1> DEFINE next == [group |-> token, nth |-> 1, has |-> {}]
           outer == Outer(message, left, inc + 1)
<1>13. outer = left \o (IF GroupOpens THEN <<next>> ELSE <<>>)
  <2>1. inc + 1 > 1 /\ (inc + 1) - 1 = inc
    BY <1>10
  <2> HIDE DEF left
  <2> QED
    BY <1>10, <1>11, <2>1 DEF Outer
<1>14. \A d \in 1..(n - 1) : outer[d] = left[d]
  <2>1. CASE GroupOpens
    <3>1. next \in Opened
      BY <1>3, <2>1 DEF Opened, GroupOpens
    <3>2. outer = left \o <<next>>
      BY <1>13, <2>1
    <3> HIDE DEF left, next, outer
    <3> QED
      BY <1>9, <3>1, <3>2, EntryAppended
  <2>2. CASE ~GroupOpens
    <3>1. outer = left \o <<>>
      BY <1>13, <2>2
    <3> HIDE DEF left, next, outer
    <3>2. left \o <<>> = left
      BY <1>9
    <3> QED
      BY <3>1, <3>2
  <2> QED
    BY <2>1, <2>2
<1>15. ASSUME GroupOpens PROVE outer[n] = next
  <2>1. next \in Opened
    BY <1>3, <1>15 DEF Opened, GroupOpens
  <2>2. outer = left \o <<next>>
    BY <1>13, <1>15
  <2> HIDE DEF left, next, outer
  <2>3. outer[Len(left) + 1] = next
    BY <1>9, <2>1, <2>2, EntryAppended
  <2>4. Len(left) = n - 1
    BY <1>9
  <2>5. Len(left) + 1 = n
    BY <1>3, <2>4
  <2> QED
    BY <2>3, <2>5
<1>16. outer = Outer(message, OpenEntries(message)[inc' - 1], inc')
  <2>1. inc' - 1 = inc
    BY <1>1
  <2> QED
    BY <1>1, <2>1
<1> HIDE DEF left, outer, next
<1>17. ASSUME NEW d \in 1..(n - 1)
       PROVE  /\ frames'[d].seen[outer[d].group] = outer[d].nth
              /\ outer[d].has = Groups[outer[d].group] \ frames'[d + 1].rest
  <2>1. outer[d] = left[d] /\ left[d].group = Reads(d)
    BY <1>9, <1>14
  <2>2. frames'[d].seen = frames[d].seen
    BY <1>2
  <2>3. left[d].nth = frames[d].seen[Reads(d)]
    BY <1>9
  <2>4. frames'[d + 1].rest = IF d + 1 = n THEN top.rest \ {token} ELSE frames[d + 1].rest
    <3>1. CASE d + 1 = n
      BY <1>2, <3>1 DEF RestAfter
    <3>2. CASE d + 1 # n
      <4>1. d + 1 \in 1..(n - 1)
        BY <1>3, <3>2
      <4> QED
        BY <1>2, <3>2, <4>1
    <3> QED
      BY <3>1, <3>2
  <2>5. left[d].has = Groups[Reads(d)] \ frames'[d + 1].rest
    BY <1>9, <2>4
  <2> QED
    BY <2>1, <2>2, <2>3, <2>5
<1>18. ASSUME GroupOpens
       PROVE  frames'[n].seen[outer[n].group] = outer[n].nth - 1 /\ outer[n].has = {}
  <2>1. outer[n].group = token /\ outer[n].nth = 1 /\ outer[n].has = {}
    BY <1>15, <1>18 DEF next
  <2>2. frames'[n].seen[token] = 0
    BY <1>2, <1>3, <1>12, <1>18
  <2> QED
    BY <2>1, <2>2
<1>19. EntriesFollow'
  <2>1. ASSUME NEW d \in DOMAIN frames', frames'[d].counter # 0, d < Len(frames')
        PROVE  /\ frames'[d].seen[outer[d].group] = outer[d].nth
               /\ outer[d].has = Groups[outer[d].group] \ frames'[d + 1].rest
    <3>1. d \in 1..(n - 1)
      BY <1>2, <1>3, <2>1
    <3> QED
      BY <1>17, <3>1
  <2>2. ASSUME NEW d \in DOMAIN frames', frames'[d].counter # 0, ~(d < Len(frames'))
        PROVE  frames'[d].seen[outer[d].group] = outer[d].nth - 1 /\ outer[d].has = {}
    <3>1. d = n
      BY <1>2, <1>3, <2>2
    <3>2. GroupOpens
      BY <1>2, <2>2, <3>1 DEF TookPair
    <3> QED
      BY <1>18, <3>1, <3>2
  <2>3. outer = Outer(message', OpenEntries(message')[inc' - 1], inc')
    BY <1>4, <1>16
  <2> QED
    BY <2>1, <2>2, <2>3 DEF EntriesFollow, EntryRead, EntryToCome
<1> QED
  BY <1>8, <1>19

LEMMA AppendIs ==
  ASSUME NEW S, NEW s \in Seq(S), NEW e
  PROVE  /\ Len(Append(s, e)) = Len(s) + 1 /\ Append(s, e)[Len(s) + 1] = e
         /\ \A i \in 1..Len(s) : Append(s, e)[i] = s[i]
<1> DEFINE T == S \cup {e}
<1>1. s \in Seq(T) /\ e \in T
  OBVIOUS
<1> HIDE DEF T
<1> QED
  BY <1>1

LEMMA OpensIsStarts ==
  ASSUME maker = "ssmake", InSsTags, message = messages[Len(messages)], Len(messages) \in DOMAIN messages,
         inc \in Nat \ {0}
  PROVE  GroupOpens <=> Starts(message, inc)
<1>1. message \in Seq(SsTags)
  BY DEF InSsTags
<1>2. Counters = DOMAIN Stops /\ \A g : Members(g) = SsTags \ {Stops[g]}
  BY DEF Counters, Members
<1>3. inc < Len(message) => message[inc + 1] \in SsTags
  BY <1>1
<1> QED
  BY <1>2, <1>3 DEF GroupOpens, Starts, token

LEMMA TakenCounted ==
  ASSUME Shape, Shape', FixInv, PlaceInv, NEW c, TookPair(c), maker = "ssmake", Proper(message)
  PROVE  StartsCounted'
<1> DEFINE n == Len(frames)
<1>1. frames # <<>> /\ UNCHANGED <<maker, messages>> /\ inc' = inc + 1 /\ More /\ messages # <<>>
      /\ Takes /\ inc \in Nat \ {0} /\ top.counter = 0
  BY DEF TookPair, Takes, Shape, Nested, Inputs
<1>2. /\ Len(frames') = n /\ DOMAIN frames' = 1..n /\ frames'[n].counter = c
      /\ \A d \in 1..n : frames'[d].seen = frames[d].seen /\ Place(d)' = Place(d)
  BY <1>1, GoneOn DEF TookPair
<1>3. n \in Nat \ {0} /\ DOMAIN frames = 1..n /\ top = frames[n]
  BY <1>1, CallFacts
<1>4. message' = message /\ Home(message)' = Home(message) /\ Counters' = Counters
  BY <1>1, SameFormat
<1>5. Home(message)[inc] = Place(n)
  BY HomeIsPlace DEF TookPair
<1>6. StartsCounted /\ InSsTags
  BY <1>1 DEF PlaceInv, CallsFollow
<1>7. GroupOpens <=> Starts(message, inc)
  <2>1. message = messages[Len(messages)] /\ Len(messages) \in DOMAIN messages
    BY <1>1, Reading DEF Shape, Inputs
  <2> QED
    BY <1>1, <1>6, <2>1, OpensIsStarts
<1> SUFFICES ASSUME NEW d \in 1..n, NEW g \in Counters
             PROVE  frames'[d].seen[g] = Cardinality({k \in 1..(inc' - 1) : Counted(d, g, k)'})
  BY <1>2, <1>4, Zenon DEF StartsCounted
<1>70. frames[n].counter = 0 /\ inc' - 1 = inc /\ n \in 1..n
  BY <1>1, <1>3
<1>8. \A k : Counted(d, g, k)' <=>
               /\ Starts(message, k) /\ message[k] = g /\ Home(message)[k] = Place(d)
               /\ ~(d = n /\ frames'[d].counter = k /\ k = inc' - 1)
  BY <1>2, <1>4 DEF Counted, Starts
<1>9. ASSUME NEW k \in 1..(inc - 1) PROVE Counted(d, g, k)' <=> Counted(d, g, k)
  <2>1. k # inc' - 1
    BY <1>1
  <2>2. ~(d = n /\ frames[d].counter = k)
    <3>1. k # 0
      OBVIOUS
    <3> QED
      BY <1>70, <3>1, Zenon
  <2> QED
    BY <1>8, <2>1, <2>2 DEF Counted
<1>10. ~Counted(d, g, inc)'
  <2> SUFFICES ASSUME Counted(d, g, inc)' PROVE FALSE
    OBVIOUS
  <2>1. /\ Starts(message, inc) /\ Home(message)[inc] = Place(d)
        /\ ~(d = n /\ frames'[d].counter = inc /\ inc = inc' - 1)
    <3> DEFINE C(k) == Counted(d, g, k)'
               D(k) == /\ Starts(message, k) /\ message[k] = g /\ Home(message)[k] = Place(d)
                       /\ ~(d = n /\ frames'[d].counter = k /\ k = inc' - 1)
    <3>1. \A k : C(k) => D(k)
      BY <1>8, Zenon
    <3>2. C(inc)
      OBVIOUS
    <3>3. D(inc)
      <4> HIDE DEF C, D
      <4> QED
        BY <3>1, <3>2
    <3> QED
      BY <3>3, Zenon
  <2>2. d # n
    <3>1. c = inc
      BY <1>7, <2>1, Zenon DEF TookPair
    <3> QED
      BY <1>2, <1>70, <2>1, <3>1, Zenon
  <2>3. Len(Place(d)) = d - 1
    BY <1>1, PlaceIs
  <2>4. Len(Place(n)) = n - 1
    BY <1>1, <1>70, PlaceIs
  <2>5. d - 1 = n - 1
    BY <1>5, <2>1, <2>3, <2>4, Zenon
  <2>6. \A x, y \in Nat : x - 1 = y - 1 => x = y
    OBVIOUS
  <2>7. d \in Nat /\ n \in Nat
    BY <1>3
  <2> QED
    BY <2>2, <2>5, <2>6, <2>7, Zenon
<1>11. {k \in 1..(inc' - 1) : Counted(d, g, k)'} = {k \in 1..(inc - 1) : Counted(d, g, k)}
  <2>1. \A k \in 1..inc : k = inc \/ k \in 1..(inc - 1)
    BY <1>1, LastOrBefore
  <2>2. \A k \in 1..(inc - 1) : k \in 1..inc
    BY <1>1
  <2>3. {k \in 1..inc : Counted(d, g, k)'} = {k \in 1..(inc - 1) : Counted(d, g, k)}
    <3> DEFINE C(k) == Counted(d, g, k)'
               D(k) == Counted(d, g, k)
    <3>1. \A k \in 1..(inc - 1) : C(k) <=> D(k)
      BY <1>9, Zenon
    <3>2. ~C(inc)
      BY <1>10, Zenon
    <3> HIDE DEF C, D
    <3>3. {k \in 1..inc : C(k)} = {k \in 1..(inc - 1) : D(k)}
      BY <3>1, <3>2, <2>1, <2>2
    <3> QED
      BY <3>3, Zenon DEF C, D
  <2> QED
    BY <1>70, <2>3
<1>12. frames[d].seen[g] = Cardinality({k \in 1..(inc - 1) : Counted(d, g, k)})
  BY <1>3, <1>6 DEF StartsCounted
<1> QED
  BY <1>2, <1>11, <1>12

LEMMA TakenStarts ==
  ASSUME Shape, Shape', FixInv, PlaceInv, NEW c, TookPair(c), maker = "ssmake", Proper(message)
  PROVE  StartsFollow'
<1> DEFINE n == Len(frames)
           home == StartStopEntries(message)
           m == message
<1>1. frames # <<>> /\ UNCHANGED <<maker, messages>> /\ inc' = inc + 1 /\ More /\ messages # <<>>
      /\ Takes /\ inc \in Nat \ {0} /\ top.counter = 0
  BY DEF TookPair, Takes, Shape, Nested, Inputs
<1>2. /\ Len(frames') = n /\ top' = frames'[n] /\ frames'[n].counter = c
      /\ \A d \in 1..n : frames'[d].seen = frames[d].seen
      /\ \A d \in 1..(n - 1) : Reads(d)' = Reads(d)
  BY <1>1, GoneOn DEF TookPair
<1>3. n \in Nat \ {0} /\ DOMAIN frames = 1..n /\ top = frames[n] /\ n \in 1..n
  BY <1>1, CallFacts
<1>4. message' = message
  BY <1>1, SameFormat
<1>5. StartsCounted /\ InSsTags
  BY <1>1 DEF PlaceInv, CallsFollow
<1>6. inc \in 1..Len(m) /\ Len(m) \in Nat /\ message = messages[Len(messages)]
      /\ Len(messages) \in DOMAIN messages /\ m \in Seq(AllTags)
  BY <1>1, Reading DEF Shape, Inputs
<1>7. GroupOpens <=> Starts(m, inc)
  BY <1>1, <1>5, <1>6, OpensIsStarts
<1>8. \A k \in 1..Len(m) : Home(m)[k] = home[k]
  <2>1. DOMAIN m = 1..Len(m) /\ Home(m) = StartStopHome(m)
    BY <1>6 DEF Home
  <2> QED
    BY <2>1, Zenon DEF StartStopHome
<1>9. home[inc] = Place(n) /\ home[inc] \in Seq(Entry) /\ Len(Place(n)) = n - 1
      /\ \A d \in 1..(n - 1) : Place(n)[d] = <<Reads(d), frames[d].seen[Reads(d)]>>
  <2>1. Home(m)[inc] = Place(n)
    BY HomeIsPlace DEF TookPair
  <2>2. home[inc] \in Seq(Entry)
    BY <1>6, EntriesAreSequences
  <2>3. Len(Place(n)) = n - 1
    BY <1>1, <1>3, PlaceIs
  <2>4. \A d \in 1..(n - 1) : Place(n)[d] = <<Reads(d), frames[d].seen[Reads(d)]>>
    BY DEF Place
  <2> QED
    BY <1>6, <1>8, <2>1, <2>2, <2>3, <2>4
<1> DEFINE outer == Inside(m, home, inc + 1)
           e == <<m[inc], Cardinality(Like(m, home, inc + 1))>>
<1>10. outer = IF GroupOpens THEN Append(Place(n), e) ELSE Place(n)
  <2>1. inc + 1 \in Nat \ {0} /\ (inc + 1) - 1 = inc /\ inc + 1 > 1
    BY <1>1
  <2> DEFINE j == inc + 1
  <2>2. home[j - 1] \in Seq(Entry)
    BY <1>9, <2>1
  <2>3. /\ ~(j > 1 /\ Starts(m, j - 1)) => Inside(m, home, j) = home[j - 1]
        /\ j > 1 /\ Starts(m, j - 1) =>
             Inside(m, home, j) = Append(home[j - 1], <<m[j - 1], Cardinality(Like(m, home, j))>>)
    <3> HIDE DEF j, home
    <3> QED
      BY <2>1, <2>2, InsideIs DEF j
  <2> HIDE DEF home
  <2> QED
    BY <1>7, <1>9, <2>1, <2>3
<1> HIDE DEF outer
<1>11. ASSUME GroupOpens PROVE Cardinality(Like(m, home, inc + 1)) = frames[n].seen[token] + 1
  <2> DEFINE old == {k \in 1..(inc - 1) : Counted(n, token, k)}
  <2>1. token \in Counters
    BY <1>11 DEF GroupOpens
  <2>2. frames[n].seen[token] = Cardinality(old)
    BY <1>3, <1>5, <2>1 DEF StartsCounted
  <2>3. IsFiniteSet(old) /\ Cardinality(old) \in Nat
    <3>1. IsFiniteSet(1..(inc - 1))
      BY <1>1, FS_Interval
    <3>2. IsFiniteSet(old)
      BY <3>1, FS_Subset
    <3> QED
      BY <3>2, FS_CardinalityType
  <2>4. ASSUME NEW k \in 1..(inc - 1)
        PROVE  k \in old <=> Starts(m, k) /\ m[k] = m[inc] /\ home[k] = home[inc]
    <3>1. k \in 1..Len(m) /\ k # 0
      BY <1>6
    <3>2. ~(frames[n].counter = k)
      BY <1>1, <1>3, <3>1
    <3>3. Home(m)[k] = home[k]
      BY <1>8, <3>1
    <3> QED
      BY <1>9, <3>2, <3>3 DEF Counted, token
  <2>5. (inc + 1) - 1 = inc /\ \A k \in 1..inc : k = inc \/ k \in 1..(inc - 1)
    BY <1>1, LastOrBefore
  <2>6. inc \in 1..inc /\ \A k \in 1..(inc - 1) : k \in 1..inc
    BY <1>1
  <2>7. Like(m, home, inc + 1) = {k \in 1..inc : Starts(m, k) /\ m[k] = m[inc] /\ home[k] = home[inc]}
    BY <2>5 DEF Like
  <2>8. \A k \in old : k \in 1..(inc - 1)
    OBVIOUS
  <2> HIDE DEF old, home
  <2>9. Like(m, home, inc + 1) = old \cup {inc}
    BY <1>7, <1>11, <2>4, <2>5, <2>6, <2>7, <2>8
  <2>10. inc \notin old
    BY <1>1, <2>8
  <2> QED
    BY <2>2, <2>3, <2>9, <2>10, FS_AddElement
<1> HIDE DEF home
<1>12. outer = OpenNow'
  BY <1>1, <1>4 DEF OpenNow, outer, home
<1> SUFFICES ASSUME More'
             PROVE  /\ \A d \in 1..(n - 1) : outer[d] = <<Reads(d), frames[d].seen[Reads(d)]>>
                    /\ IF c = 0 THEN Len(outer) = n - 1
                       ELSE /\ Len(outer) = n /\ outer[n][1] = Reads(n)'
                            /\ token' # Stops[Reads(n)'] /\ c = inc' - 1
                            /\ outer[n][2] = frames[n].seen[Reads(n)'] + 1
  <2>1. \A d \in 1..(n - 1) : frames'[d].seen[Reads(d)'] = frames[d].seen[Reads(d)]
    BY <1>2, <1>3
  <2>2. frames'[n].seen = frames[n].seen
    BY <1>2, <1>3
  <2> QED
    BY <1>2, <1>12, <2>1, <2>2, Zenon DEF StartsFollow
<1>13. CASE GroupOpens
  <2>1. c = inc /\ c # 0 /\ c = inc' - 1
    BY <1>1, <1>13 DEF TookPair
  <2>2. outer = Append(Place(n), e)
    BY <1>10, <1>13
  <2>3. Place(n) \in Seq(Steps) /\ e[1] = m[inc] /\ e[2] = Cardinality(Like(m, home, inc + 1))
    BY <1>1, <1>3, PlaceIs
  <2> HIDE DEF e
  <2>4. Len(outer) = n /\ outer[n] = e /\ \A d \in 1..(n - 1) : outer[d] = Place(n)[d]
    <3>1. Len(Place(n)) + 1 = n
      BY <1>3, <1>9
    <3>2. /\ Len(outer) = Len(Place(n)) + 1 /\ outer[Len(Place(n)) + 1] = e
          /\ \A i \in 1..Len(Place(n)) : outer[i] = Place(n)[i]
      BY <2>2, <2>3, AppendIs
    <3> QED
      BY <1>9, <3>1, <3>2
  <2>5. Reads(n)' = token /\ token = m[inc]
    BY <1>2, <1>4, <2>1 DEF Reads, token
  <2>6. token' # Stops[token]
    BY <1>1, <1>4, <1>7, <1>13 DEF token, Starts
  <2> QED
    BY <1>9, <1>11, <1>13, <2>1, <2>3, <2>4, <2>5, <2>6
<1>14. CASE ~GroupOpens
  <2>1. c = 0 /\ outer = Place(n)
    BY <1>10, <1>14 DEF TookPair
  <2> QED
    BY <1>9, <2>1
<1> QED
  BY <1>13, <1>14

-----------------------------------------------------------------------------
(* The steps that read a pair.                                               *)
Pairs == ReadField \/ SkipCounter \/ SkipLastCounter \/ OpenGroup

LEMMA UnchangedTree ==
  ASSUME UNCHANGED tree
  PROVE  SameChildren /\ KeepsTree
BY DEF SameChildren, KeepsTree

LEMMA PairTakes ==
  ASSUME Pairs
  PROVE  /\ Takes /\ UNCHANGED <<maker, messages>> /\ inc' = inc + 1
         /\ (IF GroupOpens THEN inc ELSE 0) = IF OpenGroup THEN inc ELSE 0
<1>1. Takes /\ UNCHANGED <<maker, messages>> /\ inc' = inc + 1
  BY Zenon DEF Pairs, ReadField, SkipCounter, SkipLastCounter, OpenGroup, Resume
<1>2. CASE token \notin Counters
  <2>1. ~GroupOpens /\ ~OpenGroup
    BY <1>2 DEF GroupOpens, OpenGroup
  <2> QED
    BY <1>1, <2>1
<1>3. CASE token \in Counters
  <2>1. SkipCounter \/ SkipLastCounter \/ OpenGroup
    BY <1>3 DEF Pairs, ReadField
  <2>2. CASE OpenGroup
    <3>1. GroupOpens
      BY <2>2 DEF OpenGroup, GroupOpens
    <3> QED
      BY <1>1, <2>2, <3>1
  <2>3. CASE ~OpenGroup
    <3>1. ~GroupOpens
      <4>1. CASE SkipCounter
        BY <4>1 DEF SkipCounter, GroupOpens
      <4>2. CASE SkipLastCounter
        <5>1. inc = Len(message) => ~(inc < Len(message))
          BY <4>2 DEF SkipLastCounter
        <5> QED
          BY <4>2, <5>1 DEF SkipLastCounter, GroupOpens
      <4> QED
        BY <2>1, <2>3, <4>1, <4>2
    <3> QED
      BY <1>1, <2>3, <3>1
  <2> QED
    BY <2>2, <2>3
<1> QED
  BY <1>2, <1>3

LEMMA PairTook ==
  ASSUME Shape, Pairs
  PROVE  Shape' /\ TookPair(IF GroupOpens THEN inc ELSE 0)
<1> DEFINE c == IF GroupOpens THEN inc ELSE 0
<1>1. Takes /\ UNCHANGED <<maker, messages>> /\ inc' = inc + 1 /\ c = IF OpenGroup THEN inc ELSE 0
  BY PairTakes
<1>2. Shape' /\ GoesOn(c, RestAfter)
  <2>1. CASE OpenGroup
    BY <1>1, <2>1, OpenGroupShape
  <2>2. CASE ~OpenGroup
    <3>1. c = 0
      BY <1>1, <2>2
    <3>2. ReadField \/ SkipCounter \/ SkipLastCounter
      BY <2>2 DEF Pairs
    <3>3. Shape' /\ GoesOn(0, RestAfter)
      BY <3>2, ReadFieldShape, CounterShape
    <3> HIDE DEF c
    <3> QED
      BY <3>1, <3>3
  <2> QED
    BY <2>1, <2>2
<1>3. frames'[Len(frames)].seen = top.seen
  BY SeenStays DEF Pairs
<1> QED
  BY <1>1, <1>2, <1>3 DEF TookPair

LEMMA PairPaths ==
  ASSUME Shape, Shape', OrderInv, KidsYounger', PlaceInv, Pairs
  PROVE  /\ KeepsPaths /\ OneParent'
         /\ \A p \in DOMAIN tree : \A g \in Counters : Made(p, g)' = Made(p, g)
<1>1. KidsYounger /\ OneParent
  BY DEF OrderInv, PlaceInv
<1>2. CASE SkipCounter \/ SkipLastCounter \/ OpenGroup
  <2>1. UNCHANGED tree
    BY <1>2 DEF SkipCounter, SkipLastCounter, OpenGroup
  <2>2. SameChildren /\ KeepsTree
    BY <2>1, UnchangedTree
  <2> QED
    BY <1>1, <2>2, ValuePaths, Zenon
<1>3. CASE ReadField
  <2>1. KeepsTree
    BY <1>3, ReadFieldShape
  <2>2. CASE SameChildren
    BY <1>1, <2>1, <2>2, ValuePaths, Zenon
  <2>3. CASE ChildMore(AtEnd, token)
    <3>1. frames # <<>>
      BY <1>3 DEF ReadField, Takes
    <3>2. top.node \in DOMAIN tree /\ IsTree
      BY <3>1, CallFacts DEF Shape
    <3>3. AtEnd \in 1..(Len(Siblings) + 1) /\ \A i \in Places(token) : i < AtEnd
      <4>1. Len(Siblings) \in Nat /\ AtEnd \in 1..(Len(Siblings) + 1)
            /\ Places(token) \subseteq 1..Len(Siblings)
        BY <3>2, SiblingNodes
      <4> QED
        BY <4>1 DEF AtEnd
    <3>4. /\ KeepsPaths /\ OneParent'
          /\ \A p \in DOMAIN tree : \A g :
               Made(p, g)' = IF p = top.node /\ g = token THEN Made(p, g) + 1 ELSE Made(p, g)
      BY <1>1, <2>1, <2>3, <3>2, <3>3, ChildPaths
    <3>5. token \notin Counters
      BY <1>3 DEF ReadField
    <3> QED
      BY <3>4, <3>5
  <2> QED
    BY <1>3, <2>2, <2>3, ReadFieldShape
<1> QED
  BY <1>2, <1>3 DEF Pairs

LEMMA PairMade ==
  ASSUME Shape, Shape', OrderInv, KidsYounger', PlaceInv, Pairs
  PROVE  EntriesMade'
<1> DEFINE c == IF GroupOpens THEN inc ELSE 0
<1>1. TookPair(c) /\ \A p \in DOMAIN tree : \A g \in Counters : Made(p, g)' = Made(p, g)
  BY PairTook, PairPaths
<1>2. frames # <<>> /\ UNCHANGED <<maker, messages>>
  BY <1>1 DEF TookPair, Takes
<1>3. /\ DOMAIN frames' = 1..Len(frames)
      /\ \A d \in 1..Len(frames) : frames'[d].node = frames[d].node /\ frames'[d].seen = frames[d].seen
  BY <1>1, <1>2, GoneOn DEF TookPair
<1>4. DOMAIN frames = 1..Len(frames) /\ \A d \in 1..Len(frames) : frames[d].node \in DOMAIN tree
  BY <1>2, CallFacts
<1>5. column' = column /\ Counters' = Counters
  BY <1>2, SameFormat
<1>6. EntriesMade
  BY DEF PlaceInv
<1> SUFFICES ASSUME NEW d \in 1..Len(frames), NEW g \in Counters
             PROVE  (/\ frames[d].seen[g] <= Made(frames[d].node, g)
                     /\ column = 0 => frames[d].seen[g] = Made(frames[d].node, g))'
  BY <1>3, <1>5, Zenon DEF EntriesMade
<1>7. frames[d].seen[g] <= Made(frames[d].node, g) /\ (column = 0 => frames[d].seen[g] = Made(frames[d].node, g))
  BY <1>4, <1>6 DEF EntriesMade
<1>8. \A p : p = frames[d].node => Made(p, g)' = Made(p, g)
  BY <1>1, <1>4
<1>9. Made(frames[d].node, g)' = Made(frames[d].node, g)
  BY <1>3, <1>8, Zenon DEF Made, Row, Tag
<1> QED
  BY <1>3, <1>5, <1>7, <1>9

LEMMA PairFollows ==
  ASSUME Shape, Shape', FixInv, OrderInv, KidsYounger', PlaceInv, Pairs
  PROVE  /\ OneParent' /\ CountersOpen' /\ EntriesMade' /\ CallsFollow'
         /\ maker' = "ssmake" => InSsTags' /\ RestWhole'
<1> DEFINE c == IF GroupOpens THEN inc ELSE 0
<1>1. TookPair(c) /\ KeepsPaths /\ OneParent'
  BY PairTook, PairPaths
<1>2. UNCHANGED <<maker, messages>>
  BY <1>1 DEF TookPair
<1>3. EntriesMade'
  BY PairMade
<1> HIDE DEF c
<1>4. CountersOpen' /\ (maker' = "ssmake" => InSsTags' /\ RestWhole')
  BY <1>1, TakenOpen
<1>5. CallsFollow'
  <2> SUFFICES ASSUME Proper(message)'
               PROVE  (/\ CallsPlaced /\ CountersPlaced /\ HomesInTree
                       /\ maker = "rmake" => EntriesFollow /\ SeenBefore
                       /\ maker = "ssmake" => StartsFollow /\ StartsCounted)'
    BY DEF CallsFollow
  <2>1. Proper(message)
    BY <1>2, SameFormat
  <2>2. (CallsPlaced /\ CountersPlaced /\ HomesInTree)'
    BY <1>1, <2>1, TakenPlaces
  <2>3. maker = "rmake" => (EntriesFollow /\ SeenBefore)'
    BY <1>1, TakenFollowing
  <2>4. maker = "ssmake" => (StartsFollow /\ StartsCounted)'
    BY <1>1, <2>1, TakenStarts, TakenCounted
  <2> QED
    BY <1>2, <2>2, <2>3, <2>4
<1> QED
  BY <1>1, <1>3, <1>4, <1>5

-----------------------------------------------------------------------------
(* A call stops reading entries, or returns.                                 *)
Leaves(k) ==
  /\ frames # <<>> /\ UNCHANGED <<maker, messages, inc, tree>>
  /\ k \in 0..Len(frames) /\ Len(frames') = k /\ DOMAIN frames' = 1..k
  /\ \A d \in 1..k : /\ frames'[d].node = frames[d].node /\ frames'[d].seen = frames[d].seen
                     /\ frames'[d].rest = frames[d].rest
                     /\ frames'[d].counter \in {0, frames[d].counter}
  /\ \A d \in 1..(k - 1) : frames'[d].counter = frames[d].counter

LEMMA LeavesPlaces ==
  ASSUME Shape, NEW k, Leaves(k)
  PROVE  /\ \A d \in 1..k : Place(d)' = Place(d)
         /\ \A d \in 1..k : frames'[d].counter # 0 => Reads(d)' = Reads(d)
         /\ message' = message /\ column' = column /\ Counters' = Counters /\ Path' = Path
         /\ Home(message)' = Home(message) /\ Proper(message)' = Proper(message)
         /\ \A g : Members(g)' = Members(g)
         /\ \A d \in 1..k : d \in DOMAIN frames
<1>1. UNCHANGED <<maker, messages>> /\ k \in Nat /\ frames # <<>> /\ k <= Len(frames)
  BY CallFacts DEF Leaves
<1>2. /\ message' = message /\ column' = column /\ Counters' = Counters
      /\ \A m : Home(m)' = Home(m)
      /\ \A g : Members(g)' = Members(g)
      /\ \A m : Proper(m)' = Proper(m)
  BY <1>1, SameFormat
<1>3. \A d \in 1..k : Place(d)' = Place(d)
  <2> SUFFICES ASSUME NEW d \in 1..k PROVE Place(d)' = Place(d)
    OBVIOUS
  <2>1. \A e \in 1..(d - 1) : e \in 1..k /\ e \in 1..(k - 1)
    BY <1>1
  <2>2. \A e \in 1..(d - 1) : frames'[e].counter = frames[e].counter /\ frames'[e].seen = frames[e].seen
    BY <2>1 DEF Leaves
  <2>3. d \in Nat
    BY <1>1
  <2> QED
    BY <1>1, <2>2, <2>3, PlaceSame
<1>4. \A d \in 1..k : frames'[d].counter # 0 => Reads(d)' = Reads(d)
  BY <1>2 DEF Reads, Leaves
<1>5. UNCHANGED tree
  BY DEF Leaves
<1>6. Path' = Path
  BY <1>5 DEF Path, Parent, Rank
<1>7. Home(message)' = Home(message) /\ Proper(message)' = Proper(message)
  BY <1>1, SameFormat
<1>8. \A d \in 1..k : d \in DOMAIN frames
  BY <1>1, CallFacts
<1> QED
  BY <1>2, <1>3, <1>4, <1>6, <1>7, <1>8

LEMMA LeavesKeep ==
  ASSUME Shape, Shape', OrderInv, KidsYounger', PlaceInv, NEW k, Leaves(k)
  PROVE  /\ OneParent' /\ CountersOpen' /\ EntriesMade'
         /\ maker = "ssmake" => InSsTags' /\ RestWhole'
<1>1. UNCHANGED <<maker, messages, inc, tree>> /\ frames # <<>> /\ DOMAIN frames' = 1..k /\ k \in Nat
  BY CallFacts DEF Leaves
<1>2. /\ \A d \in 1..k : frames'[d].counter # 0 => Reads(d)' = Reads(d)
      /\ message' = message /\ column' = column /\ Counters' = Counters
      /\ \A g : Members(g)' = Members(g)
      /\ \A d \in 1..k : d \in DOMAIN frames
  BY LeavesPlaces
<1>3. OneParent'
  BY <1>1 DEF PlaceInv, OneParent
<1>4. ASSUME NEW d \in DOMAIN frames', frames'[d].counter # 0
      PROVE  /\ frames'[d].counter < Len(message')
             /\ message'[frames'[d].counter + 1] \in Members(Reads(d))'
  <2>1. d \in 1..k /\ d \in DOMAIN frames /\ frames'[d].counter = frames[d].counter
    BY <1>1, <1>2, <1>4 DEF Leaves
  <2>2. Reads(d)' = Reads(d)
    BY <1>2, <1>4, <2>1
  <2>3. Members(Reads(d))' = Members(Reads(d))
    BY <1>1, <2>2 DEF Members
  <2>4. frames[d].counter < Len(message) /\ message[frames[d].counter + 1] \in Members(Reads(d))
    BY <1>4, <2>1 DEF PlaceInv, CountersOpen
  <2> QED
    BY <1>2, <2>1, <2>3, <2>4
<1>5. EntriesMade'
  <2> SUFFICES ASSUME NEW d \in 1..k, NEW g \in Counters
               PROVE  (/\ frames[d].seen[g] <= Made(frames[d].node, g)
                       /\ column = 0 => frames[d].seen[g] = Made(frames[d].node, g))'
    BY <1>1, <1>2, Zenon DEF EntriesMade
  <2>1. frames'[d].node = frames[d].node /\ frames'[d].seen = frames[d].seen
    BY DEF Leaves
  <2>2. Made(frames[d].node, g)' = Made(frames[d].node, g)
    BY <1>1, <2>1 DEF Made, Row, Tag
  <2>3. frames[d].seen[g] <= Made(frames[d].node, g) /\ (column = 0 => frames[d].seen[g] = Made(frames[d].node, g))
    BY <1>2 DEF PlaceInv, EntriesMade
  <2> QED
    BY <1>2, <2>1, <2>2, <2>3
<1>6. ASSUME maker = "ssmake" PROVE InSsTags' /\ RestWhole'
  <2>1. InSsTags'
    BY <1>1, <1>6 DEF PlaceInv, InSsTags
  <2> SUFFICES ASSUME NEW d \in DOMAIN frames' \ {1}
               PROVE  frames'[d].rest = Members(Reads(d - 1))'
    BY <2>1 DEF RestWhole
  <2>2. d \in 1..k /\ d \in DOMAIN frames /\ frames'[d].rest = frames[d].rest
    BY <1>1, <1>2 DEF Leaves
  <2>3. d - 1 \in 1..(k - 1) /\ d - 1 \in 1..k
    BY <1>1, <2>2
  <2>4. Reads(d - 1)' = Reads(d - 1)
    <3>1. frames'[d - 1].counter = frames[d - 1].counter
      BY <2>3 DEF Leaves
    <3> QED
      BY <1>2, <3>1 DEF Reads
  <2>5. frames[d].rest = Members(Reads(d - 1))
    BY <1>6, <2>2 DEF PlaceInv, RestWhole
  <2>6. Members(Reads(d - 1))' = Members(Reads(d - 1))
    BY <1>1, <2>4 DEF Members
  <2> QED
    BY <2>2, <2>5, <2>6
<1> QED
  BY <1>3, <1>4, <1>5, <1>6 DEF CountersOpen

LEMMA LeavesFollow ==
  ASSUME Shape, PlaceInv, NEW k, Leaves(k), Proper(message)
  PROVE  /\ CallsPlaced' /\ CountersPlaced' /\ HomesInTree'
         /\ maker = "rmake" => SeenBefore'
<1>1. UNCHANGED <<maker, messages, inc, tree>> /\ frames # <<>> /\ DOMAIN frames' = 1..k
  BY DEF Leaves
<1>2. /\ \A d \in 1..k : Place(d)' = Place(d)
      /\ message' = message /\ Counters' = Counters /\ Path' = Path
      /\ Home(message)' = Home(message)
      /\ \A d \in 1..k : d \in DOMAIN frames
  BY LeavesPlaces
<1>3. CallsPlaced /\ CountersPlaced /\ HomesInTree /\ (maker = "rmake" => SeenBefore)
  BY <1>1 DEF PlaceInv, CallsFollow
<1>4. CallsPlaced'
  <2> SUFFICES ASSUME NEW d \in 1..k PROVE Path'[frames'[d].node] = Place(d)'
    BY <1>1, Zenon DEF CallsPlaced
  <2>1. frames'[d].node = frames[d].node /\ d \in DOMAIN frames
    BY <1>2 DEF Leaves
  <2> QED
    BY <1>2, <1>3, <2>1 DEF CallsPlaced
<1>5. CountersPlaced'
  <2> SUFFICES ASSUME NEW d \in 1..k, frames'[d].counter # 0
               PROVE  Home(message)'[frames'[d].counter] = Place(d)'
    BY <1>1, Zenon DEF CountersPlaced
  <2>1. frames'[d].counter = frames[d].counter /\ d \in DOMAIN frames
    BY <1>2 DEF Leaves
  <2> QED
    BY <1>2, <1>3, <2>1 DEF CountersPlaced
<1>6. HomesInTree'
  BY <1>1, <1>2, <1>3 DEF HomesInTree
<1>7. ASSUME maker = "rmake" PROVE SeenBefore'
  <2> SUFFICES ASSUME NEW d \in 1..k, NEW g \in Counters, frames'[d].seen[g] > 0
               PROVE  \E j \in 1..(inc - 1) : message[j] = g /\ Home(message)[j] = Place(d)
    BY <1>1, <1>2 DEF SeenBefore
  <2>1. frames'[d].seen = frames[d].seen /\ d \in DOMAIN frames
    BY <1>2 DEF Leaves
  <2> QED
    BY <1>3, <1>7, <2>1 DEF SeenBefore
<1> QED
  BY <1>4, <1>5, <1>6, <1>7

LEMMA CloseLeaves ==
  ASSUME Shape, CloseGroup
  PROVE  /\ Shape' /\ Leaves(Len(frames)) /\ frames'[Len(frames)].counter = 0
         /\ \A d \in 1..(Len(frames) - 1) : frames'[d] = frames[d]
<1>1. frames # <<>> /\ UNCHANGED <<maker, messages, inc, tree>>
  BY DEF CloseGroup
<1>2. Shape' /\ GoesOn(0, top.rest)
  BY CloseGroupShape
<1>3. Len(frames) \in Nat \ {0} /\ top = frames[Len(frames)]
  BY <1>1, CallFacts
<1>4. Len(frames') = Len(frames) /\ DOMAIN frames' = 1..Len(frames)
  <2>1. frames' \in Seq(Calls')
    BY <1>2 DEF Shape, Nested
  <2>2. Len(frames') = Len(frames)
    BY <1>2 DEF GoesOn
  <2> QED
    BY <2>1, <2>2
<1>5. frames'[Len(frames)].seen = top.seen
  BY SeenStays
<1> DEFINE n == Len(frames)
<1>6. /\ frames'[n].node = frames[n].node /\ frames'[n].rest = frames[n].rest /\ frames'[n].counter = 0
      /\ \A d \in 1..(n - 1) : frames'[d] = frames[d]
  BY <1>2, <1>3 DEF GoesOn
<1>7. \A d \in 1..n : d = n \/ d \in 1..(n - 1)
  BY <1>3, LastOrBefore
<1>8. ASSUME NEW d \in 1..n
      PROVE  /\ frames'[d].node = frames[d].node /\ frames'[d].seen = frames[d].seen
             /\ frames'[d].rest = frames[d].rest /\ frames'[d].counter \in {0, frames[d].counter}
  <2>1. CASE d = n
    BY <1>3, <1>5, <1>6, <2>1
  <2>2. CASE d \in 1..(n - 1)
    BY <1>6, <2>2
  <2> QED
    BY <1>7, <2>1, <2>2
<1>9. n \in 0..n /\ \A d \in 1..(n - 1) : frames'[d].counter = frames[d].counter
  BY <1>3, <1>6
<1> QED
  BY <1>1, <1>2, <1>4, <1>6, <1>8, <1>9 DEF Leaves

LEMMA ReturnLeaves ==
  ASSUME Shape, Return
  PROVE  /\ Shape' /\ Leaves(Len(frames) - 1)
         /\ \A d \in 1..(Len(frames) - 1) : frames'[d] = frames[d]
<1>1. frames # <<>> /\ UNCHANGED <<maker, messages, inc, tree>>
  BY DEF Return
<1>2. /\ Shape' /\ Len(frames') = Len(frames) - 1
      /\ \A i \in 1..(Len(frames) - 1) : frames'[i] = frames[i]
  BY ReturnShape
<1>3. Len(frames) \in Nat \ {0}
  BY <1>1, CallFacts
<1>4. DOMAIN frames' = 1..(Len(frames) - 1)
  <2>1. frames' \in Seq(Calls')
    BY <1>2 DEF Shape, Nested
  <2> QED
    BY <1>2, <2>1
<1> DEFINE k == Len(frames) - 1
<1>5. k \in 0..Len(frames) /\ \A d \in 1..(k - 1) : d \in 1..k
  BY <1>3
<1> QED
  BY <1>1, <1>2, <1>4, <1>5 DEF Leaves

(* What ends the reading of entries is not in the group.                     *)
LEMMA CloseFollows ==
  ASSUME Shape, Shape', OrderInv, KidsYounger', PlaceInv, CloseGroup, Proper(message)
  PROVE  /\ maker = "rmake" => EntriesFollow'
         /\ maker = "ssmake" => StartsFollow' /\ StartsCounted'
<1> DEFINE n == Len(frames)
<1>1. /\ frames # <<>> /\ UNCHANGED <<maker, messages, inc, tree>> /\ frames[n].counter # 0
      /\ More => token \notin Members(Reads(n))
  BY CallFacts DEF CloseGroup, Reads
<1>2. /\ Leaves(n) /\ frames'[n].counter = 0 /\ Len(frames') = n
      /\ \A d \in 1..(n - 1) : frames'[d] = frames[d]
  BY CloseLeaves DEF Leaves
<1>3. /\ n \in Nat \ {0} /\ DOMAIN frames = 1..n /\ DOMAIN frames' = 1..n /\ n \in DOMAIN frames
      /\ top = frames[n] /\ Reads(n) \in Counters
  BY <1>1, <1>2, CallFacts DEF Leaves
<1>4. /\ message' = message /\ Counters' = Counters /\ Home(message)' = Home(message)
      /\ \A d \in 1..n : Place(d)' = Place(d)
      /\ \A d \in 1..n : frames'[d].seen = frames[d].seen /\ frames'[d].rest = frames[d].rest
  BY <1>2, LeavesPlaces DEF Leaves
<1>5. More' <=> More
  BY <1>1, <1>4 DEF More
<1>6. top' = frames'[n]
  <2>1. frames' \in Seq(Calls')
    BY DEF Shape, Nested
  <2> QED
    BY <1>2, <1>3, <2>1 DEF top, Last
<1>7. ASSUME maker = "rmake" PROVE EntriesFollow'
  <2>1. EntriesFollow
    BY <1>1, <1>7 DEF PlaceInv, CallsFollow, Proper
  <2> DEFINE outer == Outer(message, OpenEntries(message)[inc - 1], inc)
  <2>2. outer = Outer(message', OpenEntries(message')[inc' - 1], inc')
    BY <1>1, <1>4
  <2> HIDE DEF outer
  <2> SUFFICES ASSUME More, NEW d \in 1..n, frames'[d].counter # 0
               PROVE  d < n /\ EntryRead(d, outer[d])'
    BY <1>2, <1>3, <1>5, <2>2, Zenon DEF EntriesFollow, outer
  <2>3. d \in 1..(n - 1) /\ d < n
    BY <1>2, <1>3
  <2>4. EntryRead(d, outer[d])
    <3>1. frames[d].counter # 0 /\ d \in DOMAIN frames
      BY <1>2, <1>3, <2>3
    <3> QED
      BY <2>1, <2>3, <3>1 DEF EntriesFollow, outer
  <2>5. d + 1 \in 1..n
    BY <1>3, <2>3
  <2>6. ~(d + 1 = n /\ frames[d + 1].counter = 0)
    BY <1>1
  <2>7. /\ frames[d].seen[outer[d].group] = outer[d].nth
        /\ outer[d].has = Groups[outer[d].group] \ frames[d + 1].rest
    BY <2>4, <2>6 DEF EntryRead
  <2>8. frames'[d].seen = frames[d].seen /\ frames'[d + 1].rest = frames[d + 1].rest
    BY <1>4, <2>5
  <2> HIDE DEF n
  <2>9. /\ frames'[d].seen[outer[d].group] = outer[d].nth
        /\ outer[d].has = Groups[outer[d].group] \ frames'[d + 1].rest
    BY <2>7, <2>8
  <2>10. outer' = outer
    BY <2>2 DEF outer
  <2> QED
    BY <2>3, <2>9, <2>10 DEF EntryRead
<1>8. ASSUME maker = "ssmake" PROVE StartsFollow'
  <2>1. StartsFollow /\ InSsTags
    BY <1>1, <1>8 DEF PlaceInv, CallsFollow
  <2>2. OpenNow' = OpenNow
    BY <1>1, <1>4 DEF OpenNow
  <2>3. token' = token
    BY <1>1, <1>4 DEF token
  <2> SUFFICES ASSUME More
               PROVE  /\ \A d \in 1..(n - 1) : OpenNow[d] = <<Reads(d)', frames'[d].seen[Reads(d)']>>
                      /\ Len(OpenNow) = n /\ token = Stops[OpenNow[n][1]]
    BY <1>2, <1>5, <1>6, <2>2, <2>3, Zenon DEF StartsFollow
  <2>4. ASSUME NEW d \in 1..(n - 1) PROVE OpenNow[d] = <<Reads(d)', frames'[d].seen[Reads(d)']>>
    <3>1. Reads(d)' = Reads(d) /\ frames'[d].seen = frames[d].seen
      BY <1>2, <1>4 DEF Reads
    <3>2. OpenNow[d] = <<Reads(d), frames[d].seen[Reads(d)]>>
      BY <2>1 DEF StartsFollow
    <3> QED
      BY <3>1, <3>2
  <2>5. Len(OpenNow) = n /\ OpenNow[n][1] = Reads(n)
    BY <1>1, <1>3, <2>1 DEF StartsFollow
  <2>6. token = Stops[Reads(n)]
    <3>1. token \in SsTags
      <4>1. message = messages[Len(messages)] /\ Len(messages) \in DOMAIN messages /\ inc \in 1..Len(message)
        BY <1>1, Reading DEF Shape, Inputs
      <4>2. message \in Seq(SsTags)
        BY <2>1, <4>1 DEF InSsTags
      <4> QED
        BY <4>1, <4>2 DEF token
    <3> QED
      BY <1>1, <1>8, <3>1 DEF Members
  <2> QED
    BY <2>4, <2>5, <2>6
<1>9. ASSUME maker = "ssmake" PROVE StartsCounted'
  <2>1. StartsCounted
    BY <1>1, <1>9 DEF PlaceInv, CallsFollow
  <2>2. frames[n].counter # inc - 1
    <3> SUFFICES ASSUME frames[n].counter = inc - 1 PROVE FALSE
      OBVIOUS
    <3>1. frames[n].counter < Len(message) /\ message[frames[n].counter + 1] \in Members(Reads(n))
      BY <1>1, <1>3 DEF PlaceInv, CountersOpen
    <3>2. inc \in Nat \ {0} /\ Len(message) \in Nat
      BY <1>1, Reading DEF Shape
    <3>3. frames[n].counter + 1 = inc /\ More
      BY <3>1, <3>2 DEF More
    <3> QED
      BY <1>1, <3>1, <3>3 DEF token
  <2>3. ASSUME NEW d \in 1..n, NEW g \in Counters, NEW j \in 1..(inc - 1)
        PROVE  Counted(d, g, j)' <=> Counted(d, g, j)
    <3>1. j # 0 /\ inc - 1 = inc' - 1
      BY <1>1
    <3>2. ~(d = n /\ frames[d].counter = j /\ j = inc - 1)
      BY <2>2
    <3>3. ~(d = n /\ frames'[d].counter = j)
      BY <1>2, <3>1
    <3>4. Place(d)' = Place(d)
      BY <1>4
    <3>5. /\ Counted(d, g, j) <=> Starts(message, j) /\ message[j] = g /\ Home(message)[j] = Place(d)
      BY <3>2 DEF Counted
    <3>6. /\ Counted(d, g, j)' <=> Starts(message, j)' /\ message'[j] = g /\ Home(message)'[j] = Place(d)'
      BY <1>2, <3>3 DEF Counted
    <3>7. Starts(message, j)' <=> Starts(message, j)
      BY <1>4 DEF Starts
    <3> QED
      BY <1>4, <3>4, <3>5, <3>6, <3>7
  <2> SUFFICES ASSUME NEW d \in 1..n, NEW g \in Counters
               PROVE  frames'[d].seen[g] = Cardinality({j \in 1..(inc' - 1) : Counted(d, g, j)'})
    BY <1>3, <1>4, Zenon DEF StartsCounted
  <2>4. {j \in 1..(inc' - 1) : Counted(d, g, j)'} = {j \in 1..(inc - 1) : Counted(d, g, j)}
    <3> DEFINE C(j) == Counted(d, g, j)'
               D(j) == Counted(d, g, j)
    <3>1. \A j \in 1..(inc - 1) : C(j) <=> D(j)
      BY <2>3, Zenon
    <3> HIDE DEF C, D
    <3>2. {j \in 1..(inc - 1) : C(j)} = {j \in 1..(inc - 1) : D(j)}
      BY <3>1
    <3>3. inc' = inc
      BY <1>1
    <3> QED
      BY <3>2, <3>3 DEF C, D
  <2>5. frames[d].seen[g] = Cardinality({j \in 1..(inc - 1) : Counted(d, g, j)})
    BY <1>3, <2>1 DEF StartsCounted
  <2> QED
    BY <1>4, <2>4, <2>5
<1> QED
  BY <1>7, <1>8, <1>9

(* What ends an entry does not stand in it; with start and stop, an entry is *)
(* ended by its stop only.                                                   *)
LEMMA ReturnFollows ==
  ASSUME Shape, Shape', OrderInv, KidsYounger', PlaceInv, Return, Proper(message), frames' # <<>>
  PROVE  /\ maker = "rmake" => EntriesFollow'
         /\ maker = "ssmake" => StartsFollow' /\ StartsCounted'
<1> DEFINE k == Len(frames) - 1
<1>1. /\ frames # <<>> /\ UNCHANGED <<maker, messages, inc, tree>> /\ top.counter = 0
      /\ More => token \notin top.rest
  BY DEF Return
<1>2. /\ Leaves(k) /\ Len(frames') = k /\ \A d \in 1..k : frames'[d] = frames[d]
  BY ReturnLeaves DEF Leaves
<1>3. /\ k \in Nat \ {0} /\ Len(frames) = k + 1 /\ DOMAIN frames = 1..Len(frames) /\ DOMAIN frames' = 1..k
      /\ top = frames[k + 1] /\ k + 1 \in DOMAIN frames
      /\ k \in DOMAIN frames /\ Reads(k) \in Counters /\ frames[k].counter # 0
  <2>1. Len(frames) \in Nat \ {0} /\ DOMAIN frames = 1..Len(frames) /\ top = frames[Len(frames)]
    BY <1>1, CallFacts
  <2>2. frames' \in Seq(Calls') /\ DOMAIN frames' = 1..k
    BY <1>2 DEF Shape, Nested, Leaves
  <2>3. k # 0
    BY <1>2, <2>2
  <2>4. k \in 1..(Len(frames) - 1) /\ k \in Nat \ {0} /\ Len(frames) = k + 1
    BY <2>1, <2>3
  <2>5. Reads(k) \in Counters /\ frames[k].counter # 0
    BY <1>1, <2>4, CallFacts
  <2> QED
    BY <2>1, <2>2, <2>4, <2>5
<1>4. /\ message' = message /\ Counters' = Counters /\ Home(message)' = Home(message)
      /\ \A d \in 1..k : Place(d)' = Place(d)
  BY <1>2, LeavesPlaces
<1>5. \A d \in 1..k : Reads(d)' = Reads(d)
  BY <1>2, <1>4 DEF Reads
<1>6. top' = frames[k] /\ More' = More
  <2>1. frames' \in Seq(Calls')
    BY DEF Shape, Nested
  <2>2. top' = frames'[k]
    BY <1>2, <1>3, <2>1 DEF top, Last
  <2> QED
    BY <1>1, <1>2, <1>3, <1>4, <2>2 DEF More
<1> HIDE DEF k
<1>7. ASSUME maker = "rmake" PROVE EntriesFollow'
  <2>1. EntriesFollow
    BY <1>1, <1>7 DEF PlaceInv, CallsFollow, Proper
  <2> DEFINE outer == Outer(message, OpenEntries(message)[inc - 1], inc)
  <2>2. outer = Outer(message', OpenEntries(message')[inc' - 1], inc')
    BY <1>1, <1>4
  <2> HIDE DEF outer
  <2>3. ASSUME More, NEW d \in 1..k
        PROVE  IF d < k THEN EntryRead(d, outer[d])' ELSE EntryToCome(d, outer[d])'
    <3>1. d < Len(frames) /\ d \in DOMAIN frames /\ frames[d].counter # 0
      <4>1. d \in 1..(Len(frames) - 1)
        BY <1>3
      <4> QED
        BY <1>1, <1>3, <4>1, CallFacts
    <3>2. EntryRead(d, outer[d])
      BY <2>1, <2>3, <3>1 DEF EntriesFollow, outer
    <3>3. ~(d + 1 = Len(frames) /\ token \in frames[d + 1].rest)
      BY <1>1, <1>3, <2>3
    <3>4. /\ frames[d].seen[outer[d].group] = outer[d].nth
          /\ outer[d].has = Groups[outer[d].group] \ frames[d + 1].rest
      BY <3>2, <3>3 DEF EntryRead
    <3>5. outer' = outer
      BY <2>2 DEF outer
    <3>6. CASE d < k
      <4>1. d + 1 \in 1..k
        BY <1>3, <3>6
      <4>2. frames'[d] = frames[d] /\ frames'[d + 1] = frames[d + 1]
        BY <1>2, <4>1
      <4> QED
        BY <3>4, <3>5, <3>6, <4>2 DEF EntryRead
    <3>7. CASE ~(d < k)
      <4>1. d = k
        BY <1>3, <3>7
      <4>2. frames'[d] = frames[d] /\ token' = token
        BY <1>1, <1>2, <1>4 DEF token
      <4>3. token \notin frames[d + 1].rest
        BY <1>1, <1>3, <2>3, <4>1
      <4>4. token \in Groups[outer[d].group] => token \in outer[d].has
        BY <3>4, <4>3
      <4> QED
        BY <3>4, <3>5, <3>7, <4>2, <4>4 DEF EntryToCome
    <3> QED
      BY <3>6, <3>7
  <2>4. outer' = outer
    BY <2>2 DEF outer
  <2>5. DOMAIN frames' = 1..k /\ Len(frames') = k
    BY <1>2, <1>3
  <2>6. More' => \A d \in DOMAIN frames' : frames'[d].counter # 0 =>
          IF d < Len(frames') THEN EntryRead(d, outer[d])' ELSE EntryToCome(d, outer[d])'
    BY <1>6, <2>3, <2>5, Zenon
  <2> QED
    BY <2>6 DEF EntriesFollow, outer
<1>8. ASSUME maker = "ssmake", More
      PROVE  /\ token = Stops[Reads(k)] /\ Len(OpenNow) = k
             /\ \A d \in 1..k : OpenNow[d] = <<Reads(d), frames[d].seen[Reads(d)]>>
  <2>1. StartsFollow /\ InSsTags /\ RestWhole
    BY <1>1, <1>8 DEF PlaceInv, CallsFollow
  <2>2. token = Stops[Reads(k)]
    <3>1. token \in SsTags
      <4>1. message = messages[Len(messages)] /\ Len(messages) \in DOMAIN messages /\ inc \in 1..Len(message)
        BY <1>1, <1>8, Reading DEF Shape, Inputs
      <4>2. message \in Seq(SsTags)
        BY <2>1, <4>1 DEF InSsTags
      <4> QED
        BY <4>1, <4>2 DEF token
    <3>2. top.rest = Members(Reads(k))
      <4>1. k + 1 \in DOMAIN frames \ {1} /\ (k + 1) - 1 = k
        BY <1>3
      <4> QED
        BY <1>3, <2>1, <4>1 DEF RestWhole
    <3> QED
      BY <1>1, <1>8, <3>1, <3>2 DEF Members
  <2>3. \A d \in 1..k : OpenNow[d] = <<Reads(d), frames[d].seen[Reads(d)]>>
    <3>1. \A d \in 1..(Len(frames) - 1) : OpenNow[d] = <<Reads(d), frames[d].seen[Reads(d)]>>
      BY <1>8, <2>1 DEF StartsFollow
    <3>2. Len(frames) - 1 = k
      BY <1>3
    <3> QED
      BY <3>1, <3>2
  <2>4. Len(OpenNow) = k \/ (Len(OpenNow) = k + 1 /\ token = Stops[OpenNow[k + 1][1]])
    <3>1. Len(frames) - 1 = k
      BY <1>3
    <3>2. \/ Len(OpenNow) = Len(frames) - 1
          \/ Len(OpenNow) = Len(frames) /\ token = Stops[OpenNow[Len(frames)][1]]
      BY <1>1, <1>8, <2>1, Zenon DEF StartsFollow
    <3> QED
      BY <1>3, <3>1, <3>2
  <2>5. ~(Len(OpenNow) = k + 1 /\ token = Stops[OpenNow[k + 1][1]])
    <3> SUFFICES ASSUME Len(OpenNow) = k + 1, token = Stops[OpenNow[k + 1][1]] PROVE FALSE
      OBVIOUS
    <3>1. inc \in 1..Len(message) /\ Len(message) \in Nat /\ DOMAIN message = 1..Len(message)
      <4>1. message \in Seq(AllTags) /\ inc \in 1..Len(message)
        BY <1>1, <1>8, Reading DEF Shape
      <4> QED
        BY <4>1
    <3>2. WellFormed(message)
      BY <1>8 DEF Proper
    <3>3. \A d \in 2..Len(OpenNow) : Stops[OpenNow[d][1]] # Stops[OpenNow[d - 1][1]]
      BY <1>8, <3>1, <3>2, StopsDiffer DEF OpenNow
    <3>4. k + 1 \in 2..Len(OpenNow) /\ (k + 1) - 1 = k /\ k \in 1..k
      BY <1>3
    <3>5. Stops[OpenNow[k + 1][1]] # Stops[OpenNow[k][1]]
      BY <3>3, <3>4
    <3>6. OpenNow[k][1] = Reads(k)
      BY <2>3, <3>4
    <3> QED
      BY <2>2, <3>5, <3>6
  <2> QED
    BY <2>2, <2>3, <2>4, <2>5
<1>9. ASSUME maker = "ssmake" PROVE StartsFollow'
  <2>1. OpenNow' = OpenNow
    BY <1>1, <1>4 DEF OpenNow
  <2>2. token' = token /\ \A d \in 1..k : frames'[d] = frames[d] /\ Reads(d)' = Reads(d)
    BY <1>1, <1>2, <1>4, <1>5 DEF token
  <2>3. k \in 1..k /\ (\A d \in 1..(k - 1) : d \in 1..k) /\ top' = frames[k] /\ Len(frames') = k
        /\ frames[k].counter # 0
    BY <1>2, <1>3, <1>6
  <2>7. Reads(Len(frames))' = Reads(k)
    BY <1>4, <2>2, <2>3 DEF Reads
  <2> SUFFICES ASSUME More
               PROVE  /\ \A d \in 1..(k - 1) : OpenNow[d] = <<Reads(d)', frames'[d].seen[Reads(d)']>>
                      /\ Len(OpenNow) = k
                      /\ OpenNow[k][1] = Reads(k) /\ token' = Stops[Reads(k)]
                      /\ OpenNow[k][2] = frames[k].seen[Reads(k)]
    BY <1>6, <2>1, <2>3, <2>7 DEF StartsFollow
  <2>4. OpenNow[k] = <<Reads(k), frames[k].seen[Reads(k)]>>
    BY <1>8, <1>9, <2>3
  <2>5. token = Stops[Reads(k)] /\ Len(OpenNow) = k
    BY <1>8, <1>9
  <2>6. ASSUME NEW d \in 1..(k - 1) PROVE OpenNow[d] = <<Reads(d)', frames'[d].seen[Reads(d)']>>
    <3>1. OpenNow[d] = <<Reads(d), frames[d].seen[Reads(d)]>>
      BY <1>8, <1>9, <2>3
    <3> QED
      BY <2>2, <2>3, <3>1
  <2> QED
    BY <2>2, <2>4, <2>5, <2>6
<1>10. ASSUME maker = "ssmake" PROVE StartsCounted'
  <2>1. StartsCounted /\ RestWhole
    BY <1>1, <1>10 DEF PlaceInv, CallsFollow
  <2>2. frames[k].counter # inc - 1
    <3> SUFFICES ASSUME frames[k].counter = inc - 1 PROVE FALSE
      OBVIOUS
    <3>1. frames[k].counter < Len(message) /\ message[frames[k].counter + 1] \in Members(Reads(k))
      BY <1>3 DEF PlaceInv, CountersOpen
    <3>2. inc \in Nat \ {0} /\ Len(message) \in Nat
      BY <1>1, Reading DEF Shape
    <3>3. frames[k].counter + 1 = inc /\ More
      BY <3>1, <3>2 DEF More
    <3>4. top.rest = Members(Reads(k))
      <4>1. k + 1 \in DOMAIN frames \ {1} /\ (k + 1) - 1 = k
        BY <1>3
      <4> QED
        BY <1>3, <2>1, <4>1 DEF RestWhole
    <3> QED
      BY <1>1, <3>1, <3>3, <3>4 DEF token
  <2>3. ASSUME NEW d \in 1..k, NEW g \in Counters, NEW j \in 1..(inc - 1)
        PROVE  Counted(d, g, j)' <=> Counted(d, g, j)
    <3>1. inc - 1 = inc' - 1 /\ d # Len(frames)
      BY <1>1, <1>3
    <3>2. ~(d = Len(frames') /\ frames'[d].counter = j /\ j = inc' - 1)
      BY <1>2, <2>2, <3>1
    <3>3. Place(d)' = Place(d)
      BY <1>4
    <3>4. /\ Counted(d, g, j) <=> Starts(message, j) /\ message[j] = g /\ Home(message)[j] = Place(d)
      BY <3>1 DEF Counted
    <3>5. /\ Counted(d, g, j)' <=> Starts(message, j)' /\ message'[j] = g /\ Home(message)'[j] = Place(d)'
      BY <3>2 DEF Counted
    <3>6. Starts(message, j)' <=> Starts(message, j)
      BY <1>4 DEF Starts
    <3> QED
      BY <1>4, <3>3, <3>4, <3>5, <3>6
  <2> SUFFICES ASSUME NEW d \in 1..k, NEW g \in Counters
               PROVE  frames'[d].seen[g] = Cardinality({j \in 1..(inc' - 1) : Counted(d, g, j)'})
    BY <1>3, <1>4, Zenon DEF StartsCounted
  <2>4. {j \in 1..(inc' - 1) : Counted(d, g, j)'} = {j \in 1..(inc - 1) : Counted(d, g, j)}
    <3> DEFINE C(j) == Counted(d, g, j)'
               D(j) == Counted(d, g, j)
    <3>1. \A j \in 1..(inc - 1) : C(j) <=> D(j)
      BY <2>3, Zenon
    <3> HIDE DEF C, D
    <3>2. {j \in 1..(inc - 1) : C(j)} = {j \in 1..(inc - 1) : D(j)}
      BY <3>1
    <3>3. inc' = inc
      BY <1>1
    <3> QED
      BY <3>2, <3>3 DEF C, D
  <2>5. frames[d].seen[g] = Cardinality({j \in 1..(inc - 1) : Counted(d, g, j)})
    <3>1. d \in DOMAIN frames
      BY <1>3
    <3> QED
      BY <2>1, <3>1 DEF StartsCounted
  <2> QED
    BY <1>2, <2>4, <2>5
<1> QED
  BY <1>7, <1>9, <1>10

LEMMA LeftFollows ==
  ASSUME Shape, Shape', OrderInv, KidsYounger', PlaceInv, CloseGroup \/ Return
  PROVE  /\ OneParent' /\ CountersOpen' /\ EntriesMade' /\ CallsFollow'
         /\ maker' = "ssmake" => InSsTags' /\ RestWhole'
<1>1. PICK k : Leaves(k)
  BY CloseLeaves, ReturnLeaves
<1>2. UNCHANGED maker
  BY <1>1 DEF Leaves
<1>3. OneParent' /\ CountersOpen' /\ EntriesMade' /\ (maker = "ssmake" => InSsTags' /\ RestWhole')
  BY <1>1, LeavesKeep
<1>4. CallsFollow'
  <2> SUFFICES ASSUME Proper(message)', frames' # <<>>
               PROVE  (/\ CallsPlaced /\ CountersPlaced /\ HomesInTree
                       /\ maker = "rmake" => EntriesFollow /\ SeenBefore
                       /\ maker = "ssmake" => StartsFollow /\ StartsCounted)'
    BY DEF CallsFollow
  <2>1. Proper(message)
    BY <1>1, LeavesPlaces
  <2>2. CallsPlaced' /\ CountersPlaced' /\ HomesInTree' /\ (maker = "rmake" => SeenBefore')
    BY <1>1, <2>1, LeavesFollow
  <2>3. (maker = "rmake" => EntriesFollow') /\ (maker = "ssmake" => StartsFollow' /\ StartsCounted')
    BY <2>1, CloseFollows, ReturnFollows
  <2> QED
    BY <1>2, <2>2, <2>3
<1> QED
  BY <1>2, <1>3, <1>4

-----------------------------------------------------------------------------
(* A call for an entry: the one of this turn, wherever it stands.            *)
LEMMA UptoReaches ==
  ASSUME NEW row, NEW t, NEW n \in Nat, NEW k \in Nat \ {0}, k <= Upto(row, n, t)
  PROVE  \E i \in 1..n : row[i] = t /\ Upto(row, i, t) = k
<1> DEFINE S == {i \in 0..n : k <= Upto(row, i, t)}
           m == Min(S)
<1>1. n \in S /\ S \in SUBSET Nat
  OBVIOUS
<1> HIDE DEF S
<1>2. m \in S /\ \A y \in S : m <= y
  BY <1>1, SmallestMember
<1> HIDE DEF m
<1>3. m \in 0..n /\ k <= Upto(row, m, t)
  BY <1>2 DEF S
<1>4. m # 0
  <2>1. Upto(row, 0, t) = 0
    BY UptoIs
  <2> QED
    BY <1>3, <2>1
<1>5. m - 1 \in Nat /\ (m - 1) + 1 = m /\ m - 1 \in 0..n /\ m \in 1..n
  BY <1>3, <1>4
<1>6. m - 1 \notin S
  <2>1. ~(m <= m - 1)
    BY <1>5
  <2> QED
    BY <1>2, <2>1
<1>7. Upto(row, m - 1, t) \in Nat /\ Upto(row, m - 1, t) < k
  <2>1. Upto(row, m - 1, t) \in Nat
    BY <1>5, UptoIs
  <2>2. ~(k <= Upto(row, m - 1, t))
    BY <1>5, <1>6 DEF S
  <2> QED
    BY <2>1, <2>2
<1>8. Upto(row, m, t) = Upto(row, m - 1, t) + (IF row[m] = t THEN 1 ELSE 0)
  <2> DEFINE b == m - 1
  <2>1. Upto(row, b + 1, t) = Upto(row, b, t) + (IF row[b + 1] = t THEN 1 ELSE 0)
    BY <1>5, UptoIs
  <2> QED
    BY <1>5, <2>1
<1>9. row[m] = t /\ Upto(row, m, t) = k
  BY <1>3, <1>7, <1>8
<1> QED
  BY <1>5, <1>9

LEMMA MadeIs ==
  ASSUME IsTree, NEW p \in DOMAIN tree, NEW g
  PROVE  /\ Made(p, g) \in Nat /\ Len(tree[p].kids) \in Nat
         /\ DOMAIN tree[p].kids = 1..Len(tree[p].kids) /\ DOMAIN Row(p) = 1..Len(tree[p].kids)
         /\ \A i \in 1..Len(tree[p].kids) : Upto(Row(p), i, g) \in Nat /\ Upto(Row(p), i, g) <= Made(p, g)
<1> DEFINE n == Len(tree[p].kids)
<1>1. n \in Nat /\ DOMAIN tree[p].kids = 1..n
  <2>1. tree[p].kids \in Seq(Nat)
    BY DEF IsTree, Nodes
  <2> QED
    BY <2>1
<1>2. DOMAIN Row(p) = 1..n
  BY <1>1 DEF Row
<1>3. Made(p, g) \in Nat
  BY <1>1, UptoIs DEF Made
<1> HIDE DEF n
<1>4. ASSUME NEW i \in 1..n PROVE Upto(Row(p), i, g) \in Nat /\ Upto(Row(p), i, g) <= Upto(Row(p), n, g)
  <2>1. i \in Nat /\ n \in Nat
    BY <1>1
  <2>2. Upto(Row(p), i, g) \in Nat
    BY <2>1, UptoIs
  <2>3. CASE i = n
    BY <2>2, <2>3
  <2>4. CASE i # n
    <3>1. i < n /\ n \in Nat \ {0}
      BY <1>1, <2>4
    <3> QED
      BY <2>1, <2>2, <3>1, UptoLess
  <2> QED
    BY <2>3, <2>4
<1> QED
  BY <1>1, <1>2, <1>3, <1>4 DEF Made, n

LEMMA LinesUpto ==
  ASSUME IsTree, top.node \in DOMAIN tree, NEW g, NEW i \in DOMAIN Siblings, column # 0
  PROVE  /\ Cardinality({j \in Lines(g) : j <= i}) = Upto(Row(top.node), i, g)
         /\ i \in Lines(g) <=> Row(top.node)[i] = g
<1>1. DOMAIN Siblings = 1..Len(Siblings) /\ Len(Siblings) \in Nat /\ Siblings = tree[top.node].kids
  BY SiblingNodes DEF Siblings
<1>2. \A j \in DOMAIN Siblings : Row(top.node)[j] = tree[Siblings[j]].tag
  BY <1>1 DEF Row, Tag
<1>3. Lines(g) = {j \in DOMAIN Siblings : Row(top.node)[j] = g}
  BY <1>2 DEF Lines, Places
<1>4. {j \in Lines(g) : j <= i} = {j \in 1..i : Row(top.node)[j] = g}
  BY <1>1, <1>3
<1> QED
  BY <1>3, <1>4 DEF Upto

(* What a call for an entry finds or makes.                                  *)
EntryCall(g, n) ==
  /\ frames # <<>> /\ More /\ top.counter # 0 /\ g = Reads(n) /\ n = Len(frames)
  /\ g \in Counters /\ token \in Members(g) /\ UNCHANGED <<maker, messages, inc>>
  /\ frames[n].counter # 0 /\ n \in Nat \ {0}

LEMMA EntryCalls ==
  ASSUME Shape, ReadEntry
  PROVE  /\ EntryCall(Reads(Len(frames)), Len(frames))
         /\ message[top.counter] = Reads(Len(frames)) /\ top = frames[Len(frames)]
<1>1. /\ frames # <<>> /\ More /\ top.counter # 0 /\ token \in Members(message[top.counter])
      /\ UNCHANGED <<maker, messages, inc>>
  BY Zenon DEF ReadEntry
<1>2. /\ Len(frames) \in Nat \ {0} /\ top = frames[Len(frames)]
      /\ Len(frames) \in 1..Len(frames)
      /\ \A d \in 1..Len(frames) : frames[d].counter # 0 => Reads(d) \in Counters
  BY <1>1, CallFacts
<1>3. message[top.counter] = Reads(Len(frames))
  BY <1>2 DEF Reads
<1> QED
  BY <1>1, <1>2, <1>3 DEF EntryCall

(* An entry of this turn is there as soon as there are that many.            *)
LEMMA EntriesAre ==
  ASSUME Shape, top.node \in DOMAIN tree, NEW g \in Counters, top.seen[g] \in Nat
  PROVE  /\ \A i \in Entries(g) :
              /\ column # 0 /\ i \in DOMAIN Siblings /\ Row(top.node)[i] = g
              /\ Turns(top.node, i) = top.seen[g] + 1
         /\ Entries(g) = {} /\ column # 0 => Made(top.node, g) <= top.seen[g]
<1> DEFINE p == top.node
<1>1. IsTree
  BY DEF Shape
<1>2. /\ Made(p, g) \in Nat /\ Siblings = tree[p].kids
      /\ DOMAIN Siblings = 1..Len(Siblings) /\ Len(Siblings) \in Nat
  BY <1>1, MadeIs DEF Siblings
<1>3. ASSUME NEW i \in Entries(g)
      PROVE  /\ column # 0 /\ i \in DOMAIN Siblings /\ Row(p)[i] = g
             /\ Turns(p, i) = top.seen[g] + 1
  <2>1. i \in Lines(g) /\ Cardinality({j \in Lines(g) : j <= i}) = top.seen[g] + 1
    BY <1>3 DEF Entries, Turn
  <2>2. column # 0 /\ i \in DOMAIN Siblings
    BY <2>1 DEF Lines, Places
  <2>3. Cardinality({j \in Lines(g) : j <= i}) = Upto(Row(p), i, g) /\ Row(p)[i] = g
    BY <1>1, <2>1, <2>2, LinesUpto
  <2> QED
    BY <2>1, <2>2, <2>3 DEF Turns
<1>4. ASSUME Entries(g) = {}, column # 0 PROVE Made(p, g) <= top.seen[g]
  <2> SUFFICES ASSUME top.seen[g] + 1 <= Made(p, g) PROVE FALSE
    BY <1>2
  <2>1. \E i \in 1..Len(tree[p].kids) : Row(p)[i] = g /\ Upto(Row(p), i, g) = top.seen[g] + 1
    <3> DEFINE k == top.seen[g] + 1
               n == Len(tree[p].kids)
    <3>1. k \in Nat \ {0} /\ n \in Nat /\ k <= Upto(Row(p), n, g)
      BY <1>2 DEF Made
    <3> HIDE DEF k, n
    <3>2. \E i \in 1..n : Row(p)[i] = g /\ Upto(Row(p), i, g) = k
      BY <3>1, UptoReaches
    <3> QED
      BY <3>2 DEF k, n
  <2>2. PICK i \in 1..Len(tree[p].kids) : Row(p)[i] = g /\ Upto(Row(p), i, g) = top.seen[g] + 1
    BY <2>1
  <2>3. i \in DOMAIN Siblings
    BY <1>2
  <2>4. Cardinality({j \in Lines(g) : j <= i}) = Upto(Row(p), i, g) /\ i \in Lines(g)
    BY <1>1, <1>4, <2>2, <2>3, LinesUpto
  <2>5. i \in Entries(g)
    BY <2>2, <2>4 DEF Entries, Turn
  <2> QED
    BY <1>4, <2>5
<1> QED
  BY <1>3, <1>4

(* A new one goes behind those there are.                                    *)
LEMMA BehindAll ==
  ASSUME Shape, FixInv, PlaceInv, frames # <<>>, top.node \in DOMAIN tree, NEW g \in Counters
  PROVE  Behind(g) \in 1..(Len(Siblings) + 1) /\ \A i \in Places(g) : i < Behind(g)
<1>1. /\ Len(Siblings) \in Nat /\ AtEnd = Len(Siblings) + 1 /\ Places(g) \subseteq 1..Len(Siblings)
      /\ IsTree /\ Behind(g) \in 1..(Len(Siblings) + 1)
  BY SiblingNodes, BehindIsPlace DEF Shape, AtEnd
<1>2. CASE Lines(g) = {}
  <2>1. Behind(g) = AtEnd
    BY <1>2 DEF Behind
  <2> QED
    BY <1>1, <2>1
<1>3. CASE Lines(g) # {}
  <2>1. column # 0 /\ Lines(g) = Places(g)
    BY <1>3 DEF Lines
  <2>2. maker = "rmake"
    <3>1. Len(messages) \in Nat \ {0} /\ maker \in {"rmake", "ssmake"}
      BY Reading DEF Shape, Inputs
    <3>2. Len(messages) # 1
      BY <2>1, <3>1 DEF column
    <3>3. ~(Len(messages) <= 1)
      <4>1. \A k \in Nat \ {0} : k # 1 => ~(k <= 1)
        OBVIOUS
      <4> QED
        BY <3>1, <3>2, <4>1, Zenon
    <3> QED
      BY <3>1, <3>3 DEF PlaceInv, OneSs
  <2>3. Together(Row(top.node)) /\ g \in DOMAIN Groups
    BY <2>2 DEF FixInv, RowsTogether, Counters
  <2>4. \E a, z \in Nat : a <= z /\ Lines(g) = a..z /\ Behind(g) = z + 1
    BY <1>1, <1>3, <2>3, BehindIs
  <2> QED
    BY <1>1, <2>1, <2>4
<1> QED
  BY <1>2, <1>3

EntryPlaced(g, n) ==
  LET node == frames'[n + 1].node
  IN  /\ OneParent' /\ KeepsPaths /\ node \in DOMAIN tree'
      /\ Path'[node] = Append(Path[top.node], <<g, top.seen[g] + 1>>)
      /\ \A p \in DOMAIN tree : \A h \in Counters : Made(p, h)' >= Made(p, h)
      /\ \A p : p = top.node => Made(p, g)' >= top.seen[g] + 1
      /\ column = 0 =>
           /\ node = Size
           /\ \A h \in Counters : \A p : p = node => Made(p, h)' = 0
           /\ \A p \in DOMAIN tree : \A h \in Counters :
                Made(p, h)' = IF p = top.node /\ h = g THEN Made(p, h) + 1 ELSE Made(p, h)

LEMMA EntryPaths ==
  ASSUME Shape, Shape', FixInv, OrderInv, KidsYounger', PlaceInv, ReadEntry,
         NEW n, n = Len(frames), NEW g, g = Reads(n)
  PROVE  EntryPlaced(g, n)
<1> DEFINE p == top.node
<1>1. frames # <<>> /\ g \in Counters /\ message[top.counter] = g /\ n \in Nat \ {0} /\ top = frames[n]
  BY EntryCalls DEF EntryCall
<1>2. /\ p \in DOMAIN tree /\ top.seen[g] \in Nat /\ n \in DOMAIN frames
  <2>1. n \in 1..n /\ n \in DOMAIN frames /\ p \in DOMAIN tree
        /\ \A d \in 1..n : \A h \in Counters : frames[d].seen[h] \in Nat
    BY <1>1, CallFacts
  <2> QED
    BY <1>1, <2>1
<1>3. KidsYounger /\ OneParent /\ IsTree
  BY DEF OrderInv, PlaceInv, Shape
<1>4. /\ Shape' /\ KeepsTree
      /\ \/ Entries(g) # {} /\ UNCHANGED tree /\ \E i \in Entries(g) : Calling(Siblings[i])
         \/ Entries(g) = {} /\ Calling(Size) /\ ChildMore(Behind(g), g)
  BY <1>1, ReadEntryShape
<1>5. \A q \in DOMAIN tree : \A h : Made(q, h) \in Nat
  BY <1>3, MadeIs
<1>6. CASE Entries(g) # {} /\ UNCHANGED tree /\ \E i \in Entries(g) : Calling(Siblings[i])
  <2>1. PICK i \in Entries(g) : Calling(Siblings[i])
    BY <1>6
  <2>2. column # 0 /\ i \in DOMAIN Siblings /\ Row(p)[i] = g /\ Turns(p, i) = top.seen[g] + 1
    BY <1>1, <1>2, EntriesAre
  <2>3. SameChildren
    BY <1>6, UnchangedTree
  <2>4. /\ OneParent' /\ KeepsPaths /\ \A q \in DOMAIN tree : \A h : Made(q, h)' = Made(q, h)
    BY <1>3, <1>4, <2>3, ValuePaths
  <2>5. frames'[n + 1].node = Siblings[i]
    BY <2>1 DEF Calling
  <2>6. Siblings[i] \in DOMAIN tree /\ Siblings[i] \in DOMAIN tree'
    <3>1. Siblings[i] \in DOMAIN tree
      BY <1>2, <1>3, <2>2, SiblingNodes
    <3> QED
      BY <1>6, <3>1
  <2>7. Path[Siblings[i]] = Append(Path[p], <<g, top.seen[g] + 1>>)
    <3>1. PathFacts
      BY <1>3, PathsAre
    <3>2. Siblings = tree[p].kids
      BY DEF Siblings
    <3>3. i \in DOMAIN tree[p].kids /\ Siblings[i] = tree[p].kids[i]
      BY <2>2, <3>2
    <3>4. Path[tree[p].kids[i]] = Append(Path[p], <<Row(p)[i], Turns(p, i)>>)
      BY <1>2, <3>1, <3>3, Zenon DEF PathFacts
    <3> QED
      BY <2>2, <3>3, <3>4
  <2>8. Path'[Siblings[i]] = Path[Siblings[i]]
    BY <2>4, <2>6 DEF KeepsPaths
  <2>9. Made(p, g) >= top.seen[g] + 1
    <3>1. i \in 1..Len(tree[p].kids) /\ Upto(Row(p), i, g) <= Made(p, g)
      BY <1>2, <1>3, <2>2, MadeIs DEF Siblings
    <3>2. Upto(Row(p), i, g) = top.seen[g] + 1
      BY <2>2 DEF Turns
    <3> QED
      BY <1>2, <1>5, <3>1, <3>2
  <2>10. \A q \in DOMAIN tree : \A h \in Counters : Made(q, h)' >= Made(q, h)
    BY <1>5, <2>4
  <2>11. \A q : q = p => Made(q, g)' >= top.seen[g] + 1
    BY <1>2, <2>4, <2>9
  <2> QED
    BY <2>2, <2>4, <2>5, <2>6, <2>7, <2>8, <2>10, <2>11 DEF EntryPlaced
<1>7. CASE Entries(g) = {} /\ Calling(Size) /\ ChildMore(Behind(g), g)
  <2>1. Behind(g) \in 1..(Len(Siblings) + 1) /\ \A i \in Places(g) : i < Behind(g)
    BY <1>1, <1>2, BehindAll
  <2> DEFINE place == Behind(g)
  <2> HIDE DEF place
  <2>2. /\ OneParent' /\ KeepsPaths
        /\ \A m : m = Size => /\ Path'[m] = Append(Path[p], <<g, Made(p, g) + 1>>)
                              /\ \A h : Made(m, h)' = 0
        /\ \A q \in DOMAIN tree : \A h :
             Made(q, h)' = IF q = p /\ h = g THEN Made(q, h) + 1 ELSE Made(q, h)
    <3>1. place \in 1..(Len(Siblings) + 1) /\ ChildMore(place, g) /\ \A i \in Places(g) : i < place
      BY <1>7, <2>1 DEF place
    <3> QED
      BY <1>2, <1>3, <1>4, <3>1, ChildPaths
  <2>3. Made(p, g) = top.seen[g]
    <3>1. top.seen[g] <= Made(p, g) /\ (column = 0 => top.seen[g] = Made(p, g))
      BY <1>1, <1>2 DEF PlaceInv, EntriesMade
    <3>2. column # 0 => Made(p, g) <= top.seen[g]
      BY <1>1, <1>2, <1>7, EntriesAre
    <3> QED
      BY <1>2, <1>5, <3>1, <3>2
  <2>4. frames'[n + 1].node = Size /\ Size \in DOMAIN tree'
    BY <1>7 DEF Calling, ChildMore
  <2>5. \A q \in DOMAIN tree : \A h \in Counters : Made(q, h)' >= Made(q, h)
    BY <1>5, <2>2
  <2>6. \A q : q = p => Made(q, g)' >= top.seen[g] + 1
    BY <1>2, <2>2, <2>3
  <2>7. Path'[frames'[n + 1].node] = Append(Path[p], <<g, top.seen[g] + 1>>)
    BY <2>2, <2>3, <2>4
  <2> QED
    BY <2>2, <2>4, <2>5, <2>6, <2>7 DEF EntryPlaced
<1> QED
  BY <1>4, <1>6, <1>7

EntryFrames(g, n) ==
  /\ Len(frames') = n + 1 /\ DOMAIN frames' = 1..(n + 1) /\ top' = frames'[n + 1]
  /\ frames'[n].node = top.node /\ frames'[n].counter = frames[n].counter
  /\ frames'[n].rest = frames[n].rest
  /\ \A h \in Counters : /\ frames'[n].seen[h] = IF h = g THEN top.seen[h] + 1 ELSE top.seen[h]
                         /\ frames'[n + 1].seen[h] = 0
  /\ frames'[n + 1].counter = 0 /\ frames'[n + 1].rest = Members(g)
  /\ \A d \in 1..(n - 1) : frames'[d] = frames[d]
  /\ \A d \in 1..n : Reads(d)' = Reads(d) /\ Place(d)' = Place(d)
  /\ Place(n + 1)' = Append(Place(n), <<g, top.seen[g] + 1>>)

LEMMA EntryFramesAre ==
  ASSUME Shape, Shape', ReadEntry, NEW n, n = Len(frames), NEW g, g = Reads(n)
  PROVE  EntryFrames(g, n)
<1>1. /\ frames # <<>> /\ top.counter # 0 /\ g \in Counters /\ message[top.counter] = g
      /\ n \in Nat \ {0} /\ top = frames[n] /\ UNCHANGED <<maker, messages>>
  BY EntryCalls DEF EntryCall
<1>2. \E child : Calling(child)
  <2>1. LET group == message[top.counter]
        IN  \/ Entries(group) # {} /\ UNCHANGED tree /\ \E i \in Entries(group) : Calling(Siblings[i])
            \/ Entries(group) = {} /\ Calling(Size) /\ ChildMore(Behind(group), group)
    BY ReadEntryShape
  <2> QED
    BY <2>1
<1>3. /\ Len(frames') = n + 1
      /\ frames'[n].node = top.node /\ frames'[n].counter = frames[n].counter
      /\ frames'[n].rest = frames[n].rest
      /\ frames'[n + 1].counter = 0 /\ frames'[n + 1].rest = Members(g)
      /\ \A d \in 1..(n - 1) : frames'[d] = frames[d]
  BY <1>1, <1>2 DEF Calling
<1>4. DOMAIN frames' = 1..(n + 1) /\ top' = frames'[n + 1]
  <2>1. frames' \in Seq(Calls')
    BY DEF Shape, Nested
  <2> QED
    BY <1>1, <1>3, <2>1 DEF top, Last
<1>5. \A h \in Counters : /\ frames'[n].seen[h] = IF h = g THEN top.seen[h] + 1 ELSE top.seen[h]
                          /\ frames'[n + 1].seen[h] = 0
  BY ReadEntrySeen
<1>6. message' = message
  BY <1>1, SameFormat
<1>7. \A d \in 1..n : Reads(d)' = Reads(d)
  <2> SUFFICES ASSUME NEW d \in 1..n PROVE Reads(d)' = Reads(d)
    OBVIOUS
  <2>1. d = n \/ d \in 1..(n - 1)
    BY <1>1, LastOrBefore
  <2>2. frames'[d].counter = frames[d].counter
    BY <1>3, <2>1
  <2> QED
    BY <1>6, <2>2 DEF Reads
<1>8. \A d \in 1..n : Place(d)' = Place(d)
  <2> SUFFICES ASSUME NEW d \in 1..n PROVE Place(d)' = Place(d)
    OBVIOUS
  <2>1. d \in Nat /\ \A e \in 1..(d - 1) : e \in 1..(n - 1)
    BY <1>1
  <2>2. \A e \in 1..(d - 1) : frames'[e].counter = frames[e].counter /\ frames'[e].seen = frames[e].seen
    BY <1>3, <2>1
  <2> QED
    BY <1>1, <2>1, <2>2, PlaceSame
<1>9. Place(n + 1)' = Append(Place(n), <<g, top.seen[g] + 1>>)
  <2> DEFINE f == [e \in 1..n |-> <<Reads(e)', frames'[e].seen[Reads(e)']>>]
             S == {f[e] : e \in 1..n}
             short == [e \in 1..(n - 1) |-> f[e]]
  <2>1. Place(n + 1)' = [e \in 1..n |-> f[e]]
    <3>1. (n + 1) - 1 = n
      BY <1>1
    <3>2. Place(n + 1)' = [e \in 1..((n + 1) - 1) |-> <<Reads(e)', frames'[e].seen[Reads(e)']>>]
      BY DEF Place
    <3> QED
      BY <3>1, <3>2
  <2>2. \A e \in 1..n : f[e] \in S
    OBVIOUS
  <2>3. n \in 1..n /\ \A e \in 1..(n - 1) : e \in 1..n
    BY <1>1
  <2>4. f[n] = <<g, top.seen[g] + 1>>
    BY <1>1, <1>5, <1>7, <2>3
  <2>5. short = Place(n)
    <3>1. \A e \in 1..(n - 1) : f[e] = <<Reads(e), frames[e].seen[Reads(e)]>>
      BY <1>3, <1>7, <2>3
    <3> QED
      BY <3>1 DEF Place
  <2> HIDE DEF f, S
  <2>6. [e \in 1..n |-> f[e]] = Append(short, f[n])
    BY <1>1, <2>2, OneMore
  <2> QED
    BY <2>1, <2>4, <2>5, <2>6
<1> QED
  BY <1>3, <1>4, <1>5, <1>7, <1>8, <1>9 DEF EntryFrames

LEMMA MadeNumber == IsTree => \A p \in DOMAIN tree : \A g : Made(p, g) \in Nat
BY MadeIs

LEMMA MadeNumberNext == IsTree' => (\A p \in DOMAIN tree : \A g : Made(p, g) \in Nat)'
BY MadeNumber, PTL

LEMMA EntryMade ==
  ASSUME Shape, Shape', FixInv, OrderInv, KidsYounger', PlaceInv, ReadEntry
  PROVE  EntriesMade'
<1>1. PICK n : n = Len(frames)
  OBVIOUS
<1>2. PICK g : g = Reads(n)
  OBVIOUS
<1>3. EntryFrames(g, n) /\ EntryPlaced(g, n)
  BY <1>1, <1>2, EntryFramesAre, EntryPaths
<1>4. /\ frames # <<>> /\ g \in Counters /\ n \in Nat \ {0} /\ top = frames[n]
      /\ UNCHANGED <<maker, messages>>
  BY <1>1, <1>2, EntryCalls DEF EntryCall
<1>5. /\ column' = column /\ Counters' = Counters
  BY <1>4, SameFormat
<1>6. /\ DOMAIN frames = 1..n /\ n \in 1..n
      /\ \A d \in 1..n : frames[d].node \in DOMAIN tree /\ \A h \in Counters : frames[d].seen[h] \in Nat
  BY <1>1, <1>4, CallFacts
<1>7. \A p \in DOMAIN tree : \A h : Made(p, h) \in Nat
  BY MadeNumber DEF Shape
<1>8. \A d \in 1..n : \A h \in Counters :
        /\ frames[d].seen[h] <= Made(frames[d].node, h)
        /\ column = 0 => frames[d].seen[h] = Made(frames[d].node, h)
  BY <1>6 DEF PlaceInv, EntriesMade
<1>9. ASSUME column = 0, NEW d \in 1..(n - 1) PROVE frames[d].node # top.node
  <2>1. Len(messages) = 1
    <3>1. Len(messages) \in Nat
      BY <1>4, Reading DEF Shape
    <3> QED
      BY <1>9, <3>1 DEF column
  <2>2. Younger
    BY <2>1 DEF OrderInv, Ordered
  <2>3. d \in 1..n /\ d < n
    BY <1>4
  <2>4. frames[d].node < frames[n].node
    BY <1>6, <2>2, <2>3 DEF Younger
  <2>5. frames[d].node \in Nat
    BY <2>3, <1>6 DEF Shape, IsTree
  <2> QED
    BY <1>4, <2>4, <2>5
<1> SUFFICES ASSUME NEW d \in 1..(n + 1), NEW h \in Counters, NEW p, p = frames'[d].node
             PROVE  /\ frames'[d].seen[h] <= Made(p, h)'
                    /\ column = 0 => frames'[d].seen[h] = Made(p, h)'
  <2>1. DOMAIN frames' = 1..(n + 1)
    BY <1>3 DEF EntryFrames
  <2>2. ASSUME NEW d \in 1..(n + 1), NEW h \in Counters
        PROVE  (/\ frames[d].seen[h] <= Made(frames[d].node, h)
                /\ column = 0 => frames[d].seen[h] = Made(frames[d].node, h))'
    <3>1. PICK p : p = frames'[d].node
      OBVIOUS
    <3>2. Made(frames[d].node, h)' = Made(p, h)'
      BY <3>1 DEF Made, Row, Tag
    <3> QED
      BY <1>5, <3>1, <3>2
  <2> QED
    BY <1>5, <2>1, <2>2, Zenon DEF EntriesMade
<1>10. CASE d \in 1..(n - 1)
  <2>1. frames'[d] = frames[d] /\ d \in 1..n
    <3>1. frames'[d] = frames[d]
      BY <1>3, <1>10 DEF EntryFrames
    <3>2. d \in 1..n
      BY <1>4, <1>10
    <3> QED
      BY <3>1, <3>2
  <2>2. p \in DOMAIN tree /\ Made(p, h)' >= Made(p, h) /\ Made(p, h) \in Nat
    BY <1>3, <1>6, <1>7, <2>1 DEF EntryPlaced
  <2>3. column = 0 => Made(p, h)' = Made(p, h)
    BY <1>3, <1>9, <1>10, <2>1, <2>2 DEF EntryPlaced
  <2>4. frames[d].seen[h] <= Made(p, h) /\ (column = 0 => frames[d].seen[h] = Made(p, h))
    BY <1>8, <2>1
  <2>5. frames[d].seen[h] \in Nat
    BY <1>6, <2>1
  <2>6. Made(p, h)' \in Nat
    <3>1. p \in DOMAIN tree'
      BY <1>3, <2>2 DEF EntryPlaced, KeepsPaths
    <3> QED
      BY <3>1, MadeNumberNext DEF Shape
  <2> QED
    BY <2>1, <2>2, <2>3, <2>4, <2>5, <2>6
<1>11. CASE d = n
  <2>1. /\ frames'[d].seen[h] = IF h = g THEN frames[n].seen[h] + 1 ELSE frames[n].seen[h]
        /\ p = top.node /\ p \in DOMAIN tree
    BY <1>3, <1>4, <1>6, <1>11 DEF EntryFrames
  <2>2. /\ Made(p, h)' >= Made(p, h) /\ Made(p, h) \in Nat
        /\ Made(p, g)' >= frames[n].seen[g] + 1
        /\ column = 0 => Made(p, h)' = IF h = g THEN Made(p, h) + 1 ELSE Made(p, h)
    BY <1>3, <1>4, <1>7, <2>1 DEF EntryPlaced
  <2>3. /\ frames[n].seen[h] <= Made(p, h) /\ (column = 0 => frames[n].seen[h] = Made(p, h))
        /\ frames[n].seen[h] \in Nat
    BY <1>4, <1>6, <1>8, <2>1
  <2>4. Made(p, h)' \in Nat
    <3>1. p \in DOMAIN tree'
      BY <1>3, <2>1 DEF EntryPlaced, KeepsPaths
    <3> QED
      BY <3>1, MadeNumberNext DEF Shape
  <2> QED
    BY <2>1, <2>2, <2>3, <2>4
<1>12. CASE d = n + 1
  <2>1. frames'[d].seen[h] = 0 /\ p \in DOMAIN tree' /\ (column = 0 => Made(p, h)' = 0)
    BY <1>3, <1>12 DEF EntryFrames, EntryPlaced
  <2>2. Made(p, h)' \in Nat
    BY <2>1, MadeNumberNext DEF Shape
  <2> QED
    BY <2>1, <2>2
<1>13. d = n + 1 \/ d = n \/ d \in 1..(n - 1)
  BY <1>4
<1> QED
  BY <1>10, <1>11, <1>12, <1>13

LEMMA EntryOpen ==
  ASSUME Shape, Shape', PlaceInv, ReadEntry
  PROVE  CountersOpen' /\ (maker = "ssmake" => InSsTags' /\ RestWhole')
<1>1. PICK n : n = Len(frames)
  OBVIOUS
<1>2. PICK g : g = Reads(n)
  OBVIOUS
<1>3. EntryFrames(g, n)
  BY <1>1, <1>2, EntryFramesAre
<1>4. /\ frames # <<>> /\ n \in Nat \ {0} /\ UNCHANGED <<maker, messages>>
  BY <1>1, <1>2, EntryCalls DEF EntryCall
<1>5. /\ message' = message /\ \A h : Members(h)' = Members(h)
  BY <1>4, SameFormat
<1>6. DOMAIN frames = 1..n
  BY <1>1, <1>4, CallFacts
<1>7. \A d \in 1..(n + 1) : d = n + 1 \/ d = n \/ d \in 1..(n - 1)
  BY <1>4
<1>8. \A d \in 1..n : frames'[d].counter = frames[d].counter /\ frames'[d].rest = frames[d].rest
  <2>1. \A d \in 1..n : d = n \/ d \in 1..(n - 1)
    BY <1>4
  <2> QED
    BY <1>3, <2>1 DEF EntryFrames
<1>9. CountersOpen'
  <2> SUFFICES ASSUME NEW d \in 1..(n + 1), frames'[d].counter # 0
               PROVE  frames'[d].counter < Len(message) /\ message[frames'[d].counter + 1] \in Members(Reads(d))'
    BY <1>3, <1>5 DEF CountersOpen, EntryFrames
  <2>1. d \in 1..n
    BY <1>3, <1>4, <1>7 DEF EntryFrames
  <2>2. frames[d].counter < Len(message) /\ message[frames[d].counter + 1] \in Members(Reads(d))
    BY <1>6, <1>8, <2>1 DEF PlaceInv, CountersOpen
  <2>3. Members(Reads(d))' = Members(Reads(d))
    BY <1>3, <1>4, <2>1 DEF EntryFrames, Members
  <2> QED
    BY <1>8, <2>1, <2>2, <2>3
<1>10. ASSUME maker = "ssmake" PROVE InSsTags' /\ RestWhole'
  <2>1. InSsTags' /\ RestWhole
    BY <1>4, <1>10 DEF PlaceInv, InSsTags
  <2> SUFFICES ASSUME NEW d \in 1..(n + 1) \ {1}
               PROVE  frames'[d].rest = Members(Reads(d - 1))'
    BY <1>3, <2>1 DEF RestWhole, EntryFrames
  <2>2. d - 1 \in 1..n /\ (d \in 1..n \/ d = n + 1)
    BY <1>4
  <2>3. Members(Reads(d - 1))' = Members(Reads(d - 1))
    BY <1>3, <1>4, <2>2 DEF EntryFrames, Members
  <2>4. CASE d \in 1..n
    BY <1>6, <1>8, <2>1, <2>3, <2>4 DEF RestWhole
  <2>5. CASE d = n + 1
    <3>1. d - 1 = n
      BY <1>4, <2>5
    <3> QED
      BY <1>2, <1>3, <2>3, <2>5, <3>1 DEF EntryFrames
  <2> QED
    BY <2>2, <2>4, <2>5
<1> QED
  BY <1>9, <1>10

LEMMA EntryOnPlaces ==
  ASSUME Shape, Shape', FixInv, OrderInv, KidsYounger', PlaceInv, ReadEntry, Proper(message)
  PROVE  CallsPlaced' /\ CountersPlaced' /\ HomesInTree'
<1>1. PICK n : n = Len(frames)
  OBVIOUS
<1>2. PICK g : g = Reads(n)
  OBVIOUS
<1>3. EntryFrames(g, n) /\ EntryPlaced(g, n)
  BY <1>1, <1>2, EntryFramesAre, EntryPaths
<1>4. /\ frames # <<>> /\ n \in Nat \ {0} /\ top = frames[n] /\ UNCHANGED <<maker, messages, inc>>
  BY <1>1, <1>2, EntryCalls DEF EntryCall
<1>5. /\ message' = message /\ Home(message)' = Home(message)
  BY <1>4, SameFormat
<1>6. /\ DOMAIN frames = 1..n /\ \A d \in 1..n : frames[d].node \in DOMAIN tree
  BY <1>1, <1>4, CallFacts
<1>7. CallsPlaced /\ CountersPlaced /\ HomesInTree
  BY <1>4 DEF PlaceInv, CallsFollow
<1>8. ASSUME NEW d \in 1..(n + 1) PROVE d = n + 1 \/ d \in 1..n
  BY <1>4
<1>9. ASSUME NEW d \in 1..n PROVE frames'[d].counter = frames[d].counter /\ frames'[d].node = frames[d].node
  <2>1. d = n \/ d \in 1..(n - 1)
    BY <1>4, LastOrBefore
  <2> QED
    BY <1>3, <1>4, <2>1 DEF EntryFrames
<1>10. DOMAIN frames' = 1..(n + 1) /\ n \in 1..n
  BY <1>3, <1>4 DEF EntryFrames
<1>11. CallsPlaced'
  <2> SUFFICES ASSUME NEW d \in 1..(n + 1) PROVE Path'[frames'[d].node] = Place(d)'
    BY <1>10, Zenon DEF CallsPlaced
  <2>1. CASE d \in 1..n
    <3>1. Path'[frames[d].node] = Path[frames[d].node]
      BY <1>3, <1>6, <2>1 DEF EntryPlaced, KeepsPaths
    <3>2. Path[frames[d].node] = Place(d)
      BY <1>6, <1>7, <2>1 DEF CallsPlaced
    <3>3. Place(d)' = Place(d)
      BY <1>3, <2>1 DEF EntryFrames
    <3> QED
      BY <1>9, <2>1, <3>1, <3>2, <3>3
  <2>2. CASE d = n + 1
    <3>1. Path[top.node] = Place(n)
      BY <1>4, <1>6, <1>7, <1>10 DEF CallsPlaced
    <3>2. Place(n + 1)' = Append(Place(n), <<g, top.seen[g] + 1>>)
      BY <1>3 DEF EntryFrames
    <3>3. Path'[frames'[n + 1].node] = Append(Path[top.node], <<g, top.seen[g] + 1>>)
      BY <1>3 DEF EntryPlaced
    <3> QED
      BY <2>2, <3>1, <3>2, <3>3
  <2> QED
    BY <1>8, <2>1, <2>2
<1>12. CountersPlaced'
  <2> SUFFICES ASSUME NEW d \in 1..(n + 1), frames'[d].counter # 0
               PROVE  Home(message)[frames'[d].counter] = Place(d)'
    BY <1>5, <1>10, Zenon DEF CountersPlaced
  <2>1. d \in 1..n
    BY <1>3, <1>8 DEF EntryFrames
  <2>2. Home(message)[frames[d].counter] = Place(d)
    BY <1>6, <1>7, <1>9, <2>1 DEF CountersPlaced
  <2>3. Place(d)' = Place(d)
    BY <1>3, <2>1 DEF EntryFrames
  <2> QED
    BY <1>9, <2>1, <2>2, <2>3
<1>13. HomesInTree'
  <2> SUFFICES ASSUME NEW k \in 1..(inc - 1)
               PROVE  \E q \in DOMAIN tree' : Home(message)[k] = Path'[q]
    BY <1>4, <1>5, Zenon DEF HomesInTree
  <2>1. PICK q \in DOMAIN tree : Home(message)[k] = Path[q]
    BY <1>7 DEF HomesInTree
  <2>2. q \in DOMAIN tree' /\ Path'[q] = Path[q]
    BY <1>3 DEF EntryPlaced, KeepsPaths
  <2> QED
    BY <2>1, <2>2
<1> QED
  BY <1>11, <1>12, <1>13

(* rmake: the entry is the one the format has for this pair.                 *)
LEMMA EntryFollowing ==
  ASSUME Shape, Shape', FixInv, OrderInv, KidsYounger', PlaceInv, ReadEntry, maker = "rmake"
  PROVE  EntriesFollow' /\ SeenBefore'
<1>1. PICK n : n = Len(frames)
  OBVIOUS
<1>2. PICK g : g = Reads(n)
  OBVIOUS
<1>3. EntryFrames(g, n)
  BY <1>1, <1>2, EntryFramesAre
<1>4. /\ frames # <<>> /\ n \in Nat \ {0} /\ top = frames[n] /\ UNCHANGED <<maker, messages, inc>>
      /\ More /\ token \in Members(g) /\ g \in Counters /\ frames[n].counter # 0
      /\ n \in 1..n
  BY <1>1, <1>2, EntryCalls DEF EntryCall
<1>5. /\ message' = message /\ Home(message)' = Home(message) /\ Counters' = Counters
  BY <1>4, SameFormat
<1>6. /\ DOMAIN frames = 1..n /\ \A h \in Counters : top.seen[h] \in Nat
      /\ \A d \in 1..(n - 1) : frames[d].counter # 0
      /\ frames[n].counter \in Nat /\ frames[n].counter < inc
  BY <1>1, <1>4, CallFacts
<1>7. EntriesFollow /\ SeenBefore /\ CountersPlaced
  BY <1>4 DEF PlaceInv, CallsFollow, Proper
<1>8. DOMAIN frames' = 1..(n + 1) /\ Len(frames') = n + 1
  BY <1>3 DEF EntryFrames
<1> DEFINE outer == Outer(message, OpenEntries(message)[inc - 1], inc)
<1>9. outer' = outer
  BY <1>4, <1>5
<1>10. ASSUME NEW d \in 1..n PROVE outer[d].group = Reads(d)
  <2>1. frames[d].counter # 0
    <3>1. d = n \/ d \in 1..(n - 1)
      BY <1>4, LastOrBefore
    <3> QED
      BY <1>4, <1>6, <3>1
  <2>2. Following
    BY DEF FixInv
  <2> QED
    BY <1>4, <1>6, <2>1, <2>2 DEF Following, Reads
<1>11. \A d \in 1..n : frames[d].counter # 0 =>
         IF d < n THEN EntryRead(d, outer[d]) ELSE EntryToCome(d, outer[d])
  BY <1>1, <1>4, <1>6, <1>7 DEF EntriesFollow
<1> HIDE DEF outer
<1>12. token' = token /\ Members(g) = Groups[g]
  BY <1>4, <1>5 DEF token, Members
<1>13. ASSUME NEW d \in 1..(n - 1) PROVE EntryRead(d, outer[d])'
  <2>1. d \in 1..n /\ d < n /\ d + 1 \in 1..n
    BY <1>4
  <2>2. EntryRead(d, outer[d])
    BY <1>6, <1>11, <2>1
  <2>3. ~(d + 1 = Len(frames) /\ frames[d + 1].counter = 0)
    BY <1>1, <1>4
  <2>4. /\ frames[d].seen[outer[d].group] = outer[d].nth
        /\ outer[d].has = Groups[outer[d].group] \ frames[d + 1].rest
    BY <2>2, <2>3 DEF EntryRead
  <2>5. frames'[d] = frames[d]
    BY <1>3 DEF EntryFrames
  <2>6. frames'[d + 1].rest = frames[d + 1].rest
    <3>1. d + 1 = n \/ d + 1 \in 1..(n - 1)
      BY <1>4
    <3>2. CASE d + 1 = n
      BY <1>3, <3>2 DEF EntryFrames
    <3>3. CASE d + 1 \in 1..(n - 1)
      BY <1>3, <3>3 DEF EntryFrames
    <3> QED
      BY <3>1, <3>2, <3>3
  <2> QED
    BY <1>9, <2>4, <2>5, <2>6 DEF EntryRead
<1>14. EntryRead(n, outer[n])'
  <2>1. outer[n].group = g
    BY <1>2, <1>4, <1>10
  <2>2. EntryToCome(n, outer[n])
    <3>1. ~(n < n)
      BY <1>4
    <3> QED
      BY <1>4, <1>11, <3>1
  <2>3. \/ top.seen[g] = outer[n].nth - 1 /\ outer[n].has = {}
        \/ top.seen[g] = outer[n].nth /\ token \in outer[n].has
    BY <1>4, <1>12, <2>1, <2>2 DEF EntryToCome
  <2>4. /\ frames'[n].seen[g] = top.seen[g] + 1 /\ Len(frames') = n + 1
        /\ frames'[n + 1].rest = Groups[g] /\ frames'[n + 1].counter = 0
    BY <1>3, <1>4, <1>12 DEF EntryFrames
  <2>5. CASE top.seen[g] = outer[n].nth - 1 /\ outer[n].has = {}
    <3>1. outer[n] \in Opened
      <4>1. Following
        BY DEF FixInv
      <4> QED
        BY <1>4, <1>6, <4>1 DEF Following, outer
    <3>2. top.seen[g] + 1 = outer[n].nth
      BY <1>4, <1>6, <2>5, <3>1 DEF Opened
    <3> QED
      BY <1>9, <2>1, <2>4, <2>5, <3>2 DEF EntryRead
  <2>6. CASE top.seen[g] = outer[n].nth /\ token \in outer[n].has
    <3>1. /\ frames'[n].seen[outer[n].group] = outer[n].nth + 1 /\ token' \in outer[n].has
          /\ frames'[n + 1].rest = Groups[outer[n].group] /\ token' \in frames'[n + 1].rest
      BY <1>4, <1>12, <2>1, <2>4, <2>6
    <3> QED
      BY <1>9, <2>4, <3>1 DEF EntryRead
  <2> QED
    BY <2>3, <2>5, <2>6
<1>15. EntriesFollow'
  <2>1. ASSUME NEW d \in 1..(n + 1), frames'[d].counter # 0
        PROVE  d < n + 1 /\ EntryRead(d, outer[d])'
    <3>1. d # n + 1
      BY <1>3, <2>1 DEF EntryFrames
    <3>2. d = n \/ d \in 1..(n - 1)
      BY <1>4, <3>1
    <3>3. d < n + 1
      BY <1>4, <3>1
    <3> QED
      BY <1>13, <1>14, <3>2, <3>3
  <2>2. \A d \in DOMAIN frames' : frames'[d].counter # 0 =>
          IF d < Len(frames') THEN EntryRead(d, outer[d])' ELSE EntryToCome(d, outer[d])'
    BY <1>8, <2>1, Zenon
  <2> QED
    BY <2>2 DEF EntriesFollow, outer
<1>16. SeenBefore'
  <2> SUFFICES ASSUME NEW d \in 1..(n + 1), NEW h \in Counters, frames'[d].seen[h] > 0
               PROVE  \E k \in 1..(inc - 1) : message[k] = h /\ Home(message)[k] = Place(d)'
    BY <1>4, <1>5, <1>8 DEF SeenBefore
  <2>1. d # n + 1
    BY <1>3 DEF EntryFrames
  <2>2. d \in 1..n /\ (d = n \/ d \in 1..(n - 1))
    BY <1>4, <2>1
  <2>3. Place(d)' = Place(d)
    BY <1>3, <2>2 DEF EntryFrames
  <2>4. CASE d = n /\ h = g
    <3>1. Home(message)[frames[n].counter] = Place(n)
      BY <1>4, <1>6, <1>7 DEF CountersPlaced
    <3>2. frames[n].counter \in 1..(inc - 1)
      <4>1. inc \in Nat
        BY DEF Shape, Inputs
      <4> QED
        BY <1>4, <1>6, <4>1
    <3>3. message[frames[n].counter] = g
      BY <1>2 DEF Reads
    <3> QED
      BY <2>3, <2>4, <3>1, <3>2, <3>3
  <2>5. CASE ~(d = n /\ h = g)
    <3>1. frames'[d].seen[h] = frames[d].seen[h]
      BY <1>3, <1>4, <2>2, <2>5 DEF EntryFrames
    <3> QED
      BY <1>6, <1>7, <2>2, <2>3, <3>1 DEF SeenBefore
  <2> QED
    BY <2>4, <2>5
<1> QED
  BY <1>15, <1>16

(* ssmake: every start has its own entry.                                    *)
LEMMA StartsHere ==
  ASSUME Shape, PlaceInv, ReadEntry, Proper(message), maker = "ssmake",
         NEW n, n = Len(frames), NEW g, g = Reads(n)
  PROVE  /\ Len(OpenNow) = n /\ OpenNow \in Seq(Entry)
         /\ \A d \in 1..(n - 1) : OpenNow[d] = <<Reads(d), frames[d].seen[Reads(d)]>>
         /\ OpenNow[n] = <<g, top.seen[g] + 1>>
         /\ frames[n].counter = inc - 1 /\ Starts(message, inc - 1) /\ message[inc - 1] = g
         /\ inc - 1 \in Nat \ {0} /\ column = 0
<1>1. /\ frames # <<>> /\ n \in Nat \ {0} /\ top = frames[n] /\ n \in DOMAIN frames
      /\ More /\ token \in Members(g) /\ g \in Counters /\ frames[n].counter # 0
  BY EntryCalls, CallFacts DEF EntryCall
<1>2. StartsFollow
  BY <1>1 DEF PlaceInv, CallsFollow
<1>3. token # Stops[g] /\ Counters = DOMAIN Stops
  BY <1>1 DEF Members, Counters
<1>4. /\ Len(OpenNow) = n /\ OpenNow[n][1] = g /\ frames[n].counter = inc - 1
      /\ OpenNow[n][2] = top.seen[g] + 1
      /\ \A d \in 1..(n - 1) : OpenNow[d] = <<Reads(d), frames[d].seen[Reads(d)]>>
  BY <1>1, <1>2, <1>3 DEF StartsFollow
<1>5. inc \in 1..Len(message) /\ Len(message) \in Nat /\ Len(messages) \in Nat \ {0}
  BY <1>1, Reading DEF Shape
<1>6. OpenNow \in Seq(Entry)
  BY <1>5, EntriesAreSequences DEF OpenNow
<1>7. OpenNow[n] = <<g, top.seen[g] + 1>>
  <2>1. OpenNow[n] \in (DOMAIN Stops) \X Nat
    BY <1>1, <1>4, <1>6 DEF Entry
  <2>2. OpenNow[n] = <<OpenNow[n][1], OpenNow[n][2]>>
    BY <2>1
  <2> QED
    BY <1>4, <2>2
<1>8. message[inc - 1] = g
  BY <1>4 DEF Reads
<1>9. inc - 1 \in Nat \ {0} /\ inc - 1 < Len(message) /\ (inc - 1) + 1 = inc
  BY <1>1, <1>4, <1>5
<1>10. Starts(message, inc - 1)
  BY <1>3, <1>8, <1>9, <1>1 DEF Starts, token
<1>11. column = 0
  <2>1. Len(messages) <= 1
    BY DEF PlaceInv, OneSs
  <2>2. \A k \in Nat \ {0} : k <= 1 => k - 1 = 0
    OBVIOUS
  <2> QED
    BY <1>5, <2>1, <2>2, Zenon DEF column
<1> QED
  BY <1>4, <1>6, <1>7, <1>8, <1>9, <1>10, <1>11

LEMMA EntryStarts ==
  ASSUME Shape, Shape', FixInv, OrderInv, KidsYounger', PlaceInv, ReadEntry, Proper(message),
         maker = "ssmake"
  PROVE  StartsFollow'
<1>1. PICK n : n = Len(frames)
  OBVIOUS
<1>2. PICK g : g = Reads(n)
  OBVIOUS
<1>3. EntryFrames(g, n)
  BY <1>1, <1>2, EntryFramesAre
<1>4. /\ n \in Nat \ {0} /\ top = frames[n] /\ UNCHANGED <<maker, messages, inc>> /\ n \in 1..n
      /\ g \in Counters
  BY <1>1, <1>2, EntryCalls DEF EntryCall
<1>5. message' = message
  BY <1>4, SameFormat
<1>6. /\ Len(OpenNow) = n
      /\ \A d \in 1..(n - 1) : OpenNow[d] = <<Reads(d), frames[d].seen[Reads(d)]>>
      /\ OpenNow[n] = <<g, top.seen[g] + 1>>
  BY <1>1, <1>2, StartsHere
<1>7. OpenNow' = OpenNow
  BY <1>4, <1>5 DEF OpenNow
<1>8. ASSUME NEW d \in 1..n PROVE OpenNow[d] = <<Reads(d)', frames'[d].seen[Reads(d)']>>
  <2>1. Reads(d)' = Reads(d)
    BY <1>3 DEF EntryFrames
  <2>2. CASE d = n
    <3>1. frames'[n].seen[g] = top.seen[g] + 1
      BY <1>3, <1>4 DEF EntryFrames
    <3> QED
      BY <1>2, <1>6, <2>1, <2>2, <3>1
  <2>3. CASE d \in 1..(n - 1)
    <3>1. frames'[d] = frames[d]
      BY <1>3, <2>3 DEF EntryFrames
    <3> QED
      BY <1>6, <2>1, <2>3, <3>1
  <2>4. d = n \/ d \in 1..(n - 1)
    BY <1>4, LastOrBefore
  <2> QED
    BY <2>2, <2>3, <2>4
<1>9. Len(frames') - 1 = n /\ top' = frames'[n + 1] /\ top'.counter = 0
  BY <1>3, <1>4 DEF EntryFrames
<1> QED
  BY <1>6, <1>7, <1>8, <1>9 DEF StartsFollow

LEMMA EntryCounted ==
  ASSUME Shape, Shape', FixInv, OrderInv, OrderInv', KidsYounger', PlaceInv, ReadEntry, Proper(message),
         maker = "ssmake"
  PROVE  StartsCounted'
<1>1. PICK n : n = Len(frames)
  OBVIOUS
<1>2. PICK g : g = Reads(n)
  OBVIOUS
<1>3. EntryFrames(g, n) /\ EntryPlaced(g, n)
  BY <1>1, <1>2, EntryFramesAre, EntryPaths
<1>4. /\ frames # <<>> /\ n \in Nat \ {0} /\ top = frames[n] /\ UNCHANGED <<maker, messages, inc>>
      /\ n \in 1..n /\ g \in Counters
  BY <1>1, <1>2, EntryCalls DEF EntryCall
<1>5. message' = message /\ Home(message)' = Home(message) /\ Counters' = Counters
  BY <1>4, SameFormat
<1>6. /\ frames[n].counter = inc - 1 /\ Starts(message, inc - 1) /\ message[inc - 1] = g
      /\ inc - 1 \in Nat \ {0} /\ column = 0
  BY <1>1, <1>2, StartsHere
<1>7. StartsCounted /\ HomesInTree /\ CountersPlaced
  BY <1>4 DEF PlaceInv, CallsFollow
<1>8. DOMAIN frames = 1..n /\ DOMAIN frames' = 1..(n + 1) /\ Len(frames') = n + 1
  BY <1>1, <1>3, <1>4, CallFacts DEF EntryFrames
<1>9. frames'[n + 1].counter = 0 /\ \A d \in 1..(n - 1) : frames'[d] = frames[d]
  BY <1>3 DEF EntryFrames
<1>10. \A k : Starts(message, k)' <=> Starts(message, k)
  BY <1>5 DEF Starts
<1>11. ASSUME NEW d \in 1..n, NEW h \in Counters, NEW k
       PROVE  Counted(d, h, k)' <=> Starts(message, k) /\ message[k] = h /\ Home(message)[k] = Place(d)
  <2>1. Place(d)' = Place(d) /\ d # n + 1
    BY <1>3, <1>4 DEF EntryFrames
  <2>2. Counted(d, h, k)' <=> Starts(message, k)' /\ message'[k] = h /\ Home(message)'[k] = Place(d)'
    BY <1>8, <2>1 DEF Counted
  <2> QED
    BY <1>5, <1>10, <2>1, <2>2
<1>12. \A d \in 1..n : \A h \in Counters :
         frames[d].seen[h] = Cardinality({k \in 1..(inc - 1) : Counted(d, h, k)})
  BY <1>7, <1>8 DEF StartsCounted
<1> SUFFICES ASSUME NEW d \in 1..(n + 1), NEW h \in Counters
             PROVE  frames'[d].seen[h] = Cardinality({k \in 1..(inc - 1) : Counted(d, h, k)'})
  <2>1. inc' - 1 = inc - 1
    BY <1>4
  <2> QED
    BY <1>5, <1>8, <2>1, Zenon DEF StartsCounted
<1> DEFINE C(k) == Counted(d, h, k)'
           D(k) == Counted(d, h, k)
<1>13. CASE d \in 1..(n - 1)
  <2>1. \A k \in 1..(inc - 1) : C(k) <=> D(k)
    <3>1. d \in 1..n /\ d # n
      BY <1>4, <1>13
    <3>2. \A k : D(k) <=> Starts(message, k) /\ message[k] = h /\ Home(message)[k] = Place(d)
      BY <1>1, <3>1 DEF Counted
    <3>3. \A k : C(k) <=> Starts(message, k) /\ message[k] = h /\ Home(message)[k] = Place(d)
      BY <1>11, <3>1, Zenon
    <3> HIDE DEF C, D
    <3> QED
      BY <3>2, <3>3
  <2>2. frames[d].seen[h] = Cardinality({k \in 1..(inc - 1) : D(k)})
    <3>1. d \in 1..n
      BY <1>4, <1>13
    <3> QED
      BY <1>12, <3>1
  <2>3. frames'[d] = frames[d]
    BY <1>9, <1>13
  <2> HIDE DEF C, D
  <2>4. {k \in 1..(inc - 1) : C(k)} = {k \in 1..(inc - 1) : D(k)}
    BY <2>1
  <2>5. frames'[d].seen[h] = Cardinality({k \in 1..(inc - 1) : C(k)})
    BY <2>2, <2>3, <2>4
  <2> QED
    BY <2>5, Zenon DEF C
<1>14. CASE d = n
  <2>1. \A k : C(k) <=> Starts(message, k) /\ message[k] = h /\ Home(message)[k] = Place(n)
    BY <1>4, <1>11, <1>14, Zenon
  <2>2. \A k : D(k) <=> /\ Starts(message, k) /\ message[k] = h /\ Home(message)[k] = Place(n)
                        /\ k # inc - 1
    BY <1>1, <1>6, <1>14 DEF Counted
  <2>3. frames[n].seen[h] = Cardinality({k \in 1..(inc - 1) : D(k)})
    BY <1>4, <1>12, <1>14
  <2>4. IsFiniteSet({k \in 1..(inc - 1) : D(k)})
    <3>1. IsFiniteSet(1..(inc - 1))
      BY <1>6, FS_Interval
    <3> HIDE DEF D
    <3> QED
      BY <3>1, FS_Subset
  <2>5. frames'[n].seen[h] = IF h = g THEN frames[n].seen[h] + 1 ELSE frames[n].seen[h]
    BY <1>3, <1>4 DEF EntryFrames
  <2> HIDE DEF C, D
  <2>6. CASE h = g
    <3>1. Home(message)[inc - 1] = Place(n)
      <4>1. frames[n].counter # 0 /\ n \in DOMAIN frames
        BY <1>4, <1>6, <1>8
      <4> QED
        BY <1>6, <1>7, <4>1 DEF CountersPlaced
    <3>2. C(inc - 1) /\ ~D(inc - 1) /\ inc - 1 \in 1..(inc - 1)
      <4> DEFINE j == inc - 1
      <4>1. j \in Nat \ {0} /\ Starts(message, j) /\ message[j] = h /\ Home(message)[j] = Place(n)
        BY <1>6, <2>6, <3>1
      <4>2. j \in 1..j
        <5>1. \A x \in Nat \ {0} : x \in 1..x
          OBVIOUS
        <5> QED
          BY <4>1, <5>1, Zenon
      <4> HIDE DEF j
      <4>3. C(j)
        BY <2>1, <4>1, Zenon
      <4>4. ~D(j)
        BY <2>2, Zenon DEF j
      <4> QED
        BY <4>2, <4>3, <4>4, Zenon DEF j
    <3>3. \A k : k # inc - 1 => (C(k) <=> D(k))
      BY <2>1, <2>2
    <3> DEFINE new == {k \in 1..(inc - 1) : C(k)}
               old == {k \in 1..(inc - 1) : D(k)}
    <3>4. new = old \cup {inc - 1} /\ inc - 1 \notin old
      BY <3>2, <3>3
    <3> HIDE DEF new, old
    <3>5. Cardinality(old \cup {inc - 1}) = Cardinality(old) + 1
      BY <2>4, <3>4, FS_AddElement DEF old
    <3>6. frames'[d].seen[h] = Cardinality(new)
      BY <1>14, <2>3, <2>5, <2>6, <3>4, <3>5 DEF old
    <3> QED
      BY <3>6, Zenon DEF new, C
  <2>7. CASE h # g
    <3>1. \A k : C(k) <=> D(k)
      BY <1>6, <2>1, <2>2, <2>7
    <3>2. {k \in 1..(inc - 1) : C(k)} = {k \in 1..(inc - 1) : D(k)}
      BY <3>1
    <3>3. frames'[d].seen[h] = Cardinality({k \in 1..(inc - 1) : C(k)})
      BY <1>14, <2>3, <2>5, <2>7, <3>2
    <3> QED
      BY <3>3, Zenon DEF C
  <2> QED
    BY <2>6, <2>7
<1>15. CASE d = n + 1
  <2>1. ASSUME NEW k \in 1..(inc - 1), Home(message)[k] = Place(n + 1)' PROVE FALSE
    <3>1. PICK q \in DOMAIN tree : Home(message)[k] = Path[q]
      BY <1>7 DEF HomesInTree
    <3>2. PICK node : node = frames'[n + 1].node
      OBVIOUS
    <3>3. CallsPlaced'
      BY EntryOnPlaces
    <3>4. Path'[node] = Place(n + 1)'
      <4>1. n + 1 \in DOMAIN frames'
        BY <1>4, <1>8
      <4> QED
        BY <3>2, <3>3, <4>1 DEF CallsPlaced
    <3>5. node = Size /\ node \in DOMAIN tree'
      BY <1>3, <1>6, <3>2 DEF EntryPlaced
    <3>6. Path'[q] = Path[q] /\ q \in DOMAIN tree'
      BY <1>3, <3>1 DEF EntryPlaced, KeepsPaths
    <3>7. OneParent'
      BY <1>3 DEF EntryPlaced
    <3>8. PathFacts'
      BY <3>7, PathsAreNext
    <3>9. q = node
      BY <2>1, <3>1, <3>4, <3>5, <3>6, <3>8 DEF PathFacts
    <3>10. q \in 0..(Size - 1) /\ Size \in Nat
      BY <3>1 DEF Shape, IsTree
    <3>11. q # Size
      BY <3>10
    <3> QED
      BY <3>5, <3>9, <3>11
  <2>2. \A k \in 1..(inc - 1) : ~C(k)
    <3>1. \A k : C(k) => Home(message)'[k] = Place(d)'
      BY DEF Counted
    <3> HIDE DEF C
    <3> QED
      BY <1>5, <1>15, <2>1, <3>1
  <2> HIDE DEF C
  <2>3. {k \in 1..(inc - 1) : C(k)} = {}
    BY <2>2
  <2>4. frames'[d].seen[h] = 0
    BY <1>3, <1>15 DEF EntryFrames
  <2>5. frames'[d].seen[h] = Cardinality({k \in 1..(inc - 1) : C(k)})
    BY <2>3, <2>4, FS_EmptySet
  <2> QED
    BY <2>5, Zenon DEF C
<1>16. d = n + 1 \/ d = n \/ d \in 1..(n - 1)
  BY <1>4
<1> QED
  BY <1>13, <1>14, <1>15, <1>16

LEMMA EntryFollows ==
  ASSUME Shape, Shape', FixInv, OrderInv, OrderInv', KidsYounger', PlaceInv, ReadEntry
  PROVE  /\ OneParent' /\ KeepsPaths /\ CountersOpen' /\ EntriesMade' /\ CallsFollow'
         /\ maker' = "ssmake" => InSsTags' /\ RestWhole'
<1>1. UNCHANGED <<maker, messages>>
  BY DEF ReadEntry
<1>2. OneParent' /\ KeepsPaths
  <2>1. PICK n : n = Len(frames)
    OBVIOUS
  <2>2. PICK g : g = Reads(n)
    OBVIOUS
  <2>3. EntryPlaced(g, n)
    BY <2>1, <2>2, EntryPaths
  <2> QED
    BY <2>3 DEF EntryPlaced
<1>3. EntriesMade' /\ CountersOpen' /\ (maker = "ssmake" => InSsTags' /\ RestWhole')
  BY EntryMade, EntryOpen
<1>4. CallsFollow'
  <2> SUFFICES ASSUME Proper(message)'
               PROVE  (/\ CallsPlaced /\ CountersPlaced /\ HomesInTree
                       /\ maker = "rmake" => EntriesFollow /\ SeenBefore
                       /\ maker = "ssmake" => StartsFollow /\ StartsCounted)'
    BY DEF CallsFollow
  <2>1. Proper(message)
    BY <1>1, SameFormat
  <2>2. CallsPlaced' /\ CountersPlaced' /\ HomesInTree'
    BY <2>1, EntryOnPlaces
  <2>3. maker = "rmake" => EntriesFollow' /\ SeenBefore'
    BY EntryFollowing
  <2>4. maker = "ssmake" => StartsFollow' /\ StartsCounted'
    BY <2>1, EntryStarts, EntryCounted
  <2> QED
    BY <1>1, <2>2, <2>3, <2>4
<1> QED
  BY <1>1, <1>2, <1>3, <1>4

-----------------------------------------------------------------------------
(* Another message is read.                                                  *)
LEMMA FirstCall ==
  ASSUME Shape, NEW m, Read(m)
  PROVE  /\ Len(frames') = 1 /\ DOMAIN frames' = {1} /\ frames' # <<>> /\ top' = frames'[1]
         /\ frames'[1].node = 0 /\ frames'[1].counter = 0
         /\ \A g \in Counters : frames'[1].seen[g] = 0
         /\ inc' = 1 /\ UNCHANGED <<maker, tree>> /\ Counters' = Counters
<1>1. inc' = 1 /\ frames' = <<Frame(0, {})>> /\ UNCHANGED <<maker, tree>>
  BY DEF Read
<1>2. Len(frames') = 1 /\ DOMAIN frames' = {1} /\ frames' # <<>> /\ frames'[1] = Frame(0, {})
  BY <1>1
<1>3. top' = frames'[1]
  BY <1>2 DEF top, Last
<1>4. Frame(0, {}).node = 0 /\ Frame(0, {}).counter = 0 /\ \A g \in Counters : Frame(0, {}).seen[g] = 0
  BY DEF Frame
<1> QED
  BY <1>1, <1>2, <1>3, <1>4 DEF Counters

LEMMA FirstInside ==
  ASSUME NEW m, Len(m) \in Nat
  PROVE  Len(Inside(m, StartStopEntries(m), 1)) = 0
<1> DEFINE home == StartStopEntries(m)
<1>1. home[0] = <<>>
  BY StartStopEntriesAre
<1>2. 1 \in Nat \ {0} /\ home[1 - 1] = <<>> /\ <<>> \in Seq(Entry) /\ ~(1 > 1)
  BY <1>1
<1> HIDE DEF home
<1>3. Inside(m, home, 1) = home[1 - 1]
  BY <1>2, InsideIs
<1> QED
  BY <1>2, <1>3 DEF home

LEMMA ReadFollows ==
  ASSUME Shape, Shape', OrderInv, KidsYounger', PlaceInv, Len(messages) < Columns,
         NEW m \in Seq(AllTags), Len(m) <= MaxLen, Read(m),
         maker = "ssmake" => messages = <<>> /\ m \in Seq(SsTags)
  PROVE  /\ OneParent' /\ CountersOpen' /\ EntriesMade' /\ CallsFollow'
         /\ maker' = "ssmake" => InSsTags' /\ RestWhole'
<1>1. /\ Len(frames') = 1 /\ DOMAIN frames' = {1} /\ frames' # <<>> /\ top' = frames'[1]
      /\ frames'[1].node = 0 /\ frames'[1].counter = 0
      /\ \A g \in Counters : frames'[1].seen[g] = 0
      /\ inc' = 1 /\ UNCHANGED <<maker, tree>> /\ Counters' = Counters
  BY FirstCall
<1>2. /\ message' = m /\ column' = Len(messages) /\ Len(messages') = Len(messages) + 1
      /\ \A c \in DOMAIN messages : messages'[c] = messages[c]
      /\ Len(messages) \in Nat
  BY ReadShape DEF Shape, Inputs
<1>3. OneParent'
  BY <1>1 DEF PlaceInv, OneParent
<1>4. CountersOpen'
  BY <1>1 DEF CountersOpen
<1>5. 0 \in DOMAIN tree
  BY DEF Shape, IsTree
<1>6. EntriesMade'
  <2> SUFFICES ASSUME NEW g \in Counters
               PROVE  (/\ frames[1].seen[g] <= Made(frames[1].node, g)
                       /\ column = 0 => frames[1].seen[g] = Made(frames[1].node, g))'
    BY <1>1, Zenon DEF EntriesMade
  <2>1. Made(frames[1].node, g)' = Made(0, g)
    BY <1>1 DEF Made, Row, Tag
  <2>2. Made(0, g) \in Nat
    BY <1>5, MadeNumber DEF Shape
  <2>3. ASSUME column' = 0 PROVE Made(0, g) = 0
    <3>1. messages = <<>>
      <4>1. messages \in Seq(Seq(AllTags)) /\ Len(messages) = 0
        BY <1>2, <2>3 DEF Shape, Inputs
      <4> QED
        BY <4>1
    <3>2. Size = 1
      BY <3>1 DEF OrderInv, NothingYet
    <3>3. DOMAIN tree[0].kids = {}
      BY <3>2, RootAlone
    <3>4. Len(tree[0].kids) = 0
      BY <1>5, <3>3, MadeIs DEF Shape
    <3> QED
      BY <3>4, UptoIs DEF Made
  <2> QED
    BY <1>1, <2>1, <2>2, <2>3
<1>7. ASSUME maker = "ssmake" PROVE InSsTags' /\ RestWhole'
  <2>1. messages = <<>> /\ m \in Seq(SsTags)
    BY <1>7
  <2>2. messages' = <<m>>
    BY <2>1 DEF Read
  <2> QED
    BY <1>1, <2>1, <2>2 DEF InSsTags, RestWhole
<1>8. CallsPlaced'
  <2>1. PathFacts'
    BY <1>3, PathsAreNext
  <2>2. Path'[0] = <<>>
    BY <2>1 DEF PathFacts
  <2>3. Place(1)' = <<>>
    <3>1. Place(1)' = [e \in 1..(1 - 1) |-> <<Reads(e)', frames'[e].seen[Reads(e)']>>]
      BY DEF Place
    <3>2. 1..(1 - 1) = {}
      OBVIOUS
    <3> QED
      BY <3>1, <3>2
  <2> QED
    BY <1>1, <2>2, <2>3 DEF CallsPlaced
<1>9. CountersPlaced' /\ HomesInTree'
  <2>1. 1..(inc' - 1) = {}
    BY <1>1
  <2> QED
    BY <1>1, <2>1 DEF CountersPlaced, HomesInTree
<1>10. EntriesFollow' /\ SeenBefore'
  BY <1>1 DEF EntriesFollow, SeenBefore
<1>11. StartsFollow'
  <2>1. OpenNow' = Inside(m, StartStopEntries(m), 1)
    BY <1>1, <1>2 DEF OpenNow
  <2>2. Len(OpenNow') = 0
    BY <2>1, FirstInside
  <2>3. Len(frames') - 1 = 0 /\ 1..(Len(frames') - 1) = {}
    BY <1>1
  <2> QED
    BY <1>1, <2>2, <2>3 DEF StartsFollow
<1>12. StartsCounted'
  <2> SUFFICES ASSUME NEW g \in Counters
               PROVE  frames'[1].seen[g] = Cardinality({k \in 1..(inc' - 1) : Counted(1, g, k)'})
    BY <1>1, ZenonT(60) DEF StartsCounted
  <2>1. {k \in 1..(inc' - 1) : Counted(1, g, k)'} = {}
    BY <1>1
  <2> QED
    BY <1>1, <2>1, FS_EmptySet
<1> QED
  BY <1>1, <1>3, <1>4, <1>6, <1>7, <1>8, <1>9, <1>10, <1>11, <1>12 DEF CallsFollow

-----------------------------------------------------------------------------
(* Columns: what is written of the first n pairs of a message.               *)
Cells(m, home, c, n) ==
  {<<home[j], m[j], j>> : j \in
     {i \in 1..n : /\ m[i] \notin Counters
                   /\ c > 0 => ~\E k \in 1..n : k > i /\ m[k] = m[i] /\ home[k] = home[i]}}

Overwritten(x, c, place, tag) == c > 0 /\ x[1] = place /\ x[2] = tag

LEMMA CellsOfCounter ==
  ASSUME NEW m, NEW home, NEW c, NEW n \in Nat \ {0}, m[n] \in Counters
  PROVE  Cells(m, home, c, n) = Cells(m, home, c, n - 1)
<1> DEFINE stands(i, k) == k > i /\ m[k] = m[i] /\ home[k] = home[i]
           of(b) == {i \in 1..b : m[i] \notin Counters /\ (c > 0 => ~\E k \in 1..b : stands(i, k))}
<1>1. \A i : i \in 1..n <=> (i \in 1..(n - 1) \/ i = n)
  OBVIOUS
<1>2. \A i : m[i] \notin Counters => ~stands(i, n)
  OBVIOUS
<1> HIDE DEF stands
<1>3. of(n) = of(n - 1)
  BY <1>1, <1>2
<1>4. Cells(m, home, c, n) = {<<home[j], m[j], j>> : j \in of(n)}
      /\ Cells(m, home, c, n - 1) = {<<home[j], m[j], j>> : j \in of(n - 1)}
  BY DEF Cells, stands
<1> HIDE DEF of
<1> QED
  BY <1>3, <1>4

LEMMA CellsOfField ==
  ASSUME NEW m, NEW home, NEW c \in Nat, NEW n \in Nat \ {0}, m[n] \notin Counters
  PROVE  Cells(m, home, c, n) =
           {x \in Cells(m, home, c, n - 1) : ~Overwritten(x, c, home[n], m[n])}
             \cup {<<home[n], m[n], n>>}
<1> DEFINE stands(i, k) == k > i /\ m[k] = m[i] /\ home[k] = home[i]
           of(b) == {i \in 1..b : m[i] \notin Counters /\ (c > 0 => ~\E k \in 1..b : stands(i, k))}
           cell(j) == <<home[j], m[j], j>>
           rest == {x \in Cells(m, home, c, n - 1) : ~Overwritten(x, c, home[n], m[n])}
<1>1. /\ \A i : i \in 1..n <=> (i \in 1..(n - 1) \/ i = n)
      /\ n \notin 1..(n - 1)
  OBVIOUS
<1>2. \A k \in 1..n : ~stands(n, k)
  OBVIOUS
<1>3. \A i \in 1..(n - 1) : stands(i, n) <=> (m[i] = m[n] /\ home[i] = home[n])
  OBVIOUS
<1> HIDE DEF stands
<1>4. \A i : i \in of(n) <=> \/ i = n
                             \/ i \in of(n - 1) /\ (c > 0 => ~(m[i] = m[n] /\ home[i] = home[n]))
  BY <1>1, <1>2, <1>3
<1>5. Cells(m, home, c, n) = {cell(j) : j \in of(n)}
      /\ Cells(m, home, c, n - 1) = {cell(j) : j \in of(n - 1)}
  BY DEF Cells, stands
<1>6. \A j : Overwritten(cell(j), c, home[n], m[n]) <=> c > 0 /\ m[j] = m[n] /\ home[j] = home[n]
  BY DEF Overwritten
<1> HIDE DEF of, cell
<1>7. rest = {cell(j) : j \in {i \in of(n - 1) : ~(c > 0 /\ m[i] = m[n] /\ home[i] = home[n])}}
  BY <1>5, <1>6
<1>8. of(n) = {i \in of(n - 1) : ~(c > 0 /\ m[i] = m[n] /\ home[i] = home[n])} \cup {n}
  BY <1>4
<1> HIDE DEF rest
<1>9. Cells(m, home, c, n) = rest \cup {cell(n)}
  BY <1>5, <1>7, <1>8
<1> QED
  BY <1>9 DEF rest, cell

LEMMA WrittenCells ==
  ASSUME NEW c, NEW n
  PROVE  WrittenTo(c, n) = Cells(messages[c + 1], Home(messages[c + 1]), c, n)
BY DEF WrittenTo, Cells

LEMMA WrittenSame ==
  ASSUME UNCHANGED <<maker, messages>>, NEW c, NEW n
  PROVE  WrittenTo(c, n)' = WrittenTo(c, n)
<1>1. messages'[c + 1] = messages[c + 1] /\ Counters' = Counters
      /\ \A m : Home(m)' = Home(m)
  BY SameFormat
<1>2. Home(messages[c + 1])' = Home(messages[c + 1])
  BY SameFormat DEF Home
<1> QED
  BY <1>1, <1>2 DEF WrittenTo

(* Nothing is written into a column: its fields have what they had.          *)
LEMMA ColumnSame ==
  ASSUME Shape, KidsYounger, OneParent, KeepsPaths, KeepsTree, NEW c,
         \A n \in Fields : n \in Fields' /\ tree'[n].vals[c] = tree[n].vals[c],
         \A n \in Fields' : n \notin Fields => tree'[n].vals[c] = 0
  PROVE  Column(c)' = Column(c)
<1> DEFINE cell(n) == <<Path[Parent(n)], tree[n].tag, tree[n].vals[c]>>
           new(n) == <<Path'[Parent(n)'], tree'[n].tag, tree'[n].vals[c]>>
           F == {f \in Fields : tree[f].vals[c] # 0}
           G == {f \in Fields' : tree'[f].vals[c] # 0}
<1>1. \A n \in Fields : n \in DOMAIN tree \ {0} /\ Parent(n) \in DOMAIN tree
  BY ParentOf DEF Fields
<1>2. \A n \in Fields : new(n) = cell(n)
  <2> SUFFICES ASSUME NEW n \in Fields PROVE new(n) = cell(n)
    OBVIOUS
  <2>1. Parent(n)' = Parent(n) /\ tree'[n].tag = tree[n].tag /\ tree'[n].vals[c] = tree[n].vals[c]
    BY <1>1 DEF KeepsPaths, KeepsTree
  <2>2. Path'[Parent(n)] = Path[Parent(n)]
    BY <1>1 DEF KeepsPaths
  <2> QED
    BY <2>1, <2>2
<1>3. F = G /\ \A n \in F : n \in Fields
  OBVIOUS
<1>4. Column(c) = {cell(n) : n \in F} /\ Column(c)' = {new(n) : n \in G}
  BY DEF Column
<1> HIDE DEF cell, new, F, G
<1> QED
  BY <1>2, <1>3, <1>4

LEMMA ColumnsStay ==
  ASSUME Shape, PlaceInv, frames # <<>>, UNCHANGED <<maker, messages>>,
         \A c \in 0..column : Column(c)' = Column(c),
         inc' = inc \/ (inc' = inc + 1 /\ More /\ token \in Counters)
  PROVE  ColumnsPlaced'
<1>1. /\ inc \in Nat \ {0} /\ column \in Nat /\ Len(messages) \in Nat
      /\ message = messages[Len(messages)] /\ column + 1 = Len(messages)
  BY Reading DEF Shape, column
<1>2. column' = column /\ \A m : Proper(m)' = Proper(m)
  BY SameFormat
<1> SUFFICES ASSUME NEW c \in 0..column, Proper(messages[c + 1])'
             PROVE  Column(c)' = WrittenTo(c, ReadTo(c))'
  BY <1>2, Zenon DEF ColumnsPlaced
<1>3. Proper(messages[c + 1])
  BY SameFormat DEF Proper
<1>4. Column(c) = WrittenTo(c, ReadTo(c))
  BY <1>3 DEF PlaceInv, ColumnsPlaced
<1>5. CASE c # column \/ inc' = inc
  <2>1. ReadTo(c)' = ReadTo(c)
    BY <1>2, <1>5 DEF ReadTo
  <2>2. WrittenTo(c, ReadTo(c))' = WrittenTo(c, ReadTo(c))
    <3>1. PICK n : n = ReadTo(c)
      OBVIOUS
    <3>2. WrittenTo(c, n)' = WrittenTo(c, n)
      BY WrittenSame
    <3>3. WrittenTo(c, ReadTo(c))' = WrittenTo(c, n)'
      BY <2>1, <3>1 DEF WrittenTo
    <3> QED
      BY <3>1, <3>2, <3>3
  <2> QED
    BY <1>4, <2>2
<1>6. CASE c = column /\ inc' = inc + 1 /\ token \in Counters
  <2>1. ReadTo(c) = inc - 1 /\ ReadTo(c)' = inc
    BY <1>1, <1>2, <1>6 DEF ReadTo
  <2>2. message[inc] \in Counters /\ messages[c + 1] = message
    BY <1>1, <1>6 DEF token
  <2>3. WrittenTo(c, inc) = WrittenTo(c, inc - 1)
    BY <1>1, <2>2, WrittenCells, CellsOfCounter
  <2>4. WrittenTo(c, ReadTo(c))' = WrittenTo(c, inc)
    <3>1. PICK n : n = inc
      OBVIOUS
    <3>2. WrittenTo(c, n)' = WrittenTo(c, n)
      BY WrittenSame
    <3>3. WrittenTo(c, ReadTo(c))' = WrittenTo(c, n)'
      BY <2>1, <3>1 DEF WrittenTo
    <3> QED
      BY <3>1, <3>2, <3>3
  <2> QED
    BY <1>4, <2>1, <2>3, <2>4
<1> QED
  BY <1>5, <1>6

(* What a field changes: one node, the field of this place.                  *)
FieldGoes(x) ==
  /\ DOMAIN tree' = DOMAIN tree \cup {x} /\ Fields' = Fields \cup {x}
  /\ tree'[x].tag = token /\ tree'[x].vals[column] = inc
  /\ \A c \in Cols : c # column =>
       /\ \A n \in DOMAIN tree : tree'[n].vals[c] = tree[n].vals[c]
       /\ x \notin DOMAIN tree => tree'[x].vals[c] = 0
  /\ \A n \in DOMAIN tree : n # x => tree'[n].vals[column] = tree[n].vals[column]
  /\ Parent(x)' = top.node
  /\ column # 0 => Rank(x)' = 1
  /\ \A f \in Fields :
         (f # x /\ column # 0 /\ tree[f].tag = token /\ tree[f].vals[column] # 0)
           => Parent(f) # top.node

LEMMA FieldsSame ==
  ASSUME KeepsTree, DOMAIN tree' = DOMAIN tree, UNCHANGED maker
  PROVE  Fields' = Fields
BY DEF KeepsTree, Fields, Counters

(* The line that is filled is the first of its tag; what a later message has *)
(* written stands in first ones.                                             *)
LEMMA LineFilled ==
  ASSUME Shape, Shape', OrderInv, KidsYounger', PlaceInv, ReadField, Lines(token) # {}
  PROVE  \E x \in Fields : FieldGoes(x)
<1> DEFINE p == top.node
           b == Min(Lines(token))
           row == Row(p)
<1>1. frames # <<>> /\ More /\ top.counter = 0 /\ UNCHANGED <<maker, messages>> /\ token \notin Counters
  BY DEF ReadField, Takes
<1>2. /\ p \in DOMAIN tree /\ IsTree /\ column \in Cols /\ column \in Nat /\ token \in AllTags
      /\ KidsYounger /\ OneParent
  BY <1>1, CallFacts, Reading DEF Shape, OrderInv, PlaceInv
<1>3. column # 0
  BY DEF Lines
<1>4. /\ Len(Siblings) \in Nat /\ DOMAIN Siblings = 1..Len(Siblings)
      /\ Lines(token) \subseteq 1..Len(Siblings) /\ Siblings = tree[p].kids
      /\ \A i \in DOMAIN Siblings : Siblings[i] \in DOMAIN tree
  BY <1>2, SiblingNodes DEF Siblings
<1>5. b \in Lines(token) /\ \A y \in Lines(token) : b <= y
  <2>1. Lines(token) \in SUBSET Nat
    BY <1>4
  <2> QED
    BY <2>1, SmallestMember
<1> HIDE DEF b
<1>6. b \in DOMAIN Siblings /\ b \in Nat \ {0} /\ row[b] = token
  <2>1. b \in DOMAIN Siblings /\ b \in Nat \ {0}
    BY <1>4, <1>5
  <2>2. row[b] = token
    BY <1>2, <1>3, <1>5, <2>1, LinesUpto
  <2> QED
    BY <2>1, <2>2
<1> DEFINE y == Siblings[b]
<1>7. tree' = [tree EXCEPT ![y].vals[column] = inc]
  BY Zenon DEF ReadField, b
<1>8. KeepsTree /\ SameChildren
  <2>1. KeepsTree /\ (SameChildren \/ Lines(token) = {})
    BY ReadFieldShape
  <2> QED
    BY <2>1
<1>9. KeepsPaths /\ PathFacts
  BY <1>2, <1>8, ValuePaths, PathsAre
<1>10. /\ y \in DOMAIN tree \ {0} /\ Parent(y) = p /\ Rank(y) = Turns(p, b) /\ Tag(y) = token
  <2>1. y = tree[p].kids[b] /\ b \in DOMAIN tree[p].kids
    BY <1>4, <1>6
  <2>2. y \in 1..(Size - 1)
    BY <1>2, <2>1 DEF IsTree
  <2>3. y # 0 /\ y \in DOMAIN tree
    BY <1>4, <1>6, <2>2
  <2> QED
    BY <1>2, <1>6, <1>9, <2>1, <2>3 DEF PathFacts
<1> HIDE DEF y
<1>11. y \in Fields
  BY <1>1, <1>10 DEF Fields, Tag
<1>12. Turns(p, b) = 1
  <2>1. \A i \in 1..b : row[i] = token => i = b
    <3> SUFFICES ASSUME NEW i \in 1..b, row[i] = token PROVE i = b
      OBVIOUS
    <3>1. i \in DOMAIN Siblings
      BY <1>4, <1>6
    <3>2. i \in Lines(token)
      BY <1>2, <1>3, <3>1, LinesUpto
    <3> QED
      BY <1>5, <1>6, <3>2
  <2>2. {i \in 1..b : row[i] = token} = {b}
    BY <1>6, <2>1
  <2> QED
    BY <1>6, <2>2, FS_Singleton DEF Turns, Upto
<1>13. /\ tree'[y].vals[column] = inc
       /\ \A n \in DOMAIN tree : \A c \in Cols :
            n # y \/ c # column => tree'[n].vals[c] = tree[n].vals[c]
  <2>1. \A n \in DOMAIN tree : tree[n] \in Nodes
    BY <1>2 DEF IsTree
  <2>2. \A n \in DOMAIN tree : n # y => tree'[n] = tree[n]
    BY <1>7
  <2>3. tree'[y].vals = [tree[y].vals EXCEPT ![column] = inc]
    BY <1>7, <1>10, <2>1 DEF Nodes
  <2>4. tree[y].vals \in [Cols -> 0..MaxLen]
    BY <1>10, <2>1 DEF Nodes
  <2> QED
    BY <1>2, <2>2, <2>3, <2>4
<1>14. Fields' = Fields /\ DOMAIN tree' = DOMAIN tree
  BY <1>1, <1>8, FieldsSame DEF SameChildren
<1>15. tree'[y].tag = token
  BY <1>8, <1>10 DEF KeepsTree, Tag
<1>16. PICK x : x = y
  OBVIOUS
<1>17. Parent(x)' = p /\ Rank(x)' = 1
  BY <1>9, <1>10, <1>12, <1>16 DEF KeepsPaths
<1>18. ASSUME NEW f \in Fields, f # x, tree[f].tag = token, tree[f].vals[column] # 0, Parent(f) = p
       PROVE  FALSE
  <2>1. f \in DOMAIN tree \ {0}
    BY DEF Fields
  <2>2. PICK q \in DOMAIN tree : \E a \in DOMAIN tree[q].kids :
           tree[q].kids[a] = f /\ q = Parent(f) /\ Rank(f) = Upto(Row(q), a, Row(q)[a]) /\ Row(q)[a] = Tag(f)
    BY <1>2, <2>1, ParentOf
  <2>3. PICK a \in DOMAIN tree[p].kids :
           tree[p].kids[a] = f /\ Rank(f) = Upto(row, a, row[a]) /\ row[a] = token
    BY <1>18, <2>2 DEF Tag
  <2>4. Rank(f) = 1
    BY <1>2, <1>3, <1>18 DEF PlaceInv, FirstOfTag
  <2>5. a \in DOMAIN Siblings /\ a \in Nat \ {0}
    BY <1>4, <2>3
  <2>6. a \in Lines(token)
    BY <1>2, <1>3, <2>3, <2>5, LinesUpto
  <2>7. b <= a
    BY <1>5, <2>6
  <2>8. a # b
    BY <1>4, <1>16, <1>18, <2>3 DEF y
  <2>9. b < a
    BY <1>6, <2>5, <2>7, <2>8
  <2>10. Upto(row, b, row[a]) < Upto(row, a, row[a])
    BY <1>6, <2>5, <2>9, UptoLess
  <2>11. Upto(row, b, row[a]) = 1
    BY <1>6, <1>12, <2>3 DEF Turns
  <2> QED
    BY <2>3, <2>4, <2>10, <2>11
<1>19. FieldGoes(x)
  <2>1. \A c \in Cols : c # column => \A n \in DOMAIN tree : tree'[n].vals[c] = tree[n].vals[c]
    BY <1>13
  <2>2. \A n \in DOMAIN tree : n # x => tree'[n].vals[column] = tree[n].vals[column]
    BY <1>2, <1>13, <1>16
  <2>3. x \in DOMAIN tree /\ x \in Fields /\ tree'[x].tag = token /\ tree'[x].vals[column] = inc
    BY <1>10, <1>11, <1>13, <1>15, <1>16
  <2>4. DOMAIN tree' = DOMAIN tree \cup {x} /\ Fields' = Fields \cup {x}
    BY <1>14, <2>3
  <2>5. \A f \in Fields :
         (f # x /\ column # 0 /\ tree[f].tag = token /\ tree[f].vals[column] # 0)
           => Parent(f) # p
    <3> SUFFICES ASSUME NEW f \in Fields, f # x, column # 0, tree[f].tag = token,
                        tree[f].vals[column] # 0, Parent(f) = p
                 PROVE  FALSE
      OBVIOUS
    <3> QED
      BY <1>18, Zenon
  <2> QED
    BY <1>17, <2>1, <2>2, <2>3, <2>4, <2>5, Zenon DEF FieldGoes
<1> QED
  BY <1>11, <1>16, <1>19

LEMMA FieldAdded ==
  ASSUME Shape, Shape', OrderInv, KidsYounger', PlaceInv, ReadField, Lines(token) = {}
  PROVE  \A x : x = Size => FieldGoes(x)
<1> SUFFICES ASSUME NEW x, x = Size PROVE FieldGoes(x)
  OBVIOUS
<1> DEFINE p == top.node
<1>1. frames # <<>> /\ More /\ top.counter = 0 /\ UNCHANGED <<maker, messages>> /\ token \notin Counters
      /\ NewChild(AtEnd, token)
  BY DEF ReadField, Takes
<1>2. /\ p \in DOMAIN tree /\ IsTree /\ column \in Cols /\ column \in Nat /\ token \in AllTags
      /\ KidsYounger /\ OneParent
  BY <1>1, CallFacts, Reading DEF Shape, OrderInv, PlaceInv
<1>3. KeepsTree /\ ChildMore(AtEnd, token)
  <2>1. KeepsTree /\ (ChildMore(AtEnd, token) \/ Lines(token) # {})
    BY ReadFieldShape
  <2> QED
    BY <2>1
<1>4. /\ Len(Siblings) \in Nat /\ DOMAIN Siblings = 1..Len(Siblings)
      /\ Siblings = tree[p].kids
      /\ Places(token) \subseteq 1..Len(Siblings) /\ AtEnd \in 1..(Len(Siblings) + 1)
  BY <1>2, SiblingNodes DEF Siblings
<1>5. \A i \in Places(token) : i < AtEnd
  BY <1>4 DEF AtEnd
<1>6. Parent(x)' = p /\ Rank(x)' = Made(p, token) + 1
  BY <1>2, <1>3, <1>4, <1>5, ChildPaths
<1>7. ASSUME column # 0 PROVE Rank(x)' = 1
  <2>1. \A i \in DOMAIN Siblings : Row(p)[i] # token
    BY <1>2, <1>7, LinesUpto
  <2>2. {i \in 1..Len(tree[p].kids) : Row(p)[i] = token} = {}
    BY <1>4, <2>1
  <2>3. Made(p, token) = 0
    BY <2>2, FS_EmptySet DEF Made, Upto
  <2> QED
    BY <1>6, <2>3
<1>8. /\ DOMAIN tree' = DOMAIN tree \cup {x} /\ x \notin DOMAIN tree
  <2>1. x \in Nat /\ DOMAIN tree = 0..(x - 1) /\ DOMAIN tree' = 0..x
    BY <1>3 DEF ChildMore
  <2> QED
    BY <2>1
<1>9. Fields' = Fields \cup {x}
  <2>1. Fields' = Fields \cup {n \in {Size} : token \notin Counters}
    BY <1>1, <1>3, FieldsMore
  <2> QED
    BY <1>1, <2>1
<1>10. /\ \A n \in DOMAIN tree : tree'[n].vals = tree[n].vals
       /\ tree'[x].vals = Value /\ tree'[x].tag = token
  BY <1>1, <1>2, ValuesMore
<1>11. Value[column] = inc /\ \A c \in Cols : c # column => Value[c] = 0
  BY <1>1, <1>2 DEF Value, Empty
<1>12. ASSUME NEW f \in Fields, column # 0, tree[f].tag = token PROVE Parent(f) # p
  <2> SUFFICES ASSUME Parent(f) = p PROVE FALSE
    OBVIOUS
  <2>1. f \in DOMAIN tree \ {0}
    BY DEF Fields
  <2>2. PICK q \in DOMAIN tree : \E a \in DOMAIN tree[q].kids :
           tree[q].kids[a] = f /\ q = Parent(f) /\ Row(q)[a] = Tag(f)
    BY <1>2, <2>1, ParentOf
  <2>3. PICK a \in DOMAIN tree[p].kids : Row(p)[a] = token
    BY <1>12, <2>2 DEF Tag
  <2>4. a \in Lines(token)
    BY <1>2, <1>4, <1>12, <2>3, LinesUpto
  <2> QED
    BY <2>4
<1>13. \A c \in Cols : c # column =>
         /\ \A n \in DOMAIN tree : tree'[n].vals[c] = tree[n].vals[c]
         /\ x \notin DOMAIN tree => tree'[x].vals[c] = 0
  BY <1>10, <1>11
<1>14. \A n \in DOMAIN tree : n # x => tree'[n].vals[column] = tree[n].vals[column]
  BY <1>10
<1>15. tree'[x].tag = token /\ tree'[x].vals[column] = inc
  BY <1>10, <1>11
<1>16. \A f \in Fields :
         (f # x /\ column # 0 /\ tree[f].tag = token /\ tree[f].vals[column] # 0)
           => Parent(f) # p
  <2> SUFFICES ASSUME NEW f \in Fields, f # x, column # 0, tree[f].tag = token,
                      tree[f].vals[column] # 0
               PROVE  Parent(f) # p
    OBVIOUS
  <2> QED
    BY <1>12, Zenon
<1> QED
  BY <1>6, <1>7, <1>8, <1>9, <1>13, <1>14, <1>15, <1>16, Zenon DEF FieldGoes

(* The column then has one value more, in this place; what it had here is    *)
(* gone, if a later message gave it.                                         *)
LEMMA FieldColumn ==
  ASSUME Shape, OrderInv, PlaceInv, frames # <<>>, KeepsPaths, KeepsTree, NEW x, FieldGoes(x),
         x \in Fields => column # 0, NEW c, c = column, NEW home, home = Path[top.node]
  PROVE  Column(c)' =
           {y \in Column(c) : ~Overwritten(y, c, home, token)} \cup {<<home, token, inc>>}
<1> DEFINE cell(n) == <<Path[Parent(n)], tree[n].tag, tree[n].vals[c]>>
           new(n) == <<Path'[Parent(n)'], tree'[n].tag, tree'[n].vals[c]>>
           F == {f \in Fields : tree[f].vals[c] # 0}
           G == {f \in Fields' : tree'[f].vals[c] # 0}
<1>1. KidsYounger /\ OneParent /\ top.node \in DOMAIN tree /\ column \in Nat /\ inc \in Nat \ {0}
  BY CallFacts, Reading DEF Shape, OrderInv, PlaceInv
<1>2. PathFacts
  BY <1>1, PathsAre
<1>3. \A n \in Fields : n \in DOMAIN tree \ {0} /\ Parent(n) \in DOMAIN tree
  BY <1>1, ParentOf DEF Fields
<1>4. /\ Fields' = Fields \cup {x} /\ tree'[x].tag = token /\ tree'[x].vals[c] = inc
      /\ Parent(x)' = top.node
      /\ \A n \in DOMAIN tree : n # x => tree'[n].vals[c] = tree[n].vals[c]
      /\ \A f \in Fields :
           (f # x /\ c # 0 /\ tree[f].tag = token /\ tree[f].vals[c] # 0)
             => Parent(f) # top.node
  BY Zenon DEF FieldGoes
<1>5. \A n \in Fields : n # x => new(n) = cell(n)
  <2> SUFFICES ASSUME NEW n \in Fields, n # x PROVE new(n) = cell(n)
    OBVIOUS
  <2>1. Parent(n)' = Parent(n) /\ tree'[n].tag = tree[n].tag /\ tree'[n].vals[c] = tree[n].vals[c]
    BY <1>3, <1>4 DEF KeepsPaths, KeepsTree
  <2>2. Path'[Parent(n)] = Path[Parent(n)]
    BY <1>3 DEF KeepsPaths
  <2> QED
    BY <2>1, <2>2
<1>6. new(x) = <<home, token, inc>>
  <2>1. Path'[top.node] = home
    BY <1>1 DEF KeepsPaths
  <2> QED
    BY <1>4, <2>1
<1>7. G = (F \ {x}) \cup {x}
  <2>1. \A n \in Fields : n # x => (n \in F <=> n \in G)
    BY <1>3, <1>4
  <2>2. x \in G
    BY <1>1, <1>4
  <2> QED
    BY <1>4, <2>1, <2>2
<1>8. \A n \in F : n # x => ~Overwritten(cell(n), c, home, token)
  <2> SUFFICES ASSUME NEW n \in F, n # x, Overwritten(cell(n), c, home, token) PROVE FALSE
    OBVIOUS
  <2>1. c # 0 /\ Path[Parent(n)] = home /\ tree[n].tag = token
    BY <1>1 DEF Overwritten
  <2>2. Parent(n) = top.node
    BY <1>1, <1>2, <1>3, <2>1 DEF PathFacts
  <2> QED
    BY <1>4, <2>1, <2>2
<1>9. x \in F => Overwritten(cell(x), c, home, token)
  <2> SUFFICES ASSUME x \in F PROVE Overwritten(cell(x), c, home, token)
    OBVIOUS
  <2>1. x \in Fields /\ x \in DOMAIN tree \ {0}
    BY <1>3
  <2>2. Parent(x) = top.node /\ tree[x].tag = token
    BY <1>4, <2>1 DEF KeepsPaths, KeepsTree
  <2>3. c > 0
    BY <1>1, <2>1
  <2> QED
    BY <2>2, <2>3 DEF Overwritten
<1>10. Column(c) = {cell(n) : n \in F} /\ Column(c)' = {new(n) : n \in G}
  BY DEF Column
<1>11. \A n \in F : n \in Fields
  OBVIOUS
<1> HIDE DEF cell, new, F, G
<1>12. Column(c)' = {cell(n) : n \in F \ {x}} \cup {<<home, token, inc>>}
  <2>1. {new(n) : n \in G} = {new(n) : n \in F \ {x}} \cup {new(x)}
    BY <1>7
  <2>2. {new(n) : n \in F \ {x}} = {cell(n) : n \in F \ {x}}
    BY <1>5, <1>11
  <2> QED
    BY <1>6, <1>10, <2>1, <2>2
<1>13. {y \in Column(c) : ~Overwritten(y, c, home, token)} = {cell(n) : n \in F \ {x}}
  BY <1>8, <1>9, <1>10
<1> QED
  BY <1>12, <1>13

(* The node is new or that of a field.                                       *)
LEMMA FieldKnown ==
  ASSUME ReadField, KeepsTree, NEW x, FieldGoes(x)
  PROVE  x \in DOMAIN tree => x \in Fields
<1> SUFFICES ASSUME x \in DOMAIN tree PROVE x \in Fields
  OBVIOUS
<1>1. x \in Fields' /\ tree'[x].tag = tree[x].tag
  BY DEF FieldGoes, KeepsTree
<1>2. UNCHANGED <<maker, messages>>
  BY DEF ReadField
<1>3. x # 0 /\ tree'[x].tag \notin Counters
  BY <1>1, <1>2, SameFormat DEF Fields
<1> QED
  BY <1>1, <1>3 DEF Fields

(* A field is written as the message says.                                   *)
LEMMA FieldInPlace ==
  ASSUME Shape, FixInv, OrderInv, PlaceInv, ReadField, KeepsPaths, KeepsTree,
         NEW x, FieldGoes(x), x \in Fields => column # 0
  PROVE  ColumnsPlaced'
<1>1. frames # <<>> /\ More /\ Takes /\ token \notin Counters /\ UNCHANGED <<maker, messages>> /\ inc' = inc + 1
  BY DEF ReadField, Takes, Resume
<1>2. /\ inc \in Nat \ {0} /\ column \in Nat /\ Len(messages) \in Nat
      /\ message = messages[Len(messages)] /\ column + 1 = Len(messages)
      /\ top.node \in DOMAIN tree /\ top = frames[Len(frames)] /\ Len(frames) \in DOMAIN frames
      /\ KidsYounger /\ OneParent
  BY <1>1, Reading, CallFacts DEF Shape, OrderInv, PlaceInv, column
<1>3. column' = column /\ \A m : Proper(m)' = Proper(m)
  BY <1>1, SameFormat
<1> SUFFICES ASSUME NEW c \in 0..column, Proper(messages[c + 1])'
             PROVE  Column(c)' = WrittenTo(c, ReadTo(c))'
  BY <1>3, Zenon DEF ColumnsPlaced
<1>4. Proper(messages[c + 1])
  BY <1>1, SameFormat DEF Proper
<1>5. Column(c) = WrittenTo(c, ReadTo(c))
  BY <1>4 DEF PlaceInv, ColumnsPlaced
<1>6. c \in Cols /\ c \in Nat
  <2>1. column \in Cols /\ column <= Columns - 1 /\ Columns \in Nat
    BY <1>1, Reading DEF Shape, Cols
  <2> QED
    BY <1>2, <2>1 DEF Cols
<1>7. ASSUME c # column PROVE Column(c)' = WrittenTo(c, ReadTo(c))'
  <2>1. ReadTo(c)' = ReadTo(c)
    BY <1>1, <1>3, <1>7 DEF ReadTo
  <2>2. WrittenTo(c, ReadTo(c))' = WrittenTo(c, ReadTo(c))
    <3>1. PICK n : n = ReadTo(c)
      OBVIOUS
    <3>2. WrittenTo(c, n)' = WrittenTo(c, n)
      BY <1>1, WrittenSame
    <3>3. WrittenTo(c, ReadTo(c))' = WrittenTo(c, n)'
      BY <2>1, <3>1 DEF WrittenTo
    <3> QED
      BY <3>1, <3>2, <3>3
  <2>3. /\ \A n \in DOMAIN tree : tree'[n].vals[c] = tree[n].vals[c]
        /\ x \notin DOMAIN tree => tree'[x].vals[c] = 0
        /\ Fields' = Fields \cup {x}
    BY <1>6, <1>7 DEF FieldGoes
  <2>4. \A n \in Fields : n \in Fields' /\ tree'[n].vals[c] = tree[n].vals[c]
    BY <2>3 DEF Fields
  <2>5. x \in DOMAIN tree => x \in Fields
    BY FieldKnown
  <2>6. \A n \in Fields' : n \notin Fields => tree'[n].vals[c] = 0
    BY <2>3, <2>5
  <2>7. Column(c)' = Column(c)
    BY <1>2, <2>4, <2>6, ColumnSame
  <2> QED
    BY <1>5, <2>2, <2>7
<1>8. ASSUME c = column PROVE Column(c)' = WrittenTo(c, ReadTo(c))'
  <2>1. ReadTo(c) = inc - 1 /\ ReadTo(c)' = inc /\ messages[c + 1] = message
    BY <1>1, <1>2, <1>3, <1>8 DEF ReadTo
  <2>2. PICK home : home = Home(message)[inc]
    OBVIOUS
  <2>3. home = Place(Len(frames))
    BY <1>1, <1>4, <2>1, <2>2, HomeIsPlace
  <2>4. Path[top.node] = Place(Len(frames))
    BY <1>1, <1>2, <1>4, <2>1 DEF PlaceInv, CallsFollow, CallsPlaced
  <2>5. Column(c)' =
          {y \in Column(c) : ~Overwritten(y, c, home, token)} \cup {<<home, token, inc>>}
    BY <1>1, <1>8, <2>3, <2>4, FieldColumn
  <2>6. Column(c) = Cells(message, Home(message), c, inc - 1)
    BY <1>5, <2>1, WrittenCells
  <2>7. Cells(message, Home(message), c, inc) =
          {y \in Cells(message, Home(message), c, inc - 1) :
              ~Overwritten(y, c, home, token)} \cup {<<home, token, inc>>}
    BY <1>1, <1>2, <1>6, <2>2, CellsOfField DEF token
  <2>8. WrittenTo(c, ReadTo(c))' = WrittenTo(c, inc)
    <3>1. PICK n : n = inc
      OBVIOUS
    <3>2. WrittenTo(c, n)' = WrittenTo(c, n)
      BY <1>1, WrittenSame
    <3>3. WrittenTo(c, ReadTo(c))' = WrittenTo(c, n)'
      BY <2>1, <3>1 DEF WrittenTo
    <3> QED
      BY <3>1, <3>2, <3>3
  <2>9. WrittenTo(c, inc) = Cells(message, Home(message), c, inc)
    BY <2>1, WrittenCells
  <2> QED
    BY <2>5, <2>6, <2>7, <2>8, <2>9
<1> QED
  BY <1>7, <1>8

(* Everything else that ReadField leaves.                                    *)
LEMMA FieldPlaced ==
  ASSUME Shape, Shape', FixInv, OrderInv, KidsYounger', PlaceInv, ReadField
  PROVE  ColumnsPlaced' /\ EmptyAhead' /\ FirstOfTag'
<1>1. frames # <<>> /\ UNCHANGED <<maker, messages>> /\ column' = column
  BY SameFormat DEF ReadField, Takes
<1>2. KeepsTree /\ KeepsPaths
  BY ReadFieldShape, PairPaths DEF Pairs
<1>3. column \in Cols /\ column \in Nat /\ Columns \in Nat /\ IsTree /\ IsTree'
  BY <1>1, Reading DEF Shape
<1>4. PICK x : FieldGoes(x) /\ (x \in Fields => column # 0)
  <2>1. CASE Lines(token) # {}
    <3>1. column # 0
      BY <2>1 DEF Lines
    <3> QED
      BY <2>1, <3>1, LineFilled
  <2>2. CASE Lines(token) = {}
    <3>1. PICK s : s = Size
      OBVIOUS
    <3>2. FieldGoes(s)
      BY <2>2, <3>1, FieldAdded
    <3>3. s \notin Fields
      BY <1>3, <3>1 DEF IsTree, Fields
    <3> QED
      BY <3>2, <3>3
  <2> QED
    BY <2>1, <2>2
<1>5. ColumnsPlaced'
  BY <1>2, <1>4, FieldInPlace
<1>6. /\ DOMAIN tree' = DOMAIN tree \cup {x} /\ Fields' = Fields \cup {x}
      /\ \A c \in Cols : c # column =>
           /\ \A n \in DOMAIN tree : tree'[n].vals[c] = tree[n].vals[c]
           /\ x \notin DOMAIN tree => tree'[x].vals[c] = 0
      /\ \A n \in DOMAIN tree : n # x => tree'[n].vals[column] = tree[n].vals[column]
      /\ column # 0 => Rank(x)' = 1
  BY <1>4, Zenon DEF FieldGoes
<1>7. EmptyAhead'
  <2> SUFFICES ASSUME NEW n \in DOMAIN tree', NEW c \in Cols, c > column
               PROVE  tree'[n].vals[c] = 0
    BY <1>1 DEF EmptyAhead, Cols
  <2>1. c # column
    BY <1>3
  <2>2. CASE n \in DOMAIN tree
    <3>1. tree[n].vals[c] = 0
      BY <2>2 DEF PlaceInv, EmptyAhead
    <3> QED
      BY <1>6, <2>1, <2>2, <3>1
  <2> QED
    BY <1>6, <2>1, <2>2
<1>8. FirstOfTag'
  <2> SUFFICES ASSUME NEW n \in Fields', NEW c \in Cols, c > 0, tree'[n].vals[c] # 0
               PROVE  Rank(n)' = 1
    BY Zenon DEF FirstOfTag, Cols
  <2>1. ASSUME n \in Fields, tree[n].vals[c] # 0 PROVE Rank(n)' = 1
    <3>1. Rank(n) = 1
      BY <2>1 DEF PlaceInv, FirstOfTag
    <3>2. n \in DOMAIN tree \ {0}
      BY <2>1 DEF Fields
    <3> QED
      BY <1>2, <3>1, <3>2 DEF KeepsPaths
  <2>2. CASE n # x
    <3>1. n \in Fields /\ n \in DOMAIN tree
      BY <1>6, <2>2 DEF Fields
    <3>2. tree'[n].vals[c] = tree[n].vals[c]
      BY <1>6, <2>2, <3>1
    <3> QED
      BY <2>1, <3>1, <3>2
  <2>3. CASE n = x /\ c # column
    <3>1. n \in DOMAIN tree /\ tree[n].vals[c] # 0
      BY <1>6, <2>3
    <3>2. n \in Fields
      BY <1>2, <1>4, <2>3, <3>1, FieldKnown
    <3> QED
      BY <2>1, <3>1, <3>2
  <2>4. CASE n = x /\ c = column
    BY <1>3, <1>6, <2>4
  <2> QED
    BY <2>2, <2>3, <2>4
<1> QED
  BY <1>5, <1>7, <1>8

(* What a step leaves that writes no field.                                  *)
LEMMA NothingWritten ==
  ASSUME Shape, OrderInv, PlaceInv, frames # <<>>, UNCHANGED <<maker, messages>>,
         KeepsPaths, KeepsTree, Fields' = Fields,
         \A n \in DOMAIN tree : tree'[n].vals = tree[n].vals,
         \A n \in DOMAIN tree' : n \notin DOMAIN tree =>
           \A c \in Cols : c > column => tree'[n].vals[c] = 0,
         inc' = inc \/ (inc' = inc + 1 /\ More /\ token \in Counters)
  PROVE  ColumnsPlaced' /\ EmptyAhead' /\ FirstOfTag'
<1>1. column' = column /\ KidsYounger /\ OneParent
  BY SameFormat DEF OrderInv, PlaceInv
<1>2. \A n \in Fields : n \in DOMAIN tree \ {0}
  BY DEF Fields
<1>3. \A c \in 0..column : Column(c)' = Column(c)
  <2> SUFFICES ASSUME NEW c \in 0..column PROVE Column(c)' = Column(c)
    OBVIOUS
  <2> QED
    BY <1>1, <1>2, ColumnSame
<1>4. ColumnsPlaced'
  BY <1>3, ColumnsStay
<1>5. EmptyAhead'
  BY <1>1 DEF PlaceInv, EmptyAhead, Cols
<1>6. FirstOfTag'
  <2> SUFFICES ASSUME NEW n \in Fields', NEW c \in Cols, c > 0, tree'[n].vals[c] # 0
               PROVE  Rank(n)' = 1
    BY Zenon DEF FirstOfTag, Cols
  <2>1. n \in Fields /\ n \in DOMAIN tree \ {0}
    BY <1>2
  <2>2. Rank(n) = 1
    BY <2>1 DEF PlaceInv, FirstOfTag
  <2> QED
    BY <2>1, <2>2 DEF KeepsPaths
<1> QED
  BY <1>4, <1>5, <1>6

LEMMA TreeAlone ==
  ASSUME Shape, Shape', OrderInv, KidsYounger', PlaceInv,
         frames # <<>>, UNCHANGED <<maker, messages, tree>>,
         inc' = inc \/ (inc' = inc + 1 /\ More /\ token \in Counters)
  PROVE  ColumnsPlaced' /\ EmptyAhead' /\ FirstOfTag'
<1>1. KeepsTree /\ SameChildren /\ KidsYounger /\ OneParent
  BY UnchangedTree DEF OrderInv, PlaceInv
<1>2. KeepsPaths
  BY <1>1, ValuePaths
<1>3. Fields' = Fields
  BY SameFormat DEF Fields
<1> QED
  BY <1>1, <1>2, <1>3, NothingWritten

(* The node of an entry carries its counter's value, in this column.         *)
LEMMA EntryPlacedToo ==
  ASSUME Shape, Shape', FixInv, OrderInv, OrderInv', KidsYounger', PlaceInv, ReadEntry
  PROVE  ColumnsPlaced' /\ EmptyAhead' /\ FirstOfTag'
<1>1. frames # <<>> /\ More /\ UNCHANGED <<maker, messages, inc>> /\ top.counter # 0
  BY DEF ReadEntry
<1>2. KeepsPaths /\ KeepsTree
  BY EntryFollows, ReadEntryShape
<1>3. /\ column \in Nat /\ column \in Cols /\ IsTree /\ top.node \in DOMAIN tree
      /\ message[top.counter] \in Counters
  <2>1. top = frames[Len(frames)] /\ Len(frames) \in 1..Len(frames)
    BY <1>1, CallFacts
  <2>2. Reads(Len(frames)) \in Counters
    BY <1>1, <2>1, CallFacts
  <2> QED
    BY <1>1, <2>1, <2>2, CallFacts, Reading DEF Shape, Reads
<1> DEFINE g == message[top.counter]
<1>4. CASE UNCHANGED tree
  BY <1>1, <1>4, TreeAlone
<1>5. CASE NewChild(Behind(g), g) /\ ChildMore(Behind(g), g)
  <2>1. /\ Fields' = Fields \cup {n \in {Size} : g \notin Counters}
        /\ \A n \in DOMAIN tree : tree'[n].vals = tree[n].vals
        /\ \A n : n = Size => tree'[n].vals = Value
    BY <1>1, <1>3, <1>5, FieldsMore, ValuesMore
  <2>2. Fields' = Fields
    BY <1>3, <2>1
  <2>3. \A n \in DOMAIN tree' : n \notin DOMAIN tree => n = Size
    BY <1>5 DEF ChildMore
  <2>4. \A c \in Cols : c > column => Value[c] = 0
    <3>1. \A c \in Cols : c # column => Value[c] = 0
      BY <1>3 DEF Value, Empty
    <3>2. \A c \in Cols : c > column => c # column
      BY <1>3 DEF Cols
    <3> QED
      BY <3>1, <3>2
  <2>5. \A n \in DOMAIN tree' : n \notin DOMAIN tree =>
          \A c \in Cols : c > column => tree'[n].vals[c] = 0
    BY <2>1, <2>3, <2>4
  <2> QED
    BY <1>1, <1>2, <2>1, <2>2, <2>5, NothingWritten
<1>6. UNCHANGED tree \/ (NewChild(Behind(g), g) /\ ChildMore(Behind(g), g))
  <2>1. \/ UNCHANGED tree
        \/ Entries(g) = {} /\ NewChild(Behind(g), g)
    BY DEF ReadEntry
  <2>2. \/ UNCHANGED tree
        \/ Entries(g) = {} /\ ChildMore(Behind(g), g)
    BY ReadEntryShape
  <2> QED
    BY <2>1, <2>2
<1> QED
  BY <1>4, <1>5, <1>6

(* A counter that opens no group, and the end of a call, leave the tree.     *)
LEMMA StepPlaced ==
  ASSUME Shape, Shape', FixInv, OrderInv, OrderInv', KidsYounger', PlaceInv, Rmake
  PROVE  ColumnsPlaced' /\ EmptyAhead' /\ FirstOfTag' /\ ReadNoFurther' /\ OneSs'
<1>1. frames # <<>> /\ UNCHANGED <<maker, messages>>
  BY DEF Rmake, ReadField, SkipCounter, SkipLastCounter, OpenGroup, ReadEntry, CloseGroup, Return, Takes
<1>2. OneSs'
  BY <1>1 DEF PlaceInv, OneSs
<1>3. ReadNoFurther'
  <2>1. CASE frames' # <<>>
    BY <2>1, <1>1 DEF Shape, Nested, ReadNoFurther
  <2>2. CASE UNCHANGED inc
    BY <1>1, <2>2, SameFormat DEF PlaceInv, ReadNoFurther
  <2>3. CASE Pairs
    <3>1. Len(frames') = Len(frames) /\ Len(frames) \in Nat \ {0}
      BY <1>1, <2>3, PairTook, CallFacts DEF TookPair, GoesOn
    <3> QED
      BY <2>1, <3>1
  <2> QED
    BY <2>2, <2>3 DEF Rmake, Pairs, ReadEntry, CloseGroup, Return
<1>4. CASE ReadField
  BY <1>2, <1>3, <1>4, FieldPlaced
<1>5. CASE ReadEntry
  BY <1>2, <1>3, <1>5, EntryPlacedToo
<1>6. CASE SkipCounter \/ SkipLastCounter \/ OpenGroup
  <2>1. UNCHANGED tree /\ inc' = inc + 1 /\ More /\ token \in Counters
    BY <1>6 DEF SkipCounter, SkipLastCounter, OpenGroup, Takes, Resume
  <2> QED
    BY <1>1, <1>2, <1>3, <2>1, TreeAlone
<1>7. CASE CloseGroup \/ Return
  <2>1. UNCHANGED <<tree, inc>>
    BY <1>7 DEF CloseGroup, Return
  <2> QED
    BY <1>1, <1>2, <1>3, <2>1, TreeAlone
<1> QED
  BY <1>4, <1>5, <1>6, <1>7 DEF Rmake

(* Another message is read when the one before is through: its column is     *)
(* empty, and the columns of the others are those of whole messages.         *)
LEMMA ReadPlaced ==
  ASSUME Shape, Shape', OrderInv, KidsYounger', PlaceInv, frames = <<>>, Len(messages) < Columns,
         NEW m \in Seq(AllTags), Len(m) <= MaxLen, Read(m), maker = "ssmake" => messages = <<>>
  PROVE  ColumnsPlaced' /\ EmptyAhead' /\ FirstOfTag' /\ ReadNoFurther' /\ OneSs'
<1>1. /\ inc' = 1 /\ UNCHANGED <<maker, tree>> /\ Counters' = Counters
  BY DEF Read, Counters
<1>2. /\ message' = m /\ column' = Len(messages) /\ Len(messages') = Len(messages) + 1
      /\ \A c \in DOMAIN messages : messages'[c] = messages[c]
      /\ messages \in Seq(Seq(AllTags)) /\ Len(messages) \in Nat
      /\ DOMAIN messages = 1..Len(messages)
      /\ column = Len(messages) - 1 /\ KidsYounger /\ OneParent /\ Columns \in Nat \ {0}
  BY ReadShape, RuvAssumption DEF Shape, Inputs, column, OrderInv, PlaceInv
<1>3. KeepsTree /\ SameChildren /\ Fields' = Fields
  BY <1>1, UnchangedTree DEF Fields
<1>4. KeepsPaths
  BY <1>2, <1>3, ValuePaths
<1>5. \A n \in Fields : n \in DOMAIN tree \ {0}
  BY DEF Fields
<1>6. EmptyAhead' /\ FirstOfTag'
  <2>1. EmptyAhead'
    <3> SUFFICES ASSUME NEW n \in DOMAIN tree, NEW c \in Cols, c > column' PROVE tree[n].vals[c] = 0
      BY <1>1, Zenon DEF EmptyAhead, Cols
    <3>1. c > column
      BY <1>2 DEF Cols
    <3> QED
      BY <3>1 DEF PlaceInv, EmptyAhead
  <2>2. FirstOfTag'
    <3> SUFFICES ASSUME NEW n \in Fields', NEW c \in Cols, c > 0, tree'[n].vals[c] # 0
                 PROVE  Rank(n)' = 1
      BY Zenon DEF FirstOfTag, Cols
    <3>1. n \in Fields /\ n \in DOMAIN tree \ {0} /\ tree[n].vals[c] # 0
      BY <1>1, <1>3, <1>5
    <3>2. Rank(n) = 1
      BY <3>1 DEF PlaceInv, FirstOfTag
    <3> QED
      BY <1>4, <3>1, <3>2 DEF KeepsPaths
  <2> QED
    BY <2>1, <2>2
<1>7. ReadNoFurther'
  <2>1. Len(m) \in Nat
    OBVIOUS
  <2> QED
    BY <1>1, <1>2, <2>1 DEF ReadNoFurther
<1>8. OneSs'
  <2>1. maker = "ssmake" => Len(messages) = 0
    OBVIOUS
  <2> QED
    BY <1>1, <1>2, <2>1 DEF OneSs
<1>9. ColumnsPlaced'
  <2> SUFFICES ASSUME NEW c \in 0..Len(messages), Proper(messages[c + 1])'
               PROVE  Column(c)' = WrittenTo(c, ReadTo(c))'
    BY <1>2, Zenon DEF ColumnsPlaced
  <2>1. Column(c)' = Column(c)
    <3>1. \A n \in Fields : n \in Fields' /\ tree'[n].vals[c] = tree[n].vals[c]
      BY <1>1, <1>3
    <3> QED
      BY <1>2, <1>3, <1>4, <3>1, ColumnSame
  <2>2. c \in Cols /\ c \in Nat
    BY <1>2 DEF Cols
  <2>3. CASE c = Len(messages)
    <3>1. ReadTo(c)' = 0
      BY <1>1, <1>2, <2>3 DEF ReadTo
    <3>2. WrittenTo(c, ReadTo(c))' = {}
      <4>1. 1..0 = {}
        OBVIOUS
      <4> QED
        BY <3>1, <4>1 DEF WrittenTo
    <3>3. \A n \in Fields : tree[n].vals[c] = 0
      <4>1. c > column
        BY <1>2, <2>3
      <4> QED
        BY <1>5, <2>2, <4>1 DEF PlaceInv, EmptyAhead
    <3>4. Column(c) = {}
      BY <3>3 DEF Column
    <3> QED
      BY <2>1, <3>2, <3>4
  <2>4. CASE c < Len(messages)
    <3>1. PICK old : old = messages[c + 1]
      OBVIOUS
    <3>2. c + 1 \in DOMAIN messages /\ messages'[c + 1] = old
      <4>1. \A n \in Nat : c < n => c + 1 \in 1..n
        BY <2>2
      <4>2. c + 1 \in DOMAIN messages
        BY <1>2, <2>4, <4>1
      <4> QED
        BY <1>2, <3>1, <4>2
    <3>3. Proper(old)' /\ Proper(old) /\ \A k : Home(k)' = Home(k)
      BY <1>1, <3>2 DEF Proper, WellFormed, Home, Counters
    <3>4. c \in 0..column /\ c # Len(messages)
      BY <1>2, <2>2, <2>4
    <3>5. Column(c) = WrittenTo(c, ReadTo(c))
      BY <3>1, <3>3, <3>4 DEF PlaceInv, ColumnsPlaced
    <3>6. PICK n : n = Len(old)
      OBVIOUS
    <3>7. ReadTo(c)' = n
      BY <1>2, <3>2, <3>4, <3>6 DEF ReadTo
    <3>8. ReadTo(c) = n
      <4>1. CASE c # column
        BY <3>1, <3>6, <4>1 DEF ReadTo
      <4>2. CASE c = column
        <5>1. messages # <<>> /\ message = old
          BY <1>2, <3>1, <3>2, <4>2 DEF message, Last
        <5>2. inc > n /\ inc <= n + 1
          BY <3>6, <5>1 DEF OrderInv, ReadThrough, PlaceInv, ReadNoFurther
        <5>3. inc \in Nat /\ n \in Nat
          <6>1. old \in Seq(AllTags)
            BY <1>2, <3>1, <3>2
          <6> QED
            BY <3>6, <6>1, RuvAssumption DEF Shape, Inputs
        <5>4. inc - 1 = n
          BY <5>2, <5>3
        <5> QED
          BY <4>2, <5>4 DEF ReadTo
      <4> QED
        BY <4>1, <4>2
    <3>9. WrittenTo(c, n) = Cells(old, Home(old), c, n)
      BY <3>1, WrittenCells
    <3>10. WrittenTo(c, ReadTo(c))' = Cells(old, Home(old), c, n)
      BY <1>1, <3>2, <3>3, <3>7 DEF WrittenTo, Cells
    <3> QED
      BY <2>1, <3>5, <3>8, <3>9, <3>10
  <2> QED
    BY <1>2, <2>3, <2>4
<1> QED
  BY <1>6, <1>7, <1>8, <1>9

LEMMA PlaceInit == Init => PlaceInv
<1> SUFFICES ASSUME Init PROVE PlaceInv
  OBVIOUS
<1>1. messages = <<>> /\ frames = <<>> /\ inc = 1 /\ column = -1
  BY DEF Init, column
<1>2. DOMAIN tree = {0} /\ tree[0].kids = <<>> /\ tree[0].vals = Empty
  BY DEF Init, Node
<1>3. OneParent /\ CountersOpen /\ EntriesMade /\ CallsFollow
  BY <1>1, <1>2 DEF OneParent, CountersOpen, EntriesMade, CallsFollow
<1>4. InSsTags /\ RestWhole /\ OneSs /\ ReadNoFurther
  BY <1>1 DEF InSsTags, RestWhole, OneSs, ReadNoFurther
<1>5. Fields = {}
  BY <1>2 DEF Fields
<1>6. EmptyAhead /\ FirstOfTag
  BY <1>2, <1>5 DEF EmptyAhead, FirstOfTag, Empty
<1>7. ColumnsPlaced
  <2>1. 0..column = {}
    BY <1>1
  <2> QED
    BY <2>1 DEF ColumnsPlaced
<1> QED
  BY <1>3, <1>4, <1>6, <1>7 DEF PlaceInv

LEMMA PlaceStutter ==
  ASSUME PlaceInv, UNCHANGED vars
  PROVE  PlaceInv'
<1>1. UNCHANGED <<maker, messages, inc, frames, tree>>
  BY DEF vars
<1>2. /\ message' = message /\ column' = column /\ Counters' = Counters /\ top' = top
      /\ (More <=> More') /\ token' = token
      /\ \A m : Home(m)' = Home(m) /\ Proper(m)' = Proper(m)
      /\ \A g : Members(g)' = Members(g)
  BY <1>1, SameFormat DEF top, More, token
<1>3. Path' = Path /\ \A n : Rank(n)' = Rank(n)
  BY <1>1 DEF Path, Parent, Rank
<1>4. \A d : Reads(d)' = Reads(d) /\ Place(d)' = Place(d)
  BY <1>1, <1>2 DEF Reads, Place
<1>5. \A p, g : Made(p, g)' = Made(p, g)
  BY <1>1 DEF Made, Row, Tag
<1>6. OneParent' /\ CountersOpen' /\ EntriesMade'
  BY <1>1, <1>2, <1>4, <1>5 DEF PlaceInv, OneParent, CountersOpen, EntriesMade
<1>7. maker' = "ssmake" => InSsTags' /\ RestWhole'
  BY <1>1, <1>2, <1>4 DEF PlaceInv, InSsTags, RestWhole
<1>8. EmptyAhead' /\ FirstOfTag' /\ ReadNoFurther' /\ OneSs'
  BY <1>1, <1>2, <1>3 DEF PlaceInv, EmptyAhead, FirstOfTag, Fields, ReadNoFurther, OneSs, Cols
<1>9. ColumnsPlaced'
  <2>1. \A c : Column(c)' = Column(c) /\ ReadTo(c)' = ReadTo(c)
    BY <1>1, <1>2 DEF Column, Path, Parent, Rank, Fields, ReadTo
  <2>2. \A c, n : WrittenTo(c, n)' = WrittenTo(c, n)
    BY <1>1, WrittenSame
  <2>3. \A c : WrittenTo(c, ReadTo(c))' = WrittenTo(c, ReadTo(c))
    <3> SUFFICES ASSUME NEW c PROVE WrittenTo(c, ReadTo(c))' = WrittenTo(c, ReadTo(c))
      OBVIOUS
    <3>1. PICK n : n = ReadTo(c)
      OBVIOUS
    <3>2. WrittenTo(c, ReadTo(c))' = WrittenTo(c, n)'
      BY <2>1, <3>1 DEF WrittenTo
    <3> QED
      BY <2>2, <3>1, <3>2
  <2> QED
    BY <1>1, <1>2, <2>1, <2>3 DEF PlaceInv, ColumnsPlaced, Proper, WellFormed, Home, Counters
<1>10. CallsFollow'
  <2>1. Proper(message)' = Proper(message)
    BY <1>1, <1>2 DEF Proper, WellFormed, Home, Counters
  <2> SUFFICES ASSUME frames # <<>>, Proper(message)
               PROVE  (/\ CallsPlaced /\ CountersPlaced /\ HomesInTree
                       /\ maker = "rmake" => EntriesFollow /\ SeenBefore
                       /\ maker = "ssmake" => StartsFollow /\ StartsCounted)'
    BY <1>1, <2>1 DEF CallsFollow
  <2>2. (CallsPlaced /\ CountersPlaced /\ HomesInTree)'
    BY <1>1, <1>2, <1>3, <1>4 DEF PlaceInv, CallsFollow, CallsPlaced, CountersPlaced, HomesInTree, Home
  <2>3. ASSUME maker = "rmake" PROVE EntriesFollow' /\ SeenBefore'
    <3>1. EntriesFollow /\ SeenBefore
      BY <2>3 DEF PlaceInv, CallsFollow
    <3>2. \A d, e : /\ EntryRead(d, e)' <=> EntryRead(d, e)
                    /\ EntryToCome(d, e)' <=> EntryToCome(d, e)
      BY <1>1, <1>2 DEF EntryRead, EntryToCome
    <3>3. EntriesFollow'
      BY <1>1, <1>2, <3>1, <3>2, SMTT(30) DEF EntriesFollow
    <3>4. SeenBefore'
      BY <1>1, <1>2, <1>4, <3>1, SMTT(30) DEF SeenBefore
    <3> QED
      BY <3>3, <3>4
  <2>4. maker = "ssmake" => StartsFollow' /\ StartsCounted'
    BY <1>1, <1>2, <1>4 DEF PlaceInv, CallsFollow, StartsFollow, StartsCounted, OpenNow, Counted, Home
  <2> QED
    BY <1>1, <2>2, <2>3, <2>4
<1> QED
  BY <1>6, <1>7, <1>8, <1>9, <1>10 DEF PlaceInv

LEMMA PlaceNext ==
  ASSUME Shape, Shape', FixInv, OrderInv, OrderInv', PlaceInv, [Next]_vars
  PROVE  PlaceInv'
<1>1. KidsYounger'
  BY DEF OrderInv
<1>2. ASSUME Rmake PROVE PlaceInv'
  <2>1. ColumnsPlaced' /\ EmptyAhead' /\ FirstOfTag' /\ ReadNoFurther' /\ OneSs'
    BY <1>1, <1>2, StepPlaced
  <2>2. /\ OneParent' /\ CountersOpen' /\ EntriesMade' /\ CallsFollow'
        /\ maker' = "ssmake" => InSsTags' /\ RestWhole'
    <3>1. CASE Pairs
      BY <1>1, <3>1, PairFollows
    <3>2. CASE ReadEntry
      BY <1>1, <3>2, EntryFollows
    <3>3. CASE CloseGroup \/ Return
      BY <1>1, <3>3, LeftFollows
    <3> QED
      BY <1>2, <3>1, <3>2, <3>3 DEF Rmake, Pairs
  <2> QED
    BY <2>1, <2>2 DEF PlaceInv
<1>3. ASSUME MayRead, NEW m \in Seq(AllTags), Len(m) <= MaxLen, Read(m), Len(messages) < Columns,
             maker = "ssmake" => messages = <<>> /\ m \in Seq(SsTags)
      PROVE  PlaceInv'
  <2>1. frames = <<>>
    BY <1>3 DEF MayRead
  <2>2. ColumnsPlaced' /\ EmptyAhead' /\ FirstOfTag' /\ ReadNoFurther' /\ OneSs'
    BY <1>1, <1>3, <2>1, ReadPlaced
  <2>3. /\ OneParent' /\ CountersOpen' /\ EntriesMade' /\ CallsFollow'
        /\ maker' = "ssmake" => InSsTags' /\ RestWhole'
    BY <1>1, <1>3, ReadFollows
  <2> QED
    BY <2>2, <2>3 DEF PlaceInv
<1>4. ASSUME MayRead, maker = "rmake", NEW m \in RmakeInputs, Compare(m), Len(messages) < Columns
      PROVE  PlaceInv'
  <2>1. m \in Seq(Tags) /\ Len(m) <= MaxLen
    BY InputIs DEF RmakeInputs
  <2>2. m \in Seq(AllTags)
    BY <2>1 DEF AllTags
  <2> QED
    BY <1>3, <1>4, <2>1, <2>2 DEF Compare
<1>5. ASSUME MayRead, NEW m \in SsmakeInputs, Read(m), messages = <<>> PROVE PlaceInv'
  <2>1. m \in Seq(SsTags) /\ Len(m) <= MaxLen
    BY InputIs DEF SsmakeInputs
  <2>2. m \in Seq(AllTags) /\ Len(messages) < Columns
    BY <1>5, <2>1, RuvAssumption DEF AllTags
  <2> QED
    BY <1>3, <1>5, <2>1, <2>2
<1>6. CASE UNCHANGED vars
  BY <1>6, PlaceStutter
<1> QED
  BY <1>2, <1>4, <1>5, <1>6 DEF Next

Placing == Shape /\ FixInv /\ OrderInv /\ PlaceInv

LEMMA AlwaysPlacing == Spec => []Placing
<1>1. Init => Placing
  BY ShapeInit, FixInit, InitOrder, PlaceInit DEF Placing
<1>2. Placing /\ [Next]_vars => Placing'
  BY ShapeNext, FixNext, OrderNext, PlaceNext DEF Placing, IInv
<1> QED
  BY <1>1, <1>2, PTL DEF Spec

(* At every moment, and not only between messages: the node that the         *)
(* innermost call of rmake or ssmake fills in is the one whose path is the   *)
(* place that the format gives to the pair which is read next.               *)
THEOREM PairsReadInPlace ==
  Spec => [](Takes /\ Proper(message) => Path[top.node] = Home(message)[inc])
<1>1. Placing => (Takes /\ Proper(message) => Path[top.node] = Home(message)[inc])
  <2> SUFFICES ASSUME Placing, Takes, Proper(message)
               PROVE  Path[top.node] = Home(message)[inc]
    OBVIOUS
  <2>1. Shape /\ FixInv /\ PlaceInv /\ frames # <<>>
    BY DEF Placing, Takes
  <2>2. Len(frames) \in DOMAIN frames /\ top = frames[Len(frames)]
    BY <2>1, CallFacts
  <2>3. Path[top.node] = Place(Len(frames))
    BY <2>1, <2>2 DEF PlaceInv, CallsFollow, CallsPlaced
  <2> QED
    BY <2>1, <2>3, HomeIsPlace
<1> QED
  BY <1>1, AlwaysPlacing, PTL

(* Whatever has been read since, the column of every message holds           *)
(* every field of it, at the entry and the group the format gives it, and    *)
(* nothing else: no value in another entry's place, and none lost but those  *)
(* of a tag that comes again.                                                *)
THEOREM EveryFieldInItsPlace == Spec => []PlacedAsWritten
<1>1. Placing => PlacedAsWritten
  <2> SUFFICES ASSUME Placing, frames = <<>>, NEW c \in 0..column,
                      maker = "ssmake" => WellFormed(messages[c + 1])
               PROVE  Column(c) = Written(c)
    BY DEF PlacedAsWritten
  <2>1. Shape /\ OrderInv /\ PlaceInv
    BY DEF Placing
  <2>2. /\ Len(messages) \in Nat /\ column = Len(messages) - 1 /\ inc \in Nat
        /\ messages \in Seq(Seq(AllTags))
    BY <2>1, RuvAssumption DEF Shape, Inputs, column
  <2>3. PICK m : m = messages[c + 1]
    OBVIOUS
  <2>4. m \in Seq(AllTags) /\ Len(m) \in Nat /\ DOMAIN m = 1..Len(m)
    BY <2>2, <2>3
  <2>5. ReadTo(c) = Len(m)
    <3>1. CASE c # column
      BY <2>3, <3>1 DEF ReadTo
    <3>2. CASE c = column
      <4>1. messages # <<>> /\ message = m
        BY <2>2, <2>3, <3>2 DEF message, Last
      <4>2. inc > Len(m) /\ inc <= Len(m) + 1
        BY <2>1, <4>1 DEF OrderInv, ReadThrough, PlaceInv, ReadNoFurther
      <4>3. inc - 1 = Len(m)
        BY <2>2, <2>4, <4>2
      <4> QED
        BY <3>2, <4>3 DEF ReadTo
    <3> QED
      BY <3>1, <3>2
  <2>6. Column(c) = WrittenTo(c, Len(m))
    BY <2>1, <2>3, <2>5 DEF PlaceInv, ColumnsPlaced, Proper
  <2>7. WrittenTo(c, Len(m)) = Written(c)
    BY <2>3, <2>4 DEF WrittenTo, Written
  <2> QED
    BY <2>6, <2>7
<1> QED
  BY <1>1, AlwaysPlacing, PTL
=============================================================================
