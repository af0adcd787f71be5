------------------------------- MODULE RuvTree -------------------------------
(***************************************************************************)
(* The message comparison of tst_ruv.cpp: rmake reads FIX messages, one    *)
(* after the other, into one tree of ruv nodes with a column of values per *)
(* message, so that what the messages say of the same field of the same    *)
(* group entry stands side by side.  MsgFix_rmake of msgfix.cpp reads a    *)
(* single message in the same way.  ssmake reads a message whose groups    *)
(* have a start and a stop tag (SOH ... EOH).  main returns before its call *)
(* of ssmake, which would read one message into a tree of its own.         *)
(*                                                                         *)
(* A counter (NoLegs, NoPartyIDs, ...) that is followed by a member of its *)
(* group opens entries; an entry takes every member once, and the first    *)
(* tag it cannot take ends it.  The number that the counter carries is not *)
(* looked at.  ssmake is the same code but for its groups: a start that is *)
(* not followed by its stop opens one entry, which takes every tag but the *)
(* stop, any number of times.  Both call themselves for every entry: a call*)
(* is a frame here, and an action one turn of the loops.  The text of a    *)
(* value is stood for by the position of its pair in the message, 0 for the*)
(* empty string.                                                           *)
(***************************************************************************)
EXTENDS Integers, SequencesExt

CONSTANTS
  Tags,          (* the tags of the messages                                 *)
  Groups,        (* tRPGs: from a counter to the members of its group        *)
  SsTags,        (* the tags of the messages with start and stop             *)
  Stops,         (* tRPGss: from the start of a group to its stop            *)
  Columns,       (* how many messages are compared, SIZE of ruv              *)
  MaxLen,        (* pairs of one message (bounds the model)                  *)
  MaxPairs       (* pairs of all messages together (bounds the model)        *)

ASSUME RuvAssumption ==
  /\ DOMAIN Groups \subseteq Tags
  /\ \A g \in DOMAIN Groups : Groups[g] \subseteq Tags
  /\ DOMAIN Stops \subseteq SsTags
  /\ \A g \in DOMAIN Stops : Stops[g] \in SsTags \ DOMAIN Stops
  /\ Columns \in Nat \ {0} /\ MaxLen \in Nat /\ MaxPairs \in Nat

VARIABLES
  maker,         (* which of the two reads into this tree                    *)
  messages,      (* rTagVals_ of every call from outside, a tag per pair     *)
  inc,           (* inc_, or pos while entries are being read; from 1        *)
  frames,        (* the calls of rmake in progress, the innermost last       *)
  tree,          (* the nodes, 0 being the root                              *)
  alive          (* the program has not died of an undefined read            *)

vars == <<maker, messages, inc, frames, tree, alive>>

Cols == 0..(Columns - 1)
Counters == DOMAIN (IF maker = "rmake" THEN Groups ELSE Stops)

(* What may stand in an entry of a group.                                    *)
Members(group) ==
  IF maker = "rmake" THEN Groups[group] ELSE SsTags \ {Stops[group]}

(* A ruv: its tag, a value per column, its children in order.                *)
Node(tag, vals) == [tag |-> tag, vals |-> vals, kids |-> <<>>]
Empty == [c \in Cols |-> 0]

(* A call: the node it fills, the tags it still takes (of rmake's group), the*)
(* entries it has seen of every counter, and the position of the counter     *)
(* whose entries it is reading, 0 when there is none.                        *)
Frame(node, members) ==
  [node |-> node, rest |-> members, seen |-> [g \in Counters |-> 0], counter |-> 0]

(* The outermost call has pRPG_ null and takes every tag, again and again.   *)
AtRoot == Len(frames) = 1

column == Len(messages) - 1     (* idx_ *)
message == Last(messages)
top == Last(frames)
More == inc <= Len(message)
token == message[inc]
Siblings == tree[top.node].kids

(* Where the siblings with one tag stand.                                    *)
Places(tag) == {i \in DOMAIN Siblings : tree[Siblings[i]].tag = tag}

-----------------------------------------------------------------------------
(* What a message says, apart from rmake and ssmake: Home gives the place    *)
(* of every pair, as the group and the number of the entry of every level.   *)
(* In FIX the innermost open group of which the tag is a member takes it, in *)
(* its current entry or, when that entry has the tag, in a new one; a tag    *)
(* that no open group takes stands outside the groups.                       *)
Opens(m, j) == j < Len(m) /\ m[j] \in DOMAIN Groups /\ m[j + 1] \in Groups[m[j]]

(* The entries a pair finds open, from those the pair before it has left.    *)
Outer(m, before, j) ==
  before \o IF j > 1 /\ Opens(m, j - 1)
            THEN <<[group |-> m[j - 1], nth |-> 1, has |-> {}]>> ELSE <<>>

(* The entries it leaves, its own the last of them.                          *)
Holding(m, before, j) ==
  LET outer  == Outer(m, before, j)
      takers == {d \in DOMAIN outer : m[j] \in Groups[outer[d].group]}
      depth  == Max(takers)
      entry  == outer[depth]
      next   == IF m[j] \in entry.has
                THEN [group |-> entry.group, nth |-> entry.nth + 1, has |-> {m[j]}]
                ELSE [entry EXCEPT !.has = @ \cup {m[j]}]
  IN  IF takers = {} THEN <<>> ELSE Append(SubSeq(outer, 1, depth - 1), next)

OpenEntries(m) ==
  LET open[j \in 0..Len(m)] == IF j = 0 THEN <<>> ELSE Holding(m, open[j - 1], j)
  IN  open

FixHome(m) ==
  LET open == OpenEntries(m)
  IN  [j \in DOMAIN m |-> [d \in DOMAIN open[j] |-> <<open[j][d].group, open[j][d].nth>>]]

(* With start and stop the innermost group has everything up to its stop,    *)
(* and the stop stands behind it.                                            *)
Starts(m, j) == j < Len(m) /\ m[j] \in DOMAIN Stops /\ m[j + 1] # Stops[m[j]]

(* The entry that a pair finds open behind a start is the next one of its    *)
(* kind in the place of the start.                                           *)
Inside(m, home, j) ==
  LET like == {k \in 1..(j - 1) : /\ Starts(m, k) /\ m[k] = m[j - 1]
                                  /\ home[k] = home[j - 1]}
  IN  home[j - 1] \o IF j > 1 /\ Starts(m, j - 1)
                      THEN <<<<m[j - 1], Cardinality(like)>>>> ELSE <<>>

Stopping(m, home, j) ==
  LET inside == Inside(m, home, j)
  IN  IF inside # <<>> /\ m[j] = Stops[Last(inside)[1]] THEN Front(inside) ELSE inside

StartStopEntries(m) ==
  LET home[j \in 0..Len(m)] == IF j = 0 THEN <<>> ELSE Stopping(m, home, j)
  IN  home

StartStopHome(m) ==
  LET home == StartStopEntries(m)
  IN  [j \in DOMAIN m |-> home[j]]

Home(m) == IF maker = "rmake" THEN FixHome(m) ELSE StartStopHome(m)

(* No group stands twice in one place; no group stands right inside another  *)
(* of its kind, or with its stop, which would be taken for the outer one's   *)
(* as well.                                                                  *)
WellFormed(m) ==
  LET home == Home(m)
  IN  IF maker = "rmake"
      THEN \A i, j \in DOMAIN m :
             m[i] = m[j] /\ m[i] \in Counters /\ home[i] = home[j] => i = j
      ELSE \A j \in DOMAIN m : \A d \in DOMAIN home[j] :
             d > 1 => Stops[home[j][d][1]] # Stops[home[j][d - 1][1]]

(* A tag outside the groups, or between a start and a stop, may come again.  *)
NoRepeats(m) ==
  LET home == Home(m)
  IN  \A i, j \in DOMAIN m : m[i] = m[j] /\ home[i] = home[j] => i = j

(* What the tree is to hold of a message: everything of the first one, of a  *)
(* later one the last value of a tag that comes again in one place.          *)
Written(c) ==
  LET m == messages[c + 1]
      home == Home(m)
  IN  {<<home[j], m[j], j>> : j \in
         {i \in DOMAIN m : /\ m[i] \notin Counters
                           /\ c > 0 => ~\E k \in DOMAIN m :
                                k > i /\ m[k] = m[i] /\ home[k] = home[i]}}

-----------------------------------------------------------------------------
RmakeInputs == SeqOf(Tags, MaxLen)
SsmakeInputs == SeqOf(SsTags, MaxLen)

Init ==
  /\ maker \in {"rmake", "ssmake"}
  /\ messages = <<>> /\ frames = <<>> /\ inc = 1 /\ alive = TRUE
  /\ tree = [n \in {0} |-> Node("root", Empty)]

(* main has another message read into the next column of the same tree.  Its *)
(* one call of ssmake stands behind a return.  FIX messages with a counter   *)
(* twice in one place are left out, of the first message also; main would    *)
(* read those too.                                                           *)
MayRead == alive /\ frames = <<>>

Read(m) ==
  /\ messages' = Append(messages, m)
  /\ inc' = 1 /\ frames' = <<Frame(0, {})>>
  /\ UNCHANGED <<maker, tree, alive>>

Compare(m) ==
  /\ Len(FlattenSeq(messages)) + Len(m) <= MaxPairs
  /\ WellFormed(m)
  /\ Read(m)

(* The loop goes on in the innermost call with a pair this call may take.    *)
Takes ==
  /\ alive /\ frames # <<>> /\ More /\ top.counter = 0
  /\ AtRoot \/ token \in top.rest

(* The call goes on: rmake erases the tag from its copy of the group.        *)
Resume(frame, position) ==
  /\ frames' = Front(frames) \o
       <<IF maker = "rmake" THEN [frame EXCEPT !.rest = @ \ {token}] ELSE frame>>
  /\ inc' = position

(* The value of this pair, and of the counter for an entry.                  *)
Value == [Empty EXCEPT ![column] = IF top.counter = 0 THEN inc ELSE top.counter]

(* Mutant: it is put in front.                                               *)
InFront == 1

AtEnd == Len(Siblings) + 1

(* A child is put before the sibling at place, or last.                      *)
(* Mutant: it is put under the node of the outermost call.                   *)
NewChildOfRoot(place, tag) ==
  LET id == Cardinality(DOMAIN tree)
  IN  tree' = [n \in DOMAIN tree \cup {id} |->
                 IF n = id THEN Node(tag, Value)
                 ELSE IF n = 0 THEN [tree[n] EXCEPT !.kids = Append(@, id)] ELSE tree[n]]

NewChild(place, tag) ==
  LET id == Cardinality(DOMAIN tree)
  IN  tree' = [n \in DOMAIN tree \cup {id} |->
                 IF n = id THEN Node(tag, Value)
                 ELSE IF n = top.node THEN [tree[n] EXCEPT !.kids = InsertAt(@, place, id)]
                 ELSE tree[n]]

(* The children whose column a later message fills: the first message makes  *)
(* a node for every pair.                                                    *)
(* Mutant: so does every message.                                            *)
NoLines(tag) == {}

Lines(tag) == IF column = 0 THEN {} ELSE Places(tag)

ReadField ==
  /\ Takes /\ token \notin Counters
  /\ IF Lines(token) = {}
     THEN NewChild(AtEnd, token)
     ELSE tree' = [tree EXCEPT ![Siblings[Min(Lines(token))]].vals[column] = inc]
  /\ Resume(top, inc + 1)
  /\ UNCHANGED <<maker, messages, alive>>

(* A counter without a member after it leaves nothing in the tree.           *)
(* Mutant: the loop stays at the counter.                                    *)
SkipCounterForever ==
  /\ Takes /\ token \in Counters
  /\ inc < Len(message) /\ message[inc + 1] \notin Members(token)
  /\ Resume(top, inc)
  /\ UNCHANGED <<maker, messages, tree, alive>>

SkipCounter ==
  /\ Takes /\ token \in Counters
  /\ inc < Len(message) /\ message[inc + 1] \notin Members(token)
  /\ Resume(top, inc + 1)
  /\ UNCHANGED <<maker, messages, tree, alive>>

(* The pair after the last one is copied before pos is compared with the     *)
(* size: what lies there decides whether the program lives on.               *)
SkipLastCounter ==
  /\ Takes /\ token \in Counters /\ inc = Len(message)
  /\ Resume(top, inc + 1)
  /\ alive' \in BOOLEAN
  /\ UNCHANGED <<maker, messages, tree>>

OpenGroup ==
  /\ Takes /\ token \in Counters
  /\ inc < Len(message) /\ message[inc + 1] \in Members(token)
  /\ Resume([top EXCEPT !.counter = inc], inc + 1)
  /\ UNCHANGED <<maker, messages, tree, alive>>

(* it->second: an entry has the number of its turn in this call.             *)
(* Mutant: every entry is the first one.                                     *)
AlwaysFirst(group) == 1

Turn(group) == top.seen[group] + 1

(* A new entry goes behind the entries there are, or behind all children.    *)
(* Mutant: it is pushed back.                                                *)
PushedBack(group) == AtEnd

Behind(group) ==
  IF Lines(group) = {} THEN AtEnd ELSE Min(Lines(group)) + Cardinality(Lines(group))

(* The entry of this turn, if an earlier message has put one here; the       *)
(* counter's value is then not kept.                                         *)
Entries(group) ==
  {i \in Lines(group) : Cardinality({j \in Lines(group) : j <= i}) = Turn(group)}

ReadEntry ==
  /\ alive /\ frames # <<>> /\ More /\ top.counter # 0
  /\ LET group  == message[top.counter]
         caller == [top EXCEPT !.seen[group] = Turn(group)]
         Call(node) == frames' = Front(frames) \o <<caller, Frame(node, Members(group))>>
     IN  /\ token \in Members(group)
         /\ \/ /\ \E i \in Entries(group) : Call(Siblings[i])
               /\ UNCHANGED tree
            \/ /\ Entries(group) = {}
               /\ Call(Cardinality(DOMAIN tree))
               /\ NewChild(Behind(group), group)
  /\ UNCHANGED <<maker, messages, inc, alive>>

CloseGroup ==
  /\ alive /\ frames # <<>> /\ top.counter # 0
  /\ More => token \notin Members(message[top.counter])
  /\ frames' = Front(frames) \o <<[top EXCEPT !.counter = 0]>>
  /\ UNCHANGED <<maker, messages, inc, tree, alive>>

(* A call returns at the end of the message, and before a tag it cannot take.*)
Return ==
  /\ alive /\ frames # <<>> /\ top.counter = 0
  /\ More => ~AtRoot /\ token \notin top.rest
  /\ frames' = Front(frames)
  /\ UNCHANGED <<maker, messages, inc, tree, alive>>

Rmake ==
  \/ ReadField \/ SkipCounter \/ SkipLastCounter
  \/ OpenGroup \/ ReadEntry \/ CloseGroup \/ Return

Next ==
  \/ Rmake
  \/ MayRead /\ maker = "rmake" /\ Len(messages) < Columns /\ \E m \in RmakeInputs : Compare(m)
  \/ MayRead /\ maker = "ssmake" /\ messages = <<>> /\ \E m \in SsmakeInputs : Read(m)

Spec == Init /\ [][Next]_vars /\ WF_vars(Rmake)

-----------------------------------------------------------------------------
(* The inverse reading, from a node of the tree to its place in a message.   *)
Parent(n) == CHOOSE p \in DOMAIN tree : \E i \in DOMAIN tree[p].kids : tree[p].kids[i] = n

Rank(n) ==
  LET kids == tree[Parent(n)].kids
      at   == CHOOSE i \in DOMAIN kids : kids[i] = n
  IN  Cardinality({i \in 1..at : tree[kids[i]].tag = tree[n].tag})

Fields == {n \in DOMAIN tree \ {0} : tree[n].tag \notin Counters}

Path ==
  LET path[n \in DOMAIN tree] ==
        IF n = 0 THEN <<>> ELSE Append(path[Parent(n)], <<tree[n].tag, Rank(n)>>)
  IN  path

Column(c) ==
  LET path == Path
  IN  {<<path[Parent(n)], tree[n].tag, tree[n].vals[c]>> :
         n \in {f \in Fields : tree[f].vals[c] # 0}}

(* The tree is a tree of nodes, the calls are nested in it, and a call keeps *)
(* no more of its group than the group has.                                  *)
TypeOK ==
  /\ alive \in BOOLEAN /\ inc \in 1..(MaxLen + 1)
  /\ Len(messages) <= Columns /\ ToSet(messages) \subseteq Seq(Tags \cup SsTags)
  /\ DOMAIN tree = 0..(Cardinality(DOMAIN tree) - 1)
  /\ \A n \in DOMAIN tree \ {0} :
       /\ tree[n].tag \in Tags \cup SsTags /\ tree[n].vals \in [Cols -> 0..MaxLen]
       /\ \E p \in DOMAIN tree : \E i \in DOMAIN tree[p].kids : tree[p].kids[i] = n
  /\ \A i \in DOMAIN frames \ {1} :
       /\ frames[i].node \in ToSet(tree[frames[i - 1].node].kids)
       /\ frames[i].rest \subseteq Members(tree[frames[i].node].tag)

(* Whatever has been read since, the column of every message holds           *)
(* every field of it, at the entry and the group the format gives it, and    *)
(* nothing else: no value in another entry's place, and none lost but those  *)
(* of a tag that comes again.                                                *)
PlacedAsWritten ==
  frames = <<>> => \A c \in 0..column :
    (maker = "ssmake" => WellFormed(messages[c + 1])) => Column(c) = Written(c)

(* The values that a node and the nodes below it have in the first column.   *)
Below ==
  LET below[n \in DOMAIN tree] ==
        (IF n \in Fields THEN {tree[n].vals[0]} ELSE {}) \cup
        UNION {below[k] : k \in ToSet(tree[n].kids)}
  IN  below

(* The first column has every field of the first message, and from left to   *)
(* right they are the message again; when others have been read it still has *)
(* every field.  ssmake's message may be in no order at all, with stops      *)
(* missing, repeated or crossed; rmake's has no counter twice in one place.  *)
FirstInOrder ==
  messages # <<>> /\ frames = <<>> /\ alive =>
    LET below == Below
    IN  /\ below[0] \ {0} = {j \in DOMAIN messages[1] : messages[1][j] \notin Counters}
        /\ column = 0 =>
             \A p \in DOMAIN tree : \A i, j \in DOMAIN tree[p].kids : i < j =>
               \A x \in below[tree[p].kids[i]], y \in below[tree[p].kids[j]] : x < y

(* One line per field: two messages that both name a tag in the same entry   *)
(* have their values in the same node, unless the first one names it twice.  *)
(* No node is ever removed, so it is enough to look between two messages.    *)
SideBySide ==
  maker = "rmake" /\ messages # <<>> /\ frames = <<>> /\ NoRepeats(messages[1]) =>
  \A p \in DOMAIN tree : \A i, j \in DOMAIN tree[p].kids :
    LET m == tree[p].kids[i]  n == tree[p].kids[j]
    IN  m \in Fields /\ tree[m].tag = tree[n].tag => i = j

(* The entries of one group stay together among the children of a node,      *)
(* also those a later message inserts.                                       *)
EntriesTogether ==
  maker = "rmake" => \A p \in DOMAIN tree : \A i, j, k \in DOMAIN tree[p].kids :
    LET tag(x) == tree[tree[p].kids[x]].tag
    IN  tag(i) \in Counters /\ i < j /\ j < k /\ tag(i) = tag(k) => tag(j) = tag(i)

(* ssmake comes to the end of every list of pairs, and rmake of every one    *)
(* with no counter twice in one place, unless a group opens in the last pair,*)
(* behind which they then read.                                              *)
Returns ==
  frames # <<>> ~> (frames = <<>> \/ (~alive /\ Last(message) \in Counters))
=============================================================================
