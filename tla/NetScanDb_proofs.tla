--------------------------- MODULE NetScanDb_proofs ---------------------------
(***************************************************************************)
(* The presence database, for any addresses, any lists and any times.      *)
(* Whatever the network does, the two maps stay inside _elems, a device    *)
(* has one element, the open elements are the devices of the list, and the *)
(* table that was printed shows them.  On a steady network that takes at   *)
(* least a second to scan, no assertion fails, the address of an open      *)
(* device leads to its element and is the one of the list.                 *)
(***************************************************************************)
EXTENDS NetScanDb, SequenceTheorems, TLAPS

Elem == [mac : Macs, ip : Ips, open : BOOLEAN, timeIn : Nat, timeOut : Nat]

(* The MAC that leads to an element is the element's own.                    *)
MacsLeadHome == \A m \in DOMAIN macKeys : elems[macKeys[m]].mac = m

(* Between the two loops' start and the return, the devices of the list are  *)
(* those that are open and those that add_mac_ip has yet to reach.           *)
OpenMacs == {elems[i].mac : i \in OpenIdx}
TodoMacs == {todo[k][1] : k \in DOMAIN todo}
ReportMacs == {p[1] : p \in report}

Reached ==
  /\ pc = "wait" => OpenMacs = ReportMacs
  /\ pc = "add" => OpenMacs \cup TodoMacs = ReportMacs

(* What changed says before it is returned.                                  *)
Noticed ==
  /\ pc = "wait" => shown = Present
  /\ pc = "add" => changed \/ shown = Present

IInv == TypeOK /\ OneElementPerMac /\ MacsLeadHome /\ Reached /\ Noticed

-----------------------------------------------------------------------------
LEMMA Elements ==
  ASSUME TypeOK
  PROVE  /\ elems \in Seq(Elem) /\ Len(elems) \in Nat /\ DOMAIN elems = 1..Len(elems)
         /\ \A i \in DOMAIN elems : elems[i] \in Elem
<1>1. elems \in Seq(Elem)
  BY DEF TypeOK, Elem
<1> QED
  BY <1>1, LenProperties, ElementOfSeq

(* Head and tail of what is left of the list.                                *)
LEMMA TodoShorter ==
  ASSUME todo \in Seq(Macs \X Ips), todo # <<>>
  PROVE  /\ Entry \in Macs \X Ips /\ Entry = <<Mac, Ip>> /\ Mac \in Macs /\ Ip \in Ips
         /\ Tail(todo) \in Seq(Macs \X Ips)
         /\ {todo[k] : k \in DOMAIN todo} =
              {Entry} \cup {Tail(todo)[k] : k \in DOMAIN Tail(todo)}
<1>1. /\ Len(todo) \in Nat /\ Len(todo) >= 1 /\ DOMAIN todo = 1..Len(todo)
      /\ Entry = todo[1] /\ Tail(todo) \in Seq(Macs \X Ips)
      /\ Len(Tail(todo)) = Len(todo) - 1 /\ DOMAIN Tail(todo) = 1..(Len(todo) - 1)
      /\ \A k \in 1..(Len(todo) - 1) : Tail(todo)[k] = todo[k + 1]
  BY HeadTailProperties, EmptySeq DEF Entry
<1>2. Entry \in Macs \X Ips
  BY <1>1
<1>3. Entry = <<Mac, Ip>> /\ Mac \in Macs /\ Ip \in Ips
  BY <1>2 DEF Mac, Ip
<1>4. \A k \in DOMAIN todo : k = 1 \/ (k - 1 \in DOMAIN Tail(todo) /\ Tail(todo)[k - 1] = todo[k])
  BY <1>1
<1>5. \A k \in DOMAIN Tail(todo) : k + 1 \in DOMAIN todo /\ Tail(todo)[k] = todo[k + 1]
  BY <1>1
<1> DEFINE all == {todo[k] : k \in DOMAIN todo}
           rest == {Tail(todo)[k] : k \in DOMAIN Tail(todo)}
<1>6. all \subseteq {Entry} \cup rest
  <2> SUFFICES ASSUME NEW k \in DOMAIN todo PROVE todo[k] = Entry \/ todo[k] \in rest
    OBVIOUS
  <2> QED
    BY <1>1, <1>4
<1>7. {Entry} \cup rest \subseteq all
  BY <1>1, <1>5
<1> QED
  BY <1>1, <1>2, <1>3, <1>6, <1>7

-----------------------------------------------------------------------------
LEMMA InitIInv == Init => IInv
<1> SUFFICES ASSUME Init PROVE IInv
  OBVIOUS
<1> USE DEF Init
<1>1. TypeOK
  <2>1. <<>> \in Seq(Elem) /\ <<>> \in Seq(Macs \X Ips) /\ DOMAIN <<>> = {}
    BY EmptySeq
  <2> QED
    BY <2>1 DEF TypeOK, Elem
<1>2. OneElementPerMac /\ MacsLeadHome
  BY DEF OneElementPerMac, MacsLeadHome
<1>3. OpenIdx = {}
  BY DEF OpenIdx
<1>4. Reached /\ Noticed
  BY <1>3 DEF Reached, Noticed, OpenMacs, ReportMacs, Present
<1> QED
  BY <1>1, <1>2, <1>4 DEF IInv

LEMMA ListsAreSequences ==
  ASSUME NEW list \in Lists
  PROVE  /\ list \in Seq(Macs \X Ips)
         /\ \A k \in DOMAIN list : list[k][1] \in Macs /\ list[k][2] \in Ips
<1>1. list \in Seq(Macs \X Ips)
  BY NetScanAssumption DEF Lists, SeqOf
<1>2. \A k \in DOMAIN list : list[k] \in Macs \X Ips
  BY <1>1
<1> QED
  BY <1>1, <1>2

(* The clock goes on.                                                        *)
LEMMA Clock ==
  ASSUME now \in Nat, \E d \in Durations : now + d <= MaxTime /\ now' = now + d
  PROVE  now' \in Nat /\ now' >= now /\ (0 \notin Durations => now' > now)
<1>1. PICK d \in Durations : now' = now + d
  OBVIOUS
<1>2. d \in Nat
  BY NetScanAssumption
<1> QED
  BY <1>1, <1>2

(* What the first loop does to an element.                                   *)
LEMMA ScanElements ==
  ASSUME TypeOK, NEW list \in Lists, Scan(list)
  PROVE  /\ now' \in Nat /\ now' >= now
         /\ elems' \in Seq(Elem) /\ DOMAIN elems' = DOMAIN elems
         /\ \A i \in DOMAIN elems :
              /\ elems'[i].mac = elems[i].mac /\ elems'[i].ip = elems[i].ip
              /\ elems'[i].timeIn = elems[i].timeIn
              /\ i \in Missing(list) => ~elems'[i].open /\ elems'[i].timeOut = now'
              /\ i \notin Missing(list) => elems'[i] = elems[i]
         /\ OpenIdx' = OpenIdx \ Missing(list)
         /\ Missing(list) = {} => elems' = elems
<1>1. /\ elems \in Seq(Elem) /\ Len(elems) \in Nat /\ DOMAIN elems = 1..Len(elems)
      /\ \A i \in DOMAIN elems : elems[i] \in Elem
  BY Elements
<1>2. now' \in Nat /\ now' >= now
  BY Clock DEF TypeOK, Scan
<1>3. elems' = [i \in DOMAIN elems |->
                  IF i \in Missing(list)
                    THEN [elems[i] EXCEPT !.open = FALSE, !.timeOut = now']
                    ELSE elems[i]]
  BY DEF Scan
<1>4. ASSUME NEW i \in DOMAIN elems
      PROVE  /\ elems'[i] \in Elem
             /\ elems'[i].mac = elems[i].mac /\ elems'[i].ip = elems[i].ip
             /\ elems'[i].timeIn = elems[i].timeIn
             /\ i \in Missing(list) => ~elems'[i].open /\ elems'[i].timeOut = now'
             /\ i \notin Missing(list) => elems'[i] = elems[i]
  <2>1. CASE i \in Missing(list)
    <3>1. elems'[i] = [elems[i] EXCEPT !.open = FALSE, !.timeOut = now']
      BY <1>3, <2>1
    <3> QED
      BY <1>1, <1>2, <2>1, <3>1 DEF Elem
  <2>2. CASE i \notin Missing(list)
    BY <1>1, <1>3, <2>2
  <2> QED
    BY <2>1, <2>2
<1>5. elems' \in Seq(Elem) /\ DOMAIN elems' = DOMAIN elems
  <2>1. DOMAIN elems' = 1..Len(elems)
    BY <1>1, <1>3
  <2>2. elems' \in [1..Len(elems) -> Elem]
    BY <1>1, <1>3, <1>4, <2>1
  <2>3. Len(elems) \in Nat
    BY <1>1
  <2>4. elems' \in Seq(Elem)
    BY <2>2, <2>3, SeqDef
  <2> QED
    BY <1>1, <2>1, <2>4
<1>6. OpenIdx' = OpenIdx \ Missing(list)
  BY <1>4, <1>5 DEF OpenIdx, Missing
<1>7. ASSUME Missing(list) = {} PROVE elems' = elems
  BY <1>1, <1>3, <1>7
<1> QED
  BY <1>2, <1>4, <1>5, <1>6, <1>7

LEMMA ScanIInv ==
  ASSUME IInv, NEW list \in Lists, Scan(list)
  PROVE  IInv'
<1> USE DEF IInv
<1>1. /\ pc = "wait" /\ pc' = "add" /\ todo' = list
      /\ report' = {list[k] : k \in DOMAIN list}
      /\ changed' = (Missing(list) # {})
      /\ UNCHANGED <<macKeys, ipKeys, shown>>
  BY DEF Scan
<1>2. /\ list \in Seq(Macs \X Ips)
      /\ \A k \in DOMAIN list : list[k][1] \in Macs /\ list[k][2] \in Ips
  BY ListsAreSequences
<1>3. TypeOK'
  <2>1. report' \subseteq Macs \X Ips
    BY <1>1, <1>2
  <2> QED
    BY <1>1, <1>2, <2>1, ScanElements DEF TypeOK, Elem
<1>4. OneElementPerMac' /\ MacsLeadHome'
  BY <1>1, ScanElements DEF OneElementPerMac, MacsLeadHome, TypeOK
<1>5. Reached'
  <2>1. ASSUME NEW i \in OpenIdx' PROVE elems'[i].mac \in TodoMacs'
    BY <1>1, <2>1, ScanElements DEF OpenIdx, Missing, TodoMacs
  <2>2. TodoMacs' = ReportMacs'
    BY <1>1 DEF TodoMacs, ReportMacs
  <2> QED
    BY <1>1, <2>1, <2>2 DEF Reached, OpenMacs
<1>6. Noticed'
  <2>1. ASSUME ~changed' PROVE shown' = Present'
    <3>1. elems' = elems
      BY <1>1, <2>1, ScanElements
    <3> QED
      BY <1>1, <3>1 DEF Noticed, Present, OpenIdx
  <2> QED
    BY <1>1, <2>1 DEF Noticed
<1> QED
  BY <1>3, <1>4, <1>5, <1>6

LEMMA ScanAbortsIInv ==
  ASSUME IInv, NEW list \in Lists, ScanAborts(list)
  PROVE  IInv'
<1> USE DEF IInv, ScanAborts
<1>1. TypeOK'
  BY Clock DEF TypeOK
<1>2. OneElementPerMac' /\ MacsLeadHome' /\ Reached' /\ Noticed'
  BY DEF OneElementPerMac, MacsLeadHome, Reached, Noticed
<1> QED
  BY <1>1, <1>2

LEMMA ReturnIInv ==
  ASSUME IInv, Return
  PROVE  IInv'
<1> USE DEF IInv, Return
<1>1. Present \subseteq Macs \X Ips
  BY Elements DEF Present, OpenIdx, Elem
<1>2. TypeOK'
  BY <1>1 DEF TypeOK
<1>3. OneElementPerMac' /\ MacsLeadHome'
  BY DEF OneElementPerMac, MacsLeadHome
<1>4. TodoMacs = {} /\ OpenMacs' = OpenMacs /\ ReportMacs' = ReportMacs /\ Present' = Present
  BY DEF TodoMacs, OpenMacs, ReportMacs, Present, OpenIdx
<1>5. Reached' /\ Noticed'
  BY <1>4 DEF Reached, Noticed
<1> QED
  BY <1>2, <1>3, <1>5

-----------------------------------------------------------------------------
(* What every entry of the second loop starts from.                          *)
AddTurn ==
  /\ pc = "add" /\ todo # <<>> /\ todo' = Tail(todo)
  /\ UNCHANGED <<now, report, shown>>

LEMMA AddTodo ==
  ASSUME TypeOK, AddTurn
  PROVE  /\ Entry = <<Mac, Ip>> /\ Mac \in Macs /\ Ip \in Ips
         /\ todo' \in Seq(Macs \X Ips)
         /\ {todo[k] : k \in DOMAIN todo} = {Entry} \cup {todo'[k] : k \in DOMAIN todo'}
         /\ TodoMacs = {Mac} \cup TodoMacs'
<1>1. /\ Entry = <<Mac, Ip>> /\ Mac \in Macs /\ Ip \in Ips
      /\ todo' \in Seq(Macs \X Ips)
      /\ {todo[k] : k \in DOMAIN todo} = {Entry} \cup {todo'[k] : k \in DOMAIN todo'}
  BY TodoShorter DEF AddTurn, TypeOK
<1>2. \A list : {list[k][1] : k \in DOMAIN list} = {p[1] : p \in {list[k] : k \in DOMAIN list}}
  OBVIOUS
<1>3. TodoMacs = {p[1] : p \in {todo[k] : k \in DOMAIN todo}}
  BY <1>2 DEF TodoMacs
<1>4. TodoMacs' = {p[1] : p \in {todo'[k] : k \in DOMAIN todo'}}
  BY <1>2 DEF TodoMacs
<1>5. Entry[1] = Mac
  BY DEF Mac
<1> QED
  BY <1>1, <1>3, <1>4, <1>5

LEMMA AddUnchangedIInv ==
  ASSUME IInv, AddTurn, AddUnchanged
  PROVE  IInv'
<1> USE DEF IInv, AddTurn, AddUnchanged
<1>1. TypeOK'
  BY AddTodo DEF TypeOK
<1>2. OneElementPerMac' /\ MacsLeadHome'
  BY DEF OneElementPerMac, MacsLeadHome
<1>3. Mac \in OpenMacs
  BY DEF Unchanged, MacsLeadHome, OpenMacs, OpenIdx, TypeOK
<1>4. OpenMacs' = OpenMacs /\ ReportMacs' = ReportMacs /\ Present' = Present
  BY DEF OpenMacs, ReportMacs, Present, OpenIdx
<1>5. Reached'
  BY <1>3, <1>4, AddTodo DEF Reached
<1>6. Noticed'
  BY <1>4 DEF Noticed
<1> QED
  BY <1>1, <1>2, <1>5, <1>6

(* A new MAC: one element more, and both addresses lead to it.               *)
LEMMA AddNewElements ==
  ASSUME TypeOK, AddTurn, AddNew
  PROVE  /\ elems' \in Seq(Elem) /\ DOMAIN elems' = DOMAIN elems \cup {Len(elems) + 1}
         /\ Len(elems) + 1 \in DOMAIN elems' /\ Len(elems) + 1 \notin DOMAIN elems
         /\ \A i \in DOMAIN elems : elems'[i] = elems[i]
         /\ elems'[Len(elems) + 1] =
              [mac |-> Mac, ip |-> Ip, open |-> TRUE, timeIn |-> now, timeOut |-> 0]
         /\ OpenIdx' = OpenIdx \cup {Len(elems) + 1}
         /\ DOMAIN macKeys' = DOMAIN macKeys \cup {Mac} /\ macKeys'[Mac] = Len(elems) + 1
         /\ \A m \in DOMAIN macKeys : m # Mac /\ macKeys'[m] = macKeys[m]
         /\ DOMAIN ipKeys' = DOMAIN ipKeys \cup {Ip} /\ ipKeys'[Ip] = Len(elems) + 1
         /\ \A a \in DOMAIN ipKeys : a # Ip => ipKeys'[a] = ipKeys[a]
<1> DEFINE new == [mac |-> Mac, ip |-> Ip, open |-> TRUE, timeIn |-> now, timeOut |-> 0]
<1>1. /\ elems \in Seq(Elem) /\ Len(elems) \in Nat /\ DOMAIN elems = 1..Len(elems)
      /\ \A i \in DOMAIN elems : elems[i] \in Elem
  BY Elements
<1>2. new \in Elem
  BY AddTodo DEF Elem, TypeOK
<1>3. elems' = Append(elems, new)
  BY DEF AddNew
<1>4. new.open = TRUE
  OBVIOUS
<1> HIDE DEF new
<1>5. /\ elems' \in Seq(Elem) /\ Len(elems') = Len(elems) + 1
      /\ \A i \in 1..Len(elems) : elems'[i] = elems[i]
      /\ elems'[Len(elems) + 1] = new
  BY <1>1, <1>2, <1>3, AppendProperties
<1>6. DOMAIN elems' = 1..(Len(elems) + 1)
  BY <1>5, LenProperties
<1>7. /\ DOMAIN elems' = DOMAIN elems \cup {Len(elems) + 1}
      /\ Len(elems) + 1 \in DOMAIN elems' /\ Len(elems) + 1 \notin DOMAIN elems
  BY <1>1, <1>6
<1>8. OpenIdx' = OpenIdx \cup {Len(elems) + 1}
  BY <1>1, <1>4, <1>5, <1>7 DEF OpenIdx
<1>9. /\ Mac \notin DOMAIN macKeys
      /\ macKeys' = Put(macKeys, Mac, Len(elems) + 1) /\ ipKeys' = Put(ipKeys, Ip, Len(elems) + 1)
  BY DEF AddNew
<1>10. /\ DOMAIN macKeys' = DOMAIN macKeys \cup {Mac} /\ macKeys'[Mac] = Len(elems) + 1
       /\ \A m \in DOMAIN macKeys : m # Mac /\ macKeys'[m] = macKeys[m]
  BY <1>9 DEF Put
<1>11. /\ DOMAIN ipKeys' = DOMAIN ipKeys \cup {Ip} /\ ipKeys'[Ip] = Len(elems) + 1
       /\ \A a \in DOMAIN ipKeys : a # Ip => ipKeys'[a] = ipKeys[a]
  BY <1>9 DEF Put
<1>12. \A i \in DOMAIN elems : elems'[i] = elems[i]
  BY <1>1, <1>5
<1> QED
  BY <1>5, <1>7, <1>8, <1>10, <1>11, <1>12 DEF new

LEMMA AddNewIInv ==
  ASSUME IInv, AddTurn, AddNew
  PROVE  IInv'
<1> USE DEF IInv
<1>1. /\ pc = "add" /\ changed' = TRUE
      /\ UNCHANGED <<pc, now, report, shown>>
  BY DEF AddTurn, AddNew
<1>2. TypeOK'
  BY <1>1, AddNewElements, AddTodo DEF TypeOK, Elem
<1>3. elems'[Len(elems) + 1].mac = Mac
  BY AddNewElements
<1>4. OneElementPerMac'
  <2> SUFFICES ASSUME NEW i \in DOMAIN elems'
               PROVE  elems'[i].mac \in DOMAIN macKeys' /\ macKeys'[elems'[i].mac] = i
    BY DEF OneElementPerMac
  <2>1. CASE i = Len(elems) + 1
    BY <1>3, <2>1, AddNewElements
  <2>2. CASE i \in DOMAIN elems
    <3>1. elems[i].mac \in DOMAIN macKeys /\ macKeys[elems[i].mac] = i /\ elems'[i] = elems[i]
      BY <2>2, AddNewElements DEF OneElementPerMac
    <3> QED
      BY <3>1, AddNewElements
  <2> QED
    BY <2>1, <2>2, AddNewElements
<1>5. MacsLeadHome'
  <2> SUFFICES ASSUME NEW m \in DOMAIN macKeys' PROVE elems'[macKeys'[m]].mac = m
    BY DEF MacsLeadHome
  <2>1. CASE m = Mac
    BY <1>3, <2>1, AddNewElements
  <2>2. CASE m \in DOMAIN macKeys
    <3>1. elems[macKeys[m]].mac = m /\ macKeys[m] \in DOMAIN elems
      BY <2>2 DEF MacsLeadHome, TypeOK
    <3> QED
      BY <2>2, <3>1, AddNewElements
  <2> QED
    BY <2>1, <2>2, AddNewElements
<1>6. OpenMacs' = OpenMacs \cup {Mac}
  <2>1. \A i \in OpenIdx : elems'[i] = elems[i]
    BY AddNewElements DEF OpenIdx
  <2> QED
    BY <1>3, <2>1, AddNewElements DEF OpenMacs
<1>7. Reached'
  BY <1>1, <1>6, AddTodo DEF Reached, ReportMacs
<1>8. Noticed'
  BY <1>1 DEF Noticed
<1> QED
  BY <1>2, <1>4, <1>5, <1>7, <1>8

(* A device is back, or was seen at another address: its element is open and *)
(* has the address, and the address leads to it.                             *)
LEMMA AddReopenElements ==
  ASSUME TypeOK, AddTurn, AddReopen
  PROVE  /\ macKeys[Mac] \in DOMAIN elems /\ Mac \in DOMAIN macKeys
         /\ ~elems[macKeys[Mac]].open
         /\ elems[macKeys[Mac]].timeIn < elems[macKeys[Mac]].timeOut
         /\ elems' \in Seq(Elem) /\ DOMAIN elems' = DOMAIN elems
         /\ \A i \in DOMAIN elems : i # macKeys[Mac] => elems'[i] = elems[i]
         /\ elems'[macKeys[Mac]] =
              [elems[macKeys[Mac]] EXCEPT !.open = TRUE, !.ip = Ip, !.timeIn = now]
         /\ elems'[macKeys[Mac]].mac = elems[macKeys[Mac]].mac
         /\ OpenIdx' = OpenIdx \cup {macKeys[Mac]}
         /\ DOMAIN ipKeys' = DOMAIN ipKeys \cup {Ip} /\ ipKeys'[Ip] = macKeys[Mac]
         /\ \A a \in DOMAIN ipKeys : a # Ip => ipKeys'[a] = ipKeys[a]
<1> DEFINE i == macKeys[Mac]
           back == [elems[i] EXCEPT !.open = TRUE, !.ip = Ip, !.timeIn = now]
<1>1. /\ elems \in Seq(Elem) /\ Len(elems) \in Nat /\ DOMAIN elems = 1..Len(elems)
      /\ \A k \in DOMAIN elems : elems[k] \in Elem
  BY Elements
<1>2. /\ Mac \in DOMAIN macKeys /\ i \in DOMAIN elems
      /\ ~elems[i].open /\ elems[i].timeIn < elems[i].timeOut
  BY DEF AddReopen, Reopens, OpenAsserts, TypeOK
<1>3. /\ elems' = [elems EXCEPT ![i].open = TRUE, ![i].ip = Ip, ![i].timeIn = now]
      /\ ipKeys' = Put(ipKeys, Ip, i)
  BY DEF AddReopen
<1>4. elems[i] \in Elem /\ Ip \in Ips /\ now \in Nat
  BY <1>1, <1>2, AddTodo DEF TypeOK
<1>5. back \in Elem /\ back.open = TRUE /\ back.mac = elems[i].mac
  BY <1>4 DEF Elem
<1>6. elems' = [elems EXCEPT ![i] = back]
  BY <1>1, <1>2, <1>3, <1>4 DEF Elem
<1> HIDE DEF i, back
<1>7. /\ elems' \in Seq(Elem) /\ DOMAIN elems' = DOMAIN elems
      /\ \A k \in DOMAIN elems : k # i => elems'[k] = elems[k]
      /\ elems'[i] = back
  BY <1>1, <1>2, <1>5, <1>6, ExceptSeq
<1>8. OpenIdx' = OpenIdx \cup {i}
  BY <1>2, <1>5, <1>7 DEF OpenIdx
<1>9. /\ DOMAIN ipKeys' = DOMAIN ipKeys \cup {Ip} /\ ipKeys'[Ip] = i
      /\ \A a \in DOMAIN ipKeys : a # Ip => ipKeys'[a] = ipKeys[a]
  BY <1>3 DEF Put
<1> QED
  BY <1>2, <1>5, <1>7, <1>8, <1>9 DEF i, back

LEMMA AddReopenIInv ==
  ASSUME IInv, AddTurn, AddReopen
  PROVE  IInv'
<1> USE DEF IInv
<1>1. /\ pc = "add" /\ changed' = TRUE
      /\ UNCHANGED <<pc, now, report, shown, macKeys>>
  BY DEF AddTurn, AddReopen
<1>2. TypeOK'
  BY <1>1, AddReopenElements, AddTodo DEF TypeOK, Elem
<1>3. /\ DOMAIN elems' = DOMAIN elems
      /\ \A i \in DOMAIN elems : elems'[i].mac = elems[i].mac
      /\ OpenIdx' = OpenIdx \cup {macKeys[Mac]} /\ elems[macKeys[Mac]].mac = Mac
  <2>1. Mac \in DOMAIN macKeys
    BY AddReopenElements
  <2> QED
    BY <2>1, AddReopenElements DEF MacsLeadHome
<1>4. OneElementPerMac' /\ MacsLeadHome'
  BY <1>1, <1>3 DEF OneElementPerMac, MacsLeadHome, TypeOK
<1>5. OpenMacs' = OpenMacs \cup {Mac}
  <2>1. OpenIdx \subseteq DOMAIN elems /\ macKeys[Mac] \in DOMAIN elems
    BY AddReopenElements DEF OpenIdx
  <2> QED
    BY <1>3, <2>1 DEF OpenMacs
<1>6. Reached'
  BY <1>1, <1>5, AddTodo DEF Reached, ReportMacs
<1>7. Noticed'
  BY <1>1 DEF Noticed
<1> QED
  BY <1>2, <1>4, <1>6, <1>7

LEMMA AddAbortsIInv ==
  ASSUME IInv, AddTurn, AddAborts
  PROVE  IInv'
<1> USE DEF IInv, AddTurn, AddAborts
<1>1. TypeOK'
  BY AddTodo DEF TypeOK
<1>2. OneElementPerMac' /\ MacsLeadHome' /\ Reached' /\ Noticed'
  BY DEF OneElementPerMac, MacsLeadHome, Reached, Noticed
<1> QED
  BY <1>1, <1>2

LEMMA StepIInv == IInv /\ [Next]_vars => IInv'
<1> SUFFICES ASSUME IInv, [Next]_vars PROVE IInv'
  OBVIOUS
<1>1. CASE NetScan
  BY <1>1, ScanIInv, ScanAbortsIInv DEF NetScan
<1>2. CASE Add
  <2>1. AddTurn /\ (AddUnchanged \/ AddNew \/ AddReopen \/ AddAborts)
    BY <1>2 DEF Add, AddTurn
  <2> QED
    BY <2>1, AddUnchangedIInv, AddNewIInv, AddReopenIInv, AddAbortsIInv
<1>3. CASE Return
  BY <1>3, ReturnIInv
<1>4. CASE UNCHANGED vars
  <2> USE <1>4 DEF vars, IInv
  <2>1. TypeOK' /\ OneElementPerMac' /\ MacsLeadHome'
    BY DEF TypeOK, OneElementPerMac, MacsLeadHome
  <2>2. Reached' /\ Noticed'
    BY DEF Reached, Noticed, OpenMacs, TodoMacs, ReportMacs, Present, OpenIdx
  <2> QED
    BY <2>1, <2>2
<1> QED
  BY <1>1, <1>2, <1>3, <1>4 DEF Next

LEMMA IInvHolds == Spec => []IInv
<1> QED
  BY InitIInv, StepIInv, PTL DEF Spec

-----------------------------------------------------------------------------
(* The variables keep their types; in particular both maps lead to elements  *)
(* that _elems has, so no index of add_mac_ip is out of range.               *)
THEOREM TypeCorrect == Spec => []TypeOK
<1>1. IInv => TypeOK
  BY DEF IInv
<1> QED
  BY IInvHolds, <1>1, PTL

(* However often a device comes, leaves and changes its address, it has one  *)
(* element.                                                                  *)
THEOREM OneElement == Spec => []OneElementPerMac
<1>1. IInv => OneElementPerMac
  BY DEF IInv
<1> QED
  BY IInvHolds, <1>1, PTL

(* When add_mac_ip returns, the open elements are the devices of its list,   *)
(* however the list is ordered and whatever it repeats.                      *)
THEOREM ReportedArePresent == Spec => []PresentIsReported
<1>1. IInv => PresentIsReported
  <2>1. OpenMacs = {p[1] : p \in Present}
    <3>1. \A i \in OpenIdx : <<elems[i].mac, elems[i].ip>>[1] = elems[i].mac
      OBVIOUS
    <3> QED
      BY <3>1, Zenon DEF OpenMacs, Present
  <2> QED
    BY <2>1 DEF IInv, Reached, ReportMacs, PresentIsReported
<1> QED
  BY IInvHolds, <1>1, PTL

(* Whenever the open devices or their addresses changed, the table was       *)
(* printed.                                                                  *)
THEOREM TableIsCurrent == Spec => []ShownIsPresent
<1>1. IInv => ShownIsPresent
  BY DEF IInv, Noticed, ShownIsPresent
<1> QED
  BY IInvHolds, <1>1, PTL

-----------------------------------------------------------------------------
(* A steady network, and scans that take at least a second, so that no two   *)
(* events of one device have the same time.                                  *)
SteadyNetwork == Roaming = FALSE /\ 0 \notin Durations

(* An open element came after it left, a closed one left after it came, and  *)
(* all of it is past.                                                        *)
Clocked ==
  /\ now >= 1
  /\ \A i \in DOMAIN elems :
       /\ elems[i].timeIn <= now /\ elems[i].timeOut <= now
       /\ elems[i].open => elems[i].timeOut < elems[i].timeIn
       /\ ~elems[i].open => elems[i].timeIn < elems[i].timeOut

(* The elements that the rest of the list will open were closed by an        *)
(* earlier scan.                                                             *)
ClosedBefore ==
  pc = "add" => \A i \in DOMAIN elems :
                  elems[i].mac \in TodoMacs /\ ~elems[i].open => elems[i].timeOut < now

(* The list gives every device one address and every address to one device.  *)
OneToOne == \A p, q \in report : p[1] = q[1] \/ p[2] = q[2] => p = q

(* As Reached, for addresses.                                                *)
Todo == {todo[k] : k \in DOMAIN todo}
ReachedAddresses ==
  /\ pc = "wait" => Present = report
  /\ pc = "add" => Todo \subseteq report /\ Present \cup Todo = report

SInv ==
  /\ IInv /\ AssertionsHold /\ OpenIpLeadsHome
  /\ Clocked /\ ClosedBefore /\ OneToOne /\ ReachedAddresses

LEMMA InitSInv == Init => SInv
<1> SUFFICES ASSUME Init PROVE SInv
  OBVIOUS
<1> USE DEF Init
<1>1. OpenIdx = {} /\ DOMAIN elems = {}
  BY DEF OpenIdx
<1>2. IInv /\ AssertionsHold
  BY InitIInv DEF AssertionsHold
<1>3. OpenIpLeadsHome /\ Clocked /\ ClosedBefore /\ OneToOne /\ ReachedAddresses
  BY <1>1 DEF OpenIpLeadsHome, Clocked, ClosedBefore, OneToOne, ReachedAddresses, Present
<1> QED
  BY <1>2, <1>3 DEF SInv

(* A listed device that was open keeps its entry: it stays as it is.         *)
LEMMA ScanKeepsPresent ==
  ASSUME SInv, NEW list \in Lists, Steady(list), Scan(list), NEW i \in OpenIdx'
  PROVE  /\ i \in OpenIdx /\ elems'[i] = elems[i]
         /\ <<elems[i].mac, elems[i].ip>> \in report'
<1>1. i \in OpenIdx /\ i \notin Missing(list) /\ elems'[i] = elems[i]
  BY ScanElements DEF SInv, IInv, OpenIdx
<1>2. PICK k \in DOMAIN list : list[k][1] = elems[i].mac
  BY <1>1 DEF Missing
<1> DEFINE p == <<elems[i].mac, elems[i].ip>>
<1>3. p \in report /\ p[1] = elems[i].mac
  BY <1>1 DEF SInv, ReachedAddresses, Present, Scan
<1>4. list[k] = p
  BY <1>2, <1>3 DEF Steady
<1> QED
  BY <1>1, <1>4 DEF Scan

LEMMA ScanSInv ==
  ASSUME SteadyNetwork, SInv, NEW list \in Lists, Steady(list), Scan(list)
  PROVE  SInv'
<1>1. TypeOK /\ IInv /\ IInv'
  BY ScanIInv DEF SInv, IInv
<1>2. /\ pc = "wait" /\ pc' = "add" /\ todo' = list
      /\ report' = {list[k] : k \in DOMAIN list}
      /\ UNCHANGED <<macKeys, ipKeys, shown>>
  BY DEF Scan
<1>3. now \in Nat /\ now' \in Nat /\ now' > now
  BY <1>1, Clock DEF TypeOK, Scan, SteadyNetwork
<1>4. AssertionsHold' /\ OpenIpLeadsHome'
  BY <1>2, ScanKeepsPresent DEF AssertionsHold, OpenIpLeadsHome, SInv
<1>5. Clocked'
  <2>1. now' >= 1
    BY <1>3 DEF SInv, Clocked
  <2>2. ASSUME NEW i \in DOMAIN elems
        PROVE  /\ elems'[i].timeIn <= now' /\ elems'[i].timeOut <= now'
               /\ elems'[i].open => elems'[i].timeOut < elems'[i].timeIn
               /\ ~elems'[i].open => elems'[i].timeIn < elems'[i].timeOut
    <3>1. elems[i].timeIn \in Nat /\ elems[i].timeOut \in Nat
      BY <1>1, Elements DEF Elem
    <3>2. /\ elems[i].timeIn <= now /\ elems[i].timeOut <= now
          /\ elems[i].open => elems[i].timeOut < elems[i].timeIn
          /\ ~elems[i].open => elems[i].timeIn < elems[i].timeOut
      BY DEF SInv, Clocked
    <3>3. elems'[i].timeIn = elems[i].timeIn
      BY <1>1, ScanElements
    <3>4. CASE i \in Missing(list)
      <4>1. ~elems'[i].open /\ elems'[i].timeOut = now'
        BY <1>1, <3>4, ScanElements
      <4> QED
        BY <1>3, <3>1, <3>2, <3>3, <4>1
    <3>5. CASE i \notin Missing(list)
      <4>1. elems'[i] = elems[i]
        BY <1>1, <3>5, ScanElements
      <4> QED
        BY <1>3, <3>1, <3>2, <4>1
    <3> QED
      BY <3>4, <3>5
  <2>3. DOMAIN elems' = DOMAIN elems
    BY <1>1, ScanElements
  <2> QED
    BY <2>1, <2>2, <2>3 DEF Clocked
<1>6. ClosedBefore'
  <2> SUFFICES ASSUME NEW i \in DOMAIN elems', elems'[i].mac \in TodoMacs', ~elems'[i].open
               PROVE  elems'[i].timeOut < now'
    BY DEF ClosedBefore
  <2>1. i \in DOMAIN elems /\ elems'[i].mac = elems[i].mac
    BY <1>1, ScanElements
  <2>2. i \notin Missing(list)
    BY <1>2, <2>1 DEF Missing, TodoMacs
  <2>3. elems'[i] = elems[i] /\ elems[i].timeOut \in Nat
    BY <1>1, <2>1, <2>2, ScanElements, Elements DEF Elem
  <2>4. elems[i].timeOut <= now
    BY <2>1 DEF SInv, Clocked
  <2> QED
    BY <1>3, <2>3, <2>4
<1>7. OneToOne'
  <2> SUFFICES ASSUME NEW p \in report', NEW q \in report', p[1] = q[1] \/ p[2] = q[2]
               PROVE  p = q
    BY DEF OneToOne
  <2>1. PICK i \in DOMAIN list, j \in DOMAIN list : p = list[i] /\ q = list[j]
    BY <1>2
  <2> QED
    BY <2>1 DEF Steady
<1>8. ReachedAddresses'
  <2>1. Present' \subseteq report'
    BY ScanKeepsPresent DEF Present
  <2>2. Todo' = report'
    BY <1>2 DEF Todo
  <2> QED
    BY <1>2, <2>1, <2>2 DEF ReachedAddresses
<1> QED
  BY <1>1, <1>4, <1>5, <1>6, <1>7, <1>8 DEF SInv

(* set_close finds every open element as it expects it.                      *)
LEMMA NoScanAborts ==
  ASSUME SInv, NEW list \in Lists
  PROVE  ~ScanAborts(list)
<1>1. CloseAsserts(list)
  BY DEF SInv, Clocked, CloseAsserts, Missing, OpenIdx
<1> QED
  BY <1>1 DEF ScanAborts

LEMMA ReturnSInv ==
  ASSUME SInv, Return
  PROVE  SInv'
<1> USE DEF Return
<1>1. IInv'
  BY ReturnIInv DEF SInv
<1>2. OpenIdx' = OpenIdx /\ Present' = Present /\ Todo = {}
  BY DEF OpenIdx, Present, Todo
<1>3. AssertionsHold' /\ OpenIpLeadsHome'
  BY <1>2 DEF SInv, AssertionsHold, OpenIpLeadsHome
<1>4. Clocked' /\ ClosedBefore' /\ OneToOne'
  BY DEF SInv, Clocked, ClosedBefore, OneToOne
<1>5. ReachedAddresses'
  BY <1>2 DEF SInv, ReachedAddresses
<1> QED
  BY <1>1, <1>3, <1>4, <1>5 DEF SInv

-----------------------------------------------------------------------------
(* An entry of the second loop is a device of the list, and so is every open *)
(* element: one with the entry's MAC or its IP is at the entry's addresses.  *)
LEMMA EntryIsReported ==
  ASSUME SInv, AddTurn
  PROVE  /\ Entry \in report /\ Entry[1] = Mac /\ Entry[2] = Ip
         /\ Todo = {Entry} \cup Todo'
         /\ \A i \in OpenIdx :
              /\ <<elems[i].mac, elems[i].ip>> \in report
              /\ elems[i].mac = Mac \/ elems[i].ip = Ip =>
                   elems[i].mac = Mac /\ elems[i].ip = Ip
<1>1. Todo = {Entry} \cup Todo' /\ Entry = <<Mac, Ip>>
  BY AddTodo DEF SInv, IInv, Todo
<1>2. Entry \in report
  BY <1>1 DEF SInv, ReachedAddresses, AddTurn
<1>3. ASSUME NEW i \in OpenIdx
      PROVE  /\ <<elems[i].mac, elems[i].ip>> \in report
             /\ elems[i].mac = Mac \/ elems[i].ip = Ip =>
                  elems[i].mac = Mac /\ elems[i].ip = Ip
  <2> DEFINE p == <<elems[i].mac, elems[i].ip>>
  <2>1. p \in report
    BY DEF SInv, ReachedAddresses, AddTurn, Present
  <2>2. p[1] = Entry[1] \/ p[2] = Entry[2] => p = Entry
    BY <1>2, <2>1 DEF SInv, OneToOne
  <2> QED
    BY <1>1, <2>1, <2>2
<1> QED
  BY <1>1, <1>2, <1>3

(* What the four outcomes have in common.                                    *)
LEMMA AddKeeps ==
  ASSUME SInv, AddTurn, pc' = "add"
  PROVE  AssertionsHold' /\ OneToOne' /\ TodoMacs' \subseteq TodoMacs /\ Mac \in TodoMacs
<1>1. AssertionsHold' /\ OneToOne'
  BY DEF SInv, AddTurn, AssertionsHold, OneToOne
<1>2. TodoMacs = {Mac} \cup TodoMacs'
  BY AddTodo DEF SInv, IInv
<1> QED
  BY <1>1, <1>2

LEMMA AddUnchangedSInv ==
  ASSUME SInv, AddTurn, AddUnchanged
  PROVE  SInv'
<1>1. IInv' /\ TypeOK /\ MacsLeadHome
  BY AddUnchangedIInv DEF SInv, IInv
<1>2. /\ pc = "add" /\ pc' = "add" /\ OpenIdx' = OpenIdx /\ Present' = Present
      /\ UNCHANGED <<now, elems, ipKeys, report>>
  BY DEF AddTurn, AddUnchanged, OpenIdx, Present
<1>3. OpenIpLeadsHome' /\ Clocked'
  BY <1>2 DEF SInv, OpenIpLeadsHome, Clocked
<1>4. ClosedBefore'
  BY <1>2, AddKeeps DEF SInv, ClosedBefore
<1>5. Entry \in Present
  <2> DEFINE i == macKeys[Mac]
  <2>1. i \in OpenIdx /\ elems[i].mac = Mac
    BY <1>1 DEF AddUnchanged, Unchanged, TypeOK, MacsLeadHome, OpenIdx
  <2>2. elems[i].ip = Ip
    BY <2>1, EntryIsReported
  <2>3. Entry = <<elems[i].mac, elems[i].ip>>
    BY <1>1, <2>1, <2>2, AddTodo
  <2> QED
    BY <2>1, <2>3 DEF Present
<1>6. ReachedAddresses'
  BY <1>2, <1>5, EntryIsReported DEF SInv, ReachedAddresses
<1> QED
  BY <1>1, <1>2, <1>3, <1>4, <1>6, AddKeeps DEF SInv

LEMMA AddNewSInv ==
  ASSUME SInv, AddTurn, AddNew
  PROVE  SInv'
<1> DEFINE n == Len(elems) + 1
<1>1. IInv' /\ TypeOK /\ OneElementPerMac /\ now \in Nat
  BY AddNewIInv DEF SInv, IInv, TypeOK
<1>2. pc = "add" /\ pc' = "add" /\ UNCHANGED <<now, report>>
  BY DEF AddTurn, AddNew
<1>3. /\ DOMAIN elems' = DOMAIN elems \cup {n} /\ n \notin DOMAIN elems
      /\ \A i \in DOMAIN elems : elems'[i] = elems[i]
      /\ OpenIdx' = OpenIdx \cup {n}
      /\ DOMAIN ipKeys' = DOMAIN ipKeys \cup {Ip} /\ ipKeys'[Ip] = n
      /\ \A a \in DOMAIN ipKeys : a # Ip => ipKeys'[a] = ipKeys[a]
  BY <1>1, AddNewElements
<1>4. /\ elems'[n].mac = Mac /\ elems'[n].ip = Ip /\ elems'[n].open = TRUE
      /\ elems'[n].timeIn = now /\ elems'[n].timeOut = 0
  BY <1>1, AddNewElements
<1>5. \A i \in OpenIdx : i \in DOMAIN elems /\ elems'[i] = elems[i]
  BY <1>3 DEF OpenIdx
<1> HIDE DEF n
<1>6. OpenIpLeadsHome'
  <2> SUFFICES ASSUME NEW i \in OpenIdx'
               PROVE  elems'[i].ip \in DOMAIN ipKeys' /\ ipKeys'[elems'[i].ip] = i
    BY DEF OpenIpLeadsHome
  <2>1. CASE i = n
    BY <1>3, <1>4, <2>1
  <2>2. CASE i \in OpenIdx
    <3>1. elems[i].mac # Mac
      BY <1>1, <1>5, <2>2 DEF OneElementPerMac, AddNew
    <3>2. elems[i].ip # Ip
      BY <2>2, <3>1, EntryIsReported
    <3>3. elems[i].ip \in DOMAIN ipKeys /\ ipKeys[elems[i].ip] = i
      BY <2>2 DEF SInv, OpenIpLeadsHome
    <3> QED
      BY <1>3, <1>5, <2>2, <3>2, <3>3
  <2> QED
    BY <1>3, <2>1, <2>2
<1>7. Clocked'
  BY <1>1, <1>2, <1>3, <1>4 DEF SInv, Clocked
<1>8. ClosedBefore'
  BY <1>2, <1>3, <1>4, AddKeeps DEF SInv, ClosedBefore
<1>9. Present' = Present \cup {Entry}
  <2>1. Entry = <<elems'[n].mac, elems'[n].ip>>
    BY <1>1, <1>4, AddTodo
  <2> QED
    BY <1>3, <1>5, <2>1 DEF Present
<1>10. ReachedAddresses'
  BY <1>2, <1>9, EntryIsReported DEF SInv, ReachedAddresses
<1> QED
  BY <1>1, <1>2, <1>6, <1>7, <1>8, <1>10, AddKeeps DEF SInv

LEMMA AddReopenSInv ==
  ASSUME SInv, AddTurn, AddReopen
  PROVE  SInv'
<1> DEFINE n == macKeys[Mac]
<1>1. IInv' /\ TypeOK /\ MacsLeadHome /\ OneElementPerMac /\ now \in Nat
  BY AddReopenIInv DEF SInv, IInv, TypeOK
<1>2. pc = "add" /\ pc' = "add" /\ UNCHANGED <<now, report>>
  BY DEF AddTurn, AddReopen
<1>3. /\ n \in DOMAIN elems /\ ~elems[n].open /\ DOMAIN elems' = DOMAIN elems
      /\ \A i \in DOMAIN elems : i # n => elems'[i] = elems[i]
      /\ OpenIdx' = OpenIdx \cup {n}
      /\ DOMAIN ipKeys' = DOMAIN ipKeys \cup {Ip} /\ ipKeys'[Ip] = n
      /\ \A a \in DOMAIN ipKeys : a # Ip => ipKeys'[a] = ipKeys[a]
  BY <1>1, AddReopenElements
<1>4. elems[n].mac = Mac
  BY <1>1, AddReopenElements DEF MacsLeadHome
<1>5. /\ elems'[n].mac = Mac /\ elems'[n].ip = Ip /\ elems'[n].open = TRUE
      /\ elems'[n].timeIn = now /\ elems'[n].timeOut = elems[n].timeOut
  <2>1. elems[n] \in Elem
    BY <1>1, <1>3, Elements
  <2>2. elems'[n] = [elems[n] EXCEPT !.open = TRUE, !.ip = Ip, !.timeIn = now]
    BY <1>1, AddReopenElements
  <2> QED
    BY <1>4, <2>1, <2>2 DEF Elem
<1>6. elems[n].timeOut < now
  BY <1>2, <1>3, <1>4, AddKeeps DEF SInv, ClosedBefore
<1>7. \A i \in OpenIdx : i \in DOMAIN elems /\ i # n /\ elems'[i] = elems[i]
  BY <1>3 DEF OpenIdx
<1>8. elems[n].timeOut \in Nat
  BY <1>1, <1>3, Elements DEF Elem
<1> HIDE DEF n
<1>9. OpenIpLeadsHome'
  <2> SUFFICES ASSUME NEW i \in OpenIdx'
               PROVE  elems'[i].ip \in DOMAIN ipKeys' /\ ipKeys'[elems'[i].ip] = i
    BY DEF OpenIpLeadsHome
  <2>1. CASE i = n
    BY <1>3, <1>5, <2>1
  <2>2. CASE i \in OpenIdx
    <3>1. elems[i].mac # Mac
      BY <1>1, <1>3, <1>4, <1>7, <2>2 DEF OneElementPerMac
    <3>2. elems[i].ip # Ip
      BY <2>2, <3>1, EntryIsReported
    <3>3. elems[i].ip \in DOMAIN ipKeys /\ ipKeys[elems[i].ip] = i
      BY <2>2 DEF SInv, OpenIpLeadsHome
    <3> QED
      BY <1>3, <1>7, <2>2, <3>2, <3>3
  <2> QED
    BY <1>3, <2>1, <2>2
<1>10. Clocked'
  BY <1>1, <1>2, <1>3, <1>5, <1>6, <1>8 DEF SInv, Clocked
<1>11. ClosedBefore'
  BY <1>2, <1>3, <1>5, AddKeeps DEF SInv, ClosedBefore
<1>12. Present' = Present \cup {Entry}
  <2>1. Entry = <<elems'[n].mac, elems'[n].ip>>
    BY <1>1, <1>5, AddTodo
  <2> QED
    BY <1>3, <1>7, <2>1 DEF Present
<1>13. ReachedAddresses'
  BY <1>2, <1>12, EntryIsReported DEF SInv, ReachedAddresses
<1> QED
  BY <1>1, <1>2, <1>9, <1>10, <1>11, <1>13, AddKeeps DEF SInv

(* set_open is called for a closed element only: the address of an open one  *)
(* is the entry's and leads to it.                                           *)
LEMMA NoAddAborts ==
  ASSUME SInv, AddTurn
  PROVE  ~AddAborts
<1> SUFFICES ASSUME Reopens PROVE OpenAsserts(elems[macKeys[Mac]])
  BY DEF AddAborts
<1> DEFINE i == macKeys[Mac]
<1>1. Mac \in DOMAIN macKeys /\ i \in DOMAIN elems /\ elems[i].mac = Mac
  BY DEF Reopens, SInv, IInv, TypeOK, MacsLeadHome
<1>2. ASSUME elems[i].open PROVE FALSE
  <2>1. i \in OpenIdx
    BY <1>1, <1>2 DEF OpenIdx
  <2>2. elems[i].ip = Ip
    BY <1>1, <2>1, EntryIsReported
  <2>3. Ip \in DOMAIN ipKeys /\ ipKeys[Ip] = i
    BY <2>1, <2>2 DEF SInv, OpenIpLeadsHome
  <2> QED
    BY <1>1, <1>2, <2>3 DEF Reopens, Unchanged
<1>3. elems[i].timeIn < elems[i].timeOut
  BY <1>1, <1>2 DEF SInv, Clocked
<1> QED
  BY <1>2, <1>3 DEF OpenAsserts

LEMMA StepSInv ==
  ASSUME SteadyNetwork, SInv, [Next]_vars
  PROVE  SInv'
<1>1. CASE NetScan
  <2>1. PICK list \in Lists : Steady(list) /\ (Scan(list) \/ ScanAborts(list))
    BY <1>1 DEF NetScan, SteadyNetwork
  <2> QED
    BY <2>1, ScanSInv, NoScanAborts
<1>2. CASE Add
  <2>1. AddTurn /\ (AddUnchanged \/ AddNew \/ AddReopen \/ AddAborts)
    BY <1>2 DEF Add, AddTurn
  <2> QED
    BY <2>1, AddUnchangedSInv, AddNewSInv, AddReopenSInv, NoAddAborts
<1>3. CASE Return
  BY <1>3, ReturnSInv
<1>4. CASE UNCHANGED vars
  <2> USE <1>4 DEF vars, SInv
  <2>1. IInv'
    BY StepIInv
  <2>2. OpenIdx' = OpenIdx /\ Present' = Present /\ Todo' = Todo /\ TodoMacs' = TodoMacs
    BY DEF OpenIdx, Present, Todo, TodoMacs
  <2>3. AssertionsHold' /\ OpenIpLeadsHome' /\ Clocked'
    BY <2>2 DEF AssertionsHold, OpenIpLeadsHome, Clocked
  <2>4. ClosedBefore' /\ OneToOne' /\ ReachedAddresses'
    BY <2>2 DEF ClosedBefore, OneToOne, ReachedAddresses
  <2> QED
    BY <2>1, <2>3, <2>4
<1> QED
  BY <1>1, <1>2, <1>3, <1>4 DEF Next

LEMMA SInvHolds ==
  ASSUME SteadyNetwork
  PROVE  Spec => []SInv
<1>1. SInv /\ [Next]_vars => SInv'
  BY StepSInv
<1> QED
  BY InitSInv, <1>1, PTL DEF Spec

-----------------------------------------------------------------------------
(* On a steady network no assertion of set_open and set_close fails.         *)
THEOREM NoAssertionFails ==
  ASSUME SteadyNetwork
  PROVE  Spec => []AssertionsHold
<1>1. SInv => AssertionsHold
  BY DEF SInv
<1> QED
  BY SInvHolds, <1>1, PTL

(* On a steady network the IP of an open device leads to its own element.    *)
THEOREM AddressesLeadHome ==
  ASSUME SteadyNetwork
  PROVE  Spec => []OpenIpLeadsHome
<1>1. SInv => OpenIpLeadsHome
  BY DEF SInv
<1> QED
  BY SInvHolds, <1>1, PTL

(* On a steady network the open devices are those of the last list, at the   *)
(* addresses it gave them.                                                   *)
THEOREM AddressesAreThoseOfTheList ==
  ASSUME SteadyNetwork
  PROVE  Spec => []AddressesAreReported
<1>1. SInv => AddressesAreReported
  BY DEF SInv, ReachedAddresses, AddressesAreReported
<1> QED
  BY SInvHolds, <1>1, PTL
=============================================================================
