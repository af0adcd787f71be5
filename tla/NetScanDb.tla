------------------------------ MODULE NetScanDb ------------------------------
(***************************************************************************)
(* The presence database of net-scan/tst_net_scan.cpp: db_t keeps one      *)
(* element per MAC address ever seen, whether that device was in the last  *)
(* scan (open), its IP address and the times it came and went; two maps    *)
(* lead from a MAC and from an IP to an element.  scan_t feeds it the list *)
(* of one nmap run and prints it when add_mac_ip says that it changed.     *)
(*                                                                         *)
(* Times are in seconds, as pbx::now_as_int() gives them; one add_mac_ip   *)
(* sees one time.  An assertion that fails aborts the program.             *)
(***************************************************************************)
EXTENDS Integers, Sequences, SequencesExt

CONSTANTS
  Macs,          (* hardware addresses                                       *)
  Ips,           (* network addresses                                        *)
  Durations,     (* how many seconds one scan of the network may take        *)
  MaxTime,       (* the clock stops here (bounds the model)                  *)
  MaxReport,     (* devices one scan may find (bounds the model)             *)
  Roaming        (* a device may be seen under a new address, or under two,  *)
                 (* while it is present                                      *)

ASSUME NetScanAssumption ==
  /\ Durations \subseteq Nat /\ MaxTime \in Nat /\ MaxReport \in Nat
  /\ Roaming \in BOOLEAN

VARIABLES
  pc,            (* "wait" for nmap, "add" in add_mac_ip, "abort"            *)
  now,           (* the clock                                                *)
  elems,         (* _elems                                                   *)
  macKeys,       (* _mac_keys                                                *)
  ipKeys,        (* _ip_keys                                                 *)
  todo,          (* entries of the list that add_mac_ip has not reached      *)
  changed,       (* changed of add_mac_ip                                    *)
  report,        (* the devices in the last scan's list                      *)
  shown          (* the open devices when the table was last printed         *)

vars == <<pc, now, elems, macKeys, ipKeys, todo, changed, report, shown>>

OpenIdx == {i \in DOMAIN elems : elems[i].open}
Present == {<<elems[i].mac, elems[i].ip>> : i \in OpenIdx}

(* A steady network: in any order, one line per device, no address shared,   *)
(* and a device that the last scan saw keeps its address.                    *)
Steady(list) ==
  /\ \A i, j \in DOMAIN list :
       i # j => list[i][1] # list[j][1] /\ list[i][2] # list[j][2]
  /\ \A i \in DOMAIN list, p \in report : list[i][1] = p[1] => list[i] = p

Lists == SeqOf(Macs \X Ips, MaxReport)

Init ==
  /\ pc = "wait" /\ now = 1 /\ elems = <<>>
  /\ macKeys = <<>> /\ ipKeys = <<>>
  /\ todo = <<>> /\ changed = FALSE /\ report = {} /\ shown = {}

(* m[k] = v of a std::map, as a function.                                    *)
Put(map, key, value) ==
  [k \in DOMAIN map \cup {key} |-> IF k = key THEN value ELSE map[k]]

-----------------------------------------------------------------------------
(* The first loop of add_mac_ip(list) closes every open element whose MAC is *)
(* not listed.  set_close asserts that the element came after it last left.  *)
(* Mutant: an element is missed by its IP.                                   *)
MissingByIp(list) == {i \in OpenIdx : \A k \in DOMAIN list : list[k][2] # elems[i].ip}

Missing(list) == {i \in OpenIdx : \A k \in DOMAIN list : list[k][1] # elems[i].mac}
CloseAsserts(list) == \A i \in Missing(list) : elems[i].timeOut < elems[i].timeIn

(* Mutant: the elements that are missing stay open.                          *)
ScanWithoutClose(list) ==
  /\ pc = "wait"
  /\ \E d \in Durations : now + d <= MaxTime /\ now' = now + d
  /\ changed' = FALSE
  /\ pc' = "add"
  /\ todo' = list
  /\ report' = {list[k] : k \in DOMAIN list}
  /\ UNCHANGED <<elems, macKeys, ipKeys, shown>>

Scan(list) ==
  /\ pc = "wait"
  /\ \E d \in Durations : now + d <= MaxTime /\ now' = now + d
  /\ CloseAsserts(list)
  /\ elems' = [i \in DOMAIN elems |->
                 IF i \in Missing(list)
                   THEN [elems[i] EXCEPT !.open = FALSE, !.timeOut = now']
                   ELSE elems[i]]
  /\ changed' = (Missing(list) # {})
  /\ pc' = "add"
  /\ todo' = list
  /\ report' = {list[k] : k \in DOMAIN list}
  /\ UNCHANGED <<macKeys, ipKeys, shown>>

ScanAborts(list) ==
  /\ pc = "wait"
  /\ \E d \in Durations : now + d <= MaxTime /\ now' = now + d
  /\ ~CloseAsserts(list)
  /\ pc' = "abort"
  /\ UNCHANGED <<elems, macKeys, ipKeys, todo, changed, report, shown>>

(* The second loop calls add_mac_ip(mac, ip) on each entry.                  *)
Entry == Head(todo)
Mac == Entry[1]
Ip == Entry[2]

(* Both addresses lead to the same, open element: nothing to do.             *)
Unchanged ==
  /\ Mac \in DOMAIN macKeys /\ Ip \in DOMAIN ipKeys
  /\ macKeys[Mac] = ipKeys[Ip] /\ elems[macKeys[Mac]].open

AddUnchanged ==
  /\ Unchanged
  /\ UNCHANGED <<pc, elems, macKeys, ipKeys, changed>>

(* A new MAC gets a new element; its IP may have belonged to another one.    *)
(* Mutants: the new element's index is its predecessor's; the IP decides     *)
(* whether the element is new.                                               *)
AddNewOffByOne ==
  /\ Mac \notin DOMAIN macKeys
  /\ elems' = Append(elems, [mac |-> Mac, ip |-> Ip, open |-> TRUE,
                             timeIn |-> now, timeOut |-> 0])
  /\ macKeys' = Put(macKeys, Mac, Len(elems))
  /\ ipKeys' = Put(ipKeys, Ip, Len(elems))
  /\ changed' = TRUE
  /\ UNCHANGED pc

AddNewByIp ==
  /\ Ip \notin DOMAIN ipKeys
  /\ elems' = Append(elems, [mac |-> Mac, ip |-> Ip, open |-> TRUE,
                             timeIn |-> now, timeOut |-> 0])
  /\ macKeys' = Put(macKeys, Mac, Len(elems) + 1)
  /\ ipKeys' = Put(ipKeys, Ip, Len(elems) + 1)
  /\ changed' = TRUE
  /\ UNCHANGED pc

AddNew ==
  /\ Mac \notin DOMAIN macKeys
  /\ elems' = Append(elems, [mac |-> Mac, ip |-> Ip, open |-> TRUE,
                             timeIn |-> now, timeOut |-> 0])
  /\ macKeys' = Put(macKeys, Mac, Len(elems) + 1)
  /\ ipKeys' = Put(ipKeys, Ip, Len(elems) + 1)
  /\ changed' = TRUE
  /\ UNCHANGED pc

(* set_open asserts that the element is closed, and left after it came.      *)
OpenAsserts(e) == ~e.open /\ e.timeIn < e.timeOut

Reopens == Mac \in DOMAIN macKeys /\ ~Unchanged

(* Mutants: the IP keeps leading to its former element; the element keeps    *)
(* its former IP; the return of a device is not reported as a change.        *)
AddReopenKeepsIp ==
  LET i == macKeys[Mac] IN
  /\ Reopens /\ OpenAsserts(elems[i])
  /\ elems' = [elems EXCEPT ![i].open = TRUE, ![i].ip = Ip, ![i].timeIn = now]
  /\ changed' = TRUE
  /\ UNCHANGED <<pc, macKeys, ipKeys>>

AddReopenOldAddress ==
  LET i == macKeys[Mac] IN
  /\ Reopens /\ OpenAsserts(elems[i])
  /\ ipKeys' = Put(ipKeys, Ip, i)
  /\ elems' = [elems EXCEPT ![i].open = TRUE, ![i].timeIn = now]
  /\ changed' = TRUE
  /\ UNCHANGED <<pc, macKeys>>

AddReopenSilently ==
  LET i == macKeys[Mac] IN
  /\ Reopens /\ OpenAsserts(elems[i])
  /\ ipKeys' = Put(ipKeys, Ip, i)
  /\ elems' = [elems EXCEPT ![i].open = TRUE, ![i].ip = Ip, ![i].timeIn = now]
  /\ UNCHANGED <<pc, macKeys, changed>>

AddReopen ==
  LET i == macKeys[Mac] IN
  /\ Reopens /\ OpenAsserts(elems[i])
  /\ ipKeys' = Put(ipKeys, Ip, i)
  /\ elems' = [elems EXCEPT ![i].open = TRUE, ![i].ip = Ip, ![i].timeIn = now]
  /\ changed' = TRUE
  /\ UNCHANGED <<pc, macKeys>>

AddAborts ==
  /\ Reopens /\ ~OpenAsserts(elems[macKeys[Mac]])
  /\ pc' = "abort"
  /\ UNCHANGED <<elems, macKeys, ipKeys, changed>>

Add ==
  /\ pc = "add" /\ todo # <<>>
  /\ AddUnchanged \/ AddNew \/ AddReopen \/ AddAborts
  /\ todo' = Tail(todo)
  /\ UNCHANGED <<now, report, shown>>

(* add_mac_ip returns; the table is printed if it says that it changed.      *)
Return ==
  /\ pc = "add" /\ todo = <<>>
  /\ pc' = "wait"
  /\ shown' = IF changed THEN Present ELSE shown
  /\ UNCHANGED <<now, elems, macKeys, ipKeys, todo, changed, report>>

NetScan == \E list \in Lists : (Roaming \/ Steady(list)) /\ (Scan(list) \/ ScanAborts(list))

Next == NetScan \/ Add \/ Return

Spec == Init /\ [][Next]_vars

-----------------------------------------------------------------------------
TypeOK ==
  /\ pc \in {"wait", "add", "abort"} /\ now \in Nat
  /\ elems \in Seq([mac : Macs, ip : Ips, open : BOOLEAN, timeIn : Nat, timeOut : Nat])
  /\ DOMAIN macKeys \subseteq Macs /\ DOMAIN ipKeys \subseteq Ips
  /\ \A m \in DOMAIN macKeys : macKeys[m] \in DOMAIN elems
  /\ \A a \in DOMAIN ipKeys : ipKeys[a] \in DOMAIN elems
  /\ todo \in Seq(Macs \X Ips) /\ changed \in BOOLEAN
  /\ report \subseteq Macs \X Ips /\ shown \subseteq Macs \X Ips

(* A device has one element however often it comes, leaves and changes its   *)
(* address: every element is the one its MAC leads to.                       *)
OneElementPerMac ==
  \A i \in DOMAIN elems : elems[i].mac \in DOMAIN macKeys /\ macKeys[elems[i].mac] = i

(* When add_mac_ip has returned, the open elements are exactly the devices   *)
(* of the list it was given, however that list is ordered and whatever it    *)
(* repeats.                                                                  *)
PresentIsReported ==
  pc = "wait" => {p[1] : p \in Present} = {p[1] : p \in report}

(* On a steady network they are also at the addresses the list gave them.    *)
(* (A roaming device that is back at an address it had before keeps, while   *)
(* it is open, the one it had in between: both lead to its element, so       *)
(* add_mac_ip finds nothing to change.)                                      *)
AddressesAreReported == pc = "wait" => Present = report

(* The table on the screen never lags behind: whenever the set of open       *)
(* devices changed, add_mac_ip said so and the table was printed.            *)
ShownIsPresent == pc = "wait" => shown = Present

(* The IP of an open device leads to its own element: without this the next  *)
(* scan takes the device for one that has to be reopened.                    *)
OpenIpLeadsHome ==
  \A i \in OpenIdx : elems[i].ip \in DOMAIN ipKeys /\ ipKeys[elems[i].ip] = i

(* set_open and set_close state with assert() when they may be called; no    *)
(* sequence of scans makes one of these assertions fail.                     *)
AssertionsHold == pc # "abort"
=============================================================================
