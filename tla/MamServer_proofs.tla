--------------------------- MODULE MamServer_proofs ---------------------------
(***************************************************************************)
(* The event server of MamServer, for any clients, any descriptor range,   *)
(* any table and event array size and any length of requests and replies.  *)
(***************************************************************************)
EXTENDS MamServer, FiniteSetTheorems, SequenceTheorems, WellFoundedInduction, TLAPS

(* Until the engine is constructed it has no descriptor and no client.       *)
Fresh ==
  pc = "start" => /\ registered = {} /\ interest = {} /\ batch = {}
                  /\ noActive = 0 /\ serverFd = -1
                  /\ \A fd \in Fd : owner[fd] = Free

(* The listening socket is the one of _server_fd, which stays registered;    *)
(* only descriptors of clients have TCP_NODELAY set.                         *)
ServerSlot ==
  /\ \A fd \in Fd : owner[fd] = Listener => fd = serverFd
  /\ serverFd \in Fd => serverFd \in registered /\ owner[serverFd] \notin Clients
  /\ \A fd \in nodelay : owner[fd] \in Clients

(* A client is in one place: away, once in the accept queue, or behind one   *)
(* descriptor.                                                               *)
OnePlace ==
  /\ \A i, j \in 1 .. Len(backlog) : backlog[i] = backlog[j] => i = j
  /\ \A i \in 1 .. Len(backlog) :
       status[backlog[i]] # "idle" /\ \A fd \in Fd : owner[fd] # backlog[i]
  /\ \A fd \in Fd : owner[fd] \in Clients => status[owner[fd]] # "idle"
  /\ \A fd, other \in Fd : owner[fd] \in Clients /\ owner[fd] = owner[other] => fd = other

(* The replies are those that are owed; what waits unread has not been       *)
(* counted as read, and the reply that is being written is not written yet.  *)
Accounts ==
  /\ RepliesAreOwed
  /\ \A c \in Clients : /\ unread[c] # "nothing" => taken[c] < arrived[c]
                        /\ Writing(c) => answered[c] < due[c]
  /\ pc = "write" => left > 0

IInv ==
  /\ TypeOK
  /\ CountIsRegistered /\ TableMatchesKernel /\ BatchIsCurrent /\ ConnectionsDispatchable
  /\ Fresh /\ ServerSlot /\ OnePlace /\ Accounts

-----------------------------------------------------------------------------
(* accept and socket return a free descriptor whenever there is one.         *)
LEMMA NewFdIsFree ==
  ASSUME FreeFds # {}
  PROVE  NewFd \in Fd /\ owner[NewFd] = Free
<1>1. FreeFds \subseteq Nat
  BY MamServerAssumption DEF FreeFds, Fd
<1> DEFINE less == {pair \in Nat \X Nat : pair[1] < pair[2]}
<1>2. PICK fd \in FreeFds : \A other \in FreeFds : <<other, fd>> \notin less
  <2>1. IsWellFoundedOn(less, Nat)
    <3>1. OpToRel(<, Nat) = less
      BY Zenon DEF OpToRel
    <3> QED
      BY <3>1, NatLessThanWellFounded, Zenon
  <2> HIDE DEF less
  <2> QED
    BY <1>1, <2>1, WFMin
<1>3. ASSUME NEW other \in FreeFds PROVE fd <= other
  <2>1. fd \in Nat /\ other \in Nat
    BY <1>1
  <2>2. ~ (other < fd)
    BY <1>2, <2>1
  <2> QED
    BY <2>1, <2>2
<1>4. NewFd \in FreeFds
  BY <1>3 DEF NewFd
<1> QED
  BY <1>4 DEF FreeFds

LEMMA RegisteredFinite ==
  ASSUME registered \subseteq Fd
  PROVE  IsFiniteSet(registered) /\ Cardinality(registered) \in Nat
<1>1. IsFiniteSet(Fd)
  BY MamServerAssumption, FS_Interval DEF Fd
<1> QED
  BY <1>1, FS_Subset, FS_CardinalityType

(* Appending to a queue: it is not empty, and the rest stays in place.       *)
LEMMA Appended ==
  ASSUME NEW S, NEW seq \in Seq(S), NEW e \in S
  PROVE  /\ Append(seq, e) \in Seq(S) /\ Append(seq, e) # <<>>
         /\ Len(Append(seq, e)) = Len(seq) + 1
         /\ \A i \in 1 .. Len(seq) : Append(seq, e)[i] = seq[i]
         /\ Append(seq, e)[Len(seq) + 1] = e
BY AppendProperties

-----------------------------------------------------------------------------
(* The invariant holds initially.                                            *)
LEMMA InitIInv == Init => IInv
<1> SUFFICES ASSUME Init PROVE IInv
  OBVIOUS
<1> USE DEF Init, MuxInit
<1>1. TypeOK
  BY MamServerAssumption, MultiplexerAssumption DEF TypeOK
<1>2. CountIsRegistered
  BY FS_EmptySet DEF CountIsRegistered
<1>3. TableMatchesKernel /\ BatchIsCurrent
  BY DEF TableMatchesKernel, BatchIsCurrent
<1>4. ConnectionsDispatchable /\ ServerSlot
  BY MamServerAssumption DEF ConnectionsDispatchable, ServerSlot, Fd
<1>5. Fresh /\ OnePlace /\ Accounts
  BY MamServerAssumption DEF Fresh, OnePlace, Accounts, RepliesAreOwed, Writing
<1> QED
  BY <1>1, <1>2, <1>3, <1>4, <1>5 DEF IInv

(* Steps that leave the table, the descriptors and the client set alone and  *)
(* start nothing keep what is said about the table.                          *)
TableInv ==
  CountIsRegistered /\ TableMatchesKernel /\ ConnectionsDispatchable /\ Fresh /\ ServerSlot

LEMMA TableKept ==
  ASSUME TableInv, UNCHANGED <<tableVars, serverFd, fds, owner, nodelay>>,
         \/ UNCHANGED <<pc, wfd, batch>>
         \/ UNCHANGED batch /\ pc # "start" /\ pc' \notin {"start", "write"}
         \/ UNCHANGED <<wfd, batch>> /\ pc = "write" /\ pc' = "write"
  PROVE  TableInv'
BY DEF TableInv, tableVars, CountIsRegistered, TableMatchesKernel, ConnectionsDispatchable,
       Fresh, ServerSlot

(* Events stay current while their descriptors keep their owners, hang-ups   *)
(* are not taken back, and nothing that waits to be read is taken.           *)
LEMMA BatchKept ==
  ASSUME BatchIsCurrent, TypeOK, batch' \subseteq batch, size' >= size, size' \in Nat,
         \A fd \in batch' : fd \in registered' /\ owner'[fd] = owner[fd],
         \A fd \in batch' : owner[fd] = Listener => backlog' # <<>>,
         \A fd \in batch' : owner[fd] \in Clients =>
           /\ HungUp(owner[fd]) => status'[owner[fd]] \in {"fin", "gone"}
           /\ unread[owner[fd]] # "nothing" => unread'[owner[fd]] # "nothing"
  PROVE  BatchIsCurrent'
<1> SUFFICES ASSUME NEW fd \in batch' PROVE fd < size' /\ Readable(fd)'
  BY DEF BatchIsCurrent
<1>1. fd \in batch /\ fd \in Nat /\ fd < size /\ Readable(fd)
  BY MamServerAssumption DEF BatchIsCurrent, TypeOK, Fd
<1>2. fd < size'
  BY <1>1 DEF TypeOK
<1>3. Readable(fd)'
  BY <1>1, MamServerAssumption DEF Readable, HungUp
<1> QED
  BY <1>2, <1>3

-----------------------------------------------------------------------------
(* The clients' steps.                                                       *)
LEMMA ConnectIInv ==
  ASSUME IInv, NEW c \in Clients, Connect(c)
  PROVE  IInv'
<1> USE DEF IInv, Connect, muxVars, tableVars, engineVars, countVars
<1>1. /\ backlog' \in Seq(Clients) /\ backlog' # <<>>
      /\ Len(backlog') = Len(backlog) + 1 /\ Len(backlog) \in Nat
      /\ \A i \in 1 .. Len(backlog) : backlog'[i] = backlog[i]
      /\ backlog'[Len(backlog) + 1] = c
  <2>1. backlog \in Seq(Clients) /\ backlog' = Append(backlog, c)
    BY DEF TypeOK
  <2> QED
    BY <2>1, Appended, LenProperties
<1>2. TypeOK'
  BY <1>1 DEF TypeOK
<1>3. TableInv'
  BY TableKept DEF TableInv
<1>4. \A d \in Clients : HungUp(d) => status'[d] \in {"fin", "gone"}
  BY DEF HungUp, TypeOK
<1>5. BatchIsCurrent'
  <2>1. \A fd \in batch' : fd \in registered' /\ owner'[fd] = owner[fd]
    BY DEF BatchIsCurrent
  <2>2. batch' = batch /\ size' >= size /\ size' \in Nat
    BY DEF TypeOK
  <2> HIDE DEF Connect
  <2> QED
    BY <1>1, <1>4, <2>1, <2>2, BatchKept DEF Connect
<1>6. OnePlace'
  <2>1. \A i \in 1 .. Len(backlog) : backlog[i] # c
    BY DEF OnePlace
  <2>2. \A i \in 1 .. Len(backlog') : i \in 1 .. Len(backlog) \/ i = Len(backlog) + 1
    BY <1>1
  <2>3. \A i, j \in 1 .. Len(backlog') : backlog'[i] = backlog'[j] => i = j
    BY <1>1, <2>1, <2>2 DEF OnePlace
  <2>4. \A i \in 1 .. Len(backlog') : status'[backlog'[i]] # "idle"
    BY <1>1, <2>2 DEF OnePlace, TypeOK
  <2>5. \A fd \in Fd : owner[fd] # c
    BY DEF OnePlace
  <2>6. \A i \in 1 .. Len(backlog') : \A fd \in Fd : owner'[fd] # backlog'[i]
    BY <1>1, <2>2, <2>5 DEF OnePlace
  <2>7. \A fd \in Fd : owner'[fd] \in Clients => status'[owner'[fd]] # "idle"
    BY DEF OnePlace, TypeOK
  <2> QED
    BY <2>3, <2>4, <2>6, <2>7 DEF OnePlace
<1>7. Accounts'
  BY DEF Accounts, RepliesAreOwed, Writing
<1> QED
  BY <1>2, <1>3, <1>5, <1>6, <1>7 DEF TableInv

LEMMA SendIInv ==
  ASSUME IInv, NEW c \in Clients, NEW line \in Lines, Send(c, line)
  PROVE  IInv'
<1> USE DEF IInv, Send, muxVars, tableVars, engineVars, countVars
<1>1. line # "nothing"
  BY MamServerAssumption
<1>2. /\ unread' \in [Clients -> Lines \cup {"nothing"}]
      /\ unread'[c] = line /\ \A d \in Clients \ {c} : unread'[d] = unread[d]
      /\ arrived' \in [Clients -> Nat]
      /\ arrived'[c] = arrived[c] + 1 /\ \A d \in Clients \ {c} : arrived'[d] = arrived[d]
  BY DEF TypeOK
<1>3. TypeOK'
  BY <1>2 DEF TypeOK
<1>4. TableInv'
  BY TableKept DEF TableInv
<1>5. BatchIsCurrent'
  BY <1>1, <1>2, BatchKept, ZenonT(60) DEF BatchIsCurrent, TypeOK, Readable, HungUp
<1>6. OnePlace'
  BY DEF OnePlace
<1>7. Accounts'
  BY <1>2 DEF Accounts, RepliesAreOwed, Writing, TypeOK
<1> QED
  BY <1>3, <1>4, <1>5, <1>6, <1>7 DEF TableInv

LEMMA DrainIInv ==
  ASSUME IInv, NEW c \in Clients, Drain(c)
  PROVE  IInv'
<1> USE DEF IInv, Drain, muxVars, tableVars, engineVars, countVars, clientVars
<1>1. TypeOK'
  <2>1. Window \in Nat /\ room \in [Clients -> 0 .. Window]
    BY MamServerAssumption DEF TypeOK
  <2>2. room' = [room EXCEPT ![c] = room[c] + 1] /\ room[c] < Window
    BY Zenon
  <2>3. room' \in [Clients -> 0 .. Window]
    BY <2>1, <2>2
  <2> QED
    BY <2>3, Zenon DEF TypeOK
<1>2. TableInv'
  BY TableKept DEF TableInv
<1>3. BatchIsCurrent' /\ OnePlace' /\ Accounts'
  BY DEF BatchIsCurrent, Readable, HungUp, OnePlace, Accounts, RepliesAreOwed, Writing
<1> QED
  BY <1>1, <1>2, <1>3 DEF TableInv

(* A hang-up of either kind only changes the client's status.                *)
LEMMA HangUpIInv ==
  ASSUME IInv, NEW c \in Clients, HalfClose(c) \/ Reset(c)
  PROVE  IInv'
<1> USE DEF IInv, HalfClose, Reset, muxVars, tableVars, engineVars, kernelVars, countVars
<1>1. TypeOK'
  BY DEF TypeOK
<1>2. TableInv'
  BY TableKept DEF TableInv
<1>3. \A d \in Clients : HungUp(d) => HungUp(d)'
  BY DEF HungUp, TypeOK
<1>4. BatchIsCurrent'
  BY <1>3 DEF BatchIsCurrent, Readable
<1>5. \A d \in Clients : status[d] # "idle" => status'[d] # "idle"
  BY DEF TypeOK
<1>6. \A i \in 1 .. Len(backlog) : backlog[i] \in Clients
  BY ElementOfSeq DEF TypeOK
<1>7. OnePlace'
  BY <1>5, <1>6 DEF OnePlace
<1>8. Accounts'
  <2>1. \A d \in Clients : status'[d] # "gone" => status[d] # "gone"
    BY DEF TypeOK
  <2> QED
    BY <2>1 DEF Accounts, RepliesAreOwed, Writing
<1> QED
  BY <1>1, <1>2, <1>4, <1>7, <1>8 DEF TableInv

-----------------------------------------------------------------------------
(* What register_fd does with a descriptor that has no handler yet, and      *)
(* unregister_close_fd with one that has.                                    *)
LEMMA RegisterNew ==
  ASSUME CountIsRegistered, TypeOK, NEW fd \in Fd, fd \notin registered,
         size' = IF fd >= size THEN Larger(fd + 1, 2 * size) ELSE size,
         registered' = registered \cup {fd}, noActive' = noActive + 1
  PROVE  /\ CountIsRegistered'
         /\ registered' \subseteq Fd /\ noActive' \in Nat
         /\ size' \in Nat \ {0} /\ size' >= size /\ fd < size'
<1>1. fd \in Nat /\ size \in Nat \ {0}
  BY MamServerAssumption DEF TypeOK, Fd
<1>2. size' \in Nat \ {0} /\ size' >= size /\ fd < size'
  BY <1>1 DEF Larger
<1>3. CountIsRegistered'
  BY RegisteredFinite, FS_AddElement DEF CountIsRegistered, TypeOK
<1> QED
  BY <1>2, <1>3 DEF TypeOK

LEMMA UnregisterHeld ==
  ASSUME CountIsRegistered, TypeOK, NEW fd \in registered,
         registered' = registered \ {fd}, noActive' = noActive - 1
  PROVE  CountIsRegistered' /\ noActive' \in Nat
<1>1. CountIsRegistered'
  BY RegisteredFinite, FS_RemoveElement DEF CountIsRegistered, TypeOK
<1>2. Cardinality(registered) # 0
  BY RegisteredFinite, FS_EmptySet DEF TypeOK
<1> QED
  BY <1>1, <1>2, RegisteredFinite DEF CountIsRegistered, TypeOK

(* The engine's constructor, whether or not the socket can be had and told   *)
(* to listen.                                                                *)
LEMMA StartIInv ==
  ASSUME IInv, Start
  PROVE  IInv'
<1> USE DEF IInv
<1>1. pc = "start" /\ pc' = "poll"
  BY DEF Start, StartWithoutSocket, StartListening, StartDeaf
<1>2. CASE StartWithoutSocket
  <2> USE <1>2 DEF StartWithoutSocket, muxVars, kernelVars, countVars, clientVars
  <2>1. TypeOK' /\ BatchIsCurrent' /\ OnePlace' /\ Accounts'
    BY DEF TypeOK, BatchIsCurrent, Readable, HungUp, OnePlace, Accounts, RepliesAreOwed, Writing
  <2>2. TableInv'
    BY DEF TableInv, CountIsRegistered, TableMatchesKernel, ConnectionsDispatchable,
           Fresh, ServerSlot
  <2> QED
    BY <2>1, <2>2 DEF TableInv
<1>3. ASSUME StartListening \/ StartDeaf PROVE IInv'
  <2>1. FreeFds = Fd /\ FirstFd \in Fd
    BY <1>1, MamServerAssumption DEF Fresh, FreeFds, Fd
  <2>2. NewFd \in Fd /\ owner[NewFd] = Free /\ NewFd \in Nat
    BY <2>1, NewFdIsFree, MamServerAssumption DEF Fd
  <2>3. /\ serverFd' = NewFd /\ fds' = fds /\ batch' = batch
        /\ size' = IF NewFd >= size THEN Larger(NewFd + 1, 2 * size) ELSE size
        /\ registered' = registered \cup {NewFd} /\ noActive' = noActive + 1
        /\ UNCHANGED <<wfd, left, nodelay, backlog, unread, room, taken, due, answered, status, arrived>>
    BY <1>3, <2>2 DEF StartListening, StartDeaf, RegisterFd, kernelVars, countVars, clientVars
  <2>4. \/ /\ owner' = [owner EXCEPT ![NewFd] = Listener]
           /\ \/ interest' = interest \cup {NewFd}
              \/ NewFd \in CtlFailures /\ interest' = interest
        \/ owner' = owner /\ interest' = interest
    BY <1>1, <1>3, <2>2 DEF StartListening, StartDeaf, RegisterFd, kernelVars, Fresh
  <2>5. /\ CountIsRegistered' /\ registered' \subseteq Fd /\ noActive' \in Nat
        /\ size' \in Nat \ {0} /\ NewFd < size'
    BY <1>1, <2>2, <2>3, RegisterNew DEF Fresh
  <2>6. TypeOK'
    BY <1>1, <2>2, <2>3, <2>4, <2>5 DEF TypeOK
  <2>7. registered' = {NewFd} /\ batch' = {} /\ \A fd \in Fd : owner'[fd] \notin Clients
    BY <1>1, <2>2, <2>3, <2>4, MamServerAssumption, ZenonT(60) DEF Fresh, TypeOK
  <2>8. TableMatchesKernel' /\ BatchIsCurrent'
    <3>1. interest = {} /\ interest' \subseteq {NewFd}
      BY <1>1, <2>4 DEF Fresh
    <3>2. NewFd \in interest' => owner'[NewFd] # Free
      BY <2>2, <2>4, <3>1, MamServerAssumption DEF TypeOK
    <3>3. NewFd \notin CtlFailures /\ owner'[NewFd] # Free => NewFd \in interest'
      BY <2>2, <2>4
    <3>4. NewFd < size' /\ NewFd = serverFd'
      BY <2>3, <2>5
    <3>5. TableMatchesKernel'
      BY <2>7, <3>1, <3>2, <3>3, <3>4, ZenonT(60) DEF TableMatchesKernel
    <3> QED
      BY <2>7, <3>5 DEF BatchIsCurrent
  <2>9. ConnectionsDispatchable' /\ Fresh'
    BY <1>1, <2>7 DEF ConnectionsDispatchable, Fresh
  <2>10. ServerSlot'
    BY <1>1, <2>2, <2>3, <2>4, <2>7, MamServerAssumption DEF ServerSlot, Fresh, TypeOK
  <2>11. OnePlace'
    <3>1. \A i \in 1 .. Len(backlog) : backlog[i] \in Clients
      BY ElementOfSeq DEF TypeOK
    <3> QED
      BY <2>3, <2>7, <3>1 DEF OnePlace
  <2>12. Accounts'
    BY <1>1, <2>3 DEF Accounts, RepliesAreOwed, Writing
  <2> QED
    BY <2>5, <2>6, <2>8, <2>9, <2>10, <2>11, <2>12
<1> QED
  BY <1>2, <1>3 DEF Start

(* run() returns.                                                            *)
LEMMA ReturnIInv ==
  ASSUME IInv, RunReturns
  PROVE  IInv'
<1> USE DEF IInv, RunReturns, muxVars, tableVars, kernelVars, countVars, clientVars
<1>1. TypeOK' /\ BatchIsCurrent' /\ OnePlace' /\ Accounts'
  BY DEF TypeOK, BatchIsCurrent, Readable, HungUp, OnePlace, Accounts, RepliesAreOwed, Writing
<1>2. TableInv'
  BY TableKept DEF TableInv
<1> QED
  BY <1>1, <1>2 DEF TableInv

(* epoll_wait reports descriptors that are ready, and they are in the table. *)
LEMMA EpollWaitIInv ==
  ASSUME IInv, EpollWait
  PROVE  IInv'
<1> USE DEF IInv, EpollWait, tableVars, engineVars, kernelVars, countVars, clientVars
<1>1. batch' \subseteq ReadyFds
  BY DEF FetchEvents
<1>2. \A fd \in batch' : fd \in registered /\ fd < size /\ Readable(fd)
  BY <1>1 DEF ReadyFds, TableMatchesKernel
<1>3. TypeOK'
  BY <1>2 DEF TypeOK
<1>4. BatchIsCurrent'
  BY <1>2 DEF BatchIsCurrent, Readable, HungUp
<1>5. CountIsRegistered' /\ TableMatchesKernel' /\ ConnectionsDispatchable'
  BY DEF CountIsRegistered, TableMatchesKernel, ConnectionsDispatchable
<1>6. Fresh' /\ ServerSlot' /\ OnePlace' /\ Accounts'
  BY DEF Fresh, ServerSlot, OnePlace, Accounts, RepliesAreOwed, Writing
<1> QED
  BY <1>3, <1>4, <1>5, <1>6

(* tcp_write: a chunk is taken, or the reply is abandoned, or SIGPIPE ends   *)
(* the process.                                                              *)
LEMMA WriteIInv ==
  ASSUME IInv, Write
  PROVE  IInv'
<1> USE DEF IInv
<1>1. pc = "write" /\ wfd \in Fd /\ owner[wfd] \in Clients /\ left \in 1 .. ReplyChunks
  BY DEF Write, WriteChunk, WriteFails, WriteKills, ConnectionsDispatchable, TypeOK, Accounts, RepliesAreOwed, Writing
<1>2. /\ UNCHANGED <<muxVars, serverFd, fds, owner, nodelay, backlog, unread, taken, due, clientVars>>
      /\ pc' \in {"write", "poll", "killed"} /\ (pc' = "write" => UNCHANGED wfd)
  BY DEF Write, WriteChunk, WriteFails, WriteKills, kernelVars, countVars
<1>3. TypeOK'
  <2>1. CASE WriteChunk
    <3>1. room'[owner[wfd]] \in 0 .. Window /\ room' \in [Clients -> 0 .. Window]
      BY <1>1, <2>1, MamServerAssumption DEF WriteChunk, TypeOK
    <3>2. left' \in 0 .. ReplyChunks /\ wfd' \in Fd \cup {-1}
      BY <1>1, <2>1, MamServerAssumption DEF WriteChunk, TypeOK
    <3>3. answered' \in [Clients -> Nat]
      <4>1. \/ answered' = answered
            \/ answered' = [answered EXCEPT ![owner[wfd]] = answered[owner[wfd]] + 1]
        BY <2>1 DEF WriteChunk
      <4>2. answered \in [Clients -> Nat] /\ answered[owner[wfd]] + 1 \in Nat
        BY <1>1 DEF TypeOK
      <4> QED
        BY <1>1, <4>1, <4>2
    <3> QED
      BY <1>2, <3>1, <3>2, <3>3 DEF TypeOK, muxVars, clientVars
  <2>2. CASE WriteFails \/ WriteKills
    BY <1>2, <2>2, MamServerAssumption
    DEF WriteFails, WriteKills, kernelVars, countVars, TypeOK, muxVars, clientVars
  <2> QED
    BY <2>1, <2>2 DEF Write
<1>4. TableInv'
  BY <1>1, <1>2, TableKept DEF TableInv, muxVars, tableVars
<1>5. BatchIsCurrent' /\ OnePlace'
  BY <1>2 DEF BatchIsCurrent, Readable, HungUp, OnePlace, muxVars, clientVars
<1> DEFINE c == owner[wfd]
<1>6. Accounts'
  <2>1. \A d \in Clients \ {c} : ~Writing(d) /\ ~Writing(d)'
    BY <1>2 DEF Writing
  <2>2. CASE WriteChunk
    <3>1. status[c] # "gone" /\ due[c] = answered[c] + 1 /\ due' = due
      BY <1>1, <2>2 DEF WriteChunk, Accounts, RepliesAreOwed, Writing
    <3>2. CASE left = 1
      <4>1. /\ answered' = [answered EXCEPT ![c] = answered[c] + 1]
            /\ pc' = "poll"
        BY <2>2, <3>2 DEF WriteChunk
      <4>2. answered'[c] = due[c] /\ \A d \in Clients \ {c} : answered'[d] = answered[d]
        BY <1>1, <3>1, <4>1 DEF TypeOK
      <4>3. \A d \in Clients : ~Writing(d)'
        BY <4>1 DEF Writing
      <4> QED
        BY <1>1, <1>2, <2>1, <3>1, <4>1, <4>2, <4>3 DEF Accounts, RepliesAreOwed, TypeOK, clientVars
    <3>3. CASE left # 1
      <4>1. UNCHANGED <<pc, wfd, answered>> /\ left' > 0
        BY <1>1, <2>2, <3>3 DEF WriteChunk
      <4>2. \A d \in Clients : Writing(d)' <=> Writing(d)
        BY <1>2, <4>1 DEF Writing
      <4> QED
        BY <1>2, <3>1, <4>1, <4>2 DEF Accounts, RepliesAreOwed, clientVars
    <3> QED
      BY <3>2, <3>3
  <2>3. CASE WriteFails \/ WriteKills
    <3>1. status[c] = "gone" /\ UNCHANGED countVars /\ pc' # "write"
      BY <2>3 DEF WriteFails, WriteKills
    <3>2. \A d \in Clients : ~Writing(d)'
      BY <3>1 DEF Writing
    <3> QED
      BY <1>2, <2>1, <3>1, <3>2 DEF Accounts, RepliesAreOwed, countVars, clientVars
  <2> QED
    BY <2>2, <2>3 DEF Write
<1> QED
  BY <1>3, <1>4, <1>5, <1>6 DEF TableInv

-----------------------------------------------------------------------------
(* The listening socket is ready: what every outcome of accept starts from.  *)
LEMMA ServerReady ==
  ASSUME IInv, serverFd \in batch
  PROVE  /\ serverFd \in registered /\ owner[serverFd] = Listener
         /\ \A fd \in batch \ {serverFd} : owner[fd] \in Clients
<1> USE DEF IInv
<1>1. serverFd \in registered /\ serverFd \in Fd /\ Readable(serverFd)
  BY DEF BatchIsCurrent, TypeOK
<1>2. owner[serverFd] = Listener
  BY <1>1 DEF Readable, ServerSlot
<1>3. ASSUME NEW fd \in batch \ {serverFd} PROVE owner[fd] \in Clients
  <2>1. Readable(fd) /\ fd \in Fd
    BY DEF BatchIsCurrent, TypeOK
  <2> QED
    BY <2>1 DEF Readable, ServerSlot
<1> QED
  BY <1>1, <1>2, <1>3

(* What accept returned is set up, or was closed, or leaks; the client at    *)
(* the head of the queue leaves the queue.                                   *)
LEMMA QueueShorter ==
  ASSUME IInv, backlog # <<>>, backlog' = Tail(backlog)
  PROVE  /\ Head(backlog) = backlog[1] /\ Head(backlog) \in Clients
         /\ backlog' \in Seq(Clients)
         /\ Len(backlog) \in Nat \ {0} /\ Len(backlog') = Len(backlog) - 1
         /\ \A i \in 1 .. Len(backlog') : backlog'[i] = backlog[i + 1] /\ backlog'[i] \in Clients
         /\ \A i \in 1 .. Len(backlog') : backlog'[i] # Head(backlog)
         /\ \A i, j \in 1 .. Len(backlog') : backlog'[i] = backlog'[j] => i = j
<1>1. backlog \in Seq(Clients)
  BY DEF IInv, TypeOK
<1>2. /\ Head(backlog) = backlog[1] /\ Head(backlog) \in Clients
      /\ backlog' \in Seq(Clients)
      /\ Len(backlog) \in Nat \ {0} /\ Len(backlog') = Len(backlog) - 1
      /\ \A i \in 1 .. Len(backlog') : backlog'[i] = backlog[i + 1]
  BY <1>1, HeadTailProperties, EmptySeq, LenProperties
<1>3. \A i \in 1 .. Len(backlog') : backlog'[i] \in Clients
  BY <1>2, ElementOfSeq
<1>4. \A i \in 1 .. Len(backlog') : i + 1 \in 1 .. Len(backlog) /\ i + 1 # 1
  BY <1>2
<1>5. \A i, j \in 1 .. Len(backlog) : backlog[i] = backlog[j] => i = j
  BY DEF IInv, OnePlace
<1>6. \A i \in 1 .. Len(backlog') : backlog'[i] # Head(backlog)
  BY <1>2, <1>4, <1>5
<1>7. \A i, j \in 1 .. Len(backlog') : backlog'[i] = backlog'[j] => i = j
  BY <1>2, <1>4, <1>5
<1> QED
  BY <1>2, <1>3, <1>6, <1>7

(* The rest of a turn of poll() in which the listening socket was ready.     *)
ServerTurn ==
  /\ pc = "poll" /\ serverFd \in batch /\ batch' = batch \ {serverFd}
  /\ UNCHANGED <<pc, serverFd, wfd, left, unread, room, arrived, countVars>>

LEMMA AcceptNothingIInv ==
  ASSUME IInv, ServerTurn, AcceptNothing
  PROVE  IInv'
<1> USE DEF IInv, ServerTurn, AcceptNothing, countVars
<1>1. UNCHANGED tableVars
  BY DEF RegisterFd
<1>2. TypeOK'
  BY <1>1 DEF TypeOK, tableVars
<1>3. CountIsRegistered' /\ TableMatchesKernel' /\ ConnectionsDispatchable'
  BY <1>1 DEF CountIsRegistered, TableMatchesKernel, ConnectionsDispatchable, tableVars
<1>4. Fresh' /\ ServerSlot' /\ OnePlace' /\ Accounts'
  BY <1>1 DEF Fresh, ServerSlot, OnePlace, Accounts, RepliesAreOwed, Writing, tableVars
<1>5. BatchIsCurrent'
  BY <1>1 DEF BatchIsCurrent, Readable, HungUp, tableVars
<1> QED
  BY <1>2, <1>3, <1>4, <1>5

LEMMA AcceptClientIInv ==
  ASSUME IInv, ServerTurn, AcceptClient
  PROVE  IInv'
<1> USE DEF IInv, ServerTurn
<1> DEFINE fd == NewFd
<1>1. fd \in Fd /\ owner[fd] = Free /\ fd \in Nat /\ fd \in Int
  BY NewFdIsFree, MamServerAssumption DEF AcceptClient, Fd
<1>2. /\ owner' = [owner EXCEPT ![fd] = Head(backlog)] /\ nodelay' = nodelay \cup {fd}
      /\ fds' = fds \cup {fd} /\ status' = status
      /\ backlog # <<>> /\ backlog' = Tail(backlog)
      /\ UNCHANGED <<pc, serverFd, wfd, left, unread, room, arrived, taken, due, answered>>
  BY DEF AcceptClient, countVars
<1>3. /\ size' = IF fd >= size THEN Larger(fd + 1, 2 * size) ELSE size
      /\ registered' = registered \cup {fd} /\ noActive' = noActive + 1
      /\ \/ interest' = IF fd \in registered THEN interest ELSE interest \cup {fd}
         \/ fd \in CtlFailures /\ interest' = interest
  BY <1>1 DEF AcceptClient, RegisterFd
<1> HIDE DEF fd
<1>4. /\ Head(backlog) \in Clients /\ backlog' \in Seq(Clients)
      /\ \A i \in 1 .. Len(backlog') : backlog'[i] # Head(backlog)
      /\ \A i, j \in 1 .. Len(backlog') : backlog'[i] = backlog'[j] => i = j
      /\ \A i \in 1 .. Len(backlog') : \E j \in 1 .. Len(backlog) : backlog'[i] = backlog[j]
      /\ Head(backlog) = backlog[1] /\ 1 \in 1 .. Len(backlog)
  <2>1. \A i \in 1 .. Len(backlog') : i + 1 \in 1 .. Len(backlog)
    BY <1>2, QueueShorter
  <2> QED
    BY <1>2, <2>1, QueueShorter
<1>5. fd \notin registered /\ fd # serverFd
  BY <1>1, ServerReady, MamServerAssumption DEF TableMatchesKernel
<1>6. /\ CountIsRegistered' /\ registered' \subseteq Fd /\ noActive' \in Nat
      /\ size' \in Nat \ {0} /\ size' >= size /\ fd < size'
  BY <1>1, <1>3, <1>5, RegisterNew
<1>7. \A g \in Fd : owner'[g] = IF g = fd THEN Head(backlog) ELSE owner[g]
  BY <1>1, <1>2 DEF TypeOK
<1>8. TypeOK'
  <2>1. owner' \in [Fd -> Clients \cup {Free, Listener}]
    BY <1>1, <1>2, <1>4 DEF TypeOK
  <2>2. interest' \subseteq Fd /\ nodelay' \subseteq Fd /\ fds' \subseteq Fd \cup {-1}
    BY <1>1, <1>2, <1>3 DEF TypeOK
  <2> QED
    BY <1>2, <1>4, <1>6, <2>1, <2>2 DEF TypeOK
<1>9. TableMatchesKernel'
  <2>1. /\ \A g \in interest' : g \in registered' /\ owner'[g] # Free
        /\ \A g \in registered' \ CtlFailures : owner'[g] # Free => g \in interest'
    <3>1. /\ interest' = interest \cup {fd} \/ (fd \in CtlFailures /\ interest' = interest)
          /\ Head(backlog) # Free
      BY <1>3, <1>4, <1>5, MamServerAssumption
    <3>2. registered \subseteq Fd /\ interest \subseteq Fd
      BY DEF TypeOK
    <3>3. ASSUME NEW g \in interest' PROVE g \in registered' /\ owner'[g] # Free
      <4>1. CASE g = fd
        BY <1>1, <1>3, <1>7, <3>1, <4>1
      <4>2. CASE g # fd
        <5>1. g \in interest /\ g \in registered /\ owner[g] # Free /\ g \in Fd
          BY <3>1, <3>2, <3>3, <4>2 DEF TableMatchesKernel
        <5> QED
          BY <1>3, <1>7, <4>2, <5>1
      <4> QED
        BY <4>1, <4>2
    <3>4. ASSUME NEW g \in registered' \ CtlFailures, owner'[g] # Free PROVE g \in interest'
      <4>1. CASE g = fd
        BY <3>1, <3>4, <4>1
      <4>2. CASE g # fd
        <5>1. g \in registered /\ g \in Fd
          BY <1>3, <3>2, <4>2
        <5>2. g \in interest
          BY <1>7, <3>4, <4>2, <5>1 DEF TableMatchesKernel
        <5> QED
          BY <3>1, <5>2
      <4> QED
        BY <4>1, <4>2
    <3> QED
      BY <3>3, <3>4
  <2>2. \A g \in registered' : g < size' /\ (owner'[g] = Free => g = serverFd')
    <3> SUFFICES ASSUME NEW g \in registered'
                 PROVE  g < size' /\ (owner'[g] = Free => g = serverFd)
      BY <1>2
    <3>1. CASE g = fd
      BY <1>1, <1>2, <1>4, <1>6, <3>1, MamServerAssumption DEF TypeOK
    <3>2. CASE g # fd
      <4>1. g \in registered /\ g \in Nat /\ g \in Fd
        BY <1>3, <1>6, <3>2, MamServerAssumption DEF Fd
      <4> QED
        BY <1>2, <1>6, <3>2, <4>1, SMTT(30) DEF TableMatchesKernel, TypeOK
    <3> QED
      BY <3>1, <3>2
  <2> QED
    BY <2>1, <2>2 DEF TableMatchesKernel
<1>10. BatchIsCurrent'
  <2>1. \A g \in batch' : g \in registered /\ g # fd /\ owner[g] \in Clients
    BY <1>5, ServerReady DEF BatchIsCurrent
  <2>2. \A g \in batch' : owner'[g] = owner[g]
    BY <1>2, <2>1 DEF TypeOK
  <2> QED
    BY <1>2, <1>3, <1>6, <2>1, <2>2, BatchKept, MamServerAssumption DEF HungUp
<1>11. ConnectionsDispatchable'
  BY <1>1, <1>2, <1>3, <1>5 DEF ConnectionsDispatchable, TypeOK
<1>12. Fresh'
  BY <1>2 DEF Fresh
<1>13. ServerSlot'
  <2>1. \A g \in Fd : owner'[g] = Listener => g = serverFd
    BY <1>4, <1>7, MamServerAssumption DEF ServerSlot
  <2>2. serverFd \in Fd => serverFd \in registered' /\ owner'[serverFd] \notin Clients
    BY <1>3, <1>5, <1>7 DEF ServerSlot
  <2>3. \A g \in nodelay' : owner'[g] \in Clients
    BY <1>1, <1>2, <1>4, <1>7, SMTT(30) DEF ServerSlot, TypeOK
  <2> QED
    BY <1>2, <2>1, <2>2, <2>3 DEF ServerSlot
<1>14. OnePlace'
  <2>1. \A i \in 1 .. Len(backlog') :
          status[backlog'[i]] # "idle" /\ \A g \in Fd : owner'[g] # backlog'[i]
    <3> SUFFICES ASSUME NEW i \in 1 .. Len(backlog')
                 PROVE  status[backlog'[i]] # "idle" /\ \A g \in Fd : owner'[g] # backlog'[i]
      OBVIOUS
    <3>1. PICK j \in 1 .. Len(backlog) : backlog'[i] = backlog[j]
      BY <1>4
    <3>2. status[backlog'[i]] # "idle" /\ \A g \in Fd : owner[g] # backlog'[i]
      BY <3>1 DEF OnePlace
    <3> QED
      BY <1>1, <1>2, <1>4, <3>2 DEF TypeOK
  <2>2. status[Head(backlog)] # "idle" /\ \A g \in Fd : owner[g] # Head(backlog)
    BY <1>4 DEF OnePlace
  <2>3. \A g \in Fd : owner'[g] \in Clients => status[owner'[g]] # "idle"
    BY <1>1, <1>2, <2>2 DEF OnePlace, TypeOK
  <2>4. \A g, h \in Fd : owner'[g] \in Clients /\ owner'[g] = owner'[h] => g = h
    BY <1>1, <1>2, <2>2 DEF OnePlace, TypeOK
  <2> QED
    BY <1>2, <1>4, <2>1, <2>3, <2>4 DEF OnePlace
<1>15. Accounts'
  BY <1>2 DEF Accounts, RepliesAreOwed, Writing
<1> QED
  BY <1>6, <1>8, <1>9, <1>10, <1>11, <1>12, <1>13, <1>14, <1>15

(* set_tcpnodelay_fd failed: the descriptor stays open, with no handler.     *)
LEMMA AcceptAndLeakIInv ==
  ASSUME IInv, ServerTurn, AcceptAndLeak
  PROVE  IInv'
<1> USE DEF IInv, ServerTurn
<1> DEFINE fd == NewFd
<1>1. fd \in Fd /\ owner[fd] = Free
  BY NewFdIsFree DEF AcceptAndLeak
<1>2. /\ owner' = [owner EXCEPT ![fd] = Head(backlog)] /\ nodelay' = nodelay
      /\ fds' = fds \cup {-1} /\ status' = status
      /\ backlog # <<>> /\ backlog' = Tail(backlog)
      /\ UNCHANGED <<pc, serverFd, wfd, left, unread, room, arrived, taken, due, answered>>
      /\ UNCHANGED <<size, registered, noActive, interest>>
  BY DEF AcceptAndLeak, RegisterFd, countVars, tableVars
<1> HIDE DEF fd
<1>3. /\ Head(backlog) \in Clients /\ backlog' \in Seq(Clients)
      /\ \A i \in 1 .. Len(backlog') : backlog'[i] # Head(backlog)
      /\ \A i, j \in 1 .. Len(backlog') : backlog'[i] = backlog'[j] => i = j
      /\ \A i \in 1 .. Len(backlog') : \E j \in 1 .. Len(backlog) : backlog'[i] = backlog[j]
      /\ Head(backlog) = backlog[1] /\ 1 \in 1 .. Len(backlog)
  <2>1. \A i \in 1 .. Len(backlog') : i + 1 \in 1 .. Len(backlog)
    BY <1>2, QueueShorter
  <2> QED
    BY <1>2, <2>1, QueueShorter
<1>4. fd \notin registered /\ fd # serverFd /\ fd \notin nodelay
  BY <1>1, ServerReady, MamServerAssumption DEF TableMatchesKernel, ServerSlot
<1>5. \A g \in Fd : owner'[g] = IF g = fd THEN Head(backlog) ELSE owner[g]
  BY <1>1, <1>2 DEF TypeOK
<1>6. TypeOK'
  <2>1. owner' \in [Fd -> Clients \cup {Free, Listener}]
    BY <1>1, <1>2, <1>3 DEF TypeOK
  <2> QED
    BY <1>2, <1>3, <2>1 DEF TypeOK
<1>7. CountIsRegistered' /\ TableMatchesKernel'
  BY <1>2, <1>4, <1>5 DEF CountIsRegistered, TableMatchesKernel, TypeOK
<1>8. BatchIsCurrent'
  <2>1. \A g \in batch' : g \in registered /\ g # fd /\ owner[g] \in Clients
    BY <1>4, ServerReady DEF BatchIsCurrent
  <2>2. \A g \in batch' : owner'[g] = owner[g]
    BY <1>5, <2>1 DEF TypeOK
  <2>3. size' >= size /\ size' \in Nat
    BY <1>2 DEF TypeOK
  <2> QED
    BY <1>2, <2>1, <2>2, <2>3, BatchKept, MamServerAssumption DEF HungUp
<1>9. ConnectionsDispatchable' /\ Fresh'
  BY <1>1, <1>2, <1>4, <1>5 DEF ConnectionsDispatchable, Fresh, TypeOK
<1>10. ServerSlot'
  BY <1>2, <1>3, <1>4, <1>5, MamServerAssumption DEF ServerSlot, TypeOK
<1>11. OnePlace'
  <2>1. \A i \in 1 .. Len(backlog') :
          status[backlog'[i]] # "idle" /\ \A g \in Fd : owner'[g] # backlog'[i]
    <3> SUFFICES ASSUME NEW i \in 1 .. Len(backlog')
                 PROVE  status[backlog'[i]] # "idle" /\ \A g \in Fd : owner'[g] # backlog'[i]
      OBVIOUS
    <3>1. PICK j \in 1 .. Len(backlog) : backlog'[i] = backlog[j]
      BY <1>3
    <3>2. status[backlog'[i]] # "idle" /\ \A g \in Fd : owner[g] # backlog'[i]
      BY <3>1 DEF OnePlace
    <3> QED
      BY <1>3, <1>5, <3>2
  <2>2. status[Head(backlog)] # "idle" /\ \A g \in Fd : owner[g] # Head(backlog)
    BY <1>3 DEF OnePlace
  <2>3. \A g \in Fd : owner'[g] \in Clients => status[owner'[g]] # "idle"
    BY <1>5, <2>2 DEF OnePlace
  <2>4. \A g, h \in Fd : owner'[g] \in Clients /\ owner'[g] = owner'[h] => g = h
    BY <1>5, <2>2 DEF OnePlace
  <2> QED
    BY <1>2, <1>3, <2>1, <2>3, <2>4 DEF OnePlace
<1>12. Accounts'
  BY <1>1, <1>2, <1>4, <1>5 DEF Accounts, RepliesAreOwed, Writing, ConnectionsDispatchable
<1> QED
  BY <1>6, <1>7, <1>8, <1>9, <1>10, <1>11, <1>12

(* set_nonblocking_fd failed: the connection is closed.                      *)
LEMMA AcceptAndCloseIInv ==
  ASSUME IInv, ServerTurn, AcceptAndClose
  PROVE  IInv'
<1> USE DEF IInv, ServerTurn
<1>1. /\ status' = [status EXCEPT ![Head(backlog)] = "gone"]
      /\ fds' = fds \cup {-1} /\ owner' = owner /\ nodelay' = nodelay
      /\ backlog # <<>> /\ backlog' = Tail(backlog)
      /\ UNCHANGED <<pc, serverFd, wfd, left, unread, room, arrived, taken, due, answered>>
      /\ UNCHANGED <<size, registered, noActive, interest>>
  BY DEF AcceptAndClose, RegisterFd, countVars, tableVars
<1>2. /\ Head(backlog) \in Clients /\ backlog' \in Seq(Clients)
      /\ \A i, j \in 1 .. Len(backlog') : backlog'[i] = backlog'[j] => i = j
      /\ \A i \in 1 .. Len(backlog') : \E j \in 1 .. Len(backlog) : backlog'[i] = backlog[j]
      /\ \A i \in 1 .. Len(backlog') : backlog'[i] \in Clients
  <2>1. \A i \in 1 .. Len(backlog') : i + 1 \in 1 .. Len(backlog)
    BY <1>1, QueueShorter
  <2> QED
    BY <1>1, <2>1, QueueShorter
<1>3. TypeOK'
  BY <1>1, <1>2 DEF TypeOK
<1>4. CountIsRegistered' /\ TableMatchesKernel' /\ ConnectionsDispatchable'
  BY <1>1 DEF CountIsRegistered, TableMatchesKernel, ConnectionsDispatchable, TypeOK
<1>5. Fresh' /\ ServerSlot' /\ Accounts'
  BY <1>1 DEF Fresh, ServerSlot, Accounts, RepliesAreOwed, Writing
<1>6. \A c \in Clients : /\ HungUp(c) => status'[c] \in {"fin", "gone"}
                         /\ status[c] # "idle" => status'[c] # "idle"
  BY <1>1, <1>2 DEF HungUp, TypeOK
<1>7. BatchIsCurrent'
  <2>1. \A g \in batch' : g \in registered /\ owner[g] \in Clients
    BY ServerReady DEF BatchIsCurrent
  <2>2. size' >= size /\ size' \in Nat
    BY <1>1 DEF TypeOK
  <2> QED
    BY <1>1, <1>6, <2>1, <2>2, BatchKept, MamServerAssumption
<1>8. OnePlace'
  <2>1. \A i \in 1 .. Len(backlog') :
          status'[backlog'[i]] # "idle" /\ \A g \in Fd : owner[g] # backlog'[i]
    BY <1>2, <1>6 DEF OnePlace
  <2> QED
    BY <1>1, <1>2, <1>6, <2>1 DEF OnePlace
<1> QED
  BY <1>3, <1>4, <1>5, <1>7, <1>8

-----------------------------------------------------------------------------
(* A client's descriptor is ready, and engine_t::handle_read finds it.       *)
ClientTurn(fd) ==
  /\ pc = "poll" /\ fd \in batch /\ fd # serverFd /\ batch' = batch \ {fd}
  /\ UNCHANGED <<serverFd, backlog, room, answered, arrived>>

LEMMA ClientReady ==
  ASSUME IInv, NEW fd, ClientTurn(fd)
  PROVE  /\ fd \in Fd /\ fd \in Nat /\ fd < size /\ fd \in registered
         /\ owner[fd] \in Clients /\ fd \in nodelay
         /\ unread[owner[fd]] # "nothing" \/ HungUp(owner[fd])
<1> USE DEF IInv, ClientTurn
<1>1. fd \in Fd /\ fd \in Nat /\ fd < size /\ fd \in registered /\ Readable(fd)
  BY MamServerAssumption DEF BatchIsCurrent, TypeOK, Fd
<1>2. owner[fd] \in Clients /\ (unread[owner[fd]] # "nothing" \/ HungUp(owner[fd]))
  BY <1>1 DEF Readable, ServerSlot
<1> QED
  BY <1>1, <1>2 DEF ConnectionsDispatchable

(* unregister_close_fd after an empty read.                                  *)
LEMMA CloseClientIInv ==
  ASSUME IInv, NEW fd, ClientTurn(fd), CloseClient(fd)
  PROVE  IInv'
<1> USE DEF IInv, ClientTurn
<1>1. /\ fd \in Fd /\ fd \in Nat /\ fd < size /\ fd \in registered
      /\ owner[fd] \in Clients /\ fd \in nodelay
  BY ClientReady
<1>2. /\ registered' = registered \ {fd} /\ interest' = interest \ {fd}
      /\ noActive' = noActive - 1 /\ size' = size
      /\ owner' = [owner EXCEPT ![fd] = Free] /\ nodelay' = nodelay \ {fd}
      /\ status' = [status EXCEPT ![owner[fd]] = "gone"]
      /\ fds' = fds \ {-1}
      /\ UNCHANGED <<pc, wfd, left, unread, taken, due>>
  BY <1>1 DEF CloseClient, UnregisterFd, CanUnregister
<1>3. CountIsRegistered' /\ noActive' \in Nat
  BY <1>1, <1>2, UnregisterHeld
<1>4. TypeOK'
  BY <1>1, <1>2, <1>3 DEF TypeOK
<1>5. \A g \in Fd : owner'[g] = IF g = fd THEN Free ELSE owner[g]
  BY <1>1, <1>2 DEF TypeOK
<1>6. TableMatchesKernel'
  BY <1>1, <1>2, <1>5, MamServerAssumption DEF TableMatchesKernel, TypeOK
<1>7. \A c \in Clients : /\ HungUp(c) => status'[c] \in {"fin", "gone"}
                         /\ status[c] # "idle" => status'[c] # "idle"
  BY <1>1, <1>2 DEF HungUp, TypeOK
<1>8. BatchIsCurrent'
  <2>1. \A g \in batch' : g \in registered' /\ g \in Fd /\ g # fd
    BY <1>2 DEF BatchIsCurrent, TypeOK
  <2>2. \A g \in batch' : owner'[g] = owner[g] /\ (owner[g] = Listener => backlog # <<>>)
    BY <1>5, <2>1, MamServerAssumption DEF BatchIsCurrent, Readable
  <2>3. size' >= size /\ size' \in Nat
    BY <1>2 DEF TypeOK
  <2> QED
    BY <1>2, <1>7, <2>1, <2>2, <2>3, BatchKept
<1>9. ConnectionsDispatchable'
  <2> SUFFICES ASSUME NEW g \in Fd, owner'[g] \in Clients
               PROVE  /\ g \in registered' <=> g \in nodelay'
                      /\ g \in registered' => g \in fds' /\ g # serverFd'
    BY <1>2 DEF ConnectionsDispatchable
  <2>1. g # fd /\ owner[g] \in Clients /\ g # -1
    BY <1>5, MamServerAssumption DEF Fd
  <2> QED
    BY <1>2, <2>1 DEF ConnectionsDispatchable
<1>10. Fresh' /\ Accounts'
  BY <1>2 DEF Fresh, Accounts, RepliesAreOwed, Writing
<1>11. ServerSlot'
  <2>1. \A g \in nodelay' : owner'[g] \in Clients
    BY <1>2, <1>5 DEF ServerSlot, TypeOK
  <2>2. serverFd \in Fd => serverFd \in registered' /\ owner'[serverFd] \notin Clients
    BY <1>2, <1>5, MamServerAssumption DEF ServerSlot
  <2> QED
    BY <1>5, <2>1, <2>2, MamServerAssumption DEF ServerSlot
<1>12. OnePlace'
  <2>1. \A i \in 1 .. Len(backlog) : backlog[i] \in Clients
    BY ElementOfSeq DEF TypeOK
  <2> QED
    BY <1>5, <1>7, <2>1, MamServerAssumption DEF OnePlace
<1> QED
  BY <1>3, <1>4, <1>6, <1>8, <1>9, <1>10, <1>11, <1>12

(* Everything that has arrived is read; what its first line leads to.        *)
LEMMA ReadRequestIInv ==
  ASSUME IInv, NEW fd, ClientTurn(fd), ReadRequest(fd),
         NEW c, c = owner[fd], unread[c] # "nothing"
  PROVE  IInv'
<1> USE DEF IInv, ClientTurn
<1>1. /\ fd \in Fd /\ fd \in registered
      /\ c \in Clients /\ unread[c] # "nothing"
  BY ClientReady
<1>2. /\ taken' = [taken EXCEPT ![c] = @ + 1]
      /\ unread' = [unread EXCEPT ![c] = "nothing"]
      /\ UNCHANGED <<size, registered, noActive, interest, fds, owner, nodelay, status>>
      /\ \/ /\ pc' = "write" /\ wfd' = fd /\ left' = ReplyChunks
            /\ due' = [due EXCEPT ![c] = @ + 1]
         \/ pc' \in {"poll", "killed", "endless"} /\ UNCHANGED <<wfd, left, due>>
  BY DEF ReadRequest, HandleLine, BeginReply, tableVars
<1>3. /\ taken' \in [Clients -> Nat] /\ due' \in [Clients -> Nat]
      /\ unread' \in [Clients -> Lines \cup {"nothing"}]
  <2>1. taken' \in [Clients -> Nat] /\ unread' \in [Clients -> Lines \cup {"nothing"}]
    BY <1>1, <1>2 DEF TypeOK
  <2>2. due' = due \/ due' = [due EXCEPT ![c] = @ + 1]
    BY <1>2
  <2>3. due \in [Clients -> Nat] /\ due[c] + 1 \in Nat
    BY <1>1 DEF TypeOK
  <2>4. due' \in [Clients -> Nat]
    BY <2>2, <2>3
  <2> QED
    BY <2>1, <2>4
<1>4. TypeOK'
  <2>1. /\ pc' \in {"poll", "write", "killed", "endless"}
        /\ wfd' \in Fd \cup {-1} /\ left' \in 0 .. ReplyChunks
    <3>1. pc' = "write" \/ pc' \in {"poll", "killed", "endless"}
      BY <1>2
    <3>2. wfd' = fd \/ wfd' = wfd
      BY <1>2
    <3>3. left' = ReplyChunks \/ left' = left
      BY <1>2
    <3>4. wfd \in Fd \cup {-1} /\ left \in 0 .. ReplyChunks
      BY DEF TypeOK
    <3>5. ReplyChunks \in 0 .. ReplyChunks
      BY MamServerAssumption
    <3> QED
      BY <1>1, <3>1, <3>2, <3>3, <3>4, <3>5
  <2>2. /\ UNCHANGED <<size, registered, noActive, interest, fds, owner, nodelay, status>>
        /\ UNCHANGED <<serverFd, backlog, room, answered, arrived>>
        /\ batch' \subseteq batch
    BY <1>2
  <2>3. pc' \in {"start", "poll", "write", "exit", "killed", "endless"}
    BY <2>1
  <2> QED
    BY <1>3, <2>1, <2>2, <2>3 DEF TypeOK
<1>5. CountIsRegistered' /\ TableMatchesKernel' /\ ConnectionsDispatchable'
  BY <1>1, <1>2 DEF CountIsRegistered, TableMatchesKernel, ConnectionsDispatchable
<1>6. Fresh' /\ ServerSlot' /\ OnePlace'
  BY <1>2 DEF Fresh, ServerSlot, OnePlace
<1>7. BatchIsCurrent'
  <2>1. \A g \in batch' : g \in registered /\ g \in Fd /\ g # fd
    BY DEF BatchIsCurrent, TypeOK
  <2>2. \A g \in batch' : owner[g] \in Clients => owner[g] # c
    BY <1>1, <2>1 DEF OnePlace
  <2>3. \A g \in batch' : owner[g] \in Clients => unread'[owner[g]] = unread[owner[g]]
    BY <1>2, <2>2 DEF TypeOK
  <2>4. \A g \in batch' : owner[g] = Listener => backlog # <<>>
    BY MamServerAssumption DEF BatchIsCurrent, Readable
  <2>5. size' >= size /\ size' \in Nat
    BY <1>2 DEF TypeOK
  <2> QED
    BY <1>2, <2>1, <2>3, <2>4, <2>5, BatchKept DEF HungUp
<1>8. Accounts'
  <2>1. \A d \in Clients \ {c} :
          /\ taken'[d] = taken[d] /\ due'[d] = due[d] /\ unread'[d] = unread[d]
          /\ ~Writing(d) /\ ~Writing(d)'
    BY <1>1, <1>2 DEF TypeOK, Writing
  <2>2. taken'[c] = taken[c] + 1 /\ unread'[c] = "nothing" /\ ~Writing(c)
    BY <1>1, <1>2 DEF TypeOK, Writing
  <2>3. IF Writing(c)' THEN due'[c] = due[c] + 1 ELSE due'[c] = due[c]
    BY <1>1, <1>2 DEF TypeOK, Writing
  <2>4. pc' = "write" => left' > 0
    BY <1>2, MamServerAssumption
  <2>5. /\ answered' = answered /\ arrived' = arrived /\ status' = status
        /\ answered[c] \in Nat /\ due[c] \in Nat /\ taken[c] \in Nat /\ arrived[c] \in Nat
    BY <1>1, <1>2 DEF TypeOK
  <2>6. /\ answered[c] <= due[c] /\ due[c] <= taken[c] /\ taken[c] < arrived[c]
        /\ status[c] # "gone" => due[c] = answered[c]
    BY <1>1, <2>2, <2>5 DEF Accounts, RepliesAreOwed
  <2>7. /\ answered[c] <= due'[c] /\ due'[c] <= taken'[c] /\ taken'[c] <= arrived[c]
        /\ status[c] # "gone" => due'[c] = answered[c] + (IF Writing(c)' THEN 1 ELSE 0)
        /\ Writing(c)' => answered[c] < due'[c]
    BY <2>2, <2>3, <2>5, <2>6
  <2>8. RepliesAreOwed'
    <3> SUFFICES ASSUME NEW d \in Clients
                 PROVE  /\ answered'[d] <= due'[d] /\ due'[d] <= taken'[d]
                        /\ taken'[d] <= arrived'[d]
                        /\ status'[d] # "gone" =>
                             due'[d] = answered'[d] + (IF Writing(d)' THEN 1 ELSE 0)
      BY DEF RepliesAreOwed
    <3>1. CASE d = c
      BY <2>5, <2>7, <3>1
    <3>2. CASE d # c
      BY <2>1, <2>5, <3>2 DEF Accounts, RepliesAreOwed
    <3> QED
      BY <3>1, <3>2
  <2> QED
    BY <2>1, <2>2, <2>4, <2>5, <2>7, <2>8 DEF Accounts
<1> QED
  BY <1>4, <1>5, <1>6, <1>7, <1>8

-----------------------------------------------------------------------------
(* One turn of poll().                                                       *)
LEMMA DispatchIInv ==
  ASSUME IInv, Dispatch
  PROVE  IInv'
<1>1. PICK fd \in batch :
        /\ pc = "poll" /\ batch' = batch \ {fd}
        /\ \/ UNCHANGED <<tableVars, engineVars, kernelVars, countVars, clientVars>>
           \/ fd \notin registered
           \/ fd = serverFd /\ HandleServer
           \/ fd # serverFd /\ HandleClient(fd)
  BY DEF Dispatch
<1>2. fd \in registered
  BY DEF IInv, BatchIsCurrent
<1>3. CASE UNCHANGED <<tableVars, engineVars, kernelVars, countVars, clientVars>>
  <2> USE <1>1, <1>3 DEF IInv, tableVars, engineVars, kernelVars, countVars, clientVars
  <2>1. TypeOK' /\ BatchIsCurrent' /\ OnePlace' /\ Accounts'
    BY DEF TypeOK, BatchIsCurrent, Readable, HungUp, OnePlace, Accounts, RepliesAreOwed, Writing
  <2>2. CountIsRegistered' /\ TableMatchesKernel' /\ ConnectionsDispatchable'
    BY DEF CountIsRegistered, TableMatchesKernel, ConnectionsDispatchable
  <2>3. Fresh' /\ ServerSlot'
    BY DEF Fresh, ServerSlot
  <2> QED
    BY <2>1, <2>2, <2>3
<1>4. CASE fd = serverFd /\ HandleServer
  <2>1. ServerTurn /\ (AcceptNothing \/ AcceptClient \/ AcceptAndClose \/ AcceptAndLeak)
    BY <1>1, <1>4 DEF HandleServer, ServerTurn
  <2> QED
    BY <2>1, AcceptNothingIInv, AcceptClientIInv, AcceptAndCloseIInv, AcceptAndLeakIInv
<1>5. CASE fd # serverFd /\ HandleClient(fd)
  <2>1. ClientTurn(fd) /\ IF unread[owner[fd]] = "nothing" THEN CloseClient(fd) ELSE ReadRequest(fd)
    BY <1>1, <1>5 DEF HandleClient, ClientTurn
  <2>2. CASE unread[owner[fd]] = "nothing"
    BY <2>1, <2>2, CloseClientIInv
  <2>3. CASE unread[owner[fd]] # "nothing"
    BY <2>1, <2>3, ReadRequestIInv
  <2> QED
    BY <2>2, <2>3
<1> QED
  BY <1>1, <1>2, <1>3, <1>4, <1>5

(* Every step keeps the invariant.                                           *)
LEMMA StepIInv == IInv /\ [Next]_vars => IInv'
<1> SUFFICES ASSUME IInv, [Next]_vars PROVE IInv'
  OBVIOUS
<1>1. CASE Server
  BY <1>1, StartIInv, ReturnIInv, EpollWaitIInv, DispatchIInv, WriteIInv DEF Server
<1>2. ASSUME NEW c \in Clients, Client(c) PROVE IInv'
  BY <1>2, ConnectIInv, SendIInv, DrainIInv, HangUpIInv DEF Client
<1>3. CASE UNCHANGED vars
  <2> USE <1>3 DEF IInv, vars, muxVars, tableVars, engineVars, kernelVars, countVars, clientVars
  <2>1. TypeOK' /\ BatchIsCurrent' /\ OnePlace' /\ Accounts'
    BY DEF TypeOK, BatchIsCurrent, Readable, HungUp, OnePlace, Accounts, RepliesAreOwed, Writing
  <2>2. CountIsRegistered' /\ TableMatchesKernel' /\ ConnectionsDispatchable'
    BY DEF CountIsRegistered, TableMatchesKernel, ConnectionsDispatchable
  <2>3. Fresh' /\ ServerSlot'
    BY DEF Fresh, ServerSlot
  <2> QED
    BY <2>1, <2>2, <2>3
<1> QED
  BY <1>1, <1>2, <1>3 DEF Next

LEMMA SpecIInv == Spec => []IInv
BY InitIInv, StepIInv, PTL DEF Spec

-----------------------------------------------------------------------------
(* The server's variables keep their types.                                  *)
THEOREM TypeCorrect == Spec => []TypeOK
<1>1. IInv => TypeOK
  BY DEF IInv
<1> QED
  BY <1>1, SpecIInv, PTL

(* _no_active_fd is the number of handlers, so run() returns only when the   *)
(* table is empty.                                                           *)
THEOREM NoDrift == Spec => []CountIsRegistered
<1>1. IInv => CountIsRegistered
  BY DEF IInv
<1> QED
  BY <1>1, SpecIInv, PTL

(* The handler table and the kernel's interest list agree.                   *)
THEOREM TableAgrees == Spec => []TableMatchesKernel
<1>1. IInv => TableMatchesKernel
  BY DEF IInv
<1> QED
  BY <1>1, SpecIInv, PTL

(* No event is stale when it is dispatched, so poll() calls no null handler  *)
(* and read_tcp_fd closes no healthy connection.                             *)
THEOREM NoStaleEvent == Spec => []BatchIsCurrent
<1>1. IInv => BatchIsCurrent
  BY DEF IInv
<1> QED
  BY <1>1, SpecIInv, PTL

(* A connection is served exactly if its socket was fully set up.            *)
THEOREM SetUpIsServed == Spec => []ConnectionsDispatchable
<1>1. IInv => ConnectionsDispatchable
  BY DEF IInv
<1> QED
  BY <1>1, SpecIInv, PTL

(* Every read that the server begins to answer is answered once and in full, *)
(* unless its client reset the connection, and no read is made of nothing.   *)
THEOREM OneReplyPerRead == Spec => []RepliesAreOwed
<1>1. IInv => RepliesAreOwed
  BY DEF IInv, Accounts
<1> QED
  BY <1>1, SpecIInv, PTL

(* Only a client that hung up, and has nothing left to be read, loses its    *)
(* descriptor.                                                               *)
LEMMA StepCloses ==
  ASSUME IInv, [Next]_vars, NEW fd \in Fd,
         owner[fd] \in Clients, owner'[fd] # owner[fd]
  PROVE  /\ owner'[fd] = Free /\ HungUp(owner[fd]) /\ unread[owner[fd]] = "nothing"
<1>1. ASSUME owner' = owner PROVE FALSE
  BY <1>1
<1>2. ASSUME Start PROVE FALSE
  <2>1. pc = "start"
    BY <1>2 DEF Start, StartWithoutSocket, StartListening, StartDeaf
  <2> QED
    BY <2>1, MamServerAssumption DEF IInv, Fresh
<1>3. ASSUME ~Dispatch PROVE FALSE
  <2>1. CASE Server
    BY <1>1, <1>2, <1>3, <2>1
    DEF Server, RunReturns, EpollWait, Write, WriteChunk, WriteFails, WriteKills, kernelVars
  <2>2. CASE \E c \in Clients : Client(c)
    BY <1>1, <2>2 DEF Client, Connect, Send, Drain, HalfClose, Reset, kernelVars
  <2>3. CASE UNCHANGED vars
    BY <1>1, <2>3 DEF vars, kernelVars
  <2> QED
    BY <2>1, <2>2, <2>3 DEF Next
<1>4. PICK g \in batch :
        /\ pc = "poll" /\ batch' = batch \ {g}
        /\ (g = serverFd /\ HandleServer) \/ (g # serverFd /\ HandleClient(g))
  <2>1. PICK g \in batch :
          /\ pc = "poll" /\ batch' = batch \ {g}
          /\ \/ UNCHANGED kernelVars
             \/ g = serverFd /\ HandleServer
             \/ g # serverFd /\ HandleClient(g)
    BY <1>3 DEF Dispatch
  <2>2. ~ UNCHANGED kernelVars
    BY <1>1 DEF kernelVars
  <2> QED
    BY <2>1, <2>2
<1>5. ASSUME HandleServer PROVE FALSE
  <2>1. owner' = [owner EXCEPT ![NewFd] = Head(backlog)] /\ FreeFds # {}
    BY <1>1, <1>5 DEF HandleServer, AcceptNothing, AcceptClient, AcceptAndClose, AcceptAndLeak
  <2>2. NewFd # fd
    BY <2>1, NewFdIsFree, MamServerAssumption
  <2> QED
    BY <2>1, <2>2 DEF IInv, TypeOK
<1>6. ClientTurn(g) /\ CloseClient(g) /\ unread[owner[g]] = "nothing"
  BY <1>1, <1>4, <1>5 DEF HandleClient, ReadRequest, ClientTurn
<1>7. owner' = [owner EXCEPT ![g] = Free] /\ HungUp(owner[g]) /\ g \in Fd
  BY <1>1, <1>6, ClientReady DEF CloseClient
<1> QED
  BY <1>6, <1>7 DEF IInv, TypeOK

THEOREM ClosesHungUp == Spec => ClosesOnlyHungUp
<1>1. IInv /\ [Next]_vars =>
        [\A fd \in Fd :
           owner[fd] \in Clients /\ owner'[fd] # owner[fd]
             => /\ owner'[fd] = Free
                /\ HungUp(owner[fd])
                /\ unread[owner[fd]] = "nothing"]_vars
  BY StepCloses
<1> QED
  BY <1>1, SpecIInv, PTL DEF Spec, ClosesOnlyHungUp
=============================================================================
