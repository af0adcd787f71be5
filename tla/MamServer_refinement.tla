------------------------- MODULE MamServer_refinement -------------------------
(***************************************************************************)
(* The event server implements MamService: under the refinement mapping of *)
(* MamServer, its initial states are initial states of the service, and    *)
(* every step is a step of the service or changes nothing the clients see. *)
(***************************************************************************)
EXTENDS MamServer_proofs

(* Nobody has connected to an engine that has no listening socket.           *)
Arrivals == serverFd = -1 => \A c \in Clients : status[c] = "idle"

RInv == IInv /\ Arrivals

Queued(c) == \E i \in DOMAIN backlog : backlog[i] = c

(* The four phases exclude one another.                                      *)
Phases ==
  \A c \in Clients :
    /\ Connected(c) => ~Queued(c) /\ status[c] # "idle" /\ Phase(c) = "served"
    /\ Queued(c) => ~Connected(c) /\ status[c] # "idle" /\ Phase(c) = "waiting"
    /\ status[c] = "idle" => Phase(c) = "away"
    /\ ~Connected(c) /\ ~Queued(c) /\ status[c] # "idle" => Phase(c) = "left"

LEMMA PhasesExclude == IInv => Phases
<1> SUFFICES ASSUME IInv, NEW c \in Clients
             PROVE  /\ Connected(c) => ~Queued(c) /\ status[c] # "idle" /\ Phase(c) = "served"
                    /\ Queued(c) => ~Connected(c) /\ status[c] # "idle" /\ Phase(c) = "waiting"
                    /\ status[c] = "idle" => Phase(c) = "away"
                    /\ ~Connected(c) /\ ~Queued(c) /\ status[c] # "idle" => Phase(c) = "left"
  BY DEF Phases
<1>1. registered \subseteq Fd /\ DOMAIN backlog = 1 .. Len(backlog)
  BY LenProperties DEF IInv, TypeOK
<1>2. Connected(c) => ~Queued(c) /\ status[c] # "idle"
  BY <1>1 DEF Connected, Queued, IInv, OnePlace
<1>3. Queued(c) => ~Connected(c) /\ status[c] # "idle"
  BY <1>1 DEF Connected, Queued, IInv, OnePlace
<1>4. Phase(c) = CASE Connected(c)       -> "served"
                   [] Queued(c)          -> "waiting"
                   [] status[c] = "idle" -> "away"
                   [] OTHER              -> "left"
  BY DEF Phase, Queued
<1> QED
  BY <1>2, <1>3, <1>4

LEMMA PhasesExcludeNext == IInv' => Phases'
BY PhasesExclude, PTL

(* A client whose place did not change is in the same phase.                 *)
LEMMA PhaseKept ==
  ASSUME IInv, IInv', NEW c \in Clients,
         Connected(c)' <=> Connected(c), Queued(c)' <=> Queued(c),
         status'[c] = "idle" <=> status[c] = "idle"
  PROVE  Phase(c)' = Phase(c)
<1>1. Phases /\ Phases'
  BY PhasesExclude, PhasesExcludeNext
<1> QED
  BY <1>1 DEF Phases

(* Whose unread bytes begin with a line that cannot be read.                 *)
Garbled == {c \in Clients : unread[c] \in Unreadable}

LEMMA GarbledKept ==
  ASSUME UNCHANGED unread
  PROVE  Garbled' = Garbled
BY DEF Garbled

(* What the clients see of a step that moves none of them.                   *)
LEMMA Unseen ==
  ASSUME IInv, IInv',
         UNCHANGED <<registered, owner, backlog, status, arrived, answered>>,
         Garbled' = Garbled, Down' <=> Down
  PROVE  UNCHANGED Service!serviceVars
<1>1. \A c \in Clients : Phase(c)' = Phase(c)
  BY PhaseKept DEF Connected, Queued
<1>2. [c \in Clients |-> Phase(c)]' = [c \in Clients |-> Phase(c)]
  BY <1>1
<1>3. {c \in Clients : HungUp(c)}' = {c \in Clients : HungUp(c)}
  BY DEF HungUp
<1>4. (~Down)' = ~Down
  BY DEF Down
<1> QED
  BY <1>2, <1>3, <1>4 DEF Service!serviceVars, Garbled

-----------------------------------------------------------------------------
LEMMA InitService == Init => Service!ServiceInit
<1> SUFFICES ASSUME Init PROVE Service!ServiceInit
  OBVIOUS
<1> USE DEF Init, MuxInit
<1>1. ASSUME NEW c \in Clients PROVE Phase(c) = "away" /\ ~HungUp(c)
  <2>1. ~Connected(c) /\ ~(\E i \in DOMAIN backlog : backlog[i] = c) /\ status[c] = "idle"
    BY DEF Connected
  <2> QED
    BY <2>1 DEF Phase, HungUp
<1>2. [c \in Clients |-> Phase(c)] = [c \in Clients |-> "away"]
  BY <1>1
<1>3. {c \in Clients : HungUp(c)} = {}
  BY <1>1
<1>4. ~Down = TRUE
  BY DEF Down
<1>5. Garbled = {}
  BY DEF Garbled, Unreadable
<1> QED
  BY <1>2, <1>3, <1>4, <1>5 DEF Service!ServiceInit, Garbled

LEMMA InitRInv == Init => RInv
BY InitIInv DEF RInv, Arrivals, Init

(* A client that is not idle has a listening socket to thank for it.         *)
LEMMA StepRInv == RInv /\ [Next]_vars => RInv'
<1> SUFFICES ASSUME RInv, [Next]_vars PROVE Arrivals'
  BY StepIInv DEF RInv
<1> USE DEF RInv, Arrivals
<1>1. CASE UNCHANGED <<serverFd, status>>
  BY <1>1
<1>2. CASE Start
  BY <1>2 DEF Start, StartWithoutSocket, StartListening, StartDeaf, clientVars, IInv, Fresh
<1>3. ASSUME serverFd \in Fd, UNCHANGED serverFd PROVE Arrivals'
  BY <1>3, MamServerAssumption DEF Fd
<1>4. CASE Dispatch
  <2>1. PICK fd \in batch :
          /\ pc = "poll"
          /\ \/ UNCHANGED <<serverFd, status>>
             \/ fd = serverFd /\ HandleServer
             \/ fd # serverFd /\ HandleClient(fd)
    BY <1>4 DEF Dispatch, engineVars, clientVars
  <2>2. fd \in Fd /\ Readable(fd)
    BY DEF IInv, TypeOK, BatchIsCurrent
  <2>3. CASE fd = serverFd /\ HandleServer
    BY <1>3, <2>2, <2>3 DEF HandleServer
  <2>4. CASE fd # serverFd /\ HandleClient(fd)
    <3>1. owner[fd] \in Clients
      BY <2>2, <2>4 DEF Readable, IInv, ServerSlot
    <3>2. serverFd # -1
      BY <2>2, <3>1 DEF IInv, OnePlace
    <3> QED
      BY <2>4, <3>2 DEF HandleClient
  <2> QED
    BY <1>1, <2>1, <2>3, <2>4
<1>5. CASE RunReturns \/ EpollWait \/ Write
  BY <1>1, <1>5 DEF RunReturns, EpollWait, Write, WriteChunk, WriteFails, WriteKills,
                    engineVars, clientVars
<1>6. ASSUME NEW c \in Clients, Client(c) PROVE Arrivals'
  <2>1. CASE Connect(c)
    <3>1. PICK fd \in Fd : owner[fd] = Listener
      BY <2>1 DEF Connect
    <3>2. serverFd \in Fd
      BY <3>1 DEF IInv, ServerSlot
    <3> QED
      BY <1>3, <2>1, <3>2 DEF Connect, engineVars
  <2>2. CASE \E first \in Lines : Send(c, first)
    BY <1>1, <2>2 DEF Send, engineVars
  <2>3. CASE Drain(c)
    BY <1>1, <2>3 DEF Drain, engineVars, clientVars
  <2>4. CASE HalfClose(c) \/ Reset(c)
    <3>1. serverFd' = serverFd /\ status[c] # "idle"
      BY <2>4 DEF HalfClose, Reset, engineVars
    <3> QED
      BY <3>1
  <2> QED
    BY <1>6, <2>1, <2>2, <2>3, <2>4 DEF Client
<1>7. CASE UNCHANGED vars
  BY <1>1, <1>7 DEF vars, engineVars, clientVars
<1> QED
  BY <1>2, <1>4, <1>5, <1>6, <1>7 DEF Next, Server
-----------------------------------------------------------------------------
(* The steps of the engine outside poll().                                   *)
LEMMA StartIsUnseen ==
  ASSUME RInv, RInv', Start
  PROVE  UNCHANGED Service!serviceVars
<1>1. UNCHANGED <<backlog, status, arrived, unread, answered>> /\ pc = "start" /\ pc' = "poll"
  BY DEF Start, StartWithoutSocket, StartListening, StartDeaf, kernelVars, countVars, clientVars
<1>2. \A fd \in registered' : fd = serverFd'
  <2>1. registered = {}
    BY <1>1 DEF RInv, IInv, Fresh
  <2>2. CASE StartWithoutSocket
    BY <2>1, <2>2 DEF StartWithoutSocket, muxVars
  <2>3. CASE StartListening
    BY <2>1, <2>3 DEF StartListening, RegisterFd, tableVars
  <2>4. CASE StartDeaf
    BY <2>1, <2>4 DEF StartDeaf
  <2> QED
    BY <2>2, <2>3, <2>4 DEF Start
<1>3. ASSUME NEW c \in Clients PROVE Phase(c)' = Phase(c)
  <2>1. ~Connected(c)
    BY <1>1 DEF RInv, IInv, Fresh, Connected
  <2>2. ~Connected(c)'
    BY <1>2, MamServerAssumption DEF RInv, IInv, ServerSlot, TypeOK, Connected
  <2>3. Queued(c)' <=> Queued(c)
    BY <1>1 DEF Queued
  <2> QED
    BY <1>1, <2>1, <2>2, <2>3, PhaseKept DEF RInv
<1>4. [c \in Clients |-> Phase(c)]' = [c \in Clients |-> Phase(c)]
  BY <1>3
<1>5. {c \in Clients : HungUp(c)}' = {c \in Clients : HungUp(c)}
  BY <1>1 DEF HungUp
<1>6. (~Down)' = ~Down
  BY <1>1 DEF Down
<1>7. Garbled' = Garbled
  BY <1>1, GarbledKept
<1> QED
  BY <1>1, <1>4, <1>5, <1>6, <1>7 DEF Service!serviceVars, Garbled

(* run() returns with an empty table only if the listening socket could not  *)
(* be had: a socket that was registered is never unregistered.               *)
LEMMA ReturnEnds ==
  ASSUME RInv, RInv', RunReturns
  PROVE  Service!End
<1>1. registered = {}
  <2>1. Cardinality(registered) = 0
    BY DEF RunReturns, RInv, IInv, CountIsRegistered
  <2> QED
    BY <2>1, RegisteredFinite, FS_EmptySet DEF RInv, IInv, TypeOK
<1>2. serverFd = -1
  BY <1>1 DEF RInv, IInv, ServerSlot, TypeOK
<1>3. \A c \in Clients : Phase(c) = "away"
  <2>1. \A c \in Clients : status[c] = "idle"
    BY <1>2 DEF RInv, Arrivals
  <2> QED
    BY <2>1, PhasesExclude DEF RInv, Phases
<1>4. \A c \in Clients : [d \in Clients |-> Phase(d)][c] = "away"
  BY <1>3
<1>5. /\ UNCHANGED <<registered, owner, backlog, status, arrived, unread, answered>>
      /\ ~Down /\ Down'
  BY DEF RunReturns, muxVars, tableVars, kernelVars, countVars, clientVars, Down
<1>6. \A c \in Clients : Phase(c)' = Phase(c)
  BY <1>5, PhaseKept DEF Connected, Queued, RInv
<1>7. [c \in Clients |-> Phase(c)]' = [c \in Clients |-> Phase(c)]
  BY <1>6
<1>8. {c \in Clients : HungUp(c)}' = {c \in Clients : HungUp(c)}
  BY <1>5 DEF HungUp
<1>9. Garbled' = Garbled
  BY <1>5, GarbledKept
<1> QED
  BY <1>4, <1>5, <1>7, <1>8, <1>9 DEF Service!End, Garbled

LEMMA EpollWaitIsUnseen ==
  ASSUME RInv, RInv', EpollWait
  PROVE  UNCHANGED Service!serviceVars
BY Unseen, GarbledKept DEF RInv, EpollWait, tableVars, engineVars, kernelVars, countVars, clientVars, Down

(* The chunk that ends a reply is the reply; a failed write shows nothing,   *)
(* and SIGPIPE ends the service because a client broke its connection.       *)
LEMMA WriteReplies ==
  ASSUME RInv, RInv', Write
  PROVE  Service!ServiceNext \/ UNCHANGED Service!serviceVars
<1>0. PICK c : c = owner[wfd]
  OBVIOUS
<1>1. pc = "write" /\ wfd \in registered /\ c \in Clients
  BY <1>0 DEF Write, WriteChunk, WriteFails, WriteKills, RInv, IInv, ConnectionsDispatchable
<1>2. UNCHANGED <<registered, owner, backlog, status, arrived, unread>>
  BY DEF Write, WriteChunk, WriteFails, WriteKills, muxVars, kernelVars, clientVars
<1>3. \A d \in Clients : Phase(d)' = Phase(d)
  BY <1>2, PhaseKept DEF Connected, Queued, RInv
<1>4. [d \in Clients |-> Phase(d)]' = [d \in Clients |-> Phase(d)]
  BY <1>3
<1>5. {d \in Clients : HungUp(d)}' = {d \in Clients : HungUp(d)}
  BY <1>2 DEF HungUp
<1>10. Garbled' = Garbled
  BY <1>2, GarbledKept
<1>11. Phase(c) = "served"
  BY <1>0, <1>1, PhasesExclude DEF RInv, Phases, Connected
<1>12. [d \in Clients |-> Phase(d)][c] = "served"
  BY <1>1, <1>11
<1>13. answered[c] < arrived[c]
  <2>1. /\ answered[c] < due[c] /\ due[c] <= taken[c] /\ taken[c] <= arrived[c]
        /\ answered[c] \in Nat /\ due[c] \in Nat /\ taken[c] \in Nat /\ arrived[c] \in Nat
    BY <1>0, <1>1 DEF RInv, IInv, Accounts, RepliesAreOwed, Writing, TypeOK
  <2> QED
    BY <2>1
<1>6. CASE WriteChunk /\ left = 1
  <2>1. answered' = [answered EXCEPT ![c] = @ + 1] /\ ~Down /\ ~Down'
    BY <1>0, <1>6 DEF WriteChunk, Down
  <2>2. Service!Reply(c)
    BY <1>2, <1>4, <1>5, <1>10, <1>12, <1>13, <2>1 DEF Service!Reply, Garbled
  <2> QED
    BY <1>1, <2>2 DEF Service!ServiceNext
<1>7. CASE (WriteChunk /\ left # 1) \/ WriteFails
  <2>1. UNCHANGED answered /\ (Down' <=> Down)
    BY <1>7 DEF WriteChunk, WriteFails, countVars, Down
  <2> QED
    BY <1>2, <1>10, <2>1, Unseen DEF RInv
<1>8. CASE WriteKills
  <2>1. c \in {d \in Clients : HungUp(d)}
    BY <1>0, <1>1, <1>8 DEF WriteKills, HungUp
  <2>2. UNCHANGED answered /\ ~Down /\ Down'
    BY <1>8 DEF WriteKills, countVars, Down
  <2>3. Service!Breaks(c)
    BY <1>12, <1>13, <2>1 DEF Service!Breaks
  <2>4. Service!End
    BY <1>1, <1>2, <1>4, <1>5, <1>10, <2>2, <2>3 DEF Service!End, Garbled
  <2> QED
    BY <2>4 DEF Service!ServiceNext
<1> QED
  BY <1>6, <1>7, <1>8 DEF Write
-----------------------------------------------------------------------------
(* A turn of the listening socket.  The client at the head of the queue      *)
(* leaves it, and nobody else moves.                                         *)
LEMMA HeadLeaves ==
  ASSUME IInv, backlog # <<>>, backlog' = Tail(backlog), NEW h, h = Head(backlog)
  PROVE  /\ h \in Clients /\ Queued(h) /\ ~Queued(h)'
         /\ \A fd \in Fd : owner[fd] # h
         /\ \A c \in Clients \ {h} : Queued(c)' <=> Queued(c)
<1>1. /\ h = backlog[1] /\ h \in Clients
      /\ backlog \in Seq(Clients) /\ backlog' \in Seq(Clients)
      /\ Len(backlog) \in Nat \ {0} /\ Len(backlog') = Len(backlog) - 1
      /\ \A i \in 1 .. Len(backlog') : backlog'[i] = backlog[i + 1] /\ backlog'[i] # h
  BY QueueShorter DEF IInv, TypeOK
<1>2. DOMAIN backlog = 1 .. Len(backlog) /\ DOMAIN backlog' = 1 .. Len(backlog')
  BY <1>1, LenProperties
<1>3. Queued(h) /\ ~Queued(h)'
  BY <1>1, <1>2 DEF Queued
<1>4. \A fd \in Fd : owner[fd] # h
  BY <1>1 DEF IInv, OnePlace
<1>5. ASSUME NEW c \in Clients \ {h} PROVE Queued(c)' <=> Queued(c)
  <2>1. ASSUME NEW i \in DOMAIN backlog', backlog'[i] = c PROVE Queued(c)
    <3>1. i + 1 \in DOMAIN backlog /\ backlog[i + 1] = c
      BY <1>1, <1>2, <2>1
    <3> QED
      BY <3>1 DEF Queued
  <2>2. ASSUME NEW i \in DOMAIN backlog, backlog[i] = c PROVE Queued(c)'
    <3>1. i - 1 \in DOMAIN backlog' /\ backlog'[i - 1] = c
      BY <1>1, <1>2, <2>2
    <3> QED
      BY <3>1 DEF Queued
  <2> QED
    BY <2>1, <2>2 DEF Queued
<1> QED
  BY <1>1, <1>3, <1>4, <1>5

LEMMA AcceptNothingIsUnseen ==
  ASSUME RInv, RInv', ServerTurn, AcceptNothing
  PROVE  UNCHANGED Service!serviceVars
BY Unseen, GarbledKept DEF RInv, ServerTurn, AcceptNothing, RegisterFd, tableVars, countVars, Down

LEMMA AcceptAdmits ==
  ASSUME RInv, RInv', ServerTurn, AcceptClient, NEW h, h = Head(backlog)
  PROVE  Service!Admit(h)
<1>1. NewFd \in Fd /\ owner[NewFd] = Free /\ NewFd \in Nat
  BY NewFdIsFree, MamServerAssumption DEF AcceptClient, Fd
<1>2. /\ owner' = [owner EXCEPT ![NewFd] = h] /\ registered' = registered \cup {NewFd}
      /\ backlog # <<>> /\ backlog' = Tail(backlog)
      /\ UNCHANGED <<pc, status, arrived, unread, answered>> /\ pc = "poll"
  BY <1>1 DEF AcceptClient, RegisterFd, ServerTurn, countVars
<1>3. /\ h \in Clients /\ Queued(h) /\ ~Queued(h)'
      /\ \A fd \in Fd : owner[fd] # h
      /\ \A c \in Clients \ {h} : Queued(c)' <=> Queued(c)
  BY <1>2, HeadLeaves DEF RInv
<1>4. owner'[NewFd] = h /\ \A fd \in Fd \ {NewFd} : owner'[fd] = owner[fd]
  BY <1>1, <1>2 DEF RInv, IInv, TypeOK
<1>5. registered \subseteq Fd /\ registered' \subseteq Fd
  BY DEF RInv, IInv, TypeOK
<1>6. Phase(h)' = "served"
  <2>1. Connected(h)'
    BY <1>2, <1>4 DEF Connected
  <2> QED
    BY <1>3, <2>1, PhasesExcludeNext DEF RInv, Phases
<1>7. ASSUME NEW c \in Clients \ {h} PROVE Phase(c)' = Phase(c)
  <2>1. Connected(c)' <=> Connected(c)
    BY <1>1, <1>2, <1>4, <1>5, <1>7, MamServerAssumption DEF Connected
  <2> QED
    BY <1>2, <1>3, <2>1, PhaseKept DEF RInv
<1>8. [c \in Clients |-> Phase(c)]' = [[c \in Clients |-> Phase(c)] EXCEPT ![h] = "served"]
  BY <1>6, <1>7
<1>9. {c \in Clients : HungUp(c)}' = {c \in Clients : HungUp(c)}
  BY <1>2 DEF HungUp
<1>10. ~Down /\ ~Down'
  BY <1>2 DEF Down
<1>11. Garbled' = Garbled
  BY <1>2, GarbledKept
<1> QED
  BY <1>2, <1>8, <1>9, <1>10, <1>11 DEF Service!Admit, Garbled

(* Both failures of an accepted socket turn the client away: one closes the  *)
(* connection, the other keeps a descriptor that no handler serves.          *)
LEMMA AcceptTurnsAway ==
  ASSUME RInv, RInv', ServerTurn, AcceptAndClose \/ AcceptAndLeak,
         NEW h, h = Head(backlog)
  PROVE  Service!TurnAway(h)
<1>1. /\ backlog # <<>> /\ backlog' = Tail(backlog)
      /\ UNCHANGED <<registered, pc, arrived, unread, answered>> /\ pc = "poll"
  BY DEF AcceptAndClose, AcceptAndLeak, RegisterFd, tableVars, ServerTurn, countVars
<1>2. /\ h \in Clients /\ Queued(h) /\ ~Queued(h)'
      /\ \A fd \in Fd : owner[fd] # h
      /\ \A c \in Clients \ {h} : Queued(c)' <=> Queued(c)
  BY <1>1, HeadLeaves DEF RInv
<1>3. \A fd \in registered : owner'[fd] = owner[fd]
  <2>1. CASE AcceptAndClose
    BY <2>1 DEF AcceptAndClose
  <2>2. CASE AcceptAndLeak
    <3>1. owner' = [owner EXCEPT ![NewFd] = h] /\ NewFd \in Fd /\ owner[NewFd] = Free
      BY <2>2, NewFdIsFree DEF AcceptAndLeak
    <3>2. serverFd \in registered /\ owner[serverFd] = Listener
      BY ServerReady DEF RInv, ServerTurn
    <3>3. NewFd \notin registered
      BY <3>1, <3>2, MamServerAssumption DEF RInv, IInv, TableMatchesKernel
    <3> QED
      BY <3>1, <3>3 DEF RInv, IInv, TypeOK
  <2> QED
    BY <2>1, <2>2
<1>4. \/ status' = status
      \/ status' = [status EXCEPT ![h] = "gone"]
  BY DEF AcceptAndClose, AcceptAndLeak
<1>5. status[h] # "idle" /\ status'[h] # "idle"
  <2>1. status[h] # "idle"
    BY <1>2, PhasesExclude DEF RInv, Phases
  <2> QED
    BY <1>2, <1>4, <2>1 DEF RInv, IInv, TypeOK
<1>6. registered \subseteq Fd
  BY DEF RInv, IInv, TypeOK
<1>7. Phase(h)' = "left"
  <2>1. ~Connected(h)'
    BY <1>1, <1>2, <1>3, <1>6 DEF Connected
  <2> QED
    BY <1>2, <1>5, <2>1, PhasesExcludeNext DEF RInv, Phases
<1>8. ASSUME NEW c \in Clients \ {h} PROVE Phase(c)' = Phase(c) /\ status'[c] = status[c]
  <2>1. Connected(c)' <=> Connected(c)
    BY <1>1, <1>3 DEF Connected
  <2>2. status'[c] = status[c]
    BY <1>4 DEF RInv, IInv, TypeOK
  <2> QED
    BY <1>2, <2>1, <2>2, PhaseKept DEF RInv
<1>9. [c \in Clients |-> Phase(c)]' = [[c \in Clients |-> Phase(c)] EXCEPT ![h] = "left"]
  BY <1>7, <1>8
<1> DEFINE hung == {c \in Clients : HungUp(c)}
<1>10. hung' = hung \/ hung' = hung \cup {h}
  <2>1. CASE status' = status
    BY <2>1 DEF HungUp
  <2>2. CASE status' = [status EXCEPT ![h] = "gone"]
    <3>1. HungUp(h)'
      BY <1>2, <2>2 DEF HungUp, RInv, IInv, TypeOK
    <3>2. \A c \in Clients \ {h} : HungUp(c)' <=> HungUp(c)
      BY <1>8 DEF HungUp
    <3> QED
      BY <1>2, <3>1, <3>2
  <2> QED
    BY <1>4, <2>1, <2>2
<1>11. ~Down /\ ~Down'
  BY <1>1 DEF Down
<1>12. Garbled' = Garbled
  BY <1>1, GarbledKept
<1> QED
  BY <1>1, <1>9, <1>10, <1>11, <1>12 DEF Service!TurnAway, Garbled

-----------------------------------------------------------------------------
(* A turn of a client's descriptor.                                          *)
LEMMA CloseLetsGo ==
  ASSUME RInv, RInv', NEW fd, ClientTurn(fd), CloseClient(fd),
         NEW c, c = owner[fd], unread[c] = "nothing"
  PROVE  Service!LetGo(c)
<1>1. /\ fd \in Fd /\ fd \in Nat /\ fd < size /\ fd \in registered
      /\ c \in Clients /\ HungUp(c)
  BY ClientReady DEF RInv
<1>2. /\ registered' = registered \ {fd}
      /\ owner' = [owner EXCEPT ![fd] = Free]
      /\ status' = [status EXCEPT ![c] = "gone"]
      /\ UNCHANGED <<backlog, pc, arrived, unread, answered>> /\ pc = "poll"
  BY <1>1 DEF CloseClient, UnregisterFd, CanUnregister, ClientTurn
<1>3. Connected(c) /\ ~Queued(c) /\ ~Queued(c)' /\ Phase(c) = "served"
  <2>1. Connected(c)
    BY <1>1 DEF Connected
  <2>2. ~Queued(c) /\ Phase(c) = "served"
    BY <1>1, <2>1, PhasesExclude DEF RInv, Phases
  <2> QED
    BY <1>2, <2>1, <2>2 DEF Queued
<1>4. registered \subseteq Fd /\ \A g \in Fd \ {fd} : owner'[g] = owner[g] /\ owner[g] # c
  <2>1. registered \subseteq Fd /\ \A g \in Fd \ {fd} : owner'[g] = owner[g]
    BY <1>1, <1>2 DEF RInv, IInv, TypeOK
  <2>2. \A g \in Fd \ {fd} : owner[g] # c
    BY <1>1 DEF RInv, IInv, OnePlace
  <2> QED
    BY <2>1, <2>2
<1>5. status'[c] = "gone" /\ \A d \in Clients \ {c} : status'[d] = status[d]
  BY <1>1, <1>2 DEF RInv, IInv, TypeOK
<1>6. Phase(c)' = "left"
  <2>1. ~Connected(c)'
    BY <1>2, <1>4 DEF Connected
  <2> QED
    BY <1>1, <1>3, <1>5, <2>1, PhasesExcludeNext DEF RInv, Phases
<1>7. ASSUME NEW d \in Clients \ {c} PROVE Phase(d)' = Phase(d)
  <2>1. Connected(d)' <=> Connected(d)
    BY <1>1, <1>2, <1>4, <1>7 DEF Connected
  <2>2. Queued(d)' <=> Queued(d)
    BY <1>2 DEF Queued
  <2> QED
    BY <1>5, <2>1, <2>2, PhaseKept DEF RInv
<1>8. {d \in Clients : HungUp(d)}' = {d \in Clients : HungUp(d)}
  <2>1. \A d \in Clients : HungUp(d)' <=> HungUp(d)
    BY <1>1, <1>5 DEF HungUp
  <2> QED
    BY <2>1
<1>9. ~Down /\ ~Down'
  BY <1>2 DEF Down
<1>10. c \in {d \in Clients : HungUp(d)}
  BY <1>1
<1>11. [d \in Clients |-> Phase(d)]' = [[d \in Clients |-> Phase(d)] EXCEPT ![c] = "left"]
  BY <1>6, <1>7
<1>12. [d \in Clients |-> Phase(d)][c] = "served"
  BY <1>1, <1>3
<1>13. Garbled' = Garbled
  BY <1>2, GarbledKept
<1> QED
  BY <1>2, <1>8, <1>9, <1>10, <1>11, <1>12, <1>13 DEF Service!LetGo, Garbled

(* A line that can be read shows nothing until it is answered; one that      *)
(* cannot be is passed over, or ends the service.                            *)
LEMMA ReadServes ==
  ASSUME RInv, RInv', NEW fd, ClientTurn(fd), ReadRequest(fd),
         NEW c, c = owner[fd]
  PROVE  Service!ServiceNext \/ UNCHANGED Service!serviceVars
<1>1. UNCHANGED <<registered, owner, backlog, status, arrived, answered>>
  BY DEF ClientTurn, ReadRequest, tableVars
<1>2. c \in Clients /\ fd \in registered /\ pc = "poll"
  BY ClientReady DEF RInv, ClientTurn
<1>3. \/ pc' \in {"poll", "write"}
      \/ pc' \in {"killed", "endless"} /\ c \in Garbled
  BY <1>2 DEF ClientTurn, ReadRequest, HandleLine, BeginReply, Garbled, Unreadable
<1>4. Garbled' = Garbled \ {c}
  <2>1. /\ unread'[c] = "nothing"
        /\ \A d \in Clients \ {c} : unread'[d] = unread[d]
    BY <1>2 DEF ReadRequest, RInv, IInv, TypeOK
  <2> QED
    BY <2>1 DEF Garbled, Unreadable
<1>5. [d \in Clients |-> Phase(d)]' = [d \in Clients |-> Phase(d)]
  <2>1. \A d \in Clients : Phase(d)' = Phase(d)
    BY <1>1, PhaseKept DEF Connected, Queued, RInv
  <2> QED
    BY <2>1
<1>6. {d \in Clients : HungUp(d)}' = {d \in Clients : HungUp(d)}
  BY <1>1 DEF HungUp
<1>7. [d \in Clients |-> Phase(d)][c] = "served"
  BY <1>2, PhasesExclude DEF RInv, Phases, Connected
<1>8. CASE pc' \in {"poll", "write"} /\ c \notin Garbled
  BY <1>1, <1>2, <1>4, <1>8, Unseen DEF RInv, Down
<1>9. CASE pc' \in {"poll", "write"} /\ c \in Garbled
  <2>1. ~Down /\ ~Down'
    BY <1>2, <1>9 DEF Down
  <2>2. Service!PassOver(c)
    BY <1>1, <1>4, <1>5, <1>6, <1>7, <1>9, <2>1 DEF Service!PassOver, Garbled
  <2> QED
    BY <1>2, <2>2 DEF Service!ServiceNext
<1>10. CASE pc' \in {"killed", "endless"} /\ c \in Garbled
  <2>1. ~Down /\ Down'
    BY <1>2, <1>10 DEF Down
  <2>2. Service!Breaks(c)
    BY <1>7, <1>10 DEF Service!Breaks, Garbled
  <2>3. Garbled' \subseteq Garbled
    BY <1>4
  <2>4. Service!End
    BY <1>1, <1>2, <1>5, <1>6, <2>1, <2>2, <2>3 DEF Service!End, Garbled
  <2> QED
    BY <2>4 DEF Service!ServiceNext
<1> QED
  BY <1>3, <1>8, <1>9, <1>10

LEMMA DispatchServes ==
  ASSUME RInv, RInv', Dispatch
  PROVE  Service!ServiceNext \/ UNCHANGED Service!serviceVars
<1>1. PICK fd \in batch :
        /\ pc = "poll" /\ batch' = batch \ {fd}
        /\ \/ UNCHANGED <<tableVars, engineVars, kernelVars, countVars, clientVars>>
           \/ fd \notin registered
           \/ fd = serverFd /\ HandleServer
           \/ fd # serverFd /\ HandleClient(fd)
  BY DEF Dispatch
<1>2. fd \in registered
  BY DEF RInv, IInv, BatchIsCurrent
<1>3. CASE UNCHANGED <<tableVars, engineVars, kernelVars, countVars, clientVars>>
  BY <1>3, Unseen, GarbledKept DEF RInv, tableVars, engineVars, kernelVars, countVars, clientVars, Down
<1>4. CASE fd = serverFd /\ HandleServer
  <2>1. ServerTurn /\ (AcceptNothing \/ AcceptClient \/ AcceptAndClose \/ AcceptAndLeak)
    BY <1>1, <1>4 DEF HandleServer, ServerTurn
  <2>2. CASE AcceptNothing
    BY <2>1, <2>2, AcceptNothingIsUnseen
  <2>3. CASE AcceptClient \/ AcceptAndClose \/ AcceptAndLeak
    <3> DEFINE h == Head(backlog)
    <3>1. h \in Clients
      BY <2>3, HeadLeaves DEF RInv, AcceptClient, AcceptAndClose, AcceptAndLeak
    <3>2. Service!Admit(h) \/ Service!TurnAway(h)
      BY <2>1, <2>3, AcceptAdmits, AcceptTurnsAway
    <3> QED
      BY <3>1, <3>2 DEF Service!ServiceNext
  <2> QED
    BY <2>1, <2>2, <2>3
<1>5. CASE fd # serverFd /\ HandleClient(fd)
  <2>1. ClientTurn(fd) /\ IF unread[owner[fd]] = "nothing" THEN CloseClient(fd) ELSE ReadRequest(fd)
    BY <1>1, <1>5 DEF HandleClient, ClientTurn
  <2>2. CASE unread[owner[fd]] = "nothing"
    <3>1. owner[fd] \in Clients
      BY <2>1, ClientReady DEF RInv
    <3>2. \A c : c = owner[fd] => Service!LetGo(c)
      BY <2>1, <2>2, CloseLetsGo
    <3> QED
      BY <3>1, <3>2 DEF Service!ServiceNext
  <2>3. CASE unread[owner[fd]] # "nothing"
    BY <2>1, <2>3, ReadServes
  <2> QED
    BY <2>2, <2>3
<1> QED
  BY <1>1, <1>2, <1>3, <1>4, <1>5
-----------------------------------------------------------------------------
(* The clients' own steps.                                                   *)
LEMMA ConnectArrives ==
  ASSUME RInv, RInv', NEW c \in Clients, ~Down, Connect(c)
  PROVE  Service!Arrive(c)
<1>1. /\ status[c] = "idle" /\ status' = [status EXCEPT ![c] = "open"]
      /\ backlog' = Append(backlog, c)
      /\ UNCHANGED <<pc, registered, owner, arrived, unread, answered>>
  BY DEF Connect, muxVars, engineVars, countVars
<1>2. status'[c] = "open" /\ \A d \in Clients \ {c} : status'[d] = status[d]
  BY <1>1 DEF RInv, IInv, TypeOK
<1>3. Queued(c)' /\ \A d \in Clients \ {c} : Queued(d)' <=> Queued(d)
  <2>1. /\ backlog \in Seq(Clients) /\ Len(backlog) \in Nat
        /\ DOMAIN backlog = 1 .. Len(backlog)
    BY LenProperties DEF RInv, IInv, TypeOK
  <2>2. /\ backlog' \in Seq(Clients) /\ Len(backlog') = Len(backlog) + 1
        /\ \A i \in 1 .. Len(backlog) : backlog'[i] = backlog[i]
        /\ backlog'[Len(backlog) + 1] = c
    BY <1>1, <2>1, Appended
  <2>3. DOMAIN backlog' = 1 .. (Len(backlog) + 1)
    BY <2>2, LenProperties
  <2> QED
    BY <2>1, <2>2, <2>3 DEF Queued
<1>4. Phase(c) = "away" /\ Phase(c)' = "waiting"
  BY <1>1, <1>3, PhasesExclude, PhasesExcludeNext DEF RInv, Phases
<1>5. ASSUME NEW d \in Clients \ {c} PROVE Phase(d)' = Phase(d)
  <2>1. Connected(d)' <=> Connected(d)
    BY <1>1 DEF Connected
  <2> QED
    BY <1>2, <1>3, <2>1, PhaseKept DEF RInv
<1>6. [d \in Clients |-> Phase(d)]' = [[d \in Clients |-> Phase(d)] EXCEPT ![c] = "waiting"]
  BY <1>4, <1>5
<1>7. [d \in Clients |-> Phase(d)][c] = "away"
  BY <1>4
<1>8. {d \in Clients : HungUp(d)}' = {d \in Clients : HungUp(d)}
  <2>1. \A d \in Clients : HungUp(d)' <=> HungUp(d)
    BY <1>1, <1>2 DEF HungUp
  <2> QED
    BY <2>1
<1>9. ~Down'
  BY <1>1 DEF Down
<1>10. Garbled' = Garbled
  BY <1>1, GarbledKept
<1> QED
  BY <1>1, <1>6, <1>7, <1>8, <1>9, <1>10 DEF Service!Arrive, Garbled

LEMMA SendAsks ==
  ASSUME RInv, RInv', NEW c \in Clients, NEW first \in Lines, ~Down, Send(c, first)
  PROVE  Service!Ask(c)
<1>1. /\ status[c] = "open" /\ arrived' = [arrived EXCEPT ![c] = @ + 1]
      /\ UNCHANGED <<pc, registered, owner, backlog, status, answered>>
  BY DEF Send, muxVars, engineVars, countVars
<1>2. \A d \in Clients : Phase(d)' = Phase(d)
  BY <1>1, PhaseKept DEF RInv, Connected, Queued
<1>3. [d \in Clients |-> Phase(d)]' = [d \in Clients |-> Phase(d)]
  BY <1>2
<1>4. {d \in Clients : HungUp(d)}' = {d \in Clients : HungUp(d)}
  BY <1>1 DEF HungUp
<1>5. Phase(c) # "away"
  BY <1>1, PhasesExclude DEF RInv, Phases
<1>6. [d \in Clients |-> Phase(d)][c] # "away"
  BY <1>5
<1>7. ~Down' /\ c \notin {d \in Clients : HungUp(d)}
  BY <1>1 DEF Down, HungUp
<1>8. Garbled' \in {Garbled \ {c}, Garbled \cup {c}}
  <2>1. \A d \in Clients \ {c} : unread'[d] = unread[d]
    BY DEF Send, RInv, IInv, TypeOK
  <2>2. \A d \in Clients \ {c} : d \in Garbled' <=> d \in Garbled
    BY <2>1 DEF Garbled
  <2>3. Garbled \subseteq Clients /\ Garbled' \subseteq Clients
    BY DEF Garbled
  <2>4. CASE c \in Garbled'
    <3>1. Garbled' = Garbled \cup {c}
      BY <2>2, <2>3, <2>4
    <3> QED
      BY <3>1
  <2>5. CASE c \notin Garbled'
    <3>1. Garbled' = Garbled \ {c}
      BY <2>2, <2>3, <2>5
    <3> QED
      BY <3>1
  <2> QED
    BY <2>4, <2>5
<1> QED
  BY <1>1, <1>3, <1>4, <1>6, <1>7, <1>8 DEF Service!Ask, Garbled

LEMMA EndHangsUp ==
  ASSUME RInv, RInv', NEW c \in Clients, ~Down, HalfClose(c) \/ Reset(c)
  PROVE  Service!HangUp(c)
<1>1. /\ status[c] \in {"open", "fin"}
      /\ UNCHANGED <<pc, registered, owner, backlog, arrived, unread, answered>>
  BY DEF HalfClose, Reset, muxVars, engineVars, kernelVars, countVars
<1>2. /\ status'[c] \in {"fin", "gone"}
      /\ \A d \in Clients \ {c} : status'[d] = status[d]
  BY DEF HalfClose, Reset, RInv, IInv, TypeOK
<1>3. \A d \in Clients : Phase(d)' = Phase(d)
  <2> SUFFICES ASSUME NEW d \in Clients PROVE Phase(d)' = Phase(d)
    OBVIOUS
  <2>1. status'[d] = "idle" <=> status[d] = "idle"
    BY <1>1, <1>2
  <2> QED
    BY <1>1, <2>1, PhaseKept DEF RInv, Connected, Queued
<1>4. [d \in Clients |-> Phase(d)]' = [d \in Clients |-> Phase(d)]
  BY <1>3
<1>5. {d \in Clients : HungUp(d)}' = {d \in Clients : HungUp(d)} \cup {c}
  <2>1. HungUp(c)' /\ \A d \in Clients \ {c} : HungUp(d)' <=> HungUp(d)
    BY <1>2 DEF HungUp
  <2> QED
    BY <2>1
<1>6. Phase(c) # "away"
  BY <1>1, PhasesExclude DEF RInv, Phases
<1>7. [d \in Clients |-> Phase(d)][c] # "away"
  BY <1>6
<1>8. ~Down'
  BY <1>1 DEF Down
<1>9. Garbled' = Garbled
  BY <1>1, GarbledKept
<1> QED
  BY <1>1, <1>4, <1>5, <1>7, <1>8, <1>9 DEF Service!HangUp, Garbled

LEMMA DrainIsUnseen ==
  ASSUME RInv, RInv', NEW c \in Clients, Drain(c)
  PROVE  UNCHANGED Service!serviceVars
BY Unseen, GarbledKept DEF RInv, Drain, muxVars, engineVars, countVars, clientVars, Down

LEMMA ClientServes ==
  ASSUME RInv, RInv', NEW c \in Clients, Client(c)
  PROVE  Service!ServiceNext \/ UNCHANGED Service!serviceVars
<1>1. ~Down
  BY DEF Client
<1>2. CASE Connect(c)
  BY <1>1, <1>2, ConnectArrives DEF Service!ServiceNext
<1>3. CASE \E first \in Lines : Send(c, first)
  BY <1>1, <1>3, SendAsks DEF Service!ServiceNext
<1>4. CASE Drain(c)
  BY <1>4, DrainIsUnseen
<1>5. CASE HalfClose(c) \/ Reset(c)
  BY <1>1, <1>5, EndHangsUp DEF Service!ServiceNext
<1> QED
  BY <1>2, <1>3, <1>4, <1>5 DEF Client

(* Every step is a step of the service or invisible to the clients.          *)
LEMMA StepServes == RInv /\ [Next]_vars => [Service!ServiceNext]_(Service!serviceVars)
<1> SUFFICES ASSUME RInv, [Next]_vars
             PROVE  Service!ServiceNext \/ UNCHANGED Service!serviceVars
  OBVIOUS
<1>1. RInv'
  BY StepRInv
<1>2. CASE Start
  BY <1>1, <1>2, StartIsUnseen
<1>3. CASE RunReturns
  BY <1>1, <1>3, ReturnEnds DEF Service!ServiceNext
<1>4. CASE EpollWait
  BY <1>1, <1>4, EpollWaitIsUnseen
<1>5. CASE Dispatch
  BY <1>1, <1>5, DispatchServes
<1>6. CASE Write
  BY <1>1, <1>6, WriteReplies
<1>7. CASE \E c \in Clients : Client(c)
  BY <1>1, <1>7, ClientServes
<1>8. CASE UNCHANGED vars
  BY <1>1, <1>8, Unseen, GarbledKept
  DEF RInv, vars, muxVars, tableVars, engineVars, kernelVars, countVars, clientVars, Down
<1> QED
  BY <1>2, <1>3, <1>4, <1>5, <1>6, <1>7, <1>8 DEF Next, Server

(* The server, with its descriptors, tables, batches of events and failed    *)
(* calls, does what MamService promises its clients: they are admitted in    *)
(* the order they arrived or turned away, get at most one reply for each     *)
(* time something of theirs arrived, lose their connection only after they   *)
(* hung up, and the service ends only while nobody is known to it, over      *)
(* bytes of a served client that are no request line it can read, or over a  *)
(* reply to a served client that hung up.                                    *)
THEOREM Refinement == Spec => ImplementsService
<1>1. Init => RInv /\ Service!ServiceInit
  BY InitRInv, InitService
<1>2. RInv /\ [Next]_vars => RInv'
  BY StepRInv
<1>3. RInv /\ [Next]_vars => [Service!ServiceNext]_(Service!serviceVars)
  BY StepServes
<1> QED
  BY <1>1, <1>2, <1>3, PTL DEF Spec, ImplementsService, Service!ServiceSpec
=============================================================================
