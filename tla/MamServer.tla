------------------------------ MODULE MamServer ------------------------------
(***************************************************************************)
(* The event server of net/mam/main.cpp: engine_t owns a multiplexer, a    *)
(* listening socket and the set of its html clients, and serves every      *)
(* connection from one thread.  The kernel's side (descriptor table,       *)
(* accept queue, socket buffers) is modelled as the code uses it, and the  *)
(* clients act between any two steps of the server, in particular between  *)
(* epoll_wait and the handlers of the events it returned.                  *)
(*                                                                         *)
(* A client connects at most once, so a descriptor that a new connection   *)
(* reuses belongs to a different client.  Its bytes arrive in parts of any *)
(* size: what one read finds may be a request, several, or a piece of one, *)
(* and handle_read takes the first line of it for a request line.          *)
(***************************************************************************)
EXTENDS Multiplexer, Sequences, FiniteSetsExt

CONSTANTS
  Clients,       (* the peers that may connect                               *)
  Free,          (* owner of a descriptor nobody holds                       *)
  Listener,      (* owner of the listening socket's descriptor               *)
  FirstFd,       (* the first descriptor free when the engine is built       *)
  LastFd,        (* the last one the process may open: the EMFILE limit      *)
  OptFailures,   (* which calls on an accepted socket may fail:              *)
                 (*   "nonblocking" (FIONBIO), "nodelay" (TCP_NODELAY)       *)
  Lines,         (* the kinds of first lines that clients' bytes begin with  *)
  MaxArrivals,   (* times bytes arrive, of all clients together (a bound)    *)
  ReplyChunks,   (* writes one reply takes when the client keeps up          *)
  Window         (* chunks the kernel holds for a client that does not read  *)

ASSUME MamServerAssumption ==
  /\ IsFiniteSet(Clients)
  /\ Free \notin Clients /\ Listener \notin Clients /\ Free # Listener
  /\ FirstFd \in Nat \ {0} /\ LastFd \in Nat /\ FirstFd <= LastFd
  /\ OptFailures \subseteq {"nonblocking", "nodelay"}
  /\ Lines \subseteq {"query", "plain", "broken", "odd", "endless"}
  /\ MaxArrivals \in Nat
  /\ ReplyChunks \in Nat \ {0}
  /\ Window \in Nat \ {0}

VARIABLES
  pc,            (* where the engine is: "start" in the constructor, "poll"  *)
                 (* in run(), "write" in tcp_write, "exit", "killed",        *)
                 (* "endless" in tokenize                                    *)
  serverFd,      (* _server_fd                                               *)
  fds,           (* _htmlclients._fds                                        *)
  wfd,           (* the descriptor tcp_write is writing to                   *)
  left,          (* count_ of tcp_write, in chunks                           *)
  owner,         (* kernel: who is behind each descriptor                    *)
  nodelay,       (* kernel: descriptors with TCP_NODELAY set                 *)
  backlog,       (* kernel: connections not accepted yet                     *)
  unread,        (* kernel: the first line of the bytes that arrived and are *)
                 (* not read, or "nothing", per client                       *)
  room,          (* kernel: chunks that can still be written, per client     *)
  status,        (* client: "idle", "open", "fin" (half closed), "gone"      *)
  arrived,       (* how often bytes of the client arrived                    *)
  taken,         (* reads handed to htmlclients::handle_read, per client     *)
  due,           (* how many of them it began to answer                      *)
  answered       (* replies written to the end, per client                   *)

engineVars == <<pc, serverFd, fds, wfd, left>>
kernelVars == <<owner, nodelay, backlog, unread, room>>
countVars == <<taken, due, answered>>
clientVars == <<status, arrived>>
vars == <<muxVars, engineVars, kernelVars, countVars, clientVars>>

Fd == FirstFd .. LastFd

(* What handle_read tells apart in a first line.  "plain": no '?' in the     *)
(* second word.  "query": a '?' in it.  "broken": a '?' and nothing behind   *)
(* it, or no '=' behind the last '&' that ends a field, or 65536 bytes and a *)
(* space among them, where tokenize begins again; each is a callback of      *)
(* negative length.  "odd": no second word.  "endless": 65536 bytes and no   *)
(* space among them.                                                         *)
Unreadable == {"broken", "odd", "endless"}

(* What the first line may become when more bytes arrive behind it.          *)
Becomes(old, new) ==
  \/ old \in {"nothing", "odd", new}
  \/ old = "plain" /\ new \in {"query", "broken"}
  \/ {old, new} = {"query", "broken"}

FreeFds == {fd \in Fd : owner[fd] = Free}
NewFd == CHOOSE fd \in FreeFds : \A other \in FreeFds : fd <= other
Connected(c) == \E fd \in registered : owner[fd] = c
Down == pc \in {"exit", "killed", "endless"}
ArrivalsSoFar == MapThenSumSet(LAMBDA c : arrived[c], Clients)
HungUp(c) == status[c] \in {"fin", "gone"}

Init ==
  /\ MuxInit
  /\ pc = "start" /\ serverFd = -1 /\ fds = {} /\ wfd = -1 /\ left = 0
  /\ owner = [fd \in Fd |-> Free]
  /\ nodelay = {} /\ backlog = <<>>
  /\ unread = [c \in Clients |-> "nothing"]
  /\ room = [c \in Clients |-> Window]
  /\ status = [c \in Clients |-> "idle"]
  /\ arrived = [c \in Clients |-> 0]
  /\ taken = [c \in Clients |-> 0]
  /\ due = [c \in Clients |-> 0]
  /\ answered = [c \in Clients |-> 0]

-----------------------------------------------------------------------------
(* The engine's constructor.                                                 *)

(* server_tcp_fd fails (socket, ioctl, bind): -1, and nothing is registered. *)
StartWithoutSocket ==
  /\ pc = "start"
  /\ pc' = "poll"
  /\ UNCHANGED <<muxVars, serverFd, fds, wfd, left, kernelVars, countVars, clientVars>>

(* The socket is registered first and told to listen afterwards.             *)
StartListening ==
  /\ pc = "start"
  /\ pc' = "poll"
  /\ serverFd' = NewFd
  /\ RegisterFd(NewFd)
  /\ owner' = [owner EXCEPT ![NewFd] = Listener]
  /\ UNCHANGED <<batch, fds, wfd, left, nodelay, backlog, unread, room, countVars, clientVars>>

(* server_listen fails and closes the descriptor, which drops it from the    *)
(* kernel's interest list; the slot and the count stay.                      *)
StartDeaf ==
  /\ pc = "start"
  /\ pc' = "poll"
  /\ serverFd' = NewFd
  /\ size' = IF NewFd >= size THEN Larger(NewFd + 1, 2 * size) ELSE size
  /\ registered' = registered \cup {NewFd}
  /\ noActive' = noActive + 1
  /\ UNCHANGED <<interest, batch, fds, wfd, left, kernelVars, countVars, clientVars>>

-----------------------------------------------------------------------------
(* multiplexer::run and poll.                                                *)

(* Mutant: run() stops when only the listening socket is left.               *)
RunReturnsEarly ==
  /\ pc = "poll" /\ batch = {} /\ noActive <= 1
  /\ pc' = "exit"
  /\ UNCHANGED <<muxVars, serverFd, fds, wfd, left, kernelVars, countVars, clientVars>>

RunReturns ==
  /\ pc = "poll" /\ batch = {} /\ noActive = 0
  /\ pc' = "exit"
  /\ UNCHANGED <<muxVars, serverFd, fds, wfd, left, kernelVars, countVars, clientVars>>

(* EPOLLIN: connections to accept, bytes to read, end of file or an error.   *)
Readable(fd) ==
  CASE owner[fd] = Listener  -> backlog # <<>>
    [] owner[fd] \in Clients -> unread[owner[fd]] # "nothing" \/ HungUp(owner[fd])
    [] OTHER                 -> FALSE

(* Mutant: the interest list also asks for EPOLLOUT, which is always ready.  *)
AlwaysReady == interest

ReadyFds == {fd \in interest : Readable(fd)}

EpollWait ==
  /\ pc = "poll" /\ noActive > 0
  /\ FetchEvents(ReadyFds)
  /\ UNCHANGED <<tableVars, engineVars, kernelVars, countVars, clientVars>>

(* static_handler and handle_read on the listening socket.  Whatever         *)
(* server_accept_fd returns is passed to register_fd and insert_new_client.  *)
AcceptNothing ==
  /\ FreeFds = {} \/ backlog = <<>>
  /\ RegisterFd(-1)
  /\ fds' = fds \cup {-1}
  /\ UNCHANGED <<owner, nodelay, backlog, status>>

(* Mutant: the new client is not inserted.                                   *)
AcceptWithoutInsert ==
  /\ FreeFds # {} /\ backlog # <<>>
  /\ owner' = [owner EXCEPT ![NewFd] = Head(backlog)]
  /\ nodelay' = nodelay \cup {NewFd}
  /\ backlog' = Tail(backlog)
  /\ RegisterFd(NewFd)
  /\ UNCHANGED <<status, fds>>

AcceptClient ==
  /\ FreeFds # {} /\ backlog # <<>>
  /\ owner' = [owner EXCEPT ![NewFd] = Head(backlog)]
  /\ nodelay' = nodelay \cup {NewFd}
  /\ backlog' = Tail(backlog)
  /\ RegisterFd(NewFd)
  /\ fds' = fds \cup {NewFd}
  /\ UNCHANGED status

(* set_nonblocking_fd closes the new socket when it fails ...                *)
AcceptAndClose ==
  /\ "nonblocking" \in OptFailures
  /\ FreeFds # {} /\ backlog # <<>>
  /\ backlog' = Tail(backlog)
  /\ status' = [status EXCEPT ![Head(backlog)] = "gone"]
  /\ RegisterFd(-1)
  /\ fds' = fds \cup {-1}
  /\ UNCHANGED <<owner, nodelay>>

(* ... and set_tcpnodelay_fd does not: the socket stays open.                *)
AcceptAndLeak ==
  /\ "nodelay" \in OptFailures
  /\ FreeFds # {} /\ backlog # <<>>
  /\ owner' = [owner EXCEPT ![NewFd] = Head(backlog)]
  /\ backlog' = Tail(backlog)
  /\ RegisterFd(-1)
  /\ fds' = fds \cup {-1}
  /\ UNCHANGED <<nodelay, status>>

HandleServer ==
  /\ AcceptNothing \/ AcceptClient \/ AcceptAndClose \/ AcceptAndLeak
  /\ UNCHANGED <<pc, serverFd, wfd, left, unread, room, arrived, countVars>>

(* read_tcp_fd got nothing: end of file, an error and EAGAIN all close.      *)
(* htmlclients::handle_read is then given -1, and erases -1.                 *)
CloseClient(fd) ==
  /\ UnregisterFd(fd)
  /\ IF CanUnregister(fd)
       THEN /\ owner' = [owner EXCEPT ![fd] = Free]
            /\ nodelay' = nodelay \ {fd}
            /\ status' = [status EXCEPT ![owner[fd]] = "gone"]
       ELSE UNCHANGED <<owner, nodelay, status>>
  /\ fds' = fds \ {-1}
  /\ UNCHANGED <<pc, wfd, left, unread, taken, due>>

(* htmlclients::handle_read.  With a '?' the reply is sent; without one the  *)
(* host string is built with length npos, which throws, and static_handler   *)
(* swallows the exception.  An exception in tokenize or tokenize_tag_val,    *)
(* which are noexcept, ends the process.  args[1] of an odd line is whatever *)
(* lies behind the vector.                                                   *)
BeginReply(fd, c) ==
  /\ pc' = "write" /\ wfd' = fd /\ left' = ReplyChunks
  /\ due' = [due EXCEPT ![c] = @ + 1]

HandleLine(fd, c, line) ==
  \/ line \in {"query", "odd"} /\ BeginReply(fd, c)
  \/ line \in {"plain", "odd"} /\ UNCHANGED <<pc, wfd, left, due>>
  \/ line \in {"broken", "odd"} /\ pc' = "killed" /\ UNCHANGED <<wfd, left, due>>
  \/ line = "endless" /\ pc' = "endless" /\ UNCHANGED <<wfd, left, due>>

(* read_tcp_fd takes everything that has arrived.                            *)
ReadRequest(fd) ==
  LET c == owner[fd] IN
  /\ taken' = [taken EXCEPT ![c] = @ + 1]
  /\ unread' = [unread EXCEPT ![c] = "nothing"]
  /\ HandleLine(fd, c, unread[c])
  /\ UNCHANGED <<tableVars, fds, owner, nodelay, status>>

(* Mutants: the hang-up is looked at before the data, as in the commented    *)
(* block of static_handler; an empty read is ignored.                        *)
HandleHangUpFirst(fd) ==
  /\ IF unread[owner[fd]] = "nothing" \/ HungUp(owner[fd])
       THEN CloseClient(fd) ELSE ReadRequest(fd)
  /\ UNCHANGED <<serverFd, backlog, room, answered, arrived>>

HandleIgnoresEnd(fd) ==
  /\ IF unread[owner[fd]] = "nothing"
       THEN UNCHANGED <<tableVars, pc, fds, wfd, left, owner, nodelay, unread,
                        taken, due, status>>
       ELSE ReadRequest(fd)
  /\ UNCHANGED <<serverFd, backlog, room, answered, arrived>>

HandleClient(fd) ==
  /\ IF unread[owner[fd]] = "nothing" THEN CloseClient(fd) ELSE ReadRequest(fd)
  /\ UNCHANGED <<serverFd, backlog, room, answered, arrived>>

(* One turn of the loop over _epoll_events: the slot's handler is called     *)
(* unchecked, and engine_t::handle_read ignores a descriptor it has no       *)
(* branch for.                                                               *)
Dispatch ==
  /\ pc = "poll"
  /\ \E fd \in batch :
       /\ batch' = batch \ {fd}
       /\ IF fd >= size
            THEN UNCHANGED <<tableVars, engineVars, kernelVars, countVars, clientVars>>
          ELSE IF fd \notin registered
            THEN /\ pc' = "killed"
                 /\ UNCHANGED <<tableVars, serverFd, fds, wfd, left, kernelVars,
                                countVars, clientVars>>
          ELSE IF fd = serverFd THEN HandleServer
          ELSE IF fd \in fds THEN HandleClient(fd)
          ELSE UNCHANGED <<tableVars, engineVars, kernelVars, countVars, clientVars>>

-----------------------------------------------------------------------------
(* tcp_write.  EAGAIN retries at once, so the thread stays here until the    *)
(* client makes room or the connection fails.                                *)
(* Mutant: a write into a full buffer is taken for a complete one.           *)
WriteIgnoresRoom ==
  LET c == owner[wfd] IN
  /\ pc = "write" /\ status[c] # "gone"
  /\ room' = [room EXCEPT ![c] = @ - 1]
  /\ left' = left - 1
  /\ IF left = 1
       THEN /\ pc' = "poll"
            /\ wfd' = -1
            /\ answered' = [answered EXCEPT ![c] = @ + 1]
       ELSE UNCHANGED <<pc, wfd, answered>>
  /\ UNCHANGED <<muxVars, serverFd, fds, owner, nodelay, backlog, unread, taken, due, clientVars>>

WriteChunk ==
  LET c == owner[wfd] IN
  /\ pc = "write" /\ status[c] # "gone" /\ room[c] > 0
  /\ room' = [room EXCEPT ![c] = @ - 1]
  /\ left' = left - 1
  /\ IF left = 1
       THEN /\ pc' = "poll"
            /\ wfd' = -1
            /\ answered' = [answered EXCEPT ![c] = @ + 1]
       ELSE UNCHANGED <<pc, wfd, answered>>
  /\ UNCHANGED <<muxVars, serverFd, fds, owner, nodelay, backlog, unread, taken, due, clientVars>>

(* write fails with an error other than EAGAIN: the reply is abandoned.      *)
WriteFails ==
  /\ pc = "write" /\ status[owner[wfd]] = "gone"
  /\ pc' = "poll" /\ wfd' = -1 /\ left' = 0
  /\ UNCHANGED <<muxVars, serverFd, fds, kernelVars, countVars, clientVars>>

(* write to a connection whose error was already reported raises SIGPIPE,    *)
(* which the program neither ignores nor handles.                            *)
WriteKills ==
  /\ pc = "write" /\ status[owner[wfd]] = "gone"
  /\ pc' = "killed"
  /\ UNCHANGED <<muxVars, serverFd, fds, wfd, left, kernelVars, countVars, clientVars>>

-----------------------------------------------------------------------------
(* The clients.                                                              *)

Connect(c) ==
  /\ status[c] = "idle" /\ \E fd \in Fd : owner[fd] = Listener
  /\ status' = [status EXCEPT ![c] = "open"]
  /\ backlog' = Append(backlog, c)
  /\ UNCHANGED <<muxVars, engineVars, owner, nodelay, unread, room, countVars, arrived>>

(* Bytes arrive; with those that are unread they begin with the given line.  *)
Send(c, line) ==
  /\ status[c] = "open" /\ ArrivalsSoFar < MaxArrivals
  /\ Becomes(unread[c], line)
  /\ arrived' = [arrived EXCEPT ![c] = @ + 1]
  /\ unread' = [unread EXCEPT ![c] = line]
  /\ UNCHANGED <<muxVars, engineVars, owner, nodelay, backlog, room, countVars, status>>

Drain(c) ==
  /\ status[c] \in {"open", "fin"} /\ room[c] < Window
  /\ room' = [room EXCEPT ![c] = @ + 1]
  /\ UNCHANGED <<muxVars, engineVars, owner, nodelay, backlog, unread, countVars, clientVars>>

HalfClose(c) ==
  /\ status[c] = "open"
  /\ status' = [status EXCEPT ![c] = "fin"]
  /\ UNCHANGED <<muxVars, engineVars, kernelVars, countVars, arrived>>

Reset(c) ==
  /\ status[c] \in {"open", "fin"}
  /\ status' = [status EXCEPT ![c] = "gone"]
  /\ UNCHANGED <<muxVars, engineVars, kernelVars, countVars, arrived>>

-----------------------------------------------------------------------------
Start == StartWithoutSocket \/ StartListening \/ StartDeaf
(* Mutants: a write that gets EAGAIN is not retried; every failed write is   *)
(* retried, not only after EAGAIN.                                           *)
WriteGivesUp ==
  \/ WriteChunk
  \/ WriteFails
  \/ WriteKills
  \/ /\ pc = "write" /\ room[owner[wfd]] = 0
     /\ pc' = "poll" /\ wfd' = -1 /\ left' = 0
     /\ UNCHANGED <<muxVars, serverFd, fds, kernelVars, countVars, clientVars>>

WriteRetriesForever == WriteChunk

Write == WriteChunk \/ WriteFails \/ WriteKills
Server == Start \/ RunReturns \/ EpollWait \/ Dispatch \/ Write

Client(c) ==
  /\ ~Down
  /\ \/ Connect(c)
     \/ \E line \in Lines : Send(c, line)
     \/ Drain(c)
     \/ HalfClose(c)
     \/ Reset(c)

Next == Server \/ \E c \in Clients : Client(c)

Spec == Init /\ [][Next]_vars

-----------------------------------------------------------------------------
(* Fairness: run() never sleeps, so the thread always takes its next step;   *)
(* epoll_wait takes ready descriptors from the head of a queue and puts them *)
(* back at its end, so one that is ready again and again is reported; and a  *)
(* client reads what it was sent unless it hangs up.                         *)
Report(fd) == EpollWait /\ fd \in batch'

FairSpec ==
  /\ Spec
  /\ WF_vars(Server)
  /\ \A fd \in Fd : SF_vars(Report(fd))
  /\ \A c \in Clients : WF_vars(Drain(c))

-----------------------------------------------------------------------------
(* Properties.                                                               *)

TypeOK ==
  /\ size \in Nat \ {0} /\ registered \subseteq Fd /\ noActive \in Nat
  /\ interest \subseteq Fd /\ batch \subseteq Fd
  /\ pc \in {"start", "poll", "write", "exit", "killed", "endless"}
  /\ serverFd \in Fd \cup {-1} /\ fds \subseteq Fd \cup {-1}
  /\ wfd \in Fd \cup {-1} /\ left \in 0 .. ReplyChunks
  /\ owner \in [Fd -> Clients \cup {Free, Listener}]
  /\ nodelay \subseteq Fd /\ backlog \in Seq(Clients)
  /\ unread \in [Clients -> Lines \cup {"nothing"}]
  /\ room \in [Clients -> 0 .. Window]
  /\ status \in [Clients -> {"idle", "open", "fin", "gone"}]
  /\ arrived \in [Clients -> Nat]
  /\ taken \in [Clients -> Nat] /\ due \in [Clients -> Nat]
  /\ answered \in [Clients -> Nat]

(* _no_active_fd, which decides when run() returns, is the number of slots   *)
(* with a handler, through every accept, failed accept and close.            *)
CountIsRegistered == noActive = Cardinality(registered)

(* The handler table and the kernel's interest list describe the same        *)
(* descriptors, all of them open and inside the table: only a listening      *)
(* socket that server_listen closed, and descriptors the kernel may refuse   *)
(* to watch, are in the first and not in the second.                         *)
TableMatchesKernel ==
  /\ \A fd \in interest : fd \in registered /\ owner[fd] # Free
  /\ \A fd \in registered \ CtlFailures : owner[fd] # Free => fd \in interest
  /\ \A fd \in registered : fd < size /\ (owner[fd] = Free => fd = serverFd)

(* Every event that waits in the array still means what it meant when        *)
(* epoll_wait returned it: its slot has a handler and its descriptor is      *)
(* still readable.  poll() calls the handler unchecked, and tcp_read makes   *)
(* an empty read look like end of file, so a stale event would crash the     *)
(* server or close a healthy connection.                                     *)
BatchIsCurrent ==
  \A fd \in batch : fd < size /\ fd \in registered /\ Readable(fd)

(* An accepted connection is dispatchable (registered, and in the client set *)
(* that handle_read consults) exactly if its socket was fully set up; the    *)
(* connection being written to is one of them.                               *)
ConnectionsDispatchable ==
  /\ \A fd \in Fd : owner[fd] \in Clients =>
       /\ fd \in registered <=> fd \in nodelay
       /\ fd \in registered => fd \in fds /\ fd # serverFd
  /\ pc = "write" => wfd \in registered /\ owner[wfd] \in Clients

(* The server reads a client no more often than something arrived from it,   *)
(* and answers every read that it does not throw away exactly once: unless   *)
(* the client reset the connection, the reply that a read made due has been  *)
(* written to the end, whatever the client's pace and whoever else asked, or *)
(* is the one tcp_write is writing now.  (Reads, not requests: of a request  *)
(* that arrives in two parts each may be read, and answered, as one.)        *)
Writing(c) == pc = "write" /\ owner[wfd] = c

RepliesAreOwed ==
  \A c \in Clients :
    /\ answered[c] <= due[c] /\ due[c] <= taken[c] /\ taken[c] <= arrived[c]
    /\ status[c] # "gone" => due[c] = answered[c] + (IF Writing(c) THEN 1 ELSE 0)

(* The server closes a connection only after its client hung up, and never   *)
(* while bytes of that client are still unread.                              *)
ClosesOnlyHungUp ==
  [][\A fd \in Fd :
       owner[fd] \in Clients /\ owner'[fd] # owner[fd]
         => /\ owner'[fd] = Free
            /\ HungUp(owner[fd])
            /\ unread[owner[fd]] = "nothing"]_vars

(* What the server implements, seen by its clients.                          *)
Phase(c) ==
  CASE Connected(c)                                -> "served"
    [] \E i \in DOMAIN backlog : backlog[i] = c   -> "waiting"
    [] status[c] = "idle"                          -> "away"
    [] OTHER                                       -> "left"

Service == INSTANCE MamService WITH
  line <- backlog,
  phase <- [c \in Clients |-> Phase(c)],
  hungUp <- {c \in Clients : HungUp(c)},
  asked <- arrived,
  garbled <- {c \in Clients : unread[c] \in Unreadable},
  replies <- answered,
  up <- ~Down

(* Descriptor reuse, event batches and failed accepts never show: every step *)
(* of the server is a step of the service or invisible to the clients; in    *)
(* particular it ends only over bytes that are no request line, or over a    *)
(* reply to a client that hung up.                                           *)
ImplementsService == Service!ServiceSpec

(* A connection whose client hung up is found and its descriptor released.   *)
HungUpIsReleased ==
  \A c \in Clients : (Connected(c) /\ HungUp(c)) ~> (~Connected(c) \/ Down)

(* What arrived on an accepted connection is read.                           *)
RequestIsRead ==
  \A c \in Clients :
    (Connected(c) /\ unread[c] # "nothing") ~> (unread[c] = "nothing" \/ Down)

(* A waiting client is taken from the accept queue, as long as descriptors   *)
(* are not exhausted.                                                        *)
WaitingIsAccepted ==
  \A c \in Clients :
    Phase(c) = "waiting" ~> (Phase(c) # "waiting" \/ FreeFds = {} \/ Down)

(* The comment in htmlclients::handle_read lists "GET / HTTP/1.1" first      *)
(* among the request lines it handles: a request line that was handled, of a *)
(* client that did not hang up, has been answered.                           *)
EveryRequestAnswered ==
  \A c \in Clients : pc = "poll" /\ ~HungUp(c) => answered[c] = taken[c]
=============================================================================
