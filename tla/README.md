# A verification development for libx

libx is one author's collection of C++ programs and headers: an epoll event
server, a network presence scanner, SSL clients, FIX message parsers, small
containers and a number of command-line tools. This directory holds TLA+
models of the parts with state worth reasoning about, the TLC configurations
that check them on small instances, and proofs, checked by TLAPS, of their main
properties for all instances.

    tlc -workers 2 -config MamServer_safety.cfg MCMamServer.tla   # one run
    tlapm MamServer_proofs.tla                                    # one proof

`PROJECT.json` lists the components, the runs, the theorems, the hazards, and,
for every definition that models code, the lines it stands for.

## 1. Inventory

| Component | State | Operations | How it interacts | What is hard |
|---|---|---|---|---|
| **mam event server** `net/mam/mamMultiplexer.h`, `main.cpp`, `mamNet.h` | handler table `_fd`, `_no_active_fd`, epoll's interest list and event array; `_server_fd`; the set `_htmlclients._fds`; socket buffers | `register_fd`, `unregister_close_fd`, `run`/`poll`, accept, read, write | handlers called back from `poll` change the table `poll` is walking through; peers connect, send and hang up at any time | event batches that go stale, descriptor reuse, failed accepts, requests that arrive in parts, a write loop that blocks everybody, SIGPIPE |
| **net-scan presence database** `net-scan/tst_net_scan.cpp` | `_elems`, `_mac_keys`, `_ip_keys`; open/closed, times per element | `add_mac_ip` (list and entry), `set_open`, `set_close`, `scan_t::loop` | fed by the output of nmap; prints when something changed | devices that move, swap or share addresses; second resolution; assertions |
| **SSLThread** `net/mam/mamNetSSL.h` (copies in two `rawclient.cpp`) | thread-local `_ninstances`, `_nthreads` under a mutex, OpenSSL's global state | constructor, destructor | any number of threads | the unlocked decision to lock; half-done initialisation |
| **FIX message comparison** `tst_ruv.cpp` | a tree of `ruv` nodes with a value per message, the recursion of `rmake` | `rmake` per message, `ssmake` for groups with start and stop tags, `pair_tokenizer`, display | `main` reads several messages into one tree | where an entry ends, groups with members in common, entries only a later message has |
| FIX message reader `msgfix.*` | token list, position, nested groups | parse, print | the same decisions as `rmake`, for one message | nesting, end of a group |
| **constexpr tag-value readers** `constexpr/tvp.h`, `mich.*.cpp`, `tvp_adami.cpp` | the message, `_lastLookupPosition`, the place of every accepted tag; `msg_t`'s own buffer | `set`, `getPair` | the first `getPair` after `set` reads everything, the others answer from the places; `msg_t::set` resets and checks itself with `getPair` | places of an earlier message, 16-bit offsets, exceptions half-way, assertions |
| **text scanners** `tokenize`, `tokenize_tag_val` (`net/mam/main.cpp`), `pair_tokenizer` (`tst_ruv.cpp`), `ptcl_sleepy.h` | index and the places of tag and value | scan a text, a callback per field | hand places to a callback that makes strings | 16-bit indices, looking ahead, a last field without its separator |
| pbx containers `pbx_idxmap.h`, `pbx_map.h`, `tst_deque.cpp`, `pbx_vector.h` | vectors and maps | insert, find, pop | - | index 0 on an empty table, overlapping ranges, pop of an empty queue |
| pbx text helpers `pbx_levenshtein.h`, `pbx_csv.h`, `pbx_string.h` | - | pure functions | - | boundary rows of the distance table |
| vending machine `net/mam/Machine*.h` | stock, state object | `sell`, `refill` | - | `refill(0)`, unsigned stock held in an int |
| HTTP pages and sessions `net/mam/html/`, `net/mam/ssh2/` | session list, history, name-value lists | routing, login, page building | calls classes that are not in the repository | history position, session ids |
| sniffer `net/sniffer.cpp`, `pbx_whois.h` | cache of whois answers | decode, look up | runs `whois` | cache growth and staleness |
| SSL clients, network tools, crypto samples, vendored date and argon2, wrappers, HTML markup | none of their own | - | - | - |

What makes the parts in bold correct:

* **Event server.** The count that ends `run()` is the number of handlers; the
  table and epoll's list name the same descriptors; every event is still valid
  when its handler is called; a connection is served exactly if it was set up;
  one reply for every read that is answered; only a client that hung up is
  closed; hang-ups are noticed, requests read and waiting clients accepted; the
  server ends only over a line it cannot read or a client that hung up.
* **Presence database.** One element per device; the open elements are the
  devices of the last scan, at the addresses it gave; the screen is current; no
  assertion fails.
* **SSLThread.** Whoever has an object can use OpenSSL; one thread at a time
  initialises or cleans up; `_nthreads` does not drift; every call returns.
* **FIX message comparison.** Every field of every message is in its column, in
  the entry of the group where the format places it; one line per field;
  entries of a group stay together; `rmake` and `ssmake` return.
* **Tag-value readers.** Whatever was asked before, the answer is the last
  value the message has for the tag; a broken message answers nothing that is
  not in it; no answer reaches outside the message; the buffer has room for
  what is copied into it; the assertions hold.
* **Text scanners.** Every field of a text in the format comes out once and in
  order; of any text no part reaches behind it; sleepy messages tile their text;
  every scan ends.

## 2. Modules

| Module | Models |
|---|---|
| `Multiplexer` | `mam::multiplexer`: table, interest list, event array, as operators over its five variables |
| `MamServer` (extends `Multiplexer`) | `engine_t` and `htmlclients`, with the kernel and the clients around them |
| `MamService` | what the server promises: an accept queue in order, at most one reply each time something arrives, nobody let go who did not hang up, and what may end it |
| `MCMamServer` | `MamServer` for TLC |
| `MamServer_proofs` | theorems about `MamServer` |
| `MamServer_refinement` | `MamServer` implements `MamService` |
| `NetScanDb`, `MCNetScanDb` | `db_t`, `elem_t`, `scan_t::loop` |
| `NetScanDb_proofs` | theorems about `NetScanDb` |
| `SSLThread`, `MCSSLThread` | the constructor and destructor of `SSLThread` |
| `SSLThread_proofs` | theorems about `SSLThread` |
| `RuvTree`, `MCRuvTree` | `rmake` and `ssmake` of `tst_ruv.cpp`, and the place the format gives to every field |
| `RuvTree_proofs`, `RuvTree_placing` | theorems about `RuvTree`: its shape, lines and order; every field in its place |
| `TvpReader`, `MCTvpReader` | `tvp_reader` of `tvp.h` and `v1::msg_t` of the `mich` files |
| `TvpReader_proofs` | theorems about `TvpReader` |
| `TextScans`, `MCTextScans` | the four scanners, each a loop over the characters |
| `TextScans_proofs` | theorems about `TextScans`: of any text, and of texts in the format |

An operator marked "Mutant" in a module is not part of its specification: it is
a definition with a plausible bug, kept to show that a property notices it
(`PROJECT.json`, `mutants`).

### Multiplexer and MamServer

`size`, `registered`, `noActive`, `interest` and `batch` are `_fd.size()`, the
slots with a handler, `_no_active_fd`, the kernel's list and the events not yet
dispatched. `pc` is where the one thread is: in the constructor, in `run()`, or
inside `tcp_write`. One action is one turn of the dispatch loop (`Dispatch`:
the whole handler up to its first write), one `epoll_wait`, or one `write`
call; the clients (`Connect`, `Send`, `Drain`, `HalfClose`, `Reset`) move
between any two of them. That is the granularity at which the code can be
disturbed: between `epoll_wait` and a handler, and between two writes.

Kernel behaviour is modelled from how the code uses it (the external entries of
the map): the lowest free descriptor is handed out; `epoll_wait` returns as many
ready descriptors as fit, each once, in any order; data that arrived before a
hang-up is read before it; a closed descriptor leaves the interest list.
`tcp_read` is one step that takes everything that has arrived (its buffer is
1 MiB, its loop ends at EAGAIN). Failures modelled: `socket`/`ioctl`/`bind` at
the start, `listen`, `accept` with no descriptor left, `FIONBIO` and
`TCP_NODELAY` on an accepted socket, `epoll_ctl` for the descriptors in
`CtlFailures` (its result is not looked at: the slot has a handler, the kernel
watches nothing), writes to a reset connection, SIGPIPE. A reply is
`ReplyChunks` writes against a `Window` of kernel buffer.

The code takes whatever one read finds for a request and looks at its first
line. So bytes arrive in parts, and of what is unread the model keeps the kind
of that line (`Lines`); `Becomes` says what it may turn into when more bytes
come behind it. `HandleLine` has what `handle_read` does: a "query" is answered;
on a "plain" line, without `?`, it throws and answers nothing; a "broken" one,
whose last field has no `=` or which is so long that the index wraps, throws in
a `noexcept` scanner and ends the process; an "odd" one has no second word, so
that `args[1]` is whatever lies behind the vector: answered, passed over or the
end of the process; an "endless" one, 65536 bytes without a space, is scanned
for ever. Hence no property speaks of requests: a request that arrives in two
parts may be read, and answered, twice, and of two that arrive together one is.
`RepliesAreOwed` counts reads.

Left out: the descriptors whose creation is commented out in `engine_t`'s
constructor (timer, stdin, signal, outgoing tcp); events with `EPOLLHUP` or
`EPOLLERR` and no `EPOLLIN` (for a TCP socket in these states `EPOLLIN` is set
too, so `EPOLLIN || EPOLLERR || EPOLLHUP`, which is 1, does no harm there); the
rest of requests, and pages.

### NetScanDb

`elems`, `macKeys`, `ipKeys` are `_elems`, `_mac_keys`, `_ip_keys`. `Scan` is
the first loop of `add_mac_ip(list)`; each `Add` is one turn of the second;
`Return` is its result and `loop`'s decision to print. `report` and `shown` are
history: the last list and the open devices on the screen. An assertion that
fails is a step to "abort". One call of `add_mac_ip` happens within one second
of the clock; a scan before it takes one of `Durations`. With `Roaming = FALSE`
the lists come from a steady network: a device that the last scan saw keeps its
address, and no address is shared; devices may leave, and come back under any
address, also one that another device had.

### SSLThread

One action per access to shared state: `_ninstances++`, lock, `_nthreads++`,
the block of OpenSSL calls, unlock, and their counterparts. The library is
"starting" and "stopping" while these calls run, since each is several calls.
OpenSSL is external. The thread-local counter is per thread.

### RuvTree

`rmake` calls itself for every entry of a group; `frames` is that stack of
calls, and an action is one turn of a loop: a field (`ReadField`), a counter
with no entries (`SkipCounter`) or with some (`OpenGroup`), one entry of the
inner loop (`ReadEntry`, which finds or makes the node and makes the call), the
end of that loop (`CloseGroup`) and the return of a call (`Return`). `Compare`
is `main` calling `rmake` for the next column. A value is the position of its
pair, so that no two values of a message are equal.

`ssmake` is the same code with another notion of what an entry takes: every tag
but its stop, without crossing it off. `maker` says which of the two reads into
the tree, and `Members` is the difference. In this commit `main` returns before
its call of `ssmake` (`tst_ruv.cpp:760` and `850`); the model reads one message
into the first column with it, as that call would. `Home` is independent of all
this: for FIX it gives each pair to the innermost open group it is a member of,
for start and stop to the innermost group whose stop has not come, by a
recursive function over the positions each; `PlacedAsWritten` compares the paths
and values of the tree with it. `FirstInOrder` needs no such reading. With
`ssmake` it holds of any message, stops missing, repeated or crossed; with
`rmake` of every message that is read at all, those without a counter twice in
one place (below).

A tag that comes again outside the groups has two lines in the first column; in
a later one its last value stands (`Written`). Messages that open the same FIX
group twice in one place are left out (`WellFormed`): the format forbids them,
and the place `ref` where a new entry is inserted is then between the wrong
siblings. A group right inside another of its kind, or inside one with the same
stop, is read by `ssmake`, but its stop ends both, so that `PlacedAsWritten`
does not speak of it. In the code's own table every start has a stop of its own;
the model is for any table. The counter of an entry that was there before is not
stored by the code, so the property is about fields only. A counter or a start
in the last place makes the code copy the pair behind the vector:
`SkipLastCounter` lets the program go on or die, and `Returns` says that it dies
nowhere else.

### TvpReader

One action per call of `set` and per turn of `getPair`'s loop (`ReadField`;
`Fail` is the exception caught, `Answer` the end). `kind` is the class,
`checked` whether the build has its assertions. Messages are sequences of cells:
"=", the separator, letters, or a tag number as a whole; `NewPlaces` narrows a
place to the values of an `unsigned short`. `Names` has what differs in `step`:
`tvp_reader` takes a tag that is not a number for no tag, `msg_t` gives it to
`std::stoi`, which throws, or reads the number in front of it. `Kept` is the cut
both `set` make: they compare four characters, the byte 1 and "10=", eight in
front of the end, and drop "10=" with the last four whatever these are. The
width of a cell is left open, so a message that may end that way is cut or not.
To `msg_t`, which separates with ";", the byte 1 is a letter, so what it keeps
then ends without a separator; to `tvp_reader`, a message that breaks off inside
its checksum is whole. `TruncatedIsSilent` is about what is kept. The sets are
one action per way out: accepted, refused (more than 100000 bytes, `Limit`),
stopped by an assertion, or in `roundUpToPowerOfTwo` for ever. `Smeared` is that
function's loop on the set of the bits: it shifts left where its purpose needs
right, so it is right for 2^k - 1, too large for other odd sizes, and endless
for even ones. `MsgAssumption` is what a 64-bit `size_t` and the limit of 100000
bytes mean for it: the sizes fit into half of the bits (the run has 16 bits and
sizes of up to 15). `Field` and `Proper` say what the message has for a tag
without reading it from the left.

### TextScans

The state is the scanners' own: `i`, `tagPos`, `valPos`, and whether the inner
loop runs. An action is one turn of either loop, or what is done behind it;
where the four differ an operator says how (`After`: the width of the index;
`ValueEnd`: sleepy trims a space; `NoValue`, `EndsMessage`: sleepy looks
ahead). `Give` is the callback, which makes strings: a negative length throws,
and `main.cpp`'s scanners are `noexcept`, so the program ends ("died"). The part
of negative length is among the `tokens` all the same; `InsideText` says that no
part reaches behind the text, and `FieldsComeOut` that a text in the format has
none of negative length.
`FieldFrom` cuts the text at its separators, as a set, without a loop. A text
is in the format (`Regular`) if every field has its "="; that includes the last
field of a query, which `tokenize_tag_val` gives out in any case. In the server
model the "query" lines are in the format and the "broken" ones are not.

## 3. Runs

| Run | Bounds | Shows |
|---|---|---|
| `mam_safety` | 3 clients, descriptors 1..3 (one is the listener), a table of one slot, 2 events per wait, bytes arriving twice with any kind of line, replies of 2 chunks, window 1; `epoll_ctl` may fail for descriptor 3 | all safety properties and the implementation of `MamService` |
| `mam_exhausted` | 2 clients, descriptors 1..2, one event per wait, bytes arriving twice with any kind of line, no failure of `epoll_ctl` | the client that has the only descriptor is read and released although the listening socket, out of descriptors, is ready all the time: `HungUpIsReleased`, `RequestIsRead` |
| `mam_accept` | 2 clients, descriptors 1..3, one event per wait, bytes arriving twice with any kind of line, no failure of `epoll_ctl` | `WaitingIsAccepted`: a waiting client is taken in while another is written to |
| `mam_answers` | 1 client | violated: see finding 1 |
| `netscan_any` | 2 devices, 2 addresses, lists of up to 2 entries, scans of 0 or 1 s, clock to 4 | what holds of any list, as long as no assertion has stopped the program |
| `netscan_steady` | 2 devices, 3 addresses, scans of 1 s, clock to 7 | no assertion fails, addresses are right |
| `netscan_roaming` | 2 devices, 2 addresses, lists of one entry | violated: see finding 2 |
| `ssl_thread` | 3 threads, 2 objects each | all of SSLThread's properties |
| `ruv_compare` | 2 messages of up to 5 pairs, 6 together, 5 tags: a group in a group, with a common member; one message of up to 5 pairs with two kinds of start and stop | all of RuvTree's properties |
| `tvp_reader` | 2 messages of up to 2 pieces out of 9, or 3 of the long ones (up to 18 cells); offsets of 11 values, a buffer of 8 cells, 14 cells allowed | all of TvpReader's properties, for both classes, with and without assertions |
| `tvp_reused` | 2 proper messages, a buffer with room for them | violated: see finding 3 |
| `text_scans` | every text of up to 7 characters, an index of 7 values | all of TextScans' properties |

Why the bounds are enough: with three clients on two descriptors the descriptors
run out and are reused; two events per wait make batches in which an earlier
handler closes or accepts while a later event waits; a table of one slot has to
grow; one event per wait, with the listening socket always ready, is where a
fair queue matters; a window of one chunk against two makes the write loop wait.
Six scans allow two devices to come, leave and exchange addresses twice. Three
threads give a thread in each of constructor, destructor and use. Six pairs are
enough for two entries of the outer or of the inner group in each message, three
in one of them, and a group that only the second message has, before or behind a
field of its own. Five pairs with start and stop are a group in a group, a group
that comes twice, and every way to leave out or cross a stop. Two messages for a
reader are one to leave its traces and one to be read through them; among the
pieces are a field without "=", without value, without separator, with a tag
that is no number, and the checksum; lengths lie on both sides of the buffer, of
the offset and of the limit, in even and odd sizes of both kinds. Seven
characters are two sleepy messages, one with a value, and the index of seven
values meets texts that are shorter, one below and equal to it.

`MaxArrivals`, `Window`, `ReplyChunks`, `MaxTime`, `MaxReport`, `MaxInstances`,
`MaxLen`, `MaxPairs`, `MaxSets` and `MaxText` bound the models only. Deadlock is
not checked where the system may stop: the server may exit or be killed, the
scanner's clock ends, and the comparison is over when all messages are read, a
reader may be stopped by an assertion or given no further message, a scan ends.
It is checked for `SSLThread`.

**Symmetry** is used on clients in `mam_safety` only, a run of safety
properties.

**Fairness.** Server: weak fairness of the thread's steps, because `run()`
polls with timeout 0 and `tcp_write` never sleeps; strong fairness of each
descriptor's report, because Linux takes ready descriptors from the head of a
list and puts level-triggered ones back at its end; weak fairness of a client
reading what it was sent, an assumption about the environment without which the
`EAGAIN` loop of `tcp_write` holds the server for ever (the hazard at
`mamNet.h:613`). Nothing is assumed of `Connect`, `Send` or hang-ups. All three
liveness properties of the server hold until it is `Down`: ended, or scanning an
"endless" line. That `epoll_ctl` succeeds is an assumption of both runs: a
connection the kernel does not watch is neither read nor released. Without
the fairness of reports `mam_exhausted` fails, so it is needed. SSLThread: weak
fairness inside the class; strong fairness of locking, i.e. a mutex that does
not starve a waiter. RuvTree and TextScans: weak fairness of the one
thread inside the function.

## 4. Findings

1. **A request without a query is never answered** (`mam_answers`,
   `main.cpp:225`). `GET / HTTP/1.1` is the first request line the comment at
   `main.cpp:200` lists; `find("?")` is `npos`, the `std::string` of that length
   throws, the exception is swallowed, no reply is sent.
2. **A device that changes its address while present aborts the scanner**
   (`netscan_roaming`, `tst_net_scan.cpp:160`). The run has one device, which
   two successive scans see at two addresses. The branches commented "update
   IP" and "MAC is know (1,0)" call `set_open`, which asserts that the element
   is closed.

3. **A `msg_t` cannot be given a second message** (`tvp_reused`,
   `mich.3.cpp:283`). `reset` ends with a check that asks the empty object for
   its body length; `getPair` notes an offset for it; `set` then asserts
   `_alreadySeenTagsCache == Wheres{}`. The tests give one message to each
   object.

Smaller observations, stated as properties or hazards: a socket whose
`TCP_NODELAY` fails leaks (`ConnectionsDispatchable` says which connections are
served, and these are not); a connection that `epoll_ctl` refuses is never read
nor released (`TableMatchesKernel` has the exception); a listening socket whose
`listen` fails leaves `run()` spinning (`TableMatchesKernel` has the exception);
a device that moves back to an address it had before is shown at the old one
(`AddressesAreReported` is stated for steady networks only);
`roundUpToPowerOfTwo` never returns for even sizes, so a message of more than
3072 bytes and an even size stops the program (`RoomForMessage` holds when it
returns); a `tvp_reader` whose first message was broken before any accepted tag
passes its assertion and reads the second from the middle (`AnswersTheMessage`
has the exception, `InsideTheMessage` has none); `getPair` of a tag outside the
clipper, which `tvp_test.cpp:42` has for tag 10, uses index -1; `set` compares
eight bytes from the end of a message of any length, in front of the buffer if
it is shorter; a query with a last field that has no "=" ends the server
(`FieldsComeOut` is stated for regular texts, `MamService` may end over such a
line), and so do the lengths that `Countable` excludes, or they are scanned for
ever; a request that arrives in parts is handled once per part.

## 5. Proofs

Every theorem is proved for all values of the constants that satisfy the named
assumptions of the module it is about; TLC evaluates these on every run.

| Module | Theorems |
|---|---|
| `MamServer_proofs` | `TypeCorrect`, `NoDrift`, `TableAgrees`, `NoStaleEvent`, `SetUpIsServed`, `OneReplyPerRead`, action property `ClosesHungUp` |
| `MamServer_refinement` | `Refinement`: `Spec => Service!ServiceSpec` |
| `NetScanDb_proofs` | `TypeCorrect`, `OneElement`, `ReportedArePresent`, `TableIsCurrent`; on steady networks `NoAssertionFails`, `AddressesLeadHome`, `AddressesAreThoseOfTheList` |
| `SSLThread_proofs` | `TypeCorrect`, `MutualExclusion`, `LibraryIsUp`, `NoDrift` |
| `RuvTree_proofs` | `TypeCorrect`, `EntriesStayTogether`, `OneLinePerField`, `FirstMessageInOrder` |
| `RuvTree_placing` | `EveryFieldInItsPlace`, `PairsReadInPlace` |
| `TvpReader_proofs` | `TypeCorrect`, `InsideTheMessageHolds`, `TruncatedIsSilentHolds`, `AnswersAreFieldsHolds`, `AnswersTheMessageHolds`, `RoomForMessageHolds` |
| `TextScans_proofs` | `TypeCorrect`, `NothingOutside`, `TextIsItsMessages`, `EveryFieldOnce` |

**`MamServer_proofs`**, from `MultiplexerAssumption` and `MamServerAssumption`
(sizes positive, descriptors an interval, owners distinct). The inductive
invariant `IInv` adds four parts to the five invariants of the runs. `Fresh`:
before the constructor there is nothing. `ServerSlot`: only `_server_fd` can be
the listening socket, and it stays registered. `OnePlace`: a client is away, in
the queue once, or behind one descriptor. `Accounts`: a client was read no more
often than something arrived from it, less one while bytes are unread, and the
reply being written is owed. Why they are needed: that an event of a batch is
still valid after another handler of the batch ran is true because no two
descriptors belong to one client (reading one client's bytes takes nobody
else's), because `accept` returns a free descriptor, which is therefore in no
slot and no event, and because only the handler of the listening socket shortens
the accept queue. The lemmas `NewFdIsFree` (the lowest free descriptor exists),
`RegisterNew`, `UnregisterHeld`, `BatchKept`, `TableKept` and `QueueShorter`
carry these facts; then there is one lemma per action.

**`MamServer_refinement`** adds `Arrivals` (nobody has connected to an engine
without a listening socket) to `IInv`. The four phases a client can be in
exclude one another (`PhasesExclude`, from `OnePlace`), so it is enough to say
of every action which client changes its place; every other client is in the
same phase (`PhaseKept`), and a step that moves none is a stutter (`Unseen`). A
read takes the client's bytes, so it is no longer garbled (`GarbledKept` for
everybody else): what the engine did with the line is a `PassOver`, a stutter
or, over a line that cannot be read, the `End`, which `Breaks` allows;
`WriteKills` is one because its client is connected, hung up and owed a reply.

**`NetScanDb_proofs`**, from `NetScanAssumption`. `IInv`: the two maps stay
inside `_elems`, the MAC that leads to an element is the element's own
(`MacsLeadHome`), between the two loops the devices of the list are those that
are open and those still to be reached (`Reached`), and what is shown is current
unless a change has been noted (`Noticed`). That holds of any lists. For a
steady network (`SteadyNetwork`: `Roaming` is FALSE and a scan takes at least a
second, as the roaming run shows to be necessary) the invariant is larger: which
elements can be closed or open while the list is half done, which times they
have, and where each of their addresses leads.

**`SSLThread_proofs`**, from `SSLThreadAssumption` (finitely many threads).
`Holder`: the thread in the critical section is the one that holds the mutex.
`Instances`: what a thread's own count is where the code has just tested it.
`Counting`: `_nthreads` is the number of counted threads, by adding and removing
one element of a finite set. `Stages`: while the library starts the count is
one, while it stops it is zero; so when some thread has an object nobody starts
or stops it.

**`RuvTree_proofs`**, from `RuvAssumption` (the tags of groups, and their stops,
are tags). `Shape` is the type invariant with the numbers of the nodes and what
a call knows of its caller, that it reads the entries of the group of its node's
tag. `EntriesTogether` and `SideBySide` are not inductive: in the first column
`rmake` makes a node for every pair without looking for one, and no node is
there twice only because no pair of the message comes twice in one place. So
`FixInv` ties the tree to the format. `Following`: the groups whose entries
`rmake` is reading are those that `OpenEntries` has open. `RootOutside`: what it
reads in the outermost call stands outside all groups. `StillTaken`: an inner
call forgets a tag when it has read it. `EntriesLast`: the entries being read
are the last children there are. `FieldsOnce` and `RowsTogether` are the two
properties themselves, at every moment. `OpenEntries` is a recursive function
over the positions of a message; that it satisfies its equation
(`OpenEntriesAre`) is proved with a smallest position up to which there is no
such function, since the induction theorems of the library cannot be used.
`FirstInOrder`, of both makers and every message that `Compare` gives them,
needs another invariant, `OrderInv`, which speaks of the numbers nodes are given
as they are made. A child is younger than its parent (`KidsYounger`). While the
first message is read, the children of a node stand in the order of their
numbers (`Ascending`), what is below a child is made before its next sibling
(`Preorder`), because every call is for the last child there is (`CallsLast`),
and of two fields the younger has the later pair (`LaterHigher`). `FirstFields`:
the values are those of the pairs read so far. `Below` goes down to younger
nodes only, so it satisfies its equation (`BelowIs`), and what it has of a node
lies between this node and the next sibling (`BelowFrom`, `BelowBefore`).

**`RuvTree_placing`** proves `PlacedAsWritten`, which compares the paths in the
tree with the places of a format that is read without the tree. `PlaceInv` joins
the two by the calls. A node has one parent (`OneParent`), hence a path of its
own (`PathIsOwn`). The path of the node that a call fills in can be read off the
calls outside it: the group whose entries each of them reads and the turn it is
at (`CallsPlaced`). The format has the same entries open at the pair read next,
up to the step between a counter and its entry: `EntriesFollow` says it of
`rmake`, with the members each open entry has had, `StartsFollow` of `ssmake`.
So the pair's place is the path of the node (`HomeIsPlace`). Both need the turn
of a call to be the number of the entry in the tree and in the format:
`EntriesMade` says that the node has at least as many entries of a group as the
call has seen, and no others while the first message is read; `SeenBefore` that
a call of `rmake` that has seen entries of a group has met its counter in this
place, so that where `WellFormed` holds every counter is met with a count of
zero; `StartsCounted` that `ssmake`'s turns are the starts in front. Then the
columns: what a column holds is what has been read of its message
(`ColumnsPlaced`). `ReadField` changes one node (`FieldGoes`), new or the first
of its tag, since a later message writes nowhere else (`FirstOfTag`); that
removes from the column the value of the same tag in the same place and no
other, because paths are unique (`FieldColumn`), as `Written` does with the
pairs of the message (`CellsOfField`). The columns of other messages stay, since
no step changes the path of a node (`KeepsPaths`): a new entry goes behind all
of its group (`BehindAll`), so that no entry's number changes.

**`TvpReader_proofs`**, from `TvpAssumption` (tags are no separators, offsets
have at least two values). `PlacesInside`: a value that is kept ends in front of
the message's last cell, and so would one that began at 1, the offset `getPair`
gives to a place without one; narrowing to an `unsigned short` only moves its
end to the left. `PositionBehindField`: the position is behind a separator or
where the reading began, so the loop never comes to the end of a message that
was cut off. Hence `InsideTheMessageHolds` and `TruncatedIsSilentHolds`, for
both classes. For `tvp_reader` alone `ReaderInv` says that every kept place is
empty or the value of a field that the message has for the tag (`FieldRead`: the
cell behind the position, "=" and the first separator after it make a field),
with nothing kept while the position is 0; hence `AnswersAreFieldsHolds`. Of a
proper message moreover `ReadSoFar`: what is kept of a tag is its last field in
front of the position, and nothing if it has none there; hence
`AnswersTheMessageHolds`, for both classes. Last, `RoomInv`: what `set` copies
fits into the buffer when `roundUpToPowerOfTwo` ends, though its assertions may
be compiled out and it does not give the next power of two. With `MsgAssumption`
the bits of a size are all in the lower half of a `size_t`, so the highest bit
can be set only by turns that have filled everything below it before, at which
the function would have ended; hence it returns 2^c for a c above every bit of
the size that is not the width of the type (`RoundedIsEnough`). `PowerIs`,
`BelowPower` and `NoGap` are the facts about powers, bits and sets without a gap
that this needs; the prover has none about 2^n, so `Power` is a function of the
module.

**`TextScans_proofs`**, from `ScanAssumption`, for texts of any length, also
those the counters cannot count. `InField`: the value's place is behind its tag
and not behind the place that is looked at. `MessagesSoFar`: where a message
ends, the next begins. The second half is about texts in the format: `AtField`
says that the fields given so far are those that begin before the one being
read, that its end has not been passed, and that its tag ends with its first
"=".

Only model-checked: all liveness properties (they need fairness and ENABLED,
which are beyond the prover), and the three runs that find a violation. Every
invariant and every action property of a passing run is a theorem.

## 6. Not modelled, and the plan

Not modelled for good: vendored code (`HowardHinnant_date`, `crypto/phc`,
`keylogger`), OpenSSL samples, test programs around one system call, HTML
markup and logging, which have no state of their own.

Not modelled, and why:

* Containers, vending machine, edit distance: small sequential classes whose
  operations a unit test reaches; candidates, each against an abstract map,
  queue or reference definition, in this order: the vending machine with its
  unsigned and int stock, `idxmap`, the counting deque, range keys, the edit
  distance.
* HTTP pages, sessions and history: most collaborators (`dsk::Data` and others)
  are not in the repository; `HttpHistory` alone could be modelled.
* `tcp_read` and `tcp_write` below the granularity of one read and one write;
  the pairing of addresses over nmap's lines; the sniffer's whois cache.
* `get_fix_separator` and `get_fix_message`: searches with `std::string::find`
  in front of `pair_tokenizer`. `MsgFix_rmake` decides as `rmake` does with one
  column. `sleepy2` splits at commas.
* `getPair` of an unknown tag: undefined behaviour that no property can hold to
  an outcome (`args[1]` of a request line with one word is a choice of three).
