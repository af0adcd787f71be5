----------------------------- MODULE Multiplexer -----------------------------
(***************************************************************************)
(* mam::multiplexer (net/mam/mamMultiplexer.h): a table of handlers        *)
(* indexed by file descriptor, the kernel's epoll interest list, and the   *)
(* array of events that one epoll_wait fills and poll() then dispatches.   *)
(*                                                                         *)
(* The context and the handler of a slot are always set and cleared        *)
(* together, so a slot is "registered" or it is not.  What a handler does  *)
(* belongs to the module that uses the multiplexer.                        *)
(***************************************************************************)
EXTENDS Integers, FiniteSets

CONSTANTS
  InitSlots,     (* slots of _fd after the constructor: _fd.resize(32)       *)
  EventsSize,    (* epoll_events_size: what one epoll_wait can return (32)   *)
  CtlFailures    (* descriptors the kernel may refuse to watch (ENOSPC,      *)
                 (* ENOMEM): register_fd does not look at epoll_ctl's result *)

ASSUME MultiplexerAssumption ==
  /\ InitSlots \in Nat \ {0}
  /\ EventsSize \in Nat \ {0}

VARIABLES
  size,          (* _fd.size()                                               *)
  registered,    (* the indices of _fd whose _handler is not null            *)
  noActive,      (* _no_active_fd                                            *)
  interest,      (* the kernel's interest list behind _epoll_fd              *)
  batch          (* events of _epoll_events that poll() has not dispatched   *)

tableVars == <<size, registered, noActive, interest>>
muxVars == <<size, registered, noActive, interest, batch>>

Larger(a, b) == IF a > b THEN a ELSE b
Smaller(a, b) == IF a < b THEN a ELSE b

MuxInit ==
  /\ size = InitSlots
  /\ registered = {}
  /\ noActive = 0
  /\ interest = {}
  /\ batch = {}

(* Mutants of register_fd: a refused descriptor is counted; the table grows  *)
(* one descriptor too late.                                                  *)
RegisterCountsRefused(fd) ==
  IF fd < 0
    THEN noActive' = noActive + 1 /\ UNCHANGED <<size, registered, interest>>
    ELSE /\ size' = IF fd >= size THEN Larger(fd + 1, 2 * size) ELSE size
         /\ registered' = registered \cup {fd}
         /\ interest' = IF fd \in registered THEN interest ELSE interest \cup {fd}
         /\ noActive' = noActive + 1

RegisterGrowsLate(fd) ==
  IF fd < 0
    THEN UNCHANGED tableVars
    ELSE /\ size' = IF fd > size THEN Larger(fd + 1, 2 * size) ELSE size
         /\ registered' = registered \cup {fd}
         /\ interest' = IF fd \in registered THEN interest ELSE interest \cup {fd}
         /\ noActive' = noActive + 1

(* register_fd.  A negative descriptor is refused.  A slot that already has  *)
(* a handler is modified (EPOLL_CTL_MOD), which adds nothing to the kernel's *)
(* list; the count goes up either way, and when epoll_ctl fails.             *)
RegisterFd(fd) ==
  IF fd < 0
    THEN UNCHANGED tableVars
    ELSE /\ size' = IF fd >= size THEN Larger(fd + 1, 2 * size) ELSE size
         /\ registered' = registered \cup {fd}
         /\ \/ interest' = IF fd \in registered THEN interest ELSE interest \cup {fd}
            \/ fd \in CtlFailures /\ interest' = interest
         /\ noActive' = noActive + 1

(* The test at the top of unregister_close_fd.                               *)
CanUnregister(fd) == fd >= 0 /\ fd < size /\ fd \in registered

(* unregister_close_fd: the multiplexer's half.  The descriptor itself is    *)
(* closed in the same call when CanUnregister holds.                         *)
UnregisterFd(fd) ==
  IF CanUnregister(fd)
    THEN /\ registered' = registered \ {fd}
         /\ interest' = interest \ {fd}
         /\ noActive' = noActive - 1
         /\ UNCHANGED size
    ELSE UNCHANGED tableVars

(* epoll_wait: as many of the ready descriptors as the array holds, in any   *)
(* order; a descriptor appears at most once.                                 *)
FetchEvents(ready) ==
  /\ batch = {}
  /\ ready # {}
  /\ \E events \in SUBSET ready :
       /\ Cardinality(events) = Smaller(EventsSize, Cardinality(ready))
       /\ batch' = events
=============================================================================
