------------------------------ MODULE SSLThread ------------------------------
(***************************************************************************)
(* SSLThread (net/mam/mamNetSSL.h): an object whose first instance in the  *)
(* process initialises OpenSSL and whose last one cleans it up.  Each      *)
(* thread counts its own instances without a lock (_ninstances is          *)
(* thread_local); only a thread's first and last instance take the mutex   *)
(* and touch _nthreads.  Initialisation and cleanup are several library    *)
(* calls, so a thread that holds no lock could see them half done.         *)
(***************************************************************************)
EXTENDS Integers, FiniteSets

CONSTANTS
  Threads,       (* the threads that create and destroy SSLThread objects    *)
  Nobody,        (* holder of the mutex when it is free                      *)
  MaxInstances   (* instances one thread holds at a time (bounds the model)  *)

ASSUME SSLThreadAssumption ==
  /\ IsFiniteSet(Threads) /\ Nobody \notin Threads
  /\ MaxInstances \in Nat \ {0}

VARIABLES
  pc,            (* where each thread is, "run" outside the class            *)
  ninstances,    (* _ninstances of each thread                               *)
  nthreads,      (* _nthreads                                                *)
  mutex,         (* the thread that holds _mutex, or Nobody                  *)
  library        (* OpenSSL: "down", "starting", "up" or "stopping"          *)

vars == <<pc, ninstances, nthreads, mutex, library>>

Goto(t, label) == pc' = [pc EXCEPT ![t] = label]

Init ==
  /\ pc = [t \in Threads |-> "run"]
  /\ ninstances = [t \in Threads |-> 0]
  /\ nthreads = 0
  /\ mutex = Nobody
  /\ library = "down"

(* Mutant: every instance, not only the first, is counted in _nthreads.      *)
ConstructCountsAll(t) ==
  /\ pc[t] = "run" /\ ninstances[t] < MaxInstances
  /\ ninstances' = [ninstances EXCEPT ![t] = @ + 1]
  /\ Goto(t, "enter")
  /\ UNCHANGED <<nthreads, mutex, library>>

(* SSLThread(): _ninstances++ == 0 decides whether the mutex is needed.      *)
Construct(t) ==
  /\ pc[t] = "run" /\ ninstances[t] < MaxInstances
  /\ ninstances' = [ninstances EXCEPT ![t] = @ + 1]
  /\ IF ninstances[t] = 0 THEN Goto(t, "enter") ELSE UNCHANGED pc
  /\ UNCHANGED <<nthreads, mutex, library>>

LockToEnter(t) ==
  /\ pc[t] = "enter" /\ mutex = Nobody
  /\ mutex' = t
  /\ Goto(t, "count")
  /\ UNCHANGED <<ninstances, nthreads, library>>

CountUp(t) ==
  /\ pc[t] = "count"
  /\ nthreads' = nthreads + 1
  /\ IF nthreads = 0
       THEN Goto(t, "initialise") /\ library' = "starting"
       ELSE Goto(t, "unlock") /\ UNCHANGED library
  /\ UNCHANGED <<ninstances, mutex>>

Initialise(t) ==
  /\ pc[t] = "initialise"
  /\ library' = "up"
  /\ Goto(t, "unlock")
  /\ UNCHANGED <<ninstances, nthreads, mutex>>

(* Mutant: every instance, not only the last, is taken out of _nthreads.     *)
DestroyUncountsAll(t) ==
  /\ pc[t] = "run" /\ ninstances[t] > 0
  /\ ninstances' = [ninstances EXCEPT ![t] = @ - 1]
  /\ Goto(t, "remove")
  /\ UNCHANGED <<nthreads, mutex, library>>

(* ~SSLThread(): --_ninstances == 0.                                         *)
Destroy(t) ==
  /\ pc[t] = "run" /\ ninstances[t] > 0
  /\ ninstances' = [ninstances EXCEPT ![t] = @ - 1]
  /\ IF ninstances[t] = 1 THEN Goto(t, "remove") ELSE UNCHANGED pc
  /\ UNCHANGED <<nthreads, mutex, library>>

(* ERR_remove_state(id_fn()), before the mutex is taken.                     *)
RemoveState(t) ==
  /\ pc[t] = "remove"
  /\ Goto(t, "leave")
  /\ UNCHANGED <<ninstances, nthreads, mutex, library>>

(* Mutant: the destructor does not take the mutex.                           *)
LeaveUnlocked(t) ==
  /\ pc[t] = "leave"
  /\ Goto(t, "uncount")
  /\ UNCHANGED <<ninstances, nthreads, mutex, library>>

LockToLeave(t) ==
  /\ pc[t] = "leave" /\ mutex = Nobody
  /\ mutex' = t
  /\ Goto(t, "uncount")
  /\ UNCHANGED <<ninstances, nthreads, library>>

(* Mutant: the last thread but one cleans up.                                *)
CountDownEarly(t) ==
  /\ pc[t] = "uncount"
  /\ nthreads' = nthreads - 1
  /\ IF nthreads <= 2
       THEN Goto(t, "cleanup") /\ library' = "stopping"
       ELSE Goto(t, "unlock") /\ UNCHANGED library
  /\ UNCHANGED <<ninstances, mutex>>

CountDown(t) ==
  /\ pc[t] = "uncount"
  /\ nthreads' = nthreads - 1
  /\ IF nthreads = 1
       THEN Goto(t, "cleanup") /\ library' = "stopping"
       ELSE Goto(t, "unlock") /\ UNCHANGED library
  /\ UNCHANGED <<ninstances, mutex>>

Cleanup(t) ==
  /\ pc[t] = "cleanup"
  /\ library' = "down"
  /\ Goto(t, "unlock")
  /\ UNCHANGED <<ninstances, nthreads, mutex>>

(* Mutant: the mutex is not given back.                                      *)
ReturnLocked(t) ==
  /\ pc[t] = "unlock"
  /\ Goto(t, "run")
  /\ UNCHANGED <<ninstances, nthreads, mutex, library>>

Unlock(t) ==
  /\ pc[t] = "unlock"
  /\ mutex' = Nobody
  /\ Goto(t, "run")
  /\ UNCHANGED <<ninstances, nthreads, library>>

(* The steps of a thread that is inside a constructor or a destructor.       *)
Inside(t) ==
  \/ CountUp(t) \/ Initialise(t) \/ RemoveState(t)
  \/ CountDown(t) \/ Cleanup(t) \/ Unlock(t)

Next ==
  \E t \in Threads : \/ Construct(t) \/ Destroy(t)
                     \/ LockToEnter(t) \/ LockToLeave(t) \/ Inside(t)

Spec == Init /\ [][Next]_vars

(* A scheduled thread goes on inside the class; a thread that keeps asking   *)
(* for the mutex gets it in the end.                                         *)
FairSpec ==
  /\ Spec
  /\ \A t \in Threads : /\ WF_vars(Inside(t))
                        /\ SF_vars(LockToEnter(t))
                        /\ SF_vars(LockToLeave(t))

-----------------------------------------------------------------------------
TypeOK ==
  /\ pc \in [Threads -> {"run", "enter", "count", "initialise", "remove", "leave",
                         "uncount", "cleanup", "unlock"}]
  /\ ninstances \in [Threads -> Nat]
  /\ nthreads \in Nat
  /\ mutex \in Threads \cup {Nobody}
  /\ library \in {"down", "starting", "up", "stopping"}

(* Threads whose object exists: the constructor has returned, and the        *)
(* destructor has not been entered for the last instance.                    *)
Live(t) == pc[t] = "run" /\ ninstances[t] > 0

(* A thread that has an SSLThread object finds OpenSSL fully initialised,    *)
(* whatever the other threads construct and destroy meanwhile; and so does   *)
(* ERR_remove_state, which the destructor calls before it takes the mutex.   *)
UsableWhileLive ==
  \A t \in Threads : Live(t) \/ pc[t] = "remove" => library = "up"

(* At most one thread at a time initialises or cleans up.                    *)
Critical == {"count", "initialise", "uncount", "cleanup", "unlock"}
OneAtATime ==
  \A t, u \in Threads : pc[t] \in Critical /\ pc[u] \in Critical => t = u

(* Threads that _nthreads counts.                                            *)
Counted ==
  {t \in Threads : \/ pc[t] \in {"initialise", "remove", "leave", "uncount"}
                   \/ pc[t] \in {"run", "unlock"} /\ ninstances[t] > 0}

(* _nthreads never drifts from the number of threads that hold instances,    *)
(* so it cannot wrap below zero, and outside the critical section it says    *)
(* whether the library is up.                                                *)
CountIsExact ==
  /\ nthreads = Cardinality(Counted)
  /\ mutex = Nobody => library = IF nthreads > 0 THEN "up" ELSE "down"

(* Every constructor and destructor that was entered returns.                *)
CallsReturn == \A t \in Threads : pc[t] # "run" ~> pc[t] = "run"
=============================================================================
