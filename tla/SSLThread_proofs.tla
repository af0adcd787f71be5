--------------------------- MODULE SSLThread_proofs ---------------------------
(***************************************************************************)
(* SSLThread is correct for any finite set of threads.  The argument: the  *)
(* mutex is held by the one thread in the critical section (Holder), so    *)
(* only that thread changes _nthreads and the library; _nthreads is the    *)
(* number of threads between their CountUp and their CountDown (Counting), *)
(* hence 1 while the library starts and 0 while it stops (Stages), so that *)
(* nobody else can be between a constructor and a destructor then.         *)
(***************************************************************************)
EXTENDS SSLThread, FiniteSetTheorems, TLAPS

(* The thread in the critical section is the one that holds the mutex.       *)
Holder == \A t \in Threads : pc[t] \in Critical <=> mutex = t

(* The thread's own count, where the code has just tested it.                *)
Instances ==
  \A t \in Threads :
    /\ pc[t] \in {"enter", "count", "initialise"} => ninstances[t] > 0
    /\ pc[t] \in {"remove", "leave", "uncount", "cleanup"} => ninstances[t] = 0

Counting == nthreads = Cardinality(Counted)

(* The library's stage follows from _nthreads and from who is at work.       *)
Stages ==
  /\ \A t \in Threads : pc[t] = "initialise" => library = "starting" /\ nthreads = 1
  /\ \A t \in Threads : pc[t] = "cleanup" => library = "stopping" /\ nthreads = 0
  /\ (\A t \in Threads : pc[t] \notin {"initialise", "cleanup"}) =>
        library = IF nthreads > 0 THEN "up" ELSE "down"

IInv == TypeOK /\ Holder /\ Instances /\ Counting /\ Stages

-----------------------------------------------------------------------------
(* Counted is a finite set, so its cardinality is a natural number.          *)
LEMMA CountedFinite ==
  /\ IsFiniteSet(Counted)
  /\ Cardinality(Counted) \in Nat
<1>1. Counted \subseteq Threads
  BY DEF Counted
<1>2. IsFiniteSet(Counted)
  BY <1>1, FS_Subset, SSLThreadAssumption
<1> QED
  BY <1>2, FS_CardinalityType

(* A thread that is counted makes the count positive; if the count is one,   *)
(* it is the only one; if the count is zero, there is none.                  *)
LEMMA CountedBound ==
  ASSUME Counting, NEW t \in Counted
  PROVE  /\ nthreads > 0
         /\ nthreads = 1 => Counted = {t}
<1>1. Counted # {}
  OBVIOUS
<1>2. Cardinality(Counted) # 0
  BY <1>1, CountedFinite, FS_EmptySet
<1>3. ASSUME nthreads = 1 PROVE Counted = {t}
  <2>1. PICK u : Counted = {u}
    BY <1>3, CountedFinite, FS_Singleton DEF Counting
  <2> QED
    BY <2>1
<1> QED
  BY <1>2, <1>3, CountedFinite DEF Counting

(* Steps that keep the set of counted threads keep Counting.                 *)
LEMMA SameCounted ==
  ASSUME Counting, Counted' = Counted, UNCHANGED nthreads
  PROVE  Counting'
BY DEF Counting

LEMMA InitIInv == Init => IInv
<1> SUFFICES ASSUME Init PROVE IInv
  OBVIOUS
<1>1. TypeOK
  BY DEF Init, TypeOK
<1>2. Counted = {}
  BY DEF Init, Counted
<1>3. Counting
  BY <1>2, FS_EmptySet DEF Init, Counting
<1>4. Holder /\ Instances /\ Stages
  BY SSLThreadAssumption DEF Init, Holder, Instances, Stages, Critical
<1> QED
  BY <1>1, <1>3, <1>4 DEF IInv

-----------------------------------------------------------------------------
(* Every step keeps the invariant, action by action.                         *)
LEMMA StepIInv == IInv /\ [Next]_vars => IInv'
<1> SUFFICES ASSUME IInv, [Next]_vars PROVE IInv'
  OBVIOUS
<1> USE DEF IInv
<1>1. ASSUME NEW t \in Threads, Construct(t) PROVE IInv'
  <2> USE <1>1 DEF Construct, Goto
  <2>1. TypeOK'
    BY DEF TypeOK
  <2>2. Holder'
    BY DEF TypeOK, Holder, Critical
  <2>3. Instances'
    BY DEF TypeOK, Instances
  <2>4. Counted' = Counted
    BY DEF TypeOK, Counted
  <2>5. Counting'
    BY <2>4, SameCounted
  <2>6. Stages'
    BY DEF TypeOK, Stages
  <2> QED
    BY <2>1, <2>2, <2>3, <2>5, <2>6
<1>2. ASSUME NEW t \in Threads, Destroy(t) PROVE IInv'
  <2> USE <1>2 DEF Destroy, Goto
  <2>1. TypeOK'
    BY DEF TypeOK
  <2>2. Holder'
    BY DEF TypeOK, Holder, Critical
  <2>3. Instances'
    BY DEF TypeOK, Instances
  <2>4. Counted' = Counted
    BY DEF TypeOK, Counted
  <2>5. Counting'
    BY <2>4, SameCounted
  <2>6. Stages'
    BY DEF TypeOK, Stages
  <2> QED
    BY <2>1, <2>2, <2>3, <2>5, <2>6
<1>3. ASSUME NEW t \in Threads, LockToEnter(t) PROVE IInv'
  <2> USE <1>3 DEF LockToEnter, Goto
  <2>1. TypeOK'
    BY DEF TypeOK
  <2>2. Holder'
    BY SSLThreadAssumption DEF TypeOK, Holder, Critical
  <2>3. Instances'
    BY DEF TypeOK, Instances
  <2>4. Counted' = Counted
    BY DEF TypeOK, Counted
  <2>5. Counting'
    BY <2>4, SameCounted
  <2>6. Stages'
    BY DEF TypeOK, Stages
  <2> QED
    BY <2>1, <2>2, <2>3, <2>5, <2>6
<1>4. ASSUME NEW t \in Threads, LockToLeave(t) PROVE IInv'
  <2> USE <1>4 DEF LockToLeave, Goto
  <2>1. TypeOK'
    BY DEF TypeOK
  <2>2. Holder'
    BY SSLThreadAssumption DEF TypeOK, Holder, Critical
  <2>3. Instances'
    BY DEF TypeOK, Instances
  <2>4. Counted' = Counted
    BY DEF TypeOK, Counted
  <2>5. Counting'
    BY <2>4, SameCounted
  <2>6. Stages'
    BY DEF TypeOK, Stages
  <2> QED
    BY <2>1, <2>2, <2>3, <2>5, <2>6
<1>5. ASSUME NEW t \in Threads, CountUp(t) PROVE IInv'
  <2> USE <1>5 DEF CountUp, Goto
  <2>1. TypeOK'
    BY DEF TypeOK
  <2>2. Holder'
    BY DEF TypeOK, Holder, Critical
  <2>3. Instances'
    BY DEF TypeOK, Instances
  <2>4. t \notin Counted /\ Counted' = Counted \cup {t}
    BY DEF TypeOK, Counted, Instances
  <2>5. Cardinality(Counted') = Cardinality(Counted) + 1
    BY <2>4, CountedFinite, FS_AddElement
  <2>6. Counting'
    BY <2>5 DEF Counting
  <2>7. \A u \in Threads : pc[u] \in Critical => u = t
    BY DEF Holder, Critical
  <2>8. \A u \in Threads : pc[u] \notin {"initialise", "cleanup"}
    BY <2>7 DEF Critical
  <2>9. Stages'
    BY <2>8 DEF TypeOK, Stages
  <2> QED
    BY <2>1, <2>2, <2>3, <2>6, <2>9
<1>6. ASSUME NEW t \in Threads, Initialise(t) PROVE IInv'
  <2> USE <1>6 DEF Initialise, Goto
  <2>1. TypeOK'
    BY DEF TypeOK
  <2>2. Holder'
    BY DEF TypeOK, Holder, Critical
  <2>3. Instances'
    BY DEF TypeOK, Instances
  <2>4. Counted' = Counted
    BY DEF TypeOK, Counted, Instances
  <2>5. Counting'
    BY <2>4, SameCounted
  <2>6. \A u \in Threads : pc[u] \in Critical => u = t
    BY DEF Holder, Critical
  <2>7. Stages'
    BY <2>6 DEF TypeOK, Stages, Critical
  <2> QED
    BY <2>1, <2>2, <2>3, <2>5, <2>7
<1>7. ASSUME NEW t \in Threads, RemoveState(t) PROVE IInv'
  <2> USE <1>7 DEF RemoveState, Goto
  <2>1. TypeOK'
    BY DEF TypeOK
  <2>2. Holder'
    BY DEF TypeOK, Holder, Critical
  <2>3. Instances'
    BY DEF TypeOK, Instances
  <2>4. Counted' = Counted
    BY DEF TypeOK, Counted
  <2>5. Counting'
    BY <2>4, SameCounted
  <2>6. Stages'
    BY DEF TypeOK, Stages
  <2> QED
    BY <2>1, <2>2, <2>3, <2>5, <2>6
<1>8. ASSUME NEW t \in Threads, CountDown(t) PROVE IInv'
  <2> USE <1>8 DEF CountDown, Goto
  <2>1. t \in Counted
    BY DEF Counted
  <2>2. nthreads > 0
    BY <2>1, CountedBound
  <2>3. TypeOK'
    BY <2>2 DEF TypeOK
  <2>4. Holder'
    BY DEF TypeOK, Holder, Critical
  <2>5. Instances'
    BY DEF TypeOK, Instances
  <2>6. Counted' = Counted \ {t}
    BY DEF TypeOK, Counted, Instances
  <2>7. Cardinality(Counted') = Cardinality(Counted) - 1
    BY <2>1, <2>6, CountedFinite, FS_RemoveElement
  <2>8. Counting'
    BY <2>7 DEF Counting
  <2>9. \A u \in Threads : pc[u] \in Critical => u = t
    BY DEF Holder, Critical
  <2>10. \A u \in Threads : pc[u] \notin {"initialise", "cleanup"}
    BY <2>9 DEF Critical
  <2>11. Stages'
    BY <2>2, <2>10 DEF TypeOK, Stages
  <2> QED
    BY <2>3, <2>4, <2>5, <2>8, <2>11
<1>9. ASSUME NEW t \in Threads, Cleanup(t) PROVE IInv'
  <2> USE <1>9 DEF Cleanup, Goto
  <2>1. TypeOK'
    BY DEF TypeOK
  <2>2. Holder'
    BY DEF TypeOK, Holder, Critical
  <2>3. Instances'
    BY DEF TypeOK, Instances
  <2>4. Counted' = Counted
    BY DEF TypeOK, Counted, Instances
  <2>5. Counting'
    BY <2>4, SameCounted
  <2>6. \A u \in Threads : pc[u] \in Critical => u = t
    BY DEF Holder, Critical
  <2>7. Stages'
    BY <2>6 DEF TypeOK, Stages, Critical
  <2> QED
    BY <2>1, <2>2, <2>3, <2>5, <2>7
<1>10. ASSUME NEW t \in Threads, Unlock(t) PROVE IInv'
  <2> USE <1>10 DEF Unlock, Goto
  <2>1. TypeOK'
    BY DEF TypeOK
  <2>2. Holder'
    BY SSLThreadAssumption DEF TypeOK, Holder, Critical
  <2>3. Instances'
    BY DEF TypeOK, Instances
  <2>4. Counted' = Counted
    BY DEF TypeOK, Counted
  <2>5. Counting'
    BY <2>4, SameCounted
  <2>6. Stages'
    BY DEF TypeOK, Stages
  <2> QED
    BY <2>1, <2>2, <2>3, <2>5, <2>6
<1>11. ASSUME UNCHANGED vars PROVE IInv'
  BY <1>11 DEF vars, TypeOK, Holder, Instances, Counting, Counted, Stages
<1> QED
  BY <1>1, <1>2, <1>3, <1>4, <1>5, <1>6, <1>7, <1>8, <1>9, <1>10, <1>11 DEF Next, Inside

LEMMA SpecIInv == Spec => []IInv
BY InitIInv, StepIInv, PTL DEF Spec

-----------------------------------------------------------------------------
(* While a thread has an SSLThread object (its constructor has returned and  *)
(* its last destructor has not passed ERR_remove_state) OpenSSL is fully     *)
(* initialised: nobody is in SSL_library_init or in EVP_cleanup.             *)
LEMMA UsableFromIInv == IInv => UsableWhileLive
<1> SUFFICES ASSUME IInv, NEW t \in Threads, Live(t) \/ pc[t] = "remove"
             PROVE  library = "up"
  BY DEF UsableWhileLive
<1> USE DEF IInv
<1>1. t \in Counted
  BY DEF Counted, Live
<1>2. nthreads > 0
  BY <1>1, CountedBound
<1>3. ASSUME NEW u \in Threads, pc[u] = "initialise" PROVE FALSE
  <2>1. nthreads = 1
    BY <1>3 DEF Stages
  <2>2. Counted = {t}
    BY <1>1, <2>1, CountedBound
  <2>3. u \in Counted
    BY <1>3 DEF Counted
  <2> QED
    BY <1>3, <2>2, <2>3 DEF Live
<1>4. ASSUME NEW u \in Threads, pc[u] = "cleanup" PROVE FALSE
  BY <1>2, <1>4 DEF Stages
<1> QED
  BY <1>2, <1>3, <1>4 DEF Stages

LEMMA ExactFromIInv == IInv => CountIsExact
<1> SUFFICES ASSUME IInv PROVE CountIsExact
  OBVIOUS
<1> USE DEF IInv
<1>1. ASSUME mutex = Nobody
      PROVE  \A t \in Threads : pc[t] \notin {"initialise", "cleanup"}
  BY <1>1, SSLThreadAssumption DEF Holder, Critical
<1> QED
  BY <1>1 DEF CountIsExact, Counting, Stages

-----------------------------------------------------------------------------
(* The variables of SSLThread keep their types; in particular _nthreads, a   *)
(* size_t, never goes below zero.                                            *)
THEOREM TypeCorrect == Spec => []TypeOK
<1>1. IInv => TypeOK
  BY DEF IInv
<1> QED
  BY <1>1, SpecIInv, PTL

(* At most one thread at a time is between a lock and its unlock.            *)
THEOREM MutualExclusion == Spec => []OneAtATime
<1>1. IInv => OneAtATime
  BY DEF IInv, Holder, OneAtATime
<1> QED
  BY <1>1, SpecIInv, PTL

(* Whoever has an SSLThread object can use OpenSSL.                          *)
THEOREM LibraryIsUp == Spec => []UsableWhileLive
BY UsableFromIInv, SpecIInv, PTL

(* _nthreads is the number of threads that hold instances.                   *)
THEOREM NoDrift == Spec => []CountIsExact
BY ExactFromIInv, SpecIInv, PTL
=============================================================================
