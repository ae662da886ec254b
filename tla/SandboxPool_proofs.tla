------------------------ MODULE SandboxPool_proofs ------------------------
(***************************************************************************)
(* Proofs about SandboxPool for any number of Runs, callers, sessions and  *)
(* sandboxes.  LockInv relates the program counters to who holds inUse and *)
(* whose context a sandbox has; CustodyInv says that exactly one party is  *)
(* responsible for cleaning up a sandbox, and that it has not done so yet. *)
(***************************************************************************)
EXTENDS SandboxPoolRefinement, TLAPS

\* What each program counter value implies about the entries a goroutine names.
LockInv ==
    /\ \A r \in Runs :
        /\ pc[r] # "idle" => key[r] \in Sessions
        /\ pc[r] \in {"store", "discard"} <=> mine[r] # None
        /\ mine[r] # None => mine[r] \in built /\ holder[mine[r]] = r /\ bound[mine[r]] = r
        /\ pc[r] \in {"discard", "checkout", "using"} => want[r] \in built
        /\ pc[r] = "using" => holder[want[r]] = r /\ bound[want[r]] = r
    /\ \A p \in Evictors :
        /\ epc[p] \in {"locking", "tearing"} <=> cur[p] # None
        /\ cur[p] # None => cur[p] \in built
        /\ epc[p] = "tearing" => holder[cur[p]] = p
        /\ sweep[p] \subseteq built
        /\ epc[p] \in {"idle", "exited"} => sweep[p] = {}
    /\ \A k \in Sessions : entries[k] # None => entries[k] \in built
    /\ \A s \in Sandboxes : s \notin built => cleanups[s] = 0

\* p is responsible for s: it took s out of the map and has not cleaned it up.
Evicting(p, s) == s \in sweep[p] \/ cur[p] = s

CustodyInv ==
    /\ \A k, l \in Sessions : entries[k] # None /\ entries[k] = entries[l] => k = l
    /\ \A p, q \in Evictors, s \in Sandboxes :
          Evicting(p, s) /\ Evicting(q, s) => p = q
    /\ \A p \in Evictors : cur[p] \notin sweep[p]
    /\ \A p \in Evictors, k \in Sessions :
          entries[k] # None => ~Evicting(p, entries[k])
    /\ \A r \in Runs, k \in Sessions : mine[r] # None => entries[k] # mine[r]
    /\ \A r \in Runs, p \in Evictors : mine[r] # None => ~Evicting(p, mine[r])
    /\ CleanedExactlyOnce

IInv == TypeOK /\ LockInv /\ CustodyInv

-----------------------------------------------------------------------------
LEMMA InitIInv == Init => IInv
<1> SUFFICES ASSUME Init PROVE IInv
  OBVIOUS
<1> USE PoolAssumption DEF Init
<1>1. TypeOK
  BY DEF TypeOK
<1>2. LockInv
  BY DEF LockInv
<1>3. CustodyInv
  BY DEF CustodyInv, CleanedExactlyOnce, Evicting
<1> QED
  BY <1>1, <1>2, <1>3 DEF IInv

LEMMA TypeOKStep ==
    ASSUME IInv, [Next]_vars
    PROVE  TypeOK'
<1> USE PoolAssumption DEF IInv, TypeOK, LockInv, vars, runVars, entryVars, evictVars
<1>1. ASSUME NEW r \in Runs, NEW k \in Sessions, LookupHit(r, k) PROVE TypeOK'
  BY <1>1 DEF LookupHit
<1>2. ASSUME NEW r \in Runs, NEW k \in Sessions, LookupMiss(r, k) PROVE TypeOK'
  BY <1>2 DEF LookupMiss
<1>3. ASSUME NEW r \in Runs, DelegateFails(r) PROVE TypeOK'
  BY <1>3 DEF DelegateFails
<1>4. ASSUME NEW r \in Runs, NEW s \in Sandboxes, DelegateBuilds(r, s) PROVE TypeOK'
  BY <1>4 DEF DelegateBuilds
<1>5. ASSUME NEW r \in Runs, StoreWins(r) PROVE TypeOK'
  BY <1>5 DEF StoreWins
<1>6. ASSUME NEW r \in Runs, StoreLoses(r) PROVE TypeOK'
  BY <1>6 DEF StoreLoses
<1>7. ASSUME NEW r \in Runs, Discard(r) PROVE TypeOK'
  BY <1>7 DEF Discard
<1>8. ASSUME NEW r \in Runs, Checkout(r) PROVE TypeOK'
  BY <1>8 DEF Checkout
<1>9. ASSUME NEW r \in Runs, Release(r) PROVE TypeOK'
  BY <1>9 DEF Release
<1>10. ASSUME NEW p \in Evictors, NEW k \in Sessions, Evict(p, k) PROVE TypeOK'
  BY <1>10 DEF Evict, Remove
<1>11. ASSUME NEW p \in Evictors, EvictIdle(p) PROVE TypeOK'
  BY <1>11 DEF EvictIdle, Remove
<1>12. ASSUME NEW p \in Evictors, Close(p) PROVE TypeOK'
  BY <1>12 DEF Close, Remove
<1>13. ASSUME NEW p \in Evictors, TakeNext(p) PROVE TypeOK'
  BY <1>13 DEF TakeNext
<1>14. ASSUME NEW p \in Evictors, LockEntry(p) PROVE TypeOK'
  BY <1>14 DEF LockEntry
<1>15. ASSUME NEW p \in Evictors, TearDown(p) PROVE TypeOK'
  BY <1>15 DEF TearDown
<1>16. CASE ReaperExits
  BY <1>16 DEF ReaperExits
<1>17. ASSUME NEW s \in Sandboxes, Age(s) PROVE TypeOK'
  BY <1>17 DEF Age
<1>18. CASE UNCHANGED vars
  BY <1>18 DEF vars
<1> QED
  BY <1>1, <1>2, <1>3, <1>4, <1>5, <1>6, <1>7, <1>8, <1>9, <1>10, <1>11, <1>12, <1>13, <1>14, <1>15, <1>16, <1>17, <1>18 DEF Next, RunStep, EvictStep

LEMMA LockInvStep ==
    ASSUME IInv, [Next]_vars
    PROVE  LockInv'
<1> USE PoolAssumption DEF IInv, TypeOK, LockInv, vars, runVars, entryVars, evictVars
<1>1. ASSUME NEW r \in Runs, NEW k \in Sessions, LookupHit(r, k) PROVE LockInv'
  BY <1>1 DEF LookupHit
<1>2. ASSUME NEW r \in Runs, NEW k \in Sessions, LookupMiss(r, k) PROVE LockInv'
  BY <1>2 DEF LookupMiss
<1>3. ASSUME NEW r \in Runs, DelegateFails(r) PROVE LockInv'
  BY <1>3 DEF DelegateFails
<1>4. ASSUME NEW r \in Runs, NEW s \in Sandboxes, DelegateBuilds(r, s) PROVE LockInv'
  BY <1>4 DEF DelegateBuilds
<1>5. ASSUME NEW r \in Runs, StoreWins(r) PROVE LockInv'
  BY <1>5 DEF StoreWins
<1>6. ASSUME NEW r \in Runs, StoreLoses(r) PROVE LockInv'
  BY <1>6 DEF StoreLoses
<1>7. ASSUME NEW r \in Runs, Discard(r) PROVE LockInv'
  BY <1>7 DEF Discard
<1>8. ASSUME NEW r \in Runs, Checkout(r) PROVE LockInv'
  BY <1>8 DEF Checkout
<1>9. ASSUME NEW r \in Runs, Release(r) PROVE LockInv'
  BY <1>9 DEF Release
<1>10. ASSUME NEW p \in Evictors, NEW k \in Sessions, Evict(p, k) PROVE LockInv'
  BY <1>10 DEF Evict, Remove
<1>11. ASSUME NEW p \in Evictors, EvictIdle(p) PROVE LockInv'
  BY <1>11 DEF EvictIdle, Remove
<1>12. ASSUME NEW p \in Evictors, Close(p) PROVE LockInv'
  BY <1>12 DEF Close, Remove
<1>13. ASSUME NEW p \in Evictors, TakeNext(p) PROVE LockInv'
  BY <1>13 DEF TakeNext
<1>14. ASSUME NEW p \in Evictors, LockEntry(p) PROVE LockInv'
  BY <1>14 DEF LockEntry
<1>15. ASSUME NEW p \in Evictors, TearDown(p) PROVE LockInv'
  BY <1>15 DEF TearDown
<1>16. CASE ReaperExits
  BY <1>16 DEF ReaperExits
<1>17. ASSUME NEW s \in Sandboxes, Age(s) PROVE LockInv'
  BY <1>17 DEF Age
<1>18. CASE UNCHANGED vars
  BY <1>18 DEF vars
<1> QED
  BY <1>1, <1>2, <1>3, <1>4, <1>5, <1>6, <1>7, <1>8, <1>9, <1>10, <1>11, <1>12, <1>13, <1>14, <1>15, <1>16, <1>17, <1>18 DEF Next, RunStep, EvictStep

\* Moving any set of keys out of the map hands each entry to one evictor.
LEMMA RemoveCustody ==
    ASSUME IInv, NEW p \in Evictors, NEW ks \in SUBSET Sessions, Remove(p, ks)
    PROVE  CustodyInv'
BY PoolAssumption DEF IInv, TypeOK, LockInv, CustodyInv, CleanedExactlyOnce, Accounted,
   InMap, Evicting, Remove, runVars, entryVars

LEMMA CustodyInvStep ==
    ASSUME IInv, [Next]_vars
    PROVE  CustodyInv'
<1> USE PoolAssumption DEF IInv, TypeOK, LockInv, CustodyInv, CleanedExactlyOnce, Accounted,
        InMap, Evicting, vars, runVars, entryVars, evictVars
<1>1. ASSUME NEW r \in Runs, NEW k \in Sessions, LookupHit(r, k) PROVE CustodyInv'
  BY <1>1 DEF LookupHit
<1>2. ASSUME NEW r \in Runs, NEW k \in Sessions, LookupMiss(r, k) PROVE CustodyInv'
  BY <1>2 DEF LookupMiss
<1>3. ASSUME NEW r \in Runs, DelegateFails(r) PROVE CustodyInv'
  BY <1>3 DEF DelegateFails
<1>4. ASSUME NEW r \in Runs, NEW s \in Sandboxes, DelegateBuilds(r, s) PROVE CustodyInv'
  <2> USE <1>4 DEF DelegateBuilds
  <2>1. CleanedExactlyOnce'
    <3> SUFFICES ASSUME NEW t \in built'
                 PROVE (\/ cleanups[t] = 0 /\ Accounted(t)
                        \/ cleanups[t] = 1 /\ ~Accounted(t))'
      OBVIOUS
    <3>1. CASE t = s
      <4>1. mine'[r] = s /\ cleanups'[s] = 0
        OBVIOUS
      <4> QED
        BY <3>1, <4>1
    <3>2. CASE t # s
      OBVIOUS
    <3> QED
      BY <3>1, <3>2
  <2> QED
    BY <2>1
<1>5. ASSUME NEW r \in Runs, StoreWins(r) PROVE CustodyInv'
  BY <1>5 DEF StoreWins
<1>6. ASSUME NEW r \in Runs, StoreLoses(r) PROVE CustodyInv'
  BY <1>6 DEF StoreLoses
<1>7. ASSUME NEW r \in Runs, Discard(r) PROVE CustodyInv'
  BY <1>7 DEF Discard
<1>8. ASSUME NEW r \in Runs, Checkout(r) PROVE CustodyInv'
  BY <1>8 DEF Checkout
<1>9. ASSUME NEW r \in Runs, Release(r) PROVE CustodyInv'
  BY <1>9 DEF Release
<1>10. ASSUME NEW p \in Evictors, NEW k \in Sessions, Evict(p, k) PROVE CustodyInv'
  BY <1>10, RemoveCustody DEF Evict
<1>11. ASSUME NEW p \in Evictors, EvictIdle(p) PROVE CustodyInv'
  BY <1>11, RemoveCustody DEF EvictIdle
<1>12. ASSUME NEW p \in Evictors, Close(p) PROVE CustodyInv'
  <2>1. CASE Remove(p, Sessions)
    BY <2>1, RemoveCustody
  <2>2. CASE UNCHANGED <<runVars, entries, entryVars, epc, sweep, cur>>
    BY <2>2
  <2> QED
    BY <1>12, <2>1, <2>2 DEF Close
<1>13. ASSUME NEW p \in Evictors, TakeNext(p) PROVE CustodyInv'
  BY <1>13 DEF TakeNext
<1>14. ASSUME NEW p \in Evictors, LockEntry(p) PROVE CustodyInv'
  BY <1>14 DEF LockEntry
<1>15. ASSUME NEW p \in Evictors, TearDown(p) PROVE CustodyInv'
  BY <1>15 DEF TearDown
<1>16. CASE ReaperExits
  BY <1>16 DEF ReaperExits
<1>17. ASSUME NEW s \in Sandboxes, Age(s) PROVE CustodyInv'
  BY <1>17 DEF Age
<1>18. CASE UNCHANGED vars
  BY <1>18 DEF vars
<1> QED
  BY <1>1, <1>2, <1>3, <1>4, <1>5, <1>6, <1>7, <1>8, <1>9, <1>10, <1>11, <1>12, <1>13, <1>14, <1>15, <1>16, <1>17, <1>18 DEF Next, RunStep, EvictStep

-----------------------------------------------------------------------------
LEMMA PoolInvariant == Spec => []IInv
<1>1. IInv /\ [Next]_vars => IInv'
  BY TypeOKStep, LockInvStep, CustodyInvStep DEF IInv
<1> QED
  BY InitIInv, <1>1, PTL DEF Spec

\* The pool's variables stay within their types, whatever the number of Runs,
\* sessions, sandboxes and evicting goroutines.
THEOREM PoolTypeOK == Spec => []TypeOK
<1>1. IInv => TypeOK
  BY DEF IInv
<1> QED
  BY PoolInvariant, <1>1, PTL

\* At most one Run is inside a sandbox, and no cleanup runs on it meanwhile:
\* what entry.inUse is for in checkout, evict and Build.
THEOREM PoolExclusiveUse == Spec => []ExclusiveUse
<1>1. IInv => ExclusiveUse
  BY PoolAssumption DEF IInv, TypeOK, LockInv, ExclusiveUse, Using
<1> QED
  BY PoolInvariant, <1>1, PTL

\* A Run always works with its own context and event callback.
THEOREM PoolBoundToUser == Spec => []BoundToUser
<1>1. IInv => BoundToUser
  BY DEF IInv, LockInv, BoundToUser, Using
<1> QED
  BY PoolInvariant, <1>1, PTL

\* Every sandbox the delegate built is cleaned up at most once, and until then
\* somebody who will clean it up still has it.
THEOREM PoolCleanedExactlyOnce == Spec => []CleanedExactlyOnce
<1>1. IInv => CleanedExactlyOnce
  BY DEF IInv, CustodyInv
<1> QED
  BY PoolInvariant, <1>1, PTL

\* checkout swaps a context in only while no Run is inside the sandbox.
THEOREM PoolSwapOnlyBetweenRuns == Spec => SwapOnlyBetweenRuns
<1>1. IInv /\ [Next]_vars =>
        \A s \in Sandboxes : bound'[s] # bound[s] => \A r \in Runs : ~Using(r, s)
  <2> SUFFICES ASSUME IInv, [Next]_vars, NEW s \in Sandboxes, bound'[s] # bound[s]
               PROVE \A r \in Runs : ~Using(r, s)
    OBVIOUS
  <2> USE PoolAssumption DEF IInv, TypeOK, LockInv, Using
  <2>1. PICK r \in Runs : DelegateBuilds(r, s) \/ (Checkout(r) /\ want[r] = s)
    BY DEF Next, RunStep, EvictStep, vars, runVars, entryVars, evictVars,
       LookupHit, LookupMiss, DelegateFails, DelegateBuilds, StoreWins, StoreLoses,
       Discard, Checkout, Release, Evict, EvictIdle, Close, Remove, TakeNext,
       LockEntry, TearDown, ReaperExits, Age
  <2>2. CASE DelegateBuilds(r, s)
    BY <2>2 DEF DelegateBuilds
  <2>3. CASE Checkout(r) /\ want[r] = s
    BY <2>3 DEF Checkout
  <2> QED
    BY <2>1, <2>2, <2>3
<1> QED
  BY PoolInvariant, <1>1, PTL DEF Spec, SwapOnlyBetweenRuns

-----------------------------------------------------------------------------
\* A step that changes the mapped value of one sandbox only is an EXCEPT.
LEMMA UserUpdate ==
    ASSUME NEW a \in Sandboxes, NEW v, leaseUser'[a] = v,
           \A x \in Sandboxes : x # a => leaseUser'[x] = leaseUser[x]
    PROVE  leaseUser' = [leaseUser EXCEPT ![a] = v]
BY DEF leaseUser

LEMMA StateUpdate ==
    ASSUME NEW a \in Sandboxes, NEW v, leaseState'[a] = v,
           \A x \in Sandboxes : x # a => leaseState'[x] = leaseState[x]
    PROVE  leaseState' = [leaseState EXCEPT ![a] = v]
BY DEF leaseState

\* How each pool step looks to the abstract lease.
LEMMA LeaseStep ==
    ASSUME IInv, [Next]_vars
    PROVE  [Lease!Next]_(Lease!vars)
<1> USE PoolAssumption DEF IInv, TypeOK, LockInv, Using, vars, runVars, entryVars, evictVars
<1> DEFINE Same == leaseUser' = leaseUser /\ leaseState' = leaseState
<1>0. Same => UNCHANGED Lease!vars
  BY DEF Lease!vars
<1>1. ASSUME NEW r \in Runs, NEW s \in Sandboxes, DelegateBuilds(r, s)
      PROVE  Lease!Open(s)
  <2> USE <1>1 DEF DelegateBuilds
  <2>1. leaseState[s] = "new" /\ leaseState' = [leaseState EXCEPT ![s] = "open"]
    <3>1. leaseState[s] = "new" /\ leaseState'[s] = "open"
         /\ \A x \in Sandboxes : x # s => leaseState'[x] = leaseState[x]
      BY DEF leaseState
    <3> QED
      BY <3>1, StateUpdate
  <2>2. leaseUser' = leaseUser
    BY DEF leaseUser
  <2> QED
    BY <2>1, <2>2 DEF Lease!Open
<1>2. ASSUME NEW r \in Runs, StoreWins(r) PROVE Lease!Lease(mine[r], r)
  <2> USE <1>2 DEF StoreWins
  <2>1. mine[r] \in Sandboxes /\ leaseState[mine[r]] # "new" /\ leaseState' = leaseState
    BY DEF leaseState
  <2>2. leaseUser[mine[r]] = {}
    BY DEF leaseUser
  <2>3. leaseUser' = [leaseUser EXCEPT ![mine[r]] = {r}]
    <3>1. leaseUser'[mine[r]] = {r}
         /\ \A x \in Sandboxes : x # mine[r] => leaseUser'[x] = leaseUser[x]
      BY <2>1, <2>2 DEF leaseUser
    <3> QED
      BY <3>1, UserUpdate
  <2> QED
    BY <2>1, <2>2, <2>3 DEF Lease!Lease
<1>3. ASSUME NEW r \in Runs, Checkout(r) PROVE Lease!Lease(want[r], r)
  <2> USE <1>3 DEF Checkout
  <2>1. want[r] \in Sandboxes /\ leaseState[want[r]] # "new" /\ leaseState' = leaseState
    BY DEF leaseState
  <2>2. leaseUser[want[r]] = {}
    BY DEF leaseUser
  <2>3. leaseUser' = [leaseUser EXCEPT ![want[r]] = {r}]
    <3>1. leaseUser'[want[r]] = {r}
         /\ \A x \in Sandboxes : x # want[r] => leaseUser'[x] = leaseUser[x]
      BY <2>1, <2>2 DEF leaseUser
    <3> QED
      BY <3>1, UserUpdate
  <2> QED
    BY <2>1, <2>2, <2>3 DEF Lease!Lease
<1>4. ASSUME NEW r \in Runs, Release(r) PROVE Lease!GiveBack(want[r], r)
  <2> USE <1>4 DEF Release
  <2>1. want[r] \in Sandboxes /\ leaseState' = leaseState
    BY DEF leaseState
  <2>2. r \in leaseUser[want[r]]
    BY <2>1 DEF leaseUser
  <2>3. leaseUser' = [leaseUser EXCEPT ![want[r]] = {}]
    <3>1. leaseUser'[want[r]] = {}
         /\ \A x \in Sandboxes : x # want[r] => leaseUser'[x] = leaseUser[x]
      BY <2>1 DEF leaseUser
    <3> QED
      BY <3>1, UserUpdate
  <2> QED
    BY <2>1, <2>2, <2>3 DEF Lease!GiveBack
<1>5. ASSUME NEW r \in Runs, Discard(r) PROVE Lease!CloseSandbox(mine[r])
  <2> USE <1>5 DEF Discard
  <2>1. mine[r] \in Sandboxes /\ cleanups[mine[r]] = 0
    BY DEF CustodyInv, CleanedExactlyOnce, Accounted
  <2>2. leaseState[mine[r]] = "open" /\ leaseState' = [leaseState EXCEPT ![mine[r]] = "closed"]
    <3>1. leaseState[mine[r]] = "open" /\ leaseState'[mine[r]] = "closed"
         /\ \A x \in Sandboxes : x # mine[r] => leaseState'[x] = leaseState[x]
      BY <2>1 DEF leaseState
    <3> QED
      BY <3>1, StateUpdate
  <2>3. leaseUser[mine[r]] = {} /\ leaseUser' = leaseUser
    BY DEF leaseUser
  <2> QED
    BY <2>2, <2>3 DEF Lease!CloseSandbox
<1>6. ASSUME NEW p \in Evictors, TearDown(p) PROVE Lease!CloseSandbox(cur[p])
  <2> USE <1>6 DEF TearDown
  <2>1. cur[p] \in Sandboxes /\ cleanups[cur[p]] = 0
    BY DEF CustodyInv, CleanedExactlyOnce, Accounted
  <2>2. leaseState[cur[p]] = "open" /\ leaseState' = [leaseState EXCEPT ![cur[p]] = "closed"]
    <3>1. leaseState[cur[p]] = "open" /\ leaseState'[cur[p]] = "closed"
         /\ \A x \in Sandboxes : x # cur[p] => leaseState'[x] = leaseState[x]
      BY <2>1 DEF leaseState
    <3> QED
      BY <3>1, StateUpdate
  <2>3. leaseUser[cur[p]] = {} /\ leaseUser' = leaseUser
    BY DEF leaseUser
  <2> QED
    BY <2>2, <2>3 DEF Lease!CloseSandbox
<1>7. ASSUME NEW r \in Runs,
             \/ \E k \in Sessions : LookupHit(r, k) \/ LookupMiss(r, k)
             \/ DelegateFails(r) \/ StoreLoses(r)
      PROVE  Same
  BY <1>7 DEF LookupHit, LookupMiss, DelegateFails, StoreLoses, leaseUser, leaseState
<1>8. ASSUME NEW p \in Evictors,
             \/ \E k \in Sessions : Evict(p, k)
             \/ EvictIdle(p) \/ Close(p) \/ TakeNext(p) \/ LockEntry(p)
      PROVE  Same
  BY <1>8 DEF Evict, EvictIdle, Close, Remove, TakeNext, LockEntry, leaseUser, leaseState
<1>9. ASSUME ReaperExits \/ (\E s \in Sandboxes : Age(s)) \/ UNCHANGED vars
      PROVE  Same
  BY <1>9 DEF ReaperExits, Age, leaseUser, leaseState
<1>10. ASSUME NEW r \in Runs, RunStep(r) PROVE [Lease!Next]_(Lease!vars)
  <2>1. mine[r] # None => mine[r] \in Sandboxes
    OBVIOUS
  <2>2. pc[r] \in {"checkout", "using"} => want[r] \in Sandboxes
    OBVIOUS
  <2>3. CASE StoreWins(r) \/ Discard(r)
    <3>1. mine[r] \in Sandboxes
      BY <2>1, <2>3 DEF StoreWins, Discard
    <3> QED
      BY <3>1, <2>3, <1>2, <1>5 DEF Lease!Next
  <2>4. CASE Checkout(r) \/ Release(r)
    <3>1. want[r] \in Sandboxes
      BY <2>2, <2>4 DEF Checkout, Release
    <3> QED
      BY <3>1, <2>4, <1>3, <1>4 DEF Lease!Next
  <2> QED
    BY <1>10, <2>3, <2>4, <1>0, <1>1, <1>7 DEF RunStep, Lease!Next
<1>11. ASSUME NEW p \in Evictors, EvictStep(p) PROVE [Lease!Next]_(Lease!vars)
  <2>1. CASE TearDown(p)
    <3>1. cur[p] \in Sandboxes
      BY <2>1 DEF TearDown
    <3> QED
      BY <3>1, <2>1, <1>6 DEF Lease!Next
  <2> QED
    BY <1>11, <2>1, <1>0, <1>8 DEF EvictStep
<1> QED
  BY <1>0, <1>9, <1>10, <1>11 DEF Next

\* The pool implements the abstract lease: each sandbox is leased to one Run at
\* a time and closed once, never while leased.
THEOREM PoolImplementsLease == Spec => ImplementsLease
<1>1. Init => Lease!Init
  BY DEF Init, Lease!Init, leaseUser, leaseState, Using
<1> QED
  BY PoolInvariant, <1>1, LeaseStep, PTL DEF Spec, ImplementsLease, Lease!Spec

=============================================================================
