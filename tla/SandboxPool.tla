---------------------------- MODULE SandboxPool ----------------------------
(***************************************************************************)
(* pool.SandboxPool: a SandboxBuilder that keeps one sandbox per session   *)
(* and hands it to one Run at a time.  Goroutines are processes: a Run is  *)
(* the caller of Build up to its deferred cleanup; an evictor is a caller  *)
(* of Evict, EvictIdle or Close, or the pool's own reaper.  p.mu protects  *)
(* single map operations only, so each of those is one step.  entry.inUse  *)
(* is a real lock here: `holder` names the goroutine that has it.          *)
(***************************************************************************)
EXTENDS Naturals, FiniteSets

CONSTANTS Runs,         \* goroutines that call Build and later its cleanup
          Callers,      \* application goroutines that evict or close
          Reaper,       \* the goroutine New starts
          Sessions,     \* session IDs, the keys of p.entries
          Sandboxes,    \* identities of what the delegate can build
          None          \* Go's nil / an unlocked mutex

Evictors == Callers \cup {Reaper}

ASSUME PoolAssumption ==
    /\ Reaper \notin Callers
    /\ Runs \cap Evictors = {}
    /\ None \notin Runs \cup Evictors \cup Sandboxes

VARIABLES
    pc,         \* Run -> where it is in Build
    key,        \* Run -> sess.ID of its Build call
    mine,       \* Run -> the entry this Build made itself (ne), until it is stored or discarded
    want,       \* Run -> the entry it checks out or has checked out
    entries,    \* session -> cached entry (p.entries)
    holder,     \* entry -> who has inUse
    bound,      \* entry -> the Run whose ctx and onEvent the sandbox has (ctxHolder, SetOnEvent)
    stale,      \* entries whose lastUsed is older than IdleTimeout
    built,      \* sandboxes the delegate has returned
    cleanups,   \* sandbox -> how often its real cleanup ran
    epc,        \* evictor -> where it is
    sweep,      \* evictor -> entries it removed from the map and still has to evict
    cur,        \* evictor -> the entry evict() is working on
    stopped     \* p.stop is closed

runVars   == <<pc, key, mine, want>>
entryVars == <<holder, bound, stale, built, cleanups>>
evictVars == <<epc, sweep, cur, stopped>>
vars      == <<runVars, entries, entryVars, evictVars>>

Init ==
    /\ pc = [r \in Runs |-> "idle"]
    /\ key = [r \in Runs |-> None]
    /\ mine = [r \in Runs |-> None]
    /\ want = [r \in Runs |-> None]
    /\ entries = [k \in Sessions |-> None]
    /\ holder = [s \in Sandboxes |-> None]
    /\ bound = [s \in Sandboxes |-> None]
    /\ stale = {}
    /\ built = {}
    /\ cleanups = [s \in Sandboxes |-> 0]
    /\ epc = [p \in Evictors |-> "idle"]
    /\ sweep = [p \in Evictors |-> {}]
    /\ cur = [p \in Evictors |-> None]
    /\ stopped = FALSE

InMap(s) == \E k \in Sessions : entries[k] = s

Using(r, s) == pc[r] = "using" /\ want[r] = s

-----------------------------------------------------------------------------
(* Build, as run by Run r.                                                 *)

\* Slip: the cached sandbox is bound to r when it is looked up, before r has it.
LookupHitSwaps(r, k) ==
    /\ pc[r] = "idle"
    /\ entries[k] # None
    /\ pc' = [pc EXCEPT ![r] = "checkout"]
    /\ key' = [key EXCEPT ![r] = k]
    /\ want' = [want EXCEPT ![r] = entries[k]]
    /\ bound' = [bound EXCEPT ![entries[k]] = r]
    /\ UNCHANGED <<mine, entries, holder, stale, built, cleanups, evictVars>>

LookupHit(r, k) ==
    /\ pc[r] = "idle"
    /\ entries[k] # None
    /\ pc' = [pc EXCEPT ![r] = "checkout"]
    /\ key' = [key EXCEPT ![r] = k]
    /\ want' = [want EXCEPT ![r] = entries[k]]
    /\ UNCHANGED <<mine, entries, entryVars, evictVars>>

LookupMiss(r, k) ==
    /\ pc[r] = "idle"
    /\ entries[k] = None
    /\ pc' = [pc EXCEPT ![r] = "building"]
    /\ key' = [key EXCEPT ![r] = k]
    /\ UNCHANGED <<mine, want, entries, entryVars, evictVars>>

\* The delegate fails: Build returns the error and caches nothing.
DelegateFails(r) ==
    /\ pc[r] = "building"
    /\ pc' = [pc EXCEPT ![r] = "idle"]
    /\ key' = [key EXCEPT ![r] = None]
    /\ UNCHANGED <<mine, want, entries, entryVars, evictVars>>

\* The delegate returns a new sandbox that closed over r's swappable ctx and
\* onEvent; ne.inUse.Lock() and touch() before anyone else can see ne.
DelegateBuilds(r, s) ==
    /\ pc[r] = "building"
    /\ s \notin built
    /\ built' = built \cup {s}
    /\ holder' = [holder EXCEPT ![s] = r]
    /\ bound' = [bound EXCEPT ![s] = r]
    /\ mine' = [mine EXCEPT ![r] = s]
    /\ pc' = [pc EXCEPT ![r] = "store"]
    /\ UNCHANGED <<key, want, entries, stale, cleanups, evictVars>>

StoreWins(r) ==
    /\ pc[r] = "store"
    /\ entries[key[r]] = None
    /\ entries' = [entries EXCEPT ![key[r]] = mine[r]]
    /\ want' = [want EXCEPT ![r] = mine[r]]
    /\ mine' = [mine EXCEPT ![r] = None]
    /\ pc' = [pc EXCEPT ![r] = "using"]
    /\ UNCHANGED <<key, entryVars, evictVars>>

StoreLoses(r) ==
    /\ pc[r] = "store"
    /\ entries[key[r]] # None
    /\ want' = [want EXCEPT ![r] = entries[key[r]]]
    /\ pc' = [pc EXCEPT ![r] = "discard"]
    /\ UNCHANGED <<key, mine, entries, entryVars, evictVars>>

\* cleanup() of the sandbox nobody else has seen; its inUse stays locked.
Discard(r) ==
    /\ pc[r] = "discard"
    /\ cleanups' = [cleanups EXCEPT ![mine[r]] = @ + 1]
    /\ mine' = [mine EXCEPT ![r] = None]
    /\ pc' = [pc EXCEPT ![r] = "checkout"]
    /\ UNCHANGED <<key, want, entries, holder, bound, stale, built, evictVars>>

\* Slip: checkout does not wait for the lock.
CheckoutWithoutLock(r) ==
    /\ pc[r] = "checkout"
    /\ holder' = [holder EXCEPT ![want[r]] = r]
    /\ bound' = [bound EXCEPT ![want[r]] = r]
    /\ stale' = stale \ {want[r]}
    /\ pc' = [pc EXCEPT ![r] = "using"]
    /\ UNCHANGED <<key, mine, want, entries, built, cleanups, evictVars>>

\* Slip: checkout leaves the previous Run's context and callback in place.
CheckoutKeepsContext(r) ==
    /\ pc[r] = "checkout"
    /\ holder[want[r]] = None
    /\ holder' = [holder EXCEPT ![want[r]] = r]
    /\ stale' = stale \ {want[r]}
    /\ pc' = [pc EXCEPT ![r] = "using"]
    /\ UNCHANGED <<key, mine, want, entries, bound, built, cleanups, evictVars>>

\* e.inUse.Lock(), touch, swap, SetOnEvent: the last three under the lock.
Checkout(r) ==
    /\ pc[r] = "checkout"
    /\ holder[want[r]] = None
    /\ holder' = [holder EXCEPT ![want[r]] = r]
    /\ bound' = [bound EXCEPT ![want[r]] = r]
    /\ stale' = stale \ {want[r]}
    /\ pc' = [pc EXCEPT ![r] = "using"]
    /\ UNCHANGED <<key, mine, want, entries, built, cleanups, evictVars>>

\* The deferred cleanup of Loop.Run: e.inUse.Unlock.
Release(r) ==
    /\ pc[r] = "using"
    /\ holder' = [holder EXCEPT ![want[r]] = None]
    /\ want' = [want EXCEPT ![r] = None]
    /\ key' = [key EXCEPT ![r] = None]
    /\ pc' = [pc EXCEPT ![r] = "idle"]
    /\ UNCHANGED <<mine, entries, bound, stale, built, cleanups, evictVars>>

-----------------------------------------------------------------------------
(* Eviction: remove from the map under p.mu, then evict() one by one.      *)

\* Slip: the entries are evicted but stay in the map.
RemoveKeepsEntry(p, ks) ==
    /\ epc[p] = "idle"
    /\ \E k \in ks : entries[k] # None
    /\ sweep' = [sweep EXCEPT ![p] = {entries[k] : k \in ks} \ {None}]
    /\ epc' = [epc EXCEPT ![p] = "sweeping"]
    /\ UNCHANGED <<runVars, entries, entryVars, cur>>

\* The entries with the keys in ks leave the map and become p's to evict.
Remove(p, ks) ==
    /\ epc[p] = "idle"
    /\ \E k \in ks : entries[k] # None
    /\ sweep' = [sweep EXCEPT ![p] = {entries[k] : k \in ks} \ {None}]
    /\ entries' = [k \in Sessions |-> IF k \in ks THEN None ELSE entries[k]]
    /\ epc' = [epc EXCEPT ![p] = "sweeping"]
    /\ UNCHANGED <<runVars, entryVars, cur>>

Evict(p, k) ==
    /\ p \in Callers
    /\ Remove(p, {k})
    /\ UNCHANGED stopped

\* Slip: the idle comparison is the wrong way round.
EvictBusy(p) ==
    /\ Remove(p, {k \in Sessions : entries[k] \notin stale})
    /\ UNCHANGED stopped

EvictIdle(p) ==
    /\ Remove(p, {k \in Sessions : entries[k] \in stale})
    /\ UNCHANGED stopped

Close(p) ==
    /\ p \in Callers
    /\ stopped' = TRUE
    /\ \/ Remove(p, Sessions)
       \/ /\ epc[p] = "idle"
          /\ \A k \in Sessions : entries[k] = None
          /\ UNCHANGED <<runVars, entries, entryVars, epc, sweep, cur>>

\* The order of toEvict is Go's map order: any entry may be next, and the
\* evictor then blocks on that one.
TakeNext(p) ==
    /\ epc[p] = "sweeping"
    /\ \E s \in sweep[p] :
          /\ cur' = [cur EXCEPT ![p] = s]
          /\ sweep' = [sweep EXCEPT ![p] = @ \ {s}]
    /\ epc' = [epc EXCEPT ![p] = "locking"]
    /\ UNCHANGED <<runVars, entries, entryVars, stopped>>

\* Slip: evict does not take the entry's lock.
LockEntryAlways(p) ==
    /\ epc[p] = "locking"
    /\ holder' = [holder EXCEPT ![cur[p]] = p]
    /\ epc' = [epc EXCEPT ![p] = "tearing"]
    /\ UNCHANGED <<runVars, entries, bound, stale, built, cleanups, sweep, cur, stopped>>

LockEntry(p) ==
    /\ epc[p] = "locking"
    /\ holder[cur[p]] = None
    /\ holder' = [holder EXCEPT ![cur[p]] = p]
    /\ epc' = [epc EXCEPT ![p] = "tearing"]
    /\ UNCHANGED <<runVars, entries, bound, stale, built, cleanups, sweep, cur, stopped>>

\* Slip: evict returns without unlocking.
TearDownKeepsLock(p) ==
    /\ epc[p] = "tearing"
    /\ cleanups' = [cleanups EXCEPT ![cur[p]] = @ + 1]
    /\ cur' = [cur EXCEPT ![p] = None]
    /\ epc' = [epc EXCEPT ![p] = IF sweep[p] = {} THEN "idle" ELSE "sweeping"]
    /\ UNCHANGED <<runVars, entries, holder, bound, stale, built, sweep, stopped>>

\* e.cleanup() returns and the deferred Unlock runs.
TearDown(p) ==
    /\ epc[p] = "tearing"
    /\ cleanups' = [cleanups EXCEPT ![cur[p]] = @ + 1]
    /\ holder' = [holder EXCEPT ![cur[p]] = None]
    /\ cur' = [cur EXCEPT ![p] = None]
    /\ epc' = [epc EXCEPT ![p] = IF sweep[p] = {} THEN "idle" ELSE "sweeping"]
    /\ UNCHANGED <<runVars, entries, bound, stale, built, sweep, stopped>>

\* reap() sees the closed stop channel between two sweeps.
ReaperExits ==
    /\ stopped
    /\ epc[Reaper] = "idle"
    /\ epc' = [epc EXCEPT ![Reaper] = "exited"]
    /\ UNCHANGED <<runVars, entries, entryVars, sweep, cur, stopped>>

\* Time passes: an entry's lastUsed falls behind IdleTimeout, even while a
\* Run is using it (lastUsed is stamped at checkout only).
Age(s) ==
    /\ s \in built
    /\ stale' = stale \cup {s}
    /\ UNCHANGED <<runVars, entries, holder, bound, built, cleanups, evictVars>>

-----------------------------------------------------------------------------
RunStep(r) ==
    \/ \E k \in Sessions : LookupHit(r, k) \/ LookupMiss(r, k)
    \/ DelegateFails(r)
    \/ \E s \in Sandboxes : DelegateBuilds(r, s)
    \/ StoreWins(r) \/ StoreLoses(r) \/ Discard(r)
    \/ Checkout(r) \/ Release(r)

EvictStep(p) ==
    \/ \E k \in Sessions : Evict(p, k)
    \/ EvictIdle(p) \/ Close(p)
    \/ TakeNext(p) \/ LockEntry(p) \/ TearDown(p)

Next ==
    \/ \E r \in Runs : RunStep(r)
    \/ \E p \in Evictors : EvictStep(p)
    \/ ReaperExits
    \/ \E s \in Sandboxes : Age(s)

Spec == Init /\ [][Next]_vars

(* Goroutines that can move do; the delegate returns and a Run ends (it is *)
(* bounded by RunTimeout); sync.Mutex does not starve a waiter (its        *)
(* starvation mode hands the lock over in FIFO order), hence SF on the two *)
(* Lock calls; the reaper's ticker keeps firing.  Nobody has to call       *)
(* Build, Evict or Close.                                                  *)
Fairness ==
    /\ \A r \in Runs :
          /\ WF_vars(DelegateFails(r) \/ \E s \in Sandboxes : DelegateBuilds(r, s))
          /\ WF_vars(StoreWins(r) \/ StoreLoses(r))
          /\ WF_vars(Discard(r))
          /\ SF_vars(Checkout(r))
          /\ WF_vars(Release(r))
    /\ \A p \in Evictors :
          /\ WF_vars(TakeNext(p))
          /\ SF_vars(LockEntry(p))
          /\ WF_vars(TearDown(p))
    /\ WF_vars(EvictIdle(Reaper))

FairSpec == Spec /\ Fairness

-----------------------------------------------------------------------------
\* Type invariant of the pool's state.
TypeOK ==
    /\ pc \in [Runs -> {"idle", "building", "store", "discard", "checkout", "using"}]
    /\ key \in [Runs -> Sessions \cup {None}]
    /\ mine \in [Runs -> Sandboxes \cup {None}]
    /\ want \in [Runs -> Sandboxes \cup {None}]
    /\ entries \in [Sessions -> Sandboxes \cup {None}]
    /\ holder \in [Sandboxes -> Runs \cup Evictors \cup {None}]
    /\ bound \in [Sandboxes -> Runs \cup {None}]
    /\ stale \subseteq Sandboxes
    /\ built \subseteq Sandboxes
    /\ cleanups \in [Sandboxes -> Nat]
    /\ epc \in [Evictors -> {"idle", "sweeping", "locking", "tearing", "exited"}]
    /\ sweep \in [Evictors -> SUBSET Sandboxes]
    /\ cur \in [Evictors -> Sandboxes \cup {None}]
    /\ stopped \in BOOLEAN

\* No two Runs are ever inside the same goja runtime, and no cleanup runs on a
\* sandbox a Run is inside of: what entry.inUse is for, across hit, miss and
\* lost-race paths that reach "using" differently.
ExclusiveUse ==
    \A r \in Runs, s \in Sandboxes : Using(r, s) =>
        /\ \A q \in Runs : Using(q, s) => q = r
        /\ \A p \in Evictors : ~(epc[p] = "tearing" /\ cur[p] = s)

\* Whoever uses a sandbox is the Run whose context and event callback it has:
\* the stale-context problem the package exists to solve.
BoundToUser ==
    \A r \in Runs, s \in Sandboxes : Using(r, s) => bound[s] = r

\* Someone still has a sandbox that has to be cleaned up: the map, a sweep in
\* progress, or the Build that made it and has not stored it yet.
Accounted(s) ==
    \/ InMap(s)
    \/ \E p \in Evictors : s \in sweep[p] \/ cur[p] = s
    \/ \E r \in Runs : mine[r] = s

\* Every sandbox the delegate built is cleaned up at most once, and until then
\* it is still reachable by something that will: no leak through lost races,
\* evictions that overlap, or a Close that overlaps a Build.
CleanedExactlyOnce ==
    \A s \in built : \/ cleanups[s] = 0 /\ Accounted(s)
                     \/ cleanups[s] = 1 /\ ~Accounted(s)

\* The context and event callback of a sandbox never change under a Run that
\* is using it (context.go: swaps are only safe between calls).
SwapOnlyBetweenRuns ==
    [][\A s \in Sandboxes : bound'[s] # bound[s] =>
          \A r \in Runs : ~Using(r, s)]_vars

\* A Build call that found or lost to a cached entry returns: the lock it
\* waits for is released by Runs and evictions alike.
CheckoutReturns == \A r \in Runs : pc[r] = "checkout" ~> pc[r] = "using"

\* The reaper removes a cached sandbox that stays idle, as long as the pool is
\* not closed, although a sweep may be held up by a busy entry.
IdleIsReaped ==
    \A s \in Sandboxes :
        InMap(s) /\ s \in stale ~> ~InMap(s) \/ s \notin stale \/ stopped

-----------------------------------------------------------------------------
(* Claims of the repository that this code does not keep.                  *)

\* pool.go, entry.inUse: "so eviction can never tear down a sandbox a Run is
\* still using".  A Build that looked the entry up before the eviction and
\* locked it after returns a sandbox whose cleanup already ran.
UsedSandboxIsLive ==
    \A r \in Runs, s \in Sandboxes : Using(r, s) => cleanups[s] = 0

\* README.md: "It also serializes concurrent Runs for one session".  A sweep
\* that removes a busy entry lets the next Run of the session build a second
\* sandbox and run beside the first.
SessionRunsSerialize ==
    \A q, r \in Runs :
        pc[q] = "using" /\ pc[r] = "using" /\ key[q] = key[r] => q = r

=============================================================================
