--------------------------- MODULE PromiseProofs ---------------------------
(***************************************************************************)
(* The safety of the task runner for any number of calls, watchers, keys   *)
(* and values, and any size of the cache.  Every property follows from the *)
(* one inductive invariant IInv of module Promise.                         *)
(***************************************************************************)
EXTENDS PromiseFuture, TLAPS

\* Add leaves every key alone, gives it up, or stores the new item under it.
LEMMA AddEffect ==
  ASSUME CacheTypeOK, NEW k \in Keys, NEW v \in Values, Add(k, v)
  PROVE  /\ CacheTypeOK'
         /\ \A j \in Keys : cache'[j] # NoEntry =>
              cache'[j] = cache[j] \/ (j = k /\ cache'[j].val = v)
<1>1. NewItem(v) \in Entry /\ NewItem(v).val = v
  BY DEF NewItem, Entry
<1>2. CASE cache' = [cache EXCEPT ![k] = NewItem(v)]
  BY <1>1, <1>2 DEF CacheTypeOK
<1>3. ASSUME NEW old \in Held,
             cache' = [cache EXCEPT ![old] = NoEntry, ![k] = NewItem(v)]
      PROVE  /\ CacheTypeOK'
             /\ \A j \in Keys : cache'[j] # NoEntry =>
                  cache'[j] = cache[j] \/ (j = k /\ cache'[j].val = v)
  BY <1>1, <1>3 DEF CacheTypeOK, Held
<1> QED
  BY <1>2, <1>3 DEF Add

\* The clock never puts a value under a key that was not there.
LEMMA ExpireEffect ==
  ASSUME CacheTypeOK, NEW k \in Keys, Expire(k)
  PROVE  /\ CacheTypeOK'
         /\ \A j \in Keys : cache'[j] # NoEntry =>
              cache[j] # NoEntry /\ cache'[j].val = cache[j].val
BY DEF Expire, Fresh, CacheTypeOK, Entry

LEMMA InitIInv == Init => IInv
<1> SUFFICES ASSUME Init PROVE IInv
  OBVIOUS
<1>1. TypeOK
  BY PromiseAssumption DEF Init, TypeOK, Phases, CacheInit, CacheTypeOK
<1>2. CallsAndTasks /\ ChannelFollowsPhase /\ OutcomeFollowsPhase
  BY DEF Init, CallsAndTasks, ChannelFollowsPhase, OutcomeFollowsPhase
<1>3. WatchersHoldTasks /\ QueueHoldsLiveTasks /\ HandleIsForKey
  BY DEF Init, WatchersHoldTasks, QueueHoldsLiveTasks, HandleIsForKey
<1>4. CacheIsComputed
  BY DEF Init, CacheInit, CacheIsComputed
<1> QED
  BY <1>1, <1>2, <1>3, <1>4 DEF IInv

-----------------------------------------------------------------------------
(* Every step preserves the invariant. *)

\* An idle call is nobody's task, so its new key disturbs no other call.
LEMMA RunLookupIInv ==
  ASSUME IInv, NEW c \in Calls, NEW k \in Keys, RunLookup(c, k)
  PROVE  IInv'
<1> USE PromiseAssumption DEF IInv, RunLookup, taskVars, watchVars
<1>1. TypeOK'
  BY DEF TypeOK, CacheTypeOK
<1>2. CallsAndTasks'
  BY DEF TypeOK, CallsAndTasks, QueueHoldsLiveTasks, Live
<1>3. OutcomeFollowsPhase'
  BY DEF TypeOK, OutcomeFollowsPhase, CallsAndTasks
<1>4. QueueHoldsLiveTasks'
  BY DEF TypeOK, QueueHoldsLiveTasks, Live, CallsAndTasks
<1>5. HandleIsForKey'
  BY DEF TypeOK, HandleIsForKey, CallsAndTasks, QueueHoldsLiveTasks, Live
<1>6. ChannelFollowsPhase' /\ WatchersHoldTasks' /\ CacheIsComputed'
  BY DEF ChannelFollowsPhase, WatchersHoldTasks, CacheIsComputed, Succeeded
<1> QED
  BY <1>1, <1>2, <1>3, <1>4, <1>5, <1>6

\* The new task is live and queued under its own key.
LEMMA RunInsertIInv ==
  ASSUME IInv, NEW c \in Calls, RunInsert(c)
  PROVE  IInv'
<1> USE PromiseAssumption DEF IInv, RunInsert, watchVars
<1>1. TypeOK'
  BY DEF TypeOK, CacheTypeOK, Phases
<1>2. CallsAndTasks'
  BY DEF TypeOK, CallsAndTasks
<1>3. ChannelFollowsPhase'
  BY DEF TypeOK, ChannelFollowsPhase, CallsAndTasks
<1>4. OutcomeFollowsPhase'
  BY DEF TypeOK, OutcomeFollowsPhase, CallsAndTasks
<1>5. WatchersHoldTasks'
  BY DEF TypeOK, WatchersHoldTasks, Succeeded, CallsAndTasks
<1>6. QueueHoldsLiveTasks'
  BY DEF TypeOK, QueueHoldsLiveTasks, Live, CallsAndTasks
<1>7. HandleIsForKey'
  BY DEF TypeOK, HandleIsForKey, CallsAndTasks
<1>8. CacheIsComputed'
  BY DEF CacheIsComputed
<1> QED
  BY <1>1, <1>2, <1>3, <1>4, <1>5, <1>6, <1>7, <1>8

\* The caller leaves with the task it made.
LEMMA RunTakeIInv ==
  ASSUME IInv, NEW c \in Calls, RunTake(c)
  PROVE  IInv'
<1> USE PromiseAssumption DEF IInv, RunTake, watchVars
<1>1. TypeOK'
  BY DEF TypeOK, CacheTypeOK, Phases
<1>2. CallsAndTasks'
  BY DEF TypeOK, CallsAndTasks
<1>3. ChannelFollowsPhase'
  BY DEF TypeOK, ChannelFollowsPhase, CallsAndTasks
<1>4. OutcomeFollowsPhase'
  BY DEF TypeOK, OutcomeFollowsPhase, CallsAndTasks
<1>5. WatchersHoldTasks'
  BY DEF TypeOK, WatchersHoldTasks, Succeeded, CallsAndTasks
<1>6. QueueHoldsLiveTasks'
  BY DEF TypeOK, QueueHoldsLiveTasks, Live, CallsAndTasks
<1>7. HandleIsForKey'
  BY DEF TypeOK, HandleIsForKey, CallsAndTasks
<1>8. CacheIsComputed'
  BY DEF CacheIsComputed
<1> QED
  BY <1>1, <1>2, <1>3, <1>4, <1>5, <1>6, <1>7, <1>8

\* The item found was computed for the task's own key.
LEMMA ProbeHitIInv ==
  ASSUME IInv, NEW t \in Calls, ProbeHit(t)
  PROVE  IInv'
<1> USE PromiseAssumption DEF IInv, ProbeHit, Goto, runVars, watchVars
<1>1. TypeOK'
  BY DEF TypeOK, CacheTypeOK, Phases, Entry, Fresh, CallsAndTasks
<1>2. CallsAndTasks'
  BY DEF TypeOK, CallsAndTasks
<1>3. ChannelFollowsPhase'
  BY DEF TypeOK, ChannelFollowsPhase
<1>4. OutcomeFollowsPhase'
  BY DEF TypeOK, OutcomeFollowsPhase, Fresh, CacheIsComputed, CallsAndTasks
<1>5. WatchersHoldTasks'
  BY DEF TypeOK, WatchersHoldTasks, Succeeded
<1>6. QueueHoldsLiveTasks'
  BY DEF TypeOK, QueueHoldsLiveTasks, Live
<1>7. HandleIsForKey'
  BY DEF TypeOK, HandleIsForKey
<1>8. CacheIsComputed'
  BY DEF CacheIsComputed
<1> QED
  BY <1>1, <1>2, <1>3, <1>4, <1>5, <1>6, <1>7, <1>8

LEMMA ProbeMissIInv ==
  ASSUME IInv, NEW t \in Calls, ProbeMiss(t)
  PROVE  IInv'
<1> USE PromiseAssumption DEF IInv, ProbeMiss, Goto, runVars, watchVars
<1>1. TypeOK'
  BY DEF TypeOK, CacheTypeOK, Phases
<1>2. CallsAndTasks'
  BY DEF TypeOK, CallsAndTasks
<1>3. ChannelFollowsPhase'
  BY DEF TypeOK, ChannelFollowsPhase
<1>4. OutcomeFollowsPhase'
  BY DEF TypeOK, OutcomeFollowsPhase
<1>5. WatchersHoldTasks'
  BY DEF TypeOK, WatchersHoldTasks, Succeeded
<1>6. QueueHoldsLiveTasks'
  BY DEF TypeOK, QueueHoldsLiveTasks, Live
<1>7. HandleIsForKey'
  BY DEF TypeOK, HandleIsForKey
<1>8. CacheIsComputed'
  BY DEF CacheIsComputed
<1> QED
  BY <1>1, <1>2, <1>3, <1>4, <1>5, <1>6, <1>7, <1>8

LEMMA ProbeEvictIInv ==
  ASSUME IInv, NEW t \in Calls, ProbeEvict(t)
  PROVE  IInv'
<1> USE PromiseAssumption DEF IInv, ProbeEvict, Goto, runVars, watchVars
<1>1. TypeOK'
  BY DEF TypeOK, CacheTypeOK, Phases, Remove
<1>2. CallsAndTasks'
  BY DEF TypeOK, CallsAndTasks
<1>3. ChannelFollowsPhase'
  BY DEF TypeOK, ChannelFollowsPhase
<1>4. OutcomeFollowsPhase'
  BY DEF TypeOK, OutcomeFollowsPhase
<1>5. WatchersHoldTasks'
  BY DEF TypeOK, WatchersHoldTasks, Succeeded
<1>6. QueueHoldsLiveTasks'
  BY DEF TypeOK, QueueHoldsLiveTasks, Live
<1>7. HandleIsForKey'
  BY DEF TypeOK, HandleIsForKey
<1>8. CacheIsComputed'
  BY DEF TypeOK, CacheIsComputed, Remove, CacheTypeOK
<1> QED
  BY <1>1, <1>2, <1>3, <1>4, <1>5, <1>6, <1>7, <1>8

LEMMA ResolveIInv ==
  ASSUME IInv, NEW t \in Calls, NEW v \in ValuesOf[key[t]], Resolve(t, v)
  PROVE  IInv'
<1> USE PromiseAssumption DEF IInv, Resolve, Goto, runVars, watchVars
<1>1. TypeOK'
  BY DEF TypeOK, CacheTypeOK, Phases, CallsAndTasks
<1>2. CallsAndTasks'
  BY DEF TypeOK, CallsAndTasks
<1>3. ChannelFollowsPhase'
  BY DEF TypeOK, ChannelFollowsPhase
<1>4. OutcomeFollowsPhase'
  BY DEF TypeOK, OutcomeFollowsPhase
<1>5. WatchersHoldTasks'
  BY DEF TypeOK, WatchersHoldTasks, Succeeded
<1>6. QueueHoldsLiveTasks'
  BY DEF TypeOK, QueueHoldsLiveTasks, Live
<1>7. HandleIsForKey'
  BY DEF TypeOK, HandleIsForKey
<1>8. CacheIsComputed'
  BY DEF CacheIsComputed
<1> QED
  BY <1>1, <1>2, <1>3, <1>4, <1>5, <1>6, <1>7, <1>8

\* Nobody has left the channel of a task that is still open.
LEMMA RejectIInv ==
  ASSUME IInv, NEW t \in Calls, Reject(t)
  PROVE  IInv'
<1> USE PromiseAssumption DEF IInv, Reject, Goto, runVars, watchVars
<1>1. TypeOK'
  BY DEF TypeOK, CacheTypeOK, Phases
<1>2. CallsAndTasks'
  BY DEF TypeOK, CallsAndTasks
<1>3. ChannelFollowsPhase'
  BY DEF TypeOK, ChannelFollowsPhase
<1>4. OutcomeFollowsPhase'
  BY DEF TypeOK, OutcomeFollowsPhase
<1>5. WatchersHoldTasks'
  BY DEF TypeOK, WatchersHoldTasks, Succeeded, ChannelFollowsPhase
<1>6. QueueHoldsLiveTasks'
  BY DEF TypeOK, QueueHoldsLiveTasks, Live
<1>7. HandleIsForKey'
  BY DEF TypeOK, HandleIsForKey
<1>8. CacheIsComputed'
  BY DEF CacheIsComputed
<1> QED
  BY <1>1, <1>2, <1>3, <1>4, <1>5, <1>6, <1>7, <1>8

LEMMA FinishCloseIInv ==
  ASSUME IInv, NEW t \in Calls, FinishClose(t)
  PROVE  IInv'
<1> USE PromiseAssumption DEF IInv, FinishClose, Goto, runVars, watchVars
<1>1. TypeOK'
  BY DEF TypeOK, CacheTypeOK, Phases
<1>2. CallsAndTasks'
  BY DEF TypeOK, CallsAndTasks
<1>3. ChannelFollowsPhase'
  BY DEF TypeOK, ChannelFollowsPhase
<1>4. OutcomeFollowsPhase'
  BY DEF TypeOK, OutcomeFollowsPhase
<1>5. WatchersHoldTasks'
  BY DEF TypeOK, WatchersHoldTasks, Succeeded
<1>6. QueueHoldsLiveTasks'
  BY DEF TypeOK, QueueHoldsLiveTasks, Live
<1>7. HandleIsForKey'
  BY DEF TypeOK, HandleIsForKey
<1>8. CacheIsComputed'
  BY DEF CacheIsComputed
<1> QED
  BY <1>1, <1>2, <1>3, <1>4, <1>5, <1>6, <1>7, <1>8

LEMMA FinishClearIInv ==
  ASSUME IInv, NEW t \in Calls, FinishClear(t)
  PROVE  IInv'
<1> USE PromiseAssumption DEF IInv, FinishClear, Goto, runVars, watchVars
<1>1. TypeOK'
  BY DEF TypeOK, CacheTypeOK, Phases
<1>2. CallsAndTasks'
  BY DEF TypeOK, CallsAndTasks
<1>3. ChannelFollowsPhase'
  BY DEF TypeOK, ChannelFollowsPhase
<1>4. OutcomeFollowsPhase'
  BY DEF TypeOK, OutcomeFollowsPhase
<1>5. WatchersHoldTasks'
  BY DEF TypeOK, WatchersHoldTasks, Succeeded
<1>6. QueueHoldsLiveTasks'
  BY DEF TypeOK, QueueHoldsLiveTasks, Live
<1>7. HandleIsForKey'
  BY DEF TypeOK, HandleIsForKey
<1>8. CacheIsComputed'
  BY DEF CacheIsComputed
<1> QED
  BY <1>1, <1>2, <1>3, <1>4, <1>5, <1>6, <1>7, <1>8

\* What is added is the outcome of a task that did not fail.
LEMMA StoreIInv ==
  ASSUME IInv, NEW t \in Calls, Store(t)
  PROVE  IInv'
<1> USE PromiseAssumption DEF IInv, Store, Goto, runVars, watchVars
<1>1. /\ CacheTypeOK'
      /\ \A j \in Keys : cache'[j] # NoEntry =>
           cache'[j] = cache[j] \/ (j = key[t] /\ cache'[j].val \in ValuesOf[j])
  <2>1. CASE err[t]
    BY <2>1 DEF TypeOK, CacheTypeOK
  <2>2. CASE ~err[t]
    <3>1. key[t] \in Keys /\ result[t] \in ValuesOf[key[t]]
      BY <2>2 DEF TypeOK, CallsAndTasks, OutcomeFollowsPhase
    <3>2. result[t] \in Values
      BY <3>1
    <3> QED
      BY <2>2, <3>1, <3>2, AddEffect DEF TypeOK
  <2> QED
    BY <2>1, <2>2
<1>2. TypeOK'
  BY <1>1 DEF TypeOK, Phases
<1>3. CallsAndTasks'
  BY DEF TypeOK, CallsAndTasks
<1>4. ChannelFollowsPhase'
  BY DEF TypeOK, ChannelFollowsPhase
<1>5. OutcomeFollowsPhase'
  BY DEF TypeOK, OutcomeFollowsPhase
<1>6. WatchersHoldTasks'
  BY DEF TypeOK, WatchersHoldTasks, Succeeded
<1>7. QueueHoldsLiveTasks'
  BY DEF TypeOK, QueueHoldsLiveTasks, Live
<1>8. HandleIsForKey'
  BY DEF TypeOK, HandleIsForKey
<1>9. CacheIsComputed'
  BY <1>1 DEF TypeOK, CacheIsComputed
<1> QED
  BY <1>1, <1>2, <1>3, <1>4, <1>5, <1>6, <1>7, <1>8, <1>9

\* The entries that stay are for other keys, hence for other tasks.
LEMMA RetireIInv ==
  ASSUME IInv, NEW t \in Calls, Retire(t)
  PROVE  IInv'
<1> USE PromiseAssumption DEF IInv, Retire, Goto, runVars, watchVars
<1>1. TypeOK'
  BY DEF TypeOK, CacheTypeOK, Phases
<1>2. CallsAndTasks'
  BY DEF TypeOK, CallsAndTasks
<1>3. ChannelFollowsPhase'
  BY DEF TypeOK, ChannelFollowsPhase
<1>4. OutcomeFollowsPhase'
  BY DEF TypeOK, OutcomeFollowsPhase
<1>5. WatchersHoldTasks'
  BY DEF TypeOK, WatchersHoldTasks, Succeeded
<1>6. QueueHoldsLiveTasks'
  BY DEF TypeOK, QueueHoldsLiveTasks, Live
<1>7. HandleIsForKey'
  BY DEF TypeOK, HandleIsForKey
<1>8. CacheIsComputed'
  BY DEF CacheIsComputed
<1> QED
  BY <1>1, <1>2, <1>3, <1>4, <1>5, <1>6, <1>7, <1>8

LEMMA AfterIInv ==
  ASSUME IInv, NEW w \in Watchers, NEW c \in Calls, After(w, c)
  PROVE  IInv'
<1> USE PromiseAssumption DEF IInv, After, runVars, taskVars
<1>1. TypeOK'
  BY DEF TypeOK, CacheTypeOK, CallsAndTasks
<1>2. WatchersHoldTasks'
  BY DEF TypeOK, WatchersHoldTasks, Succeeded, HandleIsForKey, CallsAndTasks
<1>3. CallsAndTasks' /\ ChannelFollowsPhase' /\ OutcomeFollowsPhase' /\
      QueueHoldsLiveTasks' /\ HandleIsForKey' /\ CacheIsComputed'
  BY DEF CallsAndTasks, ChannelFollowsPhase, OutcomeFollowsPhase,
       QueueHoldsLiveTasks, HandleIsForKey, CacheIsComputed, Live
<1> QED
  BY <1>1, <1>2, <1>3

LEMMA AwaitIInv ==
  ASSUME IInv, NEW w \in Watchers, Await(w)
  PROVE  IInv'
<1> USE PromiseAssumption DEF IInv, Await, runVars, taskVars
<1>1. TypeOK'
  BY DEF TypeOK, CacheTypeOK
<1>2. WatchersHoldTasks'
  BY DEF TypeOK, WatchersHoldTasks, Succeeded
<1>3. CallsAndTasks' /\ ChannelFollowsPhase' /\ OutcomeFollowsPhase' /\
      QueueHoldsLiveTasks' /\ HandleIsForKey' /\ CacheIsComputed'
  BY DEF CallsAndTasks, ChannelFollowsPhase, OutcomeFollowsPhase,
       QueueHoldsLiveTasks, HandleIsForKey, CacheIsComputed, Live
<1> QED
  BY <1>1, <1>2, <1>3

LEMMA WakeIInv ==
  ASSUME IInv, NEW w \in Watchers, Wake(w)
  PROVE  IInv'
<1> USE PromiseAssumption DEF IInv, Wake, runVars, taskVars
<1>1. TypeOK'
  BY DEF TypeOK, CacheTypeOK
<1>2. WatchersHoldTasks'
  BY DEF TypeOK, WatchersHoldTasks, Succeeded
<1>3. CallsAndTasks' /\ ChannelFollowsPhase' /\ OutcomeFollowsPhase' /\
      QueueHoldsLiveTasks' /\ HandleIsForKey' /\ CacheIsComputed'
  BY DEF CallsAndTasks, ChannelFollowsPhase, OutcomeFollowsPhase,
       QueueHoldsLiveTasks, HandleIsForKey, CacheIsComputed, Live
<1> QED
  BY <1>1, <1>2, <1>3

LEMMA WatcherEndIInv ==
  ASSUME IInv, NEW w \in Watchers, WatcherEnd(w)
  PROVE  IInv'
<1> USE PromiseAssumption DEF IInv, WatcherEnd, runVars, taskVars
<1>1. TypeOK'
  BY DEF TypeOK, CacheTypeOK
<1>2. WatchersHoldTasks'
  BY DEF TypeOK, WatchersHoldTasks, Succeeded
<1>3. CallsAndTasks' /\ ChannelFollowsPhase' /\ OutcomeFollowsPhase' /\
      QueueHoldsLiveTasks' /\ HandleIsForKey' /\ CacheIsComputed'
  BY DEF CallsAndTasks, ChannelFollowsPhase, OutcomeFollowsPhase,
       QueueHoldsLiveTasks, HandleIsForKey, CacheIsComputed, Live
<1> QED
  BY <1>1, <1>2, <1>3

\* Neither a caller, nor a watcher, nor the queue refers to the call.
LEMMA ReleaseIInv ==
  ASSUME IInv, NEW c \in Calls, Release(c)
  PROVE  IInv'
<1> USE PromiseAssumption DEF IInv, Release, watchVars
<1>1. TypeOK'
  BY DEF TypeOK, CacheTypeOK, Phases
<1>2. CallsAndTasks'
  BY DEF TypeOK, CallsAndTasks
<1>3. ChannelFollowsPhase'
  BY DEF TypeOK, ChannelFollowsPhase
<1>4. OutcomeFollowsPhase'
  BY DEF TypeOK, OutcomeFollowsPhase
<1>5. WatchersHoldTasks'
  BY DEF TypeOK, WatchersHoldTasks, Succeeded, CallsAndTasks
<1>6. QueueHoldsLiveTasks'
  BY DEF TypeOK, QueueHoldsLiveTasks, Live, CallsAndTasks
<1>7. HandleIsForKey'
  BY DEF TypeOK, HandleIsForKey, CallsAndTasks
<1>8. CacheIsComputed'
  BY DEF CacheIsComputed
<1> QED
  BY <1>1, <1>2, <1>3, <1>4, <1>5, <1>6, <1>7, <1>8

LEMMA TimeIInv ==
  ASSUME IInv, Time
  PROVE  IInv'
<1> USE DEF IInv, Time, runVars, taskVars, watchVars
<1>1. PICK k \in Keys : Expire(k)
  OBVIOUS
<1>2. /\ CacheTypeOK'
      /\ \A j \in Keys : cache'[j] # NoEntry =>
           cache[j] # NoEntry /\ cache'[j].val = cache[j].val
  BY <1>1, ExpireEffect DEF TypeOK
<1>3. TypeOK'
  BY <1>2 DEF TypeOK
<1>4. CacheIsComputed'
  BY <1>2 DEF CacheIsComputed
<1>5. CallsAndTasks' /\ ChannelFollowsPhase' /\ OutcomeFollowsPhase' /\
      WatchersHoldTasks' /\ QueueHoldsLiveTasks' /\ HandleIsForKey'
  BY DEF CallsAndTasks, ChannelFollowsPhase, OutcomeFollowsPhase,
         WatchersHoldTasks, QueueHoldsLiveTasks, HandleIsForKey, Live,
         Succeeded
<1> QED
  BY <1>3, <1>4, <1>5

LEMMA NextIInv == IInv /\ [Next]_vars => IInv'
<1> SUFFICES ASSUME IInv, [Next]_vars PROVE IInv'
  OBVIOUS
<1>1. ASSUME NEW c \in Calls, NEW k \in Keys, RunLookup(c, k) PROVE IInv'
  BY <1>1, RunLookupIInv
<1>2. ASSUME NEW c \in Calls, RunStep(c) PROVE IInv'
  BY <1>2, RunInsertIInv, RunTakeIInv DEF RunStep
<1>3. ASSUME NEW t \in Calls, TaskStep(t) PROVE IInv'
  <2>1. CASE ProbeHit(t) \/ ProbeMiss(t) \/ ProbeEvict(t)
    BY <2>1, ProbeHitIInv, ProbeMissIInv, ProbeEvictIInv
  <2>2. CASE \E v \in ValuesOf[key[t]] : Resolve(t, v)
    BY <2>2, ResolveIInv
  <2>3. CASE Reject(t) \/ FinishClose(t) \/ FinishClear(t)
    BY <2>3, RejectIInv, FinishCloseIInv, FinishClearIInv
  <2>4. CASE Store(t) \/ Retire(t)
    BY <2>4, StoreIInv, RetireIInv
  <2> QED
    BY <1>3, <2>1, <2>2, <2>3, <2>4 DEF TaskStep
<1>4. ASSUME NEW c \in Calls, Release(c) PROVE IInv'
  BY <1>4, ReleaseIInv
<1>5. ASSUME NEW w \in Watchers, NEW c \in Calls, After(w, c) PROVE IInv'
  BY <1>5, AfterIInv
<1>6. ASSUME NEW w \in Watchers, WatcherStep(w) PROVE IInv'
  BY <1>6, AwaitIInv, WakeIInv, WatcherEndIInv DEF WatcherStep
<1>7. CASE Time
  BY <1>7, TimeIInv
<1>8. CASE UNCHANGED vars
  BY <1>8 DEF vars, runVars, taskVars, watchVars, IInv, TypeOK, CacheTypeOK,
     CallsAndTasks, ChannelFollowsPhase, OutcomeFollowsPhase,
     WatchersHoldTasks, Succeeded, QueueHoldsLiveTasks, Live,
     HandleIsForKey, CacheIsComputed
<1> QED
  BY <1>1, <1>2, <1>3, <1>4, <1>5, <1>6, <1>7, <1>8 DEF Next

\* The runner never leaves its inductive invariant.
THEOREM RunnerInvariant == Spec => []IInv
BY InitIInv, NextIInv, PTL DEF Spec

-----------------------------------------------------------------------------
(* The properties that the runs check *)

\* All variables of the runner keep their types.
THEOREM TypeCorrect == Spec => []TypeOK
<1>1. IInv => TypeOK
  BY DEF IInv
<1> QED
  BY <1>1, RunnerInvariant, PTL

\* An entry of Runner.queue always belongs to a task that will delete it.
THEOREM QueueSound == Spec => []QueueHoldsLiveTasks
<1>1. IInv => QueueHoldsLiveTasks
  BY DEF IInv
<1> QED
  BY <1>1, RunnerInvariant, PTL

\* Run returns a task for the key it was asked for.
THEOREM HandleSound == Spec => []HandleIsForKey
<1>1. IInv => HandleIsForKey
  BY DEF IInv
<1> QED
  BY <1>1, RunnerInvariant, PTL

LEMMA FiresWithResult == IInv => FiresOnSuccess
<1>1. ASSUME IInv, NEW w \in Watchers, wstate[w] = "fired"
      PROVE  /\ Succeeded(wtask[w])
             /\ result[wtask[w]] \in ValuesOf[key[wtask[w]]]
  <2> DEFINE t == wtask[w]
  <2>1. t \in Calls /\ Succeeded(t)
    BY <1>1 DEF IInv, WatchersHoldTasks, TypeOK
  <2>2. phase[t] \in {"clear", "store", "retire", "gone"}
    BY <1>1, <2>1 DEF IInv, ChannelFollowsPhase, Succeeded, TypeOK
  <2> QED
    BY <1>1, <2>1, <2>2 DEF IInv, OutcomeFollowsPhase, Succeeded
<1> QED
  BY <1>1 DEF FiresOnSuccess

\* A function given to After runs only with the result of a success.
THEOREM AfterSound == Spec => []FiresOnSuccess
BY FiresWithResult, RunnerInvariant, PTL

\* The cache holds, under each key, only what was computed for that key.
THEOREM CacheSound == Spec => []CacheIsComputed
<1>1. IInv => CacheIsComputed
  BY DEF IInv
<1> QED
  BY <1>1, RunnerInvariant, PTL

\* What a task's Result and Err say is final once its channel is closed.
Settled(t) ==
  done[t] # "open" /\ phase'[t] # "none" =>
    done'[t] # "open" /\ err'[t] = err[t] /\ result'[t] = result[t]

LEMMA StepSettles ==
  ASSUME IInv, [Next]_vars, NEW t \in Calls
  PROVE  Settled(t)
<1> USE DEF Settled, IInv, runVars, taskVars, watchVars
<1>1. ASSUME NEW c \in Calls, NEW k \in Keys, RunLookup(c, k) PROVE Settled(t)
  BY <1>1 DEF RunLookup
<1>2. ASSUME NEW c \in Calls, RunStep(c) PROVE Settled(t)
  BY <1>2 DEF RunStep, RunInsert, RunTake
<1>3. ASSUME NEW u \in Calls, TaskStep(u) PROVE Settled(t)
  <2>1. CASE ProbeHit(u)
    BY <2>1 DEF ProbeHit, Goto, ChannelFollowsPhase, TypeOK, Phases
  <2>2. CASE \E v \in ValuesOf[key[u]] : Resolve(u, v)
    BY <2>2 DEF Resolve, Goto, ChannelFollowsPhase, TypeOK, Phases
  <2>3. CASE Reject(u)
    BY <2>3 DEF Reject, Goto, ChannelFollowsPhase, TypeOK, Phases
  <2>4. CASE FinishClose(u) \/ FinishClear(u)
    BY <2>4 DEF FinishClose, FinishClear, TypeOK
  <2>5. CASE ProbeMiss(u) \/ ProbeEvict(u) \/ Store(u) \/ Retire(u)
    BY <2>5 DEF ProbeMiss, ProbeEvict, Store, Retire
  <2> QED
    BY <1>3, <2>1, <2>2, <2>3, <2>4, <2>5 DEF TaskStep
<1>4. ASSUME NEW c \in Calls, Release(c) PROVE Settled(t)
  BY <1>4 DEF Release, TypeOK
<1>5. ASSUME NEW w \in Watchers, NEW c \in Calls, After(w, c) PROVE Settled(t)
  BY <1>5 DEF After
<1>6. ASSUME NEW w \in Watchers, WatcherStep(w) PROVE Settled(t)
  BY <1>6 DEF WatcherStep, Await, Wake, WatcherEnd
<1>7. CASE Time \/ UNCHANGED vars
  BY <1>7 DEF Time, vars
<1> QED
  BY <1>1, <1>2, <1>3, <1>4, <1>5, <1>6, <1>7 DEF Next

\* promise.go:64-100: what the holders of a task read is final once its channel
\* is closed, although Resolve and Reject take no lock.
THEOREM SettledForGood == Spec => SettlesOnce
<1>1. IInv /\ [Next]_vars => [\A t \in Calls : Settled(t)]_vars
  BY StepSettles
<1> QED
  BY <1>1, RunnerInvariant, PTL DEF Spec, SettlesOnce, Settled

-----------------------------------------------------------------------------
(* What can be proved of progress: tasks and the queue only move on. *)

Place == [none |-> 0, queued |-> 1, probe |-> 2, evict |-> 3, compute |-> 4,
          close |-> 5, clear |-> 6, store |-> 7, retire |-> 8, gone |-> 9]

\* A task advances, under the key it was made for, until its name is given up.
Advances(t) ==
  \/ phase'[t] = phase[t]
  \/ /\ Place[phase'[t]] > Place[phase[t]]
     /\ key'[t] = key[t]
  \/ phase[t] = "gone" /\ phase'[t] = "none"

LEMMA StepAdvances ==
  ASSUME IInv, [Next]_vars, NEW t \in Calls
  PROVE  Advances(t) /\ (Live(t) => key'[t] = key[t])
<1> USE DEF IInv, TypeOK, Phases, Place, Advances, Live
<1>1. ASSUME NEW c \in Calls, NEW k \in Keys, RunLookup(c, k)
      PROVE  phase'[t] = phase[t] /\ (Live(t) => key'[t] = key[t])
  BY <1>1 DEF RunLookup, taskVars, CallsAndTasks
<1>2. ASSUME NEW c \in Calls, RunStep(c)
      PROVE  Advances(t) /\ key'[t] = key[t]
  BY <1>2 DEF RunStep, RunInsert, RunTake, CallsAndTasks
<1>3. ASSUME NEW u \in Calls, TaskStep(u)
      PROVE  Advances(t) /\ key'[t] = key[t]
  <2>1. CASE ProbeHit(u) \/ ProbeMiss(u) \/ ProbeEvict(u)
    BY <2>1 DEF ProbeHit, ProbeMiss, ProbeEvict, Goto, runVars
  <2>2. CASE Reject(u) \/ \E v \in ValuesOf[key[u]] : Resolve(u, v)
    BY <2>2 DEF Resolve, Reject, Goto, runVars
  <2>3. CASE FinishClose(u) \/ FinishClear(u)
    BY <2>3 DEF FinishClose, FinishClear, Goto, runVars
  <2>4. CASE Store(u) \/ Retire(u)
    BY <2>4 DEF Store, Retire, Goto, runVars
  <2> QED
    BY <1>3, <2>1, <2>2, <2>3, <2>4 DEF TaskStep
<1>4. ASSUME NEW c \in Calls, Release(c)
      PROVE  Advances(t) /\ (Live(t) => key'[t] = key[t])
  BY <1>4 DEF Release
<1>5. ASSUME \/ Time \/ UNCHANGED vars
             \/ \E w \in Watchers : WatcherStep(w) \/ \E c \in Calls : After(w, c)
      PROVE  UNCHANGED <<key, phase>>
  BY <1>5 DEF Time, WatcherStep, After, Await, Wake, WatcherEnd, vars, runVars,
              taskVars
<1> QED
  BY <1>1, <1>2, <1>3, <1>4, <1>5 DEF Next

\* promise.go:114-179: an entry of the queue stays while its task advances, and
\* goes when a task for its key runs its deferred delete, or makes room for the
\* task of a call that looked before it was there.
EntryMovesOn(k) ==
  queue[k] # NoTask =>
    \/ queue'[k] = queue[k]
    \/ /\ queue'[k] = NoTask
       /\ \E t \in Calls : key[t] = k /\ phase[t] = "retire" /\ phase'[t] = "gone"
    \/ /\ queue'[k] \in Calls \ {queue[k]}
       /\ pc[queue'[k]] = "create" /\ phase'[queue'[k]] = "queued"

LEMMA StepMovesQueue ==
  ASSUME IInv, [Next]_vars, NEW k \in Keys
  PROVE  EntryMovesOn(k)
<1> USE DEF IInv, TypeOK, EntryMovesOn
<1>1. ASSUME NEW c \in Calls, RunInsert(c) PROVE EntryMovesOn(k)
  BY <1>1, PromiseAssumption
     DEF RunInsert, CallsAndTasks, QueueHoldsLiveTasks, Live
<1>2. ASSUME NEW t \in Calls, Retire(t) PROVE EntryMovesOn(k)
  BY <1>2 DEF Retire, Goto, CallsAndTasks
<1>3. ASSUME NEW t \in Calls, TaskStep(t), ~Retire(t) PROVE UNCHANGED queue
  BY <1>3 DEF TaskStep, ProbeHit, ProbeMiss, ProbeEvict, Resolve, Reject,
              FinishClose, FinishClear, Store
<1>4. \/ UNCHANGED queue
      \/ \E t \in Calls : RunInsert(t) \/ Retire(t)
  BY <1>3 DEF Next, RunLookup, RunStep, RunTake, Release, After, WatcherStep,
              Await, Wake, WatcherEnd, Time, vars
<1> QED
  BY <1>1, <1>2, <1>4

\* The safety half of QueueDrains: tasks never fall back, so the one that an
\* entry of the queue belongs to gets to its deferred delete in a bounded number
\* of its own steps, and nothing but such a delete, or a duplicate, ends it.
THEOREM QueueMovesOn ==
  Spec => [][/\ \A t \in Calls : Advances(t) /\ (Live(t) => key'[t] = key[t])
             /\ \A k \in Keys : EntryMovesOn(k)]_vars
<1>1. IInv /\ [Next]_vars =>
        [/\ \A t \in Calls : Advances(t) /\ (Live(t) => key'[t] = key[t])
         /\ \A k \in Keys : EntryMovesOn(k)]_vars
  BY StepAdvances, StepMovesQueue
<1> QED
  BY <1>1, RunnerInvariant, PTL DEF Spec

\* promise.go:68-77: a callback that got the channel in time waits for a task that
\* will close it, whose name nobody gives up and whose channel never opens again,
\* and leaves it only with the answer of that task.
WatcherMovesOn(w) ==
  wstate[w] = "waiting" =>
    LET t == wtask[w]
    IN  /\ done[t] = "open" => Place[phase[t]] \in 1..Place["close"]
        /\ \/ /\ wstate'[w] = "waiting" /\ wtask'[w] = t
              /\ phase'[t] # "none" /\ key'[t] = key[t]
              /\ done[t] # "open" => done'[t] # "open"
           \/ /\ done[t] # "open"
              /\ wstate'[w] = IF err[t] THEN "skipped" ELSE "fired"

LEMMA StepMovesWatcher ==
  ASSUME IInv, [Next]_vars, NEW w \in Watchers
  PROVE  WatcherMovesOn(w)
<1> SUFFICES ASSUME wstate[w] = "waiting" PROVE WatcherMovesOn(w)
  BY DEF WatcherMovesOn
<1> DEFINE t == wtask[w]
<1>1. t \in Calls /\ phase[t] # "none" /\ t # NoTask /\ phase[t] \in Phases
  BY PromiseAssumption DEF IInv, TypeOK, WatchersHoldTasks
<1>2. done[t] = "open" => Place[phase[t]] \in 1..Place["close"]
  BY <1>1 DEF IInv, TypeOK, ChannelFollowsPhase, Place, Phases
<1>3. \/ wstate'[w] = "waiting" /\ wtask'[w] = t
      \/ Wake(w)
  <2>1. CASE \E v \in Watchers : WatcherStep(v)
    BY <2>1 DEF WatcherStep, Await, Wake, WatcherEnd, IInv, TypeOK
  <2>2. CASE \E v \in Watchers : \E c \in Calls : After(v, c)
    BY <2>2 DEF After, IInv, TypeOK
  <2>3. CASE UNCHANGED watchVars
    BY <2>3 DEF watchVars
  <2>4. CASE \E c \in Calls : TaskStep(c)
    BY <2>4 DEF TaskStep, ProbeHit, ProbeMiss, ProbeEvict, Resolve, Reject,
                FinishClose, FinishClear, Store, Retire, watchVars
  <2>5. CASE \/ \E c \in Calls : RunStep(c) \/ Release(c)
             \/ \E c \in Calls : \E k \in Keys : RunLookup(c, k)
             \/ Time \/ UNCHANGED vars
    BY <2>5 DEF RunStep, RunInsert, RunTake, Release, RunLookup, Time, vars,
                watchVars
  <2> QED BY <2>1, <2>2, <2>3, <2>4, <2>5 DEF Next
<1>4. CASE wstate'[w] = "waiting" /\ wtask'[w] = t
  <2>1. phase'[t] # "none"
    <3>1. WatchersHoldTasks'
      BY NextIInv DEF IInv
    <3> QED BY <1>4, <3>1 DEF WatchersHoldTasks
  <2>2. done[t] # "open" => done'[t] # "open"
    BY <1>1, <2>1, StepSettles DEF Settled
  <2>3. key'[t] = key[t]
    <3>1. CASE \E c \in Calls : \E k \in Keys : RunLookup(c, k)
      BY <1>1, <3>1 DEF RunLookup, IInv, TypeOK, CallsAndTasks
    <3>2. CASE \E c \in Calls : Release(c)
      BY <1>1, <2>1, <3>2 DEF Release, IInv, TypeOK
    <3>3. CASE \E c \in Calls : TaskStep(c)
      BY <3>3 DEF TaskStep, ProbeHit, ProbeMiss, ProbeEvict, Resolve, Reject,
                  FinishClose, FinishClear, Store, Retire, runVars
    <3>4. CASE \/ \E c \in Calls : RunStep(c)
               \/ \E v \in Watchers : WatcherStep(v) \/ \E c \in Calls : After(v, c)
               \/ Time \/ UNCHANGED vars
      BY <3>4 DEF RunStep, RunInsert, RunTake, WatcherStep, Await, Wake,
                  WatcherEnd, After, Time, vars, runVars
    <3> QED BY <3>1, <3>2, <3>3, <3>4 DEF Next
  <2> QED BY <1>2, <1>4, <2>1, <2>2, <2>3 DEF WatcherMovesOn
<1>5. CASE Wake(w)
  BY <1>2, <1>5 DEF Wake, WatcherMovesOn, IInv, TypeOK
<1> QED BY <1>3, <1>4, <1>5

\* The safety half of EarlyWatchersWake: such a callback is always between a task
\* that has still to close its channel, by steps that QueueMovesOn says are
\* bounded, and a channel that is closed and stays so until it is woken.
THEOREM WatchersMoveOn == Spec => [][\A w \in Watchers : WatcherMovesOn(w)]_vars
<1>1. IInv /\ [Next]_vars => [\A w \in Watchers : WatcherMovesOn(w)]_vars
  BY StepMovesWatcher
<1> QED
  BY <1>1, RunnerInvariant, PTL DEF Spec

-----------------------------------------------------------------------------
(* Fresh items leave the cache only in two ways. *)

Lone(t) ==
  /\ phase[t] = "evict" /\ queue[key[t]] = t
  /\ \A u \in Calls \ {t} : ~(Live(u) /\ key[u] = key[t])

\* A task that a step leaves on its way to remove a stale item, queued and
\* alone for its key, was so before or has found the item stale just now.
LEMMA LoneBefore ==
  ASSUME IInv, Next, NEW t \in Calls, Lone(t)'
  PROVE  /\ key'[t] = key[t] /\ key[t] \in Keys
         /\ \/ Lone(t)
            \/ ProbeMiss(t) /\ Stale(key[t])
         /\ \A u \in Calls : Store(u) => u # t /\ key[u] # key[t]
<1> USE DEF IInv, TypeOK, Phases, Lone, Live
<1>1. ASSUME NEW c \in Calls, NEW k \in Keys, RunLookup(c, k)
      PROVE  key'[t] = key[t] /\ Lone(t)
  BY <1>1 DEF RunLookup, taskVars, CallsAndTasks
<1>2. ASSUME NEW c \in Calls, RunStep(c)
      PROVE  key'[t] = key[t] /\ Lone(t)
  BY <1>2, PromiseAssumption DEF RunStep, RunInsert, RunTake, CallsAndTasks
<1>3. ASSUME NEW u \in Calls, TaskStep(u)
      PROVE  /\ key'[t] = key[t] /\ (Lone(t) \/ (ProbeMiss(t) /\ Stale(key[t])))
  <2>1. CASE ProbeMiss(u)
    BY <2>1 DEF ProbeMiss, Goto, runVars
  <2>2. CASE Retire(u)
    BY <2>2, PromiseAssumption DEF Retire, Goto, runVars, CallsAndTasks
  <2>3. CASE ProbeHit(u) \/ ProbeEvict(u) \/ Reject(u)
             \/ \E v \in ValuesOf[key[u]] : Resolve(u, v)
    BY <2>3 DEF ProbeHit, ProbeEvict, Resolve, Reject, Goto, runVars
  <2>4. CASE FinishClose(u) \/ FinishClear(u) \/ Store(u)
    BY <2>4 DEF FinishClose, FinishClear, Store, Goto, runVars
  <2> QED
    BY <1>3, <2>1, <2>2, <2>3, <2>4 DEF TaskStep
<1>4. ASSUME NEW c \in Calls, Release(c) PROVE key'[t] = key[t] /\ Lone(t)
  BY <1>4 DEF Release, QueueHoldsLiveTasks
<1>5. ASSUME Time \/ \E w \in Watchers :
                      WatcherStep(w) \/ \E c \in Calls : After(w, c)
      PROVE  key'[t] = key[t] /\ Lone(t)
  <2>1. UNCHANGED <<key, queue, phase>>
    BY <1>5 DEF Time, WatcherStep, After, Await, Wake, WatcherEnd, runVars,
                taskVars
  <2> QED
    BY <2>1
<1>6. key'[t] = key[t] /\ (Lone(t) \/ (ProbeMiss(t) /\ Stale(key[t])))
  BY <1>1, <1>2, <1>3, <1>4, <1>5 DEF Next
<1>7. key[t] \in Keys
  BY <1>6 DEF CallsAndTasks, ProbeMiss, Goto
<1>8. \A u \in Calls : Store(u) => u # t /\ key[u] # key[t]
  BY <1>6 DEF Store, Goto, runVars
<1> QED
  BY <1>6, <1>7, <1>8

\* A key gets a fresh item from Store only, and then it is the task's key.
LEMMA FreshComes ==
  ASSUME IInv, Next, NEW k \in Keys, Fresh(k)', ~Fresh(k)
  PROVE  \E u \in Calls : Store(u) /\ key[u] = k
<1> USE DEF IInv, TypeOK
<1>1. ASSUME NEW u \in Calls, Store(u)
      PROVE  key[u] = k
  <2>1. ~err[u] /\ key[u] \in Keys /\ result[u] \in Values
    BY <1>1, PromiseAssumption
       DEF Store, Goto, CallsAndTasks, OutcomeFollowsPhase, Fresh
  <2> QED
    BY <1>1, <2>1, AddEffect DEF Store, Fresh
<1>2. ASSUME NEW u \in Calls, ProbeEvict(u) PROVE FALSE
  BY <1>2 DEF ProbeEvict, Remove, Fresh, CacheTypeOK
<1>3. CASE Time
  BY <1>3 DEF Time, Expire, Fresh, CacheTypeOK, Entry
<1>4. CASE UNCHANGED cache
  BY <1>4 DEF Fresh
<1>5. UNCHANGED cache \/ Time \/ \E u \in Calls : Store(u) \/ ProbeEvict(u)
  <2>1. ASSUME NEW u \in Calls, TaskStep(u), ~Store(u), ~ProbeEvict(u)
        PROVE  UNCHANGED cache
    BY <2>1 DEF TaskStep, ProbeHit, ProbeMiss, Resolve, Reject, FinishClose,
                FinishClear, Retire
  <2> QED
    BY <2>1 DEF Next, RunLookup, RunStep, RunInsert, RunTake, Release,
                After, WatcherStep, Await, Wake, WatcherEnd
<1> QED
  BY <1>1, <1>2, <1>3, <1>4, <1>5

LEMMA LoneEvictorInv ==
  IInv /\ LoneEvictorIsStale /\ [Next]_vars => LoneEvictorIsStale'
<1>1. ASSUME IInv, LoneEvictorIsStale, Next, NEW t \in Calls, Lone(t)'
      PROVE  ~Fresh(key[t])' /\ key'[t] = key[t]
  <2>1. key'[t] = key[t] /\ key[t] \in Keys
    BY <1>1, LoneBefore
  <2>2. ~Fresh(key[t])
    BY <1>1, LoneBefore DEF LoneEvictorIsStale, Lone, Stale, Fresh
  <2>3. ~\E u \in Calls : Store(u) /\ key[u] = key[t]
    BY <1>1, LoneBefore
  <2> DEFINE k == key[t]
  <2>4. k \in Keys /\ ~Fresh(k)
    BY <2>1, <2>2
  <2>5. ~\E u \in Calls : Store(u) /\ key[u] = k
    BY <2>3
  <2>6. key'[t] = k
    BY <2>1
  <2> HIDE DEF k
  <2>7. PICK m \in Keys : m = k
    BY <2>4
  <2>8. ~(cache'[m] # NoEntry /\ ~cache'[m].stale)
    BY <1>1, <2>4, <2>5, <2>7, FreshComes DEF Fresh
  <2> QED
    BY <2>1, <2>6, <2>7, <2>8 DEF Fresh, k
<1>2. ASSUME LoneEvictorIsStale, UNCHANGED vars PROVE LoneEvictorIsStale'
  BY <1>2 DEF LoneEvictorIsStale, vars, runVars, taskVars, Live, Fresh
<1> QED
  BY <1>1, <1>2 DEF LoneEvictorIsStale, Lone

\* What may take a fresh item away.
FreshLossExcused(k) ==
  \/ Cardinality(Held) >= Capacity /\ \E t \in Calls : phase[t] = "store"
  \/ \E t \in Calls :
       /\ phase[t] = "evict" /\ key[t] = k
       /\ queue[k] # t \/ \E u \in Calls \ {t} : Live(u) /\ key[u] = k

LEMMA FreshLossStep ==
  ASSUME IInv, LoneEvictorIsStale, [Next]_vars,
         NEW k \in Keys, Fresh(k), cache'[k] = NoEntry
  PROVE  FreshLossExcused(k)
<1> USE DEF IInv, TypeOK, FreshLossExcused
<1>1. ASSUME NEW t \in Calls, ProbeEvict(t) PROVE FreshLossExcused(k)
  <2>1. phase[t] = "evict" /\ cache' = [cache EXCEPT ![key[t]] = NoEntry]
    BY <1>1 DEF ProbeEvict, Remove, Goto
  <2>2. key[t] = k
    BY <2>1 DEF CacheTypeOK, Fresh
  <2> QED
    BY <2>1, <2>2 DEF LoneEvictorIsStale
<1>2. ASSUME NEW t \in Calls, Store(t) PROVE FreshLossExcused(k)
  <2>1. phase[t] = "store" /\ Add(key[t], result[t])
    BY <1>2 DEF Store, Goto, Fresh
  <2>2. NewItem(result[t]) # NoEntry
    <3>1. key[t] \in Keys /\ result[t] \in Values
      BY <1>2, PromiseAssumption
         DEF Store, Goto, CallsAndTasks, OutcomeFollowsPhase, Fresh
    <3>2. NewItem(result[t]) \in Entry
      BY <3>1 DEF NewItem, Entry
    <3> QED
      BY <3>2, CacheAssumption
  <2>3. Cardinality(Held) >= Capacity
    BY <2>1, <2>2 DEF Add, CacheTypeOK, Fresh
  <2> QED
    BY <2>1, <2>3
<1>3. ASSUME NEW j \in Keys, Expire(j) PROVE FALSE
  <2>1. cache[j] \in Entry /\ cache' = [cache EXCEPT ![j].stale = TRUE]
    BY <1>3 DEF Expire, Fresh, CacheTypeOK
  <2> QED
    BY <2>1, CacheAssumption DEF CacheTypeOK, Entry, Fresh
<1>4. CASE UNCHANGED cache
  BY <1>4 DEF Fresh
<1>5. \/ UNCHANGED cache \/ \E j \in Keys : Expire(j)
      \/ \E u \in Calls : Store(u) \/ ProbeEvict(u)
  <2>1. ASSUME NEW u \in Calls, TaskStep(u), ~Store(u), ~ProbeEvict(u)
        PROVE  UNCHANGED cache
    BY <2>1 DEF TaskStep, ProbeHit, ProbeMiss, Resolve, Reject, FinishClose,
                FinishClear, Retire
  <2> QED
    BY <2>1 DEF Next, RunLookup, RunStep, RunInsert, RunTake, Release, Time,
                After, WatcherStep, Await, Wake, WatcherEnd, vars
<1> QED
  BY <1>1, <1>2, <1>3, <1>4, <1>5

\* cache.go:63-71: removing by key without a second look takes away a fresh
\* item only where two tasks are under way for one key; else a full ARC does.
THEOREM FreshLossSound == Spec => FreshLossNeedsDuplicate
<1>1. IInv /\ LoneEvictorIsStale /\ [Next]_vars =>
        [\A k \in Keys :
           Fresh(k) /\ cache'[k] = NoEntry => FreshLossExcused(k)]_vars
  BY FreshLossStep
<1>2. Init => LoneEvictorIsStale
  BY DEF Init, LoneEvictorIsStale
<1> QED
  BY <1>1, <1>2, LoneEvictorInv, RunnerInvariant, PTL
     DEF Spec, FreshLossNeedsDuplicate, FreshLossExcused

-----------------------------------------------------------------------------
(* The runner implements module Future. *)

LEMMA InitMaps == Init => F!FutureInit
BY DEF Init, F!FutureInit, CellOf, ValueOf, SubOf

\* A step that changes neither cells nor watchers is a stutter of Future.
LEMMA StutterMaps ==
  ASSUME UNCHANGED watchVars,
         \A t \in Calls : CellOf(t)' = CellOf(t) /\ ValueOf(t)' = ValueOf(t)
  PROVE  UNCHANGED F!futureVars
BY DEF F!futureVars, watchVars, SubOf

\* Inserting a task starts a cell; the rest of Run is not visible.
LEMMA RunMaps ==
  ASSUME IInv, NEW c \in Calls,
         RunStep(c) \/ \E k \in Keys : RunLookup(c, k)
  PROVE  [F!FutureNext]_F!futureVars
<1> USE DEF IInv, TypeOK, CallsAndTasks, ChannelFollowsPhase
<1>1. CASE RunInsert(c)
  <2>1. CellOf(c) = "none" /\ CellOf(c)' = "pending"
    BY <1>1 DEF RunInsert, CellOf
  <2>2. \A t \in Calls : t # c => CellOf(t)' = CellOf(t)
    BY <1>1 DEF RunInsert, CellOf
  <2>3. \A t \in Calls : ValueOf(t)' = ValueOf(t)
    BY <1>1, <2>1, <2>2 DEF RunInsert, ValueOf
  <2>4. wtask' = wtask /\ \A w \in Watchers : SubOf(w)' = SubOf(w)
    BY <1>1 DEF RunInsert, watchVars, SubOf
  <2> HIDE DEF IInv, TypeOK, CallsAndTasks, ChannelFollowsPhase
  <2>5. F!Start(c)
    BY <2>1, <2>2, <2>3, <2>4 DEF F!Start
  <2> QED
    BY <2>5 DEF F!FutureNext
<1>2. CASE RunTake(c)
  <2>1. \A t \in Calls : CellOf(t)' = CellOf(t)
    BY <1>2 DEF RunTake, CellOf
  <2>2. \A t \in Calls : ValueOf(t)' = ValueOf(t)
    BY <1>2, <2>1 DEF RunTake, ValueOf
  <2> QED
    BY <1>2, <2>1, <2>2, StutterMaps DEF RunTake
<1>3. CASE \E k \in Keys : RunLookup(c, k)
  <2>1. \A t \in Calls : CellOf(t)' = CellOf(t) /\ ValueOf(t)' = ValueOf(t)
    BY <1>3 DEF RunLookup, taskVars, CellOf, ValueOf
  <2> QED
    BY <1>3, <2>1, StutterMaps DEF RunLookup
<1> QED
  BY <1>1, <1>2, <1>3 DEF RunStep

\* Closing the channel writes the cell, with the outcome that was chosen
\* before; what precedes and follows is not visible.
LEMMA TaskMaps ==
  ASSUME IInv, NEW u \in Calls, TaskStep(u)
  PROVE  [F!FutureNext]_F!futureVars
<1> USE DEF IInv, TypeOK, ChannelFollowsPhase, Phases
<1>1. CASE FinishClose(u)
  <2>1. CellOf(u) = "pending"
    BY <1>1 DEF FinishClose, Goto, CellOf
  <2>2. CellOf(u)' = IF err[u] THEN "rejected" ELSE "resolved"
    BY <1>1 DEF FinishClose, Goto, CellOf
  <2>3. \A t \in Calls : t # u =>
          CellOf(t)' = CellOf(t) /\ ValueOf(t)' = ValueOf(t)
    BY <1>1 DEF FinishClose, Goto, CellOf, ValueOf
  <2>4. ValueOf(u) = NoValue /\
        ValueOf(u)' = IF err[u] THEN NoValue ELSE result[u]
    BY <1>1, <2>1, <2>2 DEF FinishClose, ValueOf
  <2>5. ~err[u] => result[u] \in Values
    <3>1. key[u] \in Keys
      BY <1>1 DEF FinishClose, Goto, CallsAndTasks
    <3> QED
      BY <1>1, <3>1, PromiseAssumption
         DEF FinishClose, Goto, OutcomeFollowsPhase
  <2>6. wtask' = wtask /\ \A w \in Watchers : SubOf(w)' = SubOf(w)
    BY <1>1 DEF FinishClose, watchVars, SubOf
  <2> HIDE DEF IInv, TypeOK, ChannelFollowsPhase, Phases
  <2>7. F!Write(u)
    <3>1. CASE err[u]
      BY <3>1, <2>1, <2>2, <2>3, <2>4, <2>6 DEF F!Write
    <3>2. CASE ~err[u]
      BY <3>2, <2>1, <2>2, <2>3, <2>4, <2>5, <2>6 DEF F!Write
    <3> QED
      BY <3>1, <3>2
  <2> QED
    BY <2>7 DEF F!FutureNext
<1>2. CASE ~FinishClose(u)
  <2>1. UNCHANGED watchVars
    BY <1>2 DEF TaskStep, ProbeHit, ProbeMiss, ProbeEvict, Resolve, Reject,
       FinishClear, Store, Retire
  <2>2. \A t \in Calls :
          CellOf(t)' = CellOf(t) /\ ValueOf(t)' = ValueOf(t)
    <3>1. CASE ProbeHit(u) \/ \E v \in ValuesOf[key[u]] : Resolve(u, v)
      BY <3>1 DEF ProbeHit, Resolve, Goto, CellOf, ValueOf
    <3>2. CASE Reject(u)
      BY <3>2 DEF Reject, Goto, CellOf, ValueOf
    <3>3. CASE FinishClear(u)
      BY <3>3 DEF FinishClear, Goto, CellOf, ValueOf
    <3>4. CASE ProbeMiss(u) \/ ProbeEvict(u) \/ Store(u) \/ Retire(u)
      BY <3>4 DEF ProbeMiss, ProbeEvict, Store, Retire, Goto, CellOf, ValueOf
    <3> QED
      BY <1>2, <3>1, <3>2, <3>3, <3>4 DEF TaskStep
  <2> QED
    BY <2>1, <2>2, StutterMaps
<1> QED
  BY <1>1, <1>2

\* A watcher that looked for the channel too late waits for ever: to
\* Future, it has not been notified yet.
LEMMA WatcherMaps ==
  ASSUME IInv, NEW w \in Watchers,
         WatcherStep(w) \/ \E c \in Calls : After(w, c)
  PROVE  [F!FutureNext]_F!futureVars
<1> DEFINE Still == \A t \in Calls :
                      CellOf(t)' = CellOf(t) /\ ValueOf(t)' = ValueOf(t)
           Moves(old, new) ==
             /\ SubOf(w) = old
             /\ \A x \in Watchers : SubOf(x)' = IF x = w THEN new ELSE SubOf(x)
<1>0. UNCHANGED taskVars => Still
  BY DEF taskVars, CellOf, ValueOf
<1>1. CASE \E c \in Calls : After(w, c)
  <2>1. PICK c \in Calls : After(w, c)
    BY <1>1
  <2>2. handle[c] \in Calls /\ CellOf(handle[c]) # "none"
    BY <2>1, PromiseAssumption
       DEF IInv, TypeOK, After, HandleIsForKey, CellOf
  <2>3. Moves("off", "waiting")
    BY <2>1 DEF IInv, TypeOK, After, SubOf
  <2>4. Still /\ wtask' = [wtask EXCEPT ![w] = handle[c]]
    BY <1>0, <2>1 DEF After
  <2>5. F!Subscribe(w, handle[c])
    BY <2>2, <2>3, <2>4 DEF F!Subscribe
  <2> QED
    BY <2>2, <2>5 DEF F!FutureNext
<1>2. CASE Await(w)
  <2>1. Still
    BY <1>0, <1>2 DEF Await
  <2>2. \A x \in Watchers : SubOf(x)' = SubOf(x)
    BY <1>2 DEF IInv, TypeOK, Await, SubOf
  <2> QED
    BY <1>2, <2>1, <2>2 DEF Await, F!futureVars
<1>3. CASE Wake(w)
  <2>1. wtask[w] \in Calls /\ phase[wtask[w]] # "none"
    BY <1>3 DEF IInv, TypeOK, WatchersHoldTasks, Wake
  <2>2. CellOf(wtask[w]) = IF err[wtask[w]] THEN "rejected" ELSE "resolved"
    BY <1>3, <2>1 DEF IInv, TypeOK, Wake, CellOf
  <2>3. Moves("waiting", IF err[wtask[w]] THEN "dropped" ELSE "told")
    BY <1>3 DEF IInv, TypeOK, Wake, SubOf
  <2>4. Still /\ wtask' = wtask
    BY <1>0, <1>3 DEF Wake
  <2>5. F!Notify(w)
    BY <2>1, <2>2, <2>3, <2>4 DEF F!Notify
  <2> QED
    BY <2>5 DEF F!FutureNext
<1>4. CASE WatcherEnd(w)
  <2>1. SubOf(w) \in {"told", "dropped"} /\ Moves(SubOf(w), "off")
    BY <1>4 DEF IInv, TypeOK, WatcherEnd, SubOf
  <2>2. Still /\ wtask' = [wtask EXCEPT ![w] = NoTask]
    BY <1>0, <1>4 DEF WatcherEnd
  <2>3. F!Leave(w)
    BY <2>1, <2>2 DEF F!Leave
  <2> QED
    BY <2>3 DEF F!FutureNext
<1> QED
  BY <1>1, <1>2, <1>3, <1>4 DEF WatcherStep

\* Forgetting a call collects the cell of its task, if it made one.
LEMMA ReleaseMaps ==
  ASSUME IInv, NEW c \in Calls, Release(c)
  PROVE  [F!FutureNext]_F!futureVars
<1> USE DEF IInv, TypeOK, ChannelFollowsPhase, Release
<1>1. CellOf(c)' = "none" /\ ValueOf(c)' = NoValue
  BY DEF CellOf, ValueOf
<1>2. \A t \in Calls : t # c =>
        CellOf(t)' = CellOf(t) /\ ValueOf(t)' = ValueOf(t)
  BY DEF CellOf, ValueOf
<1>3. CASE phase[c] = "none"
  <2>1. CellOf(c) = "none" /\ ValueOf(c) = NoValue
    BY <1>3 DEF CellOf, ValueOf
  <2> QED
    BY <1>1, <1>2, <2>1, StutterMaps
<1>4. CASE phase[c] = "gone"
  <2>1. CellOf(c) \in {"resolved", "rejected"}
    BY <1>4 DEF CellOf
  <2>2. F!Collect(c)
    BY <1>1, <1>2, <2>1 DEF F!Collect, watchVars, SubOf
  <2> QED
    BY <2>2 DEF F!FutureNext
<1> QED
  BY <1>3, <1>4

LEMMA RunnerStepMaps == IInv /\ [Next]_vars => [F!FutureNext]_F!futureVars
<1> SUFFICES ASSUME IInv, [Next]_vars PROVE [F!FutureNext]_F!futureVars
  OBVIOUS
<1>1. CASE Time \/ UNCHANGED vars
  <2>1. UNCHANGED <<taskVars, watchVars>>
    BY <1>1 DEF Time, vars
  <2>2. \A t \in Calls : CellOf(t)' = CellOf(t) /\ ValueOf(t)' = ValueOf(t)
    BY <2>1 DEF taskVars, CellOf, ValueOf
  <2> QED
    BY <2>1, <2>2, StutterMaps
<1> QED
  BY <1>1, RunMaps, TaskMaps, WatcherMaps, ReleaseMaps DEF Next

\* promise.go:55-179: every behaviour of the runner is one of write-once cells.
THEOREM RunnerImplementsFuture == Spec => ImplementsFuture
BY RunnerStepMaps, InitMaps, RunnerInvariant, PTL
   DEF Spec, ImplementsFuture, F!FutureSpec

=============================================================================
