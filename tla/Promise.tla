------------------------------ MODULE Promise ------------------------------
(***************************************************************************)
(* pkg/promise: the task runner, with the option WithCache that            *)
(* NewKeyProofApp installs on it.                                          *)
(*                                                                         *)
(* A call c is one invocation of Runner.Run.  It creates at most one task, *)
(* which is named c as well: the Run part of c is in pc[c], the goroutine  *)
(* of the task it started in phase[c].  A watcher w is a goroutine that    *)
(* qTask.After started.  Steps are cut where another goroutine can run:    *)
(* between the read lock and the write lock of Run, before the limiter     *)
(* lets the caller through, around each access to the cache, and between   *)
(* close(t.done) and t.done = nil.                                         *)
(***************************************************************************)
EXTENDS Cache

CONSTANTS
  Calls,      \* invocations of Run that are alive at one time
  Watchers,   \* After goroutines that are alive at one time
  ValuesOf,   \* ValuesOf[k]: what a function run for key k may resolve to
  NoTask,
  NoKey,
  NoValue

ASSUME PromiseAssumption ==
  /\ NoTask \notin Calls
  /\ NoKey \notin Keys
  /\ NoValue \notin Values
  /\ ValuesOf \in [Keys -> SUBSET Values]

VARIABLES
  pc,       \* pc[c]: where call c is in Run
  key,      \* key[c]: the key of call c, and of its task
  handle,   \* handle[c]: the task Run returned to call c
  queue,    \* Runner.queue
  phase,    \* phase[t]: where the goroutine of task t is
  cached,   \* cached[t]: the wrapper of WithCache found t's value
  done,     \* done[t]: qTask.done, an open or closed channel, or nil
  result,   \* qTask.result
  err,      \* err[t]: qTask.err is set
  wstate,   \* wstate[w]: where watcher w is
  wtask     \* wtask[w]: the task w watches

runVars   == <<pc, key, handle>>
taskVars  == <<phase, cached, done, result, err>>
watchVars == <<wstate, wtask>>
vars == <<runVars, queue, taskVars, watchVars, cache>>

Phases == {"none", "queued", "probe", "evict", "compute", "close", "clear",
           "store", "retire", "gone"}

TypeOK ==
  /\ pc \in [Calls -> {"idle", "create", "take", "returned"}]
  /\ key \in [Calls -> Keys \cup {NoKey}]
  /\ handle \in [Calls -> Calls \cup {NoTask}]
  /\ queue \in [Keys -> Calls \cup {NoTask}]
  /\ phase \in [Calls -> Phases]
  /\ cached \in [Calls -> BOOLEAN]
  /\ done \in [Calls -> {"open", "closed", "nil"}]
  /\ result \in [Calls -> Values \cup {NoValue}]
  /\ err \in [Calls -> BOOLEAN]
  /\ wstate \in [Watchers -> {"off", "spawned", "waiting", "stuck",
                              "fired", "skipped"}]
  /\ wtask \in [Watchers -> Calls \cup {NoTask}]
  /\ CacheTypeOK

Init ==
  /\ pc = [c \in Calls |-> "idle"]
  /\ key = [c \in Calls |-> NoKey]
  /\ handle = [c \in Calls |-> NoTask]
  /\ queue = [k \in Keys |-> NoTask]
  /\ phase = [c \in Calls |-> "none"]
  /\ cached = [c \in Calls |-> FALSE]
  /\ done = [c \in Calls |-> "open"]
  /\ result = [c \in Calls |-> NoValue]
  /\ err = [c \in Calls |-> FALSE]
  /\ wstate = [w \in Watchers |-> "off"]
  /\ wtask = [w \in Watchers |-> NoTask]
  /\ CacheInit

\* The goroutine of task t goes on.
Goto(t, from, to) ==
  /\ phase[t] = from
  /\ phase' = [phase EXCEPT ![t] = to]

-----------------------------------------------------------------------------
(* Faults: forms that an action below would take after a plausible slip in *)
(* the code.  No specification uses them; the properties tell them apart.  *)

\* The keys lose their types, so Run joins whatever task it finds.
RunLookupUntyped(c, k) ==
  /\ pc[c] = "idle"
  /\ key' = [key EXCEPT ![c] = k]
  /\ \/ \E j \in Keys :
          /\ queue[j] # NoTask
          /\ handle' = [handle EXCEPT ![c] = queue[j]]
          /\ pc' = [pc EXCEPT ![c] = "returned"]
     \/ /\ \A j \in Keys : queue[j] = NoTask
        /\ pc' = [pc EXCEPT ![c] = "create"]
        /\ UNCHANGED handle
  /\ UNCHANGED <<queue, taskVars, watchVars, cache>>

\* cache.Get tests Stale the wrong way round.
ProbeMissInverted(t) ==
  /\ \/ Goto(t, "probe", "compute") /\ Absent(key[t])
     \/ Goto(t, "probe", "evict")   /\ Fresh(key[t])
  /\ UNCHANGED <<runVars, queue, cached, done, result, err, watchVars, cache>>

\* The function rejects after it resolved.
RejectLate(t) ==
  /\ Goto(t, "compute", "close") \/ Goto(t, "store", "close")
  /\ err' = [err EXCEPT ![t] = TRUE]
  /\ UNCHANGED <<runVars, queue, cached, done, result, watchVars, cache>>

\* A hit sets the result and skips finish.
FinishCloseComputed(t) ==
  /\ Goto(t, "close", IF cached[t] THEN "retire" ELSE "clear")
  /\ done' = [done EXCEPT ![t] = IF cached[t] THEN "open" ELSE "closed"]
  /\ UNCHANGED <<runVars, queue, cached, result, err, watchVars, cache>>

\* WithCache does not look at the error.
StoreUnchecked(t) ==
  /\ Goto(t, "store", "retire")
  /\ Add(key[t], result[t])
  /\ UNCHANGED <<runVars, queue, cached, done, result, err, watchVars>>

\* The deferred function returns before it deletes when the task failed.
RetireSuccesses(t) ==
  /\ Goto(t, "retire", "gone")
  /\ queue' = IF err[t] THEN queue ELSE [queue EXCEPT ![key[t]] = NoTask]
  /\ UNCHANGED <<runVars, cached, done, result, err, watchVars, cache>>

\* After does not look at the error.
WakeAlways(w) ==
  /\ wstate[w] = "waiting"
  /\ done[wtask[w]] # "open"
  /\ wstate' = [wstate EXCEPT ![w] = "fired"]
  /\ UNCHANGED <<runVars, queue, taskVars, wtask, cache>>

-----------------------------------------------------------------------------
(* Runner.Run *)

\* Under the read lock: join the task that is queued for the key, or go on.
RunLookup(c, k) ==
  /\ pc[c] = "idle"
  /\ key' = [key EXCEPT ![c] = k]
  /\ IF queue[k] # NoTask
     THEN /\ handle' = [handle EXCEPT ![c] = queue[k]]
          /\ pc' = [pc EXCEPT ![c] = "returned"]
     ELSE /\ pc' = [pc EXCEPT ![c] = "create"]
          /\ UNCHANGED handle
  /\ UNCHANGED <<queue, taskVars, watchVars, cache>>

\* Under the write lock: store the new task, over any that came in between.
RunInsert(c) ==
  /\ pc[c] = "create"
  /\ queue' = [queue EXCEPT ![key[c]] = c]
  /\ phase' = [phase EXCEPT ![c] = "queued"]
  /\ pc' = [pc EXCEPT ![c] = "take"]
  /\ UNCHANGED <<key, handle, cached, done, result, err, watchVars, cache>>

\* limiter.Take lets the caller through; the goroutine starts.
RunTake(c) ==
  /\ pc[c] = "take"
  /\ pc' = [pc EXCEPT ![c] = "returned"]
  /\ handle' = [handle EXCEPT ![c] = c]
  /\ phase' = [phase EXCEPT ![c] = "probe"]
  /\ UNCHANGED <<key, queue, cached, done, result, err, watchVars, cache>>

-----------------------------------------------------------------------------
(* The goroutine of a task: the wrapper of WithCache around the function. *)

\* cache.Get finds a fresh item: Resolve with it.
ProbeHit(t) ==
  /\ Goto(t, "probe", "close")
  /\ Fresh(key[t])
  /\ result' = [result EXCEPT ![t] = cache[key[t]].val]
  /\ cached' = [cached EXCEPT ![t] = TRUE]
  /\ UNCHANGED <<runVars, queue, done, err, watchVars, cache>>

ProbeMiss(t) ==
  /\ \/ Goto(t, "probe", "compute") /\ Absent(key[t])
     \/ Goto(t, "probe", "evict")   /\ Stale(key[t])
  /\ UNCHANGED <<runVars, queue, cached, done, result, err, watchVars, cache>>

\* The second half of cache.Get on a stale item.
ProbeEvict(t) ==
  /\ Goto(t, "evict", "compute")
  /\ Remove(key[t])
  /\ UNCHANGED <<runVars, queue, cached, done, result, err, watchVars>>

\* The function ends with q.Resolve(v) ...
Resolve(t, v) ==
  /\ Goto(t, "compute", "close")
  /\ result' = [result EXCEPT ![t] = v]
  /\ UNCHANGED <<runVars, queue, cached, done, err, watchVars, cache>>

\* ... or with q.Reject: a failure, its timeout, or the end of the context.
Reject(t) ==
  /\ Goto(t, "compute", "close")
  /\ err' = [err EXCEPT ![t] = TRUE]
  /\ UNCHANGED <<runVars, queue, cached, done, result, watchVars, cache>>

\* finish: cancel the context and close the channel ...
FinishClose(t) ==
  /\ Goto(t, "close", "clear")
  /\ done' = [done EXCEPT ![t] = "closed"]
  /\ UNCHANGED <<runVars, queue, cached, result, err, watchVars, cache>>

\* ... then forget it.  A value from the cache is not stored again.
FinishClear(t) ==
  /\ Goto(t, "clear", IF cached[t] THEN "retire" ELSE "store")
  /\ done' = [done EXCEPT ![t] = "nil"]
  /\ UNCHANGED <<runVars, queue, cached, result, err, watchVars, cache>>

\* WithCache keeps the result of a function that did not fail.
Store(t) ==
  /\ Goto(t, "store", "retire")
  /\ IF err[t] THEN UNCHANGED cache ELSE Add(key[t], result[t])
  /\ UNCHANGED <<runVars, queue, cached, done, result, err, watchVars>>

\* The deferred function: delete by key, whatever task is queued there.
Retire(t) ==
  /\ Goto(t, "retire", "gone")
  /\ queue' = [queue EXCEPT ![key[t]] = NoTask]
  /\ UNCHANGED <<runVars, cached, done, result, err, watchVars, cache>>

-----------------------------------------------------------------------------
(* qTask.After and qTask.Await *)

\* The holder of a task asks for a callback.
After(w, c) ==
  /\ wstate[w] = "off"
  /\ pc[c] = "returned"
  /\ wstate' = [wstate EXCEPT ![w] = "spawned"]
  /\ wtask' = [wtask EXCEPT ![w] = handle[c]]
  /\ UNCHANGED <<runVars, queue, taskVars, cache>>

\* Await returns t.done, which is nil once the task has finished; a receive
\* from a nil channel never ends.
Await(w) ==
  /\ wstate[w] = "spawned"
  /\ wstate' = [wstate EXCEPT
       ![w] = IF done[wtask[w]] = "nil" THEN "stuck" ELSE "waiting"]
  /\ UNCHANGED <<runVars, queue, taskVars, wtask, cache>>

\* The channel is closed: call the function unless the task failed.
Wake(w) ==
  /\ wstate[w] = "waiting"
  /\ done[wtask[w]] # "open"
  /\ wstate' = [wstate EXCEPT
       ![w] = IF err[wtask[w]] THEN "skipped" ELSE "fired"]
  /\ UNCHANGED <<runVars, queue, taskVars, wtask, cache>>

\* The goroutine ends.
WatcherEnd(w) ==
  /\ wstate[w] \in {"fired", "skipped"}
  /\ wstate' = [wstate EXCEPT ![w] = "off"]
  /\ wtask' = [wtask EXCEPT ![w] = NoTask]
  /\ UNCHANGED <<runVars, queue, taskVars, cache>>

\* Nothing refers to the call and its task any more: the name c is free.
Release(c) ==
  /\ pc[c] = "returned"
  /\ phase[c] \in {"none", "gone"}
  /\ \A d \in Calls \ {c} : handle[d] # c
  /\ \A w \in Watchers : wtask[w] # c
  /\ pc' = [pc EXCEPT ![c] = "idle"]
  /\ key' = [key EXCEPT ![c] = NoKey]
  /\ handle' = [handle EXCEPT ![c] = NoTask]
  /\ phase' = [phase EXCEPT ![c] = "none"]
  /\ cached' = [cached EXCEPT ![c] = FALSE]
  /\ done' = [done EXCEPT ![c] = "open"]
  /\ result' = [result EXCEPT ![c] = NoValue]
  /\ err' = [err EXCEPT ![c] = FALSE]
  /\ UNCHANGED <<queue, watchVars, cache>>

Time ==
  /\ \E k \in Keys : Expire(k)
  /\ UNCHANGED <<runVars, queue, taskVars, watchVars>>

-----------------------------------------------------------------------------
RunStep(c) == RunInsert(c) \/ RunTake(c)

\* What the goroutine of task t does; which value it computes is left open.
TaskStep(t) ==
  \/ ProbeHit(t) \/ ProbeMiss(t) \/ ProbeEvict(t)
  \/ phase[t] = "compute" /\ \E v \in ValuesOf[key[t]] : Resolve(t, v)
  \/ Reject(t) \/ FinishClose(t) \/ FinishClear(t) \/ Store(t) \/ Retire(t)

WatcherStep(w) == Await(w) \/ Wake(w) \/ WatcherEnd(w)

Next ==
  \/ \E c \in Calls :
       \/ \E k \in Keys : RunLookup(c, k)
       \/ RunStep(c) \/ TaskStep(c) \/ Release(c)
  \/ \E w \in Watchers :
       \/ \E c \in Calls : After(w, c)
       \/ WatcherStep(w)
  \/ Time

Spec == Init /\ [][Next]_vars

\* Goroutines are scheduled, the limiter admits every caller in turn, and
\* the function of a task ends by its 30s timeout.  Nobody has to call Run
\* or After, and time need not pass.
Fairness ==
  /\ \A c \in Calls : WF_vars(RunStep(c)) /\ WF_vars(TaskStep(c))
  /\ \A w \in Watchers : WF_vars(WatcherStep(w))

FairSpec == Spec /\ Fairness

-----------------------------------------------------------------------------
(* Properties *)

Live(t) == phase[t] \notin {"none", "gone"}
Succeeded(t) == done[t] # "open" /\ ~err[t]

\* Runner.queue never keeps an entry that nobody will delete: although Retire
\* deletes by key and may remove the entry of a younger task, whatever is
\* queued under k is a task for k that has its own Retire still to come.
QueueHoldsLiveTasks ==
  \A k \in Keys : queue[k] # NoTask =>
    key[queue[k]] = k /\ Live(queue[k])

\* Run hands a caller a task for the key it asked for, one that was created
\* and not yet collected, whether the caller joined it or made it.
HandleIsForKey ==
  \A c \in Calls : pc[c] = "returned" =>
    /\ handle[c] # NoTask
    /\ key[handle[c]] = key[c]
    /\ phase[handle[c]] # "none"

\* promise.go:59: the function given to After runs on successful completion
\* only.  When it runs, the task has finished, has a result for its key to
\* hand over, and did not fail.
FiresOnSuccess ==
  \A w \in Watchers : wstate[w] = "fired" =>
    /\ Succeeded(wtask[w])
    /\ result[wtask[w]] \in ValuesOf[key[wtask[w]]]

\* The cache only ever holds, under a key, what a function run for that key
\* resolved to: no failure is cached, and a value never crosses keys, however
\* tasks, duplicate tasks, expiry and eviction interleave.
CacheIsComputed ==
  \A k \in Keys : cache[k] # NoEntry => cache[k].val \in ValuesOf[k]

\* A task settles once: from the moment its channel is closed, what Result
\* and Err say is final for as long as somebody holds the task.
SettlesOnce ==
  [][\A t \in Calls :
       done[t] # "open" /\ phase'[t] # "none" =>
         done'[t] # "open" /\ err'[t] = err[t] /\ result'[t] = result[t]]_vars

\* cache.Get removes under its key without looking again, so it can remove
\* an item that was stored after it looked.  In the runner that takes two
\* tasks for one key: a task that is queued and alone for its key never takes
\* away a fresh item, and otherwise fresh items leave a full ARC only.
FreshLossNeedsDuplicate ==
  [][\A k \in Keys : Fresh(k) /\ cache'[k] = NoEntry =>
       \/ Cardinality(Held) >= Capacity /\ \E t \in Calls : phase[t] = "store"
       \/ \E t \in Calls :
            /\ phase[t] = "evict" /\ key[t] = k
            /\ queue[k] # t \/ \E u \in Calls \ {t} : Live(u) /\ key[u] = k]_vars

\* A queued key becomes free again, so that a later Run can start over after
\* the item expires.
QueueDrains ==
  \A k \in Keys : queue[k] # NoTask ~> queue[k] = NoTask

\* A watcher that got hold of the channel in time is always woken.
EarlyWatchersWake ==
  \A w \in Watchers : wstate[w] = "waiting" ~> wstate[w] \in {"fired", "skipped"}

\* promise.go:59 again, the other direction: a function given to After on a
\* task that completes successfully does run.
AfterRuns ==
  \A w \in Watchers :
    wstate[w] # "off" /\ Succeeded(wtask[w]) ~> wstate[w] = "fired"

-----------------------------------------------------------------------------
(* The inductive invariant behind the safety properties *)

\* The goroutine of a task exists once its call has left the limiter, and
\* only calls that hold a task have one.
CallsAndTasks ==
  \A c \in Calls :
    /\ pc[c] # "idle" => key[c] \in Keys
    /\ phase[c] = "none" <=> pc[c] \in {"idle", "create"} \/
                             (pc[c] = "returned" /\ handle[c] # c)
    /\ phase[c] = "queued" <=> pc[c] = "take"
    /\ handle[c] # NoTask <=> pc[c] = "returned"

\* The state of the channel follows from how far finish has come.
ChannelFollowsPhase ==
  \A t \in Calls :
    /\ done[t] = "closed" <=> phase[t] = "clear"
    /\ done[t] = "nil" <=> phase[t] \in {"store", "retire", "gone"}

\* A task has an outcome from the moment it starts to finish, not before.
OutcomeFollowsPhase ==
  \A t \in Calls :
    IF phase[t] \in {"close", "clear", "store", "retire", "gone"}
    THEN err[t] \/ result[t] \in ValuesOf[key[t]]
    ELSE ~err[t] /\ ~cached[t]

\* A watcher watches a task that exists, and has left its channel only
\* with the answer the task settled on.
WatchersHoldTasks ==
  \A w \in Watchers :
    /\ wstate[w] = "off" <=> wtask[w] = NoTask
    /\ wstate[w] # "off" => phase[wtask[w]] # "none"
    /\ wstate[w] = "fired" => Succeeded(wtask[w])
    /\ wstate[w] = "skipped" => done[wtask[w]] # "open" /\ err[wtask[w]]

IInv ==
  /\ TypeOK
  /\ CallsAndTasks
  /\ ChannelFollowsPhase
  /\ OutcomeFollowsPhase
  /\ WatchersHoldTasks
  /\ QueueHoldsLiveTasks
  /\ HandleIsForKey
  /\ CacheIsComputed

\* On top of it, for FreshLossNeedsDuplicate: a task that is queued and alone
\* for its key, and about to remove the stale item it found, finds no fresh one.
LoneEvictorIsStale ==
  \A t \in Calls :
    /\ phase[t] = "evict" /\ queue[key[t]] = t
    /\ \A u \in Calls \ {t} : ~(Live(u) /\ key[u] = key[t])
    => ~Fresh(key[t])
=============================================================================
