-------------------------- MODULE KeyProofsProofs --------------------------
(***************************************************************************)
(* Proofs about KeyProofs: the handler of /id/{id} on top of the task      *)
(* runner, for any number of handlers, ids, keys and proofs.  The runner's *)
(* own invariant holds under the handlers, and with it what they read.     *)
(***************************************************************************)
EXTENDS KeyProofsService, PromiseProofs, SequenceTheorems

\* A call is made for its own key, one that the page of its handler has use
\* for: while it lasts the handler serves the same request.
CallsOfPage ==
  \A c \in Calls : pc[c] # "idle" =>
    /\ key[c] = c[2]
    /\ c[2] = EntityKey[id[c[1]]] \/ c[2] \in PageKeys(EntityOf[id[c[1]]])

\* Callbacks watch a task for the entity, made by whomever.
WatchersOfPage ==
  \A w \in Watchers : wstate[w] # "off" =>
    key[wtask[w]] = EntityKey[id[w[1]]]

HoldsTask ==
  \A h \in Handlers : hpc[h] \in {"proofs", "select", "wait"} =>
    pc[EntityCall(h)] = "returned"

FoundIsComputed ==
  \A h \in Handlers : \A k \in DOMAIN found[h] : found[h][k] \in ValuesOf[k]

HInv ==
  /\ IInv
  /\ HandlerTypeOK
  /\ CallsOfPage /\ WatchersOfPage /\ HoldsTask
  /\ PageIsAboutId
  /\ \A h \in Handlers : /\ Resting(h) => entity[h] = NoValue
                         /\ hpc[h] = "evict" => todo[h] # <<>>
  /\ FoundIsComputed

LEMMA NamesOfCalls ==
  /\ \A h \in Handlers, k \in Keys :
       <<h, k>> \in Calls /\ <<h, k>>[1] = h /\ <<h, k>>[2] = k
  /\ \A c \in Calls : c[1] \in Handlers /\ c[2] \in Keys /\ c = <<c[1], c[2]>>
  /\ \A h \in Handlers, s \in Callbacks :
       <<h, s>> \in Watchers /\ <<h, s>>[1] = h
  /\ \A w \in Watchers : /\ w[1] \in Handlers /\ w[2] \in Callbacks
                         /\ w = <<w[1], w[2]>>
  BY KeyProofsAssumption

\* What the assumptions say of an id.
LEMMA PageOf ==
  ASSUME NEW i \in Ids
  PROVE  /\ EntityOf[i] \in Entities /\ EntityOf[i] \in Values
         /\ EntityKey[i] \in Keys /\ EntityKey[i] \notin PageKeys(EntityOf[i])
         /\ StyleKey[EntityOf[i]] \in Keys /\ ProofKeys[EntityOf[i]] \in Seq(Keys)
         /\ PageKeys(EntityOf[i]) \subseteq Keys
         /\ ValuesOf[EntityKey[i]] = {EntityOf[i]}
         /\ Style \in ValuesOf[StyleKey[EntityOf[i]]]
         /\ \A k \in ProofKeySet(EntityOf[i]) : ProofBy[EntityOf[i]] \in ValuesOf[k]
<1>1. EntityOf[i] \in Entities
  BY DEF Entities
<1>2. \A k \in ProofKeySet(EntityOf[i]) : k \in Keys
  BY <1>1, KeyProofsAssumption, ElementOfSeq DEF ProofKeySet
<1> QED BY <1>1, <1>2, KeyProofsAssumption DEF PageKeys

\* The task that a handler holds is one for its entity.
LEMMA TaskIsForEntity ==
  ASSUME HInv, NEW h \in Handlers, pc[EntityCall(h)] = "returned"
  PROVE  /\ Task(h) \in Calls /\ key[Task(h)] = EntityKey[id[h]]
         /\ EntityCall(h) \in Calls /\ phase[Task(h)] # "none"
<1>1. id[h] \in Ids /\ EntityKey[id[h]] \in Keys
  BY PageOf DEF HInv, HandlerTypeOK
<1>2. EntityCall(h) \in Calls /\ EntityCall(h)[2] = EntityKey[id[h]]
  BY <1>1, NamesOfCalls DEF EntityCall
<1>3. key[EntityCall(h)] = EntityKey[id[h]]
  BY <1>2 DEF HInv, CallsOfPage
<1> QED BY <1>2, <1>3 DEF HInv, IInv, HandleIsForKey, TypeOK, Task

\* A task for an entity that succeeded has the entity.
LEMMA ResultIsEntity ==
  ASSUME HInv, NEW i \in Ids, NEW t \in Calls, key[t] = EntityKey[i],
         done[t] # "open", ~err[t]
  PROVE  result[t] = EntityOf[i]
<1>1. done[t] \in {"closed", "nil"}
  BY DEF HInv, IInv, TypeOK
<1>2. phase[t] \in {"clear", "store", "retire", "gone"}
  BY <1>1 DEF HInv, IInv, ChannelFollowsPhase
<1>3. result[t] \in ValuesOf[EntityKey[i]]
  BY <1>2 DEF HInv, IInv, OutcomeFollowsPhase
<1> QED BY <1>3, PageOf

LEMMA CallbackKeysOK ==
  ASSUME HInv, NEW w \in Watchers, wstate[w] = "fired"
  PROVE  /\ w[1] \in Handlers /\ id[w[1]] \in Ids
         /\ \A n \in 1..Len(CallbackKeys(w)) :
              CallbackKeys(w)[n] \in PageKeys(EntityOf[id[w[1]]])
<1> DEFINE e == EntityOf[id[w[1]]]
<1>1. w[1] \in Handlers /\ id[w[1]] \in Ids
  BY NamesOfCalls DEF HInv, HandlerTypeOK
<1>2. result[wtask[w]] = e
  <2>1. /\ key[wtask[w]] = EntityKey[id[w[1]]] /\ wtask[w] \in Calls
        /\ Succeeded(wtask[w])
    BY PromiseAssumption
       DEF HInv, WatchersOfPage, IInv, WatchersHoldTasks, TypeOK
  <2> QED BY <1>1, <2>1, ResultIsEntity DEF Succeeded
<1>3. \A n \in 1..Len(ProofKeys[e]) : ProofKeys[e][n] \in PageKeys(e)
  BY DEF PageKeys, ProofKeySet
<1>4. \A n \in 1..Len(<<StyleKey[e]>>) : <<StyleKey[e]>>[n] \in PageKeys(e)
  BY DEF PageKeys
<1> QED BY <1>1, <1>2, <1>3, <1>4 DEF CallbackKeys

\* The functions of the tasks keep to what module Promise assumes of them.
LEMMA ValueForOK ==
  ASSUME HInv, NEW c \in Calls, pc[c] # "idle"
  PROVE  ValueFor(c) \in ValuesOf[key[c]]
<1> DEFINE i == id[c[1]]
<1>1. i \in Ids
  BY NamesOfCalls DEF HInv, HandlerTypeOK
<1>2. key[c] = EntityKey[i] \/ key[c] \in PageKeys(EntityOf[i])
  BY DEF HInv, CallsOfPage
<1> HIDE DEF i
<1>3. key[c] \in PageKeys(EntityOf[i]) =>
        key[c] = StyleKey[EntityOf[i]] \/ key[c] \in ProofKeySet(EntityOf[i])
  BY DEF PageKeys
<1> QED BY <1>1, <1>2, <1>3, PageOf DEF ValueFor, i

-----------------------------------------------------------------------------
(* What the steps do to the runner *)

\* A page found the item under k stale, and looks no second time.
TakenByPage(k) ==
  \E h \in Handlers :
    \/ hpc[h] = "forget" /\ k = EntityKey[id[h]]
    \/ hpc[h] = "evict" /\ k = Head(todo[h])

\* The page takes a stale item out of the cache itself.
PageEvicts ==
  /\ \E k \in Keys : TakenByPage(k) /\ Remove(k)
  /\ UNCHANGED <<runVars, queue, taskVars, watchVars>>

Abandons ==
  \E w \in Watchers :
    /\ wstate[w] = "stuck"
    /\ wstate' = [wstate EXCEPT ![w] = "off"]
    /\ wtask' = [wtask EXCEPT ![w] = NoTask]
    /\ UNCHANGED <<runVars, queue, taskVars, cache>>

\* All else is a step of module Promise.
LEMMA StepsOfRunner ==
  ASSUME HInv, HNext
  PROVE  [Next]_vars \/ PageEvicts \/ Abandons
<1>1. ASSUME NEW h \in Handlers, HandlerStep(h)
      PROVE  [Next]_vars \/ PageEvicts
  <2>1. id[h] \in Ids /\ EntityKey[id[h]] \in Keys
    BY PageOf DEF HInv, HandlerTypeOK
  <2>2. EntityCall(h) \in Calls
    BY <2>1, NamesOfCalls DEF EntityCall
  <2>3. CASE RunEntity(h)
    BY <2>1, <2>2, <2>3 DEF RunEntity, Next
  <2>4. CASE AfterStyle(h) \/ AfterProofs(h)
    BY <2>2, <2>4, NamesOfCalls DEF AfterStyle, AfterProofs, AfterOf, Next
  <2>5. CASE ForgetEntity(h)
    BY <2>1, <2>5 DEF ForgetEntity, HGoto, PageEvicts, TakenByPage
  <2>6. CASE EvictNext(h)
    <3>1. Head(todo[h]) \in Keys
      BY <2>6, HeadTailProperties DEF EvictNext, HGoto, HInv, HandlerTypeOK
    <3> QED BY <2>6, <3>1 DEF EvictNext, HGoto, PageEvicts, TakenByPage
  <2>7. CASE \/ Select(h) \/ SelectTask(h) \/ SelectDeadline(h)
             \/ LookupEntity(h) \/ LookupNext(h) \/ Show(h)
    BY <2>7 DEF Select, SelectTask, SelectDeadline, LookupEntity, LookupNext, Show
  <2> QED BY <1>1, <2>3, <2>4, <2>5, <2>6, <2>7 DEF HandlerStep
<1>2. ASSUME NEW h \in Handlers, BrowserStep(h)
      PROVE  UNCHANGED vars
  BY <1>2 DEF BrowserStep, Finish, Leave, Request, Refresh
<1>3. ASSUME NEW c \in Calls, RunGoesOn(c) \/ ReleaseCall(c)
      PROVE  Next
  BY <1>3 DEF RunGoesOn, ReleaseCall, Next
<1>4. ASSUME NEW c \in Calls, TaskGoesOn(c)
      PROVE  Next
  <2>1. CASE phase[c] = "compute" /\ Resolve(c, ValueFor(c))
    <3>1. pc[c] # "idle"
      BY <2>1 DEF HInv, IInv, CallsAndTasks
    <3>2. ValueFor(c) \in ValuesOf[key[c]]
      BY <3>1, ValueForOK
    <3> QED BY <2>1, <3>2 DEF Next, TaskStep
  <2> QED BY <1>4, <2>1 DEF TaskGoesOn, Next, TaskStep
<1>5. ASSUME NEW w \in Watchers, CallbackStep(w)
      PROVE  Next
  <2>1. CASE CallbackRun(w)
    <3>1. PICK n \in 1..Len(CallbackKeys(w)) :
            RunLookup(<<w[1], CallbackKeys(w)[n]>>, CallbackKeys(w)[n])
      BY <2>1 DEF CallbackRun
    <3>2. CallbackKeys(w)[n] \in Keys /\ w[1] \in Handlers
      BY <2>1, CallbackKeysOK, PageOf DEF CallbackRun
    <3> QED BY <3>1, <3>2, NamesOfCalls DEF Next
  <2> QED BY <1>5, <2>1
          DEF CallbackStep, CallbackWaits, CallbackEnd, Next, WatcherStep
<1>6. ASSUME NEW w \in Watchers, Abandon(w) PROVE Abandons
  BY <1>6 DEF Abandon, Abandons
<1> QED BY <1>1, <1>2, <1>3, <1>4, <1>5, <1>6 DEF HNext, SteadyNext, Next

LEMMA RunnerIInv == ASSUME HInv, HNext PROVE IInv'
<1>1. CASE PageEvicts
  <2> USE <1>1 DEF PageEvicts, Remove, HInv, IInv, runVars, taskVars, watchVars
  <2>1. TypeOK'
    BY DEF TypeOK, CacheTypeOK
  <2>2. CacheIsComputed'
    BY DEF CacheIsComputed, TypeOK, CacheTypeOK
  <2>3. /\ CallsAndTasks' /\ ChannelFollowsPhase' /\ OutcomeFollowsPhase'
        /\ WatchersHoldTasks' /\ QueueHoldsLiveTasks' /\ HandleIsForKey'
    BY DEF CallsAndTasks, ChannelFollowsPhase, OutcomeFollowsPhase,
           WatchersHoldTasks, QueueHoldsLiveTasks, HandleIsForKey, Live, Succeeded
  <2> QED BY <2>1, <2>2, <2>3
<1>2. CASE Abandons
  <2> USE <1>2 DEF Abandons, HInv, IInv, runVars, taskVars
  <2>1. TypeOK'
    BY DEF TypeOK, CacheTypeOK
  <2>2. WatchersHoldTasks'
    BY DEF WatchersHoldTasks, TypeOK, Succeeded
  <2>3. /\ CallsAndTasks' /\ ChannelFollowsPhase' /\ OutcomeFollowsPhase'
        /\ CacheIsComputed' /\ QueueHoldsLiveTasks' /\ HandleIsForKey'
    BY DEF CallsAndTasks, ChannelFollowsPhase, OutcomeFollowsPhase,
           CacheIsComputed, QueueHoldsLiveTasks, HandleIsForKey, Live
  <2> QED BY <2>1, <2>2, <2>3
<1> QED BY <1>1, <1>2, StepsOfRunner, NextIInv DEF HInv

-----------------------------------------------------------------------------
(* Calls and callbacks keep to the page *)

\* A step that starts no call and no callback.
LEMMA QuietPage ==
  ASSUME HInv, IInv', UNCHANGED <<key, id>>,
         \A c \in Calls : pc'[c] # "idle" => pc[c] # "idle",
         \A w \in Watchers : wstate'[w] # "off" =>
           wstate[w] # "off" /\ wtask'[w] = wtask[w]
  PROVE  CallsOfPage' /\ WatchersOfPage'
  BY DEF HInv, CallsOfPage, WatchersOfPage

\* A call for a key of the page is made.
LEMMA LookupPage ==
  ASSUME HInv, NEW h \in Handlers, NEW k \in Keys, RunLookup(<<h, k>>, k),
         k = EntityKey[id[h]] \/ k \in PageKeys(EntityOf[id[h]]), UNCHANGED id
  PROVE  CallsOfPage' /\ WatchersOfPage'
<1> DEFINE c == <<h, k>>
<1>1. c \in Calls /\ c[1] = h /\ c[2] = k
  BY NamesOfCalls
<1> HIDE DEF c
<1>2. /\ pc[c] = "idle" /\ key' = [key EXCEPT ![c] = k]
      /\ \A d \in Calls : d # c => pc'[d] = pc[d]
      /\ UNCHANGED <<wstate, wtask>>
  BY <1>1 DEF RunLookup, watchVars, c, HInv, IInv, TypeOK
<1>3. CallsOfPage'
  BY <1>1, <1>2 DEF HInv, CallsOfPage, IInv, TypeOK
<1>4. \A w \in Watchers : wstate[w] # "off" => wtask[w] # c
  BY <1>1, <1>2 DEF HInv, IInv, WatchersHoldTasks, CallsAndTasks
<1>5. WatchersOfPage'
  BY <1>1, <1>2, <1>4 DEF HInv, WatchersOfPage, IInv, TypeOK
<1> QED BY <1>3, <1>5

LEMMA AfterPage ==
  ASSUME HInv, NEW h \in Handlers, NEW w \in Watchers, w[1] = h,
         After(w, EntityCall(h)), UNCHANGED id
  PROVE  CallsOfPage' /\ WatchersOfPage'
<1>1. /\ wtask' = [wtask EXCEPT ![w] = Task(h)]
      /\ wstate' = [wstate EXCEPT ![w] = "spawned"]
      /\ pc[EntityCall(h)] = "returned" /\ UNCHANGED <<pc, key>>
  BY DEF After, runVars, Task
<1>2. key[Task(h)] = EntityKey[id[h]]
  BY <1>1, TaskIsForEntity
<1>3. CallsOfPage'
  BY <1>1 DEF HInv, CallsOfPage
<1>4. WatchersOfPage'
  BY <1>1, <1>2 DEF HInv, WatchersOfPage, IInv, TypeOK
<1> QED BY <1>3, <1>4

\* The name of a call is given up: nobody watches its task.
LEMMA ReleasePage ==
  ASSUME HInv, NEW c \in Calls, Release(c), UNCHANGED id
  PROVE  CallsOfPage' /\ WatchersOfPage'
<1>1. /\ pc' = [pc EXCEPT ![c] = "idle"] /\ key' = [key EXCEPT ![c] = NoKey]
      /\ \A w \in Watchers : wtask[w] # c
      /\ UNCHANGED <<wstate, wtask>>
  BY DEF Release, watchVars
<1> QED BY <1>1 DEF HInv, IInv, TypeOK, CallsOfPage, WatchersOfPage

\* A request finds its handler with no call and no callback.
LEMMA RequestPage ==
  ASSUME HInv, NEW h \in Handlers, NEW i \in Ids, Free(h),
         id' = [id EXCEPT ![h] = i], UNCHANGED vars
  PROVE  CallsOfPage' /\ WatchersOfPage'
<1>1. /\ UNCHANGED <<pc, key, wstate, wtask>> /\ id' = [id EXCEPT ![h] = i]
      /\ \A k \in Keys : pc[<<h, k>>] = "idle"
      /\ \A s \in Callbacks : wstate[<<h, s>>] = "off"
  BY DEF Free, vars, runVars, watchVars
<1>2. \A c \in Calls : pc[c] # "idle" => c[1] # h
  BY <1>1, NamesOfCalls
<1>3. \A w \in Watchers : wstate[w] # "off" => w[1] # h
  BY <1>1, NamesOfCalls
<1>4. \A g \in Handlers : g # h => id'[g] = id[g]
  BY <1>1 DEF HInv, HandlerTypeOK
<1> QED BY <1>1, <1>2, <1>3, <1>4, NamesOfCalls
        DEF HInv, CallsOfPage, WatchersOfPage

LEMMA CallsAndWatchersInv ==
  ASSUME HInv, HNext PROVE CallsOfPage' /\ WatchersOfPage'
<1> USE RunnerIInv
<1>1. ASSUME NEW h \in Handlers, HandlerStep(h)
      PROVE  CallsOfPage' /\ WatchersOfPage'
  <2>1. id[h] \in Ids /\ EntityKey[id[h]] \in Keys
    BY PageOf DEF HInv, HandlerTypeOK
  <2>2. CASE RunEntity(h)
    BY <2>1, <2>2, LookupPage DEF RunEntity, EntityCall, pageVars
  <2>3. CASE AfterStyle(h) \/ AfterProofs(h)
    <3>1. UNCHANGED id
      BY <2>3 DEF AfterStyle, AfterProofs, pageVars
    <3>2. CASE UNCHANGED vars
      BY <3>1, <3>2, QuietPage DEF vars, runVars, watchVars
    <3>3. CASE \E s \in Callbacks : After(<<h, s>>, EntityCall(h))
      BY <3>1, <3>3, AfterPage, NamesOfCalls
    <3> QED BY <2>3, <3>2, <3>3 DEF AfterStyle, AfterProofs, AfterOf
  <2>4. CASE \/ Select(h) \/ SelectTask(h) \/ SelectDeadline(h)
             \/ LookupEntity(h) \/ ForgetEntity(h)
             \/ LookupNext(h) \/ EvictNext(h) \/ Show(h)
    <3>1. UNCHANGED <<pc, key, id, wstate, wtask>>
      BY <2>4 DEF Select, SelectTask, SelectDeadline, LookupEntity, ForgetEntity,
                  LookupNext, EvictNext, Show, vars, runVars, watchVars, pageVars
    <3> QED BY <3>1, QuietPage
  <2> QED BY <1>1, <2>2, <2>3, <2>4 DEF HandlerStep
<1>2. ASSUME NEW h \in Handlers, BrowserStep(h)
      PROVE  CallsOfPage' /\ WatchersOfPage'
  <2>1. CASE Finish(h) \/ Leave(h)
    <3>1. UNCHANGED <<pc, key, id, wstate, wtask>>
      BY <2>1 DEF Finish, Leave, vars, runVars, watchVars, pageVars
    <3> QED BY <3>1, QuietPage
  <2>2. CASE \E i \in Ids : Request(h, i)
    BY <2>2, RequestPage DEF Request
  <2>3. CASE \E g \in Handlers : Refresh(h, g)
    <3>1. id[h] \in Ids
      BY DEF HInv, HandlerTypeOK
    <3> QED BY <2>3, <3>1, RequestPage DEF Refresh
  <2> QED BY <1>2, <2>1, <2>2, <2>3 DEF BrowserStep
<1>3. ASSUME NEW c \in Calls, RunGoesOn(c) \/ TaskGoesOn(c)
      PROVE  CallsOfPage' /\ WatchersOfPage'
  <2>1. UNCHANGED <<key, id, wstate, wtask>>
    BY <1>3 DEF RunGoesOn, RunStep, RunInsert, RunTake, TaskGoesOn, ProbeHit,
                ProbeMiss, ProbeEvict, Resolve, Reject, FinishClose, FinishClear,
                Store, Retire, runVars, watchVars, pageVars
  <2>2. \A d \in Calls : pc'[d] # "idle" => pc[d] # "idle"
    BY <1>3 DEF RunGoesOn, RunStep, RunInsert, RunTake, TaskGoesOn, ProbeHit,
                ProbeMiss, ProbeEvict, Resolve, Reject, FinishClose, FinishClear,
                Store, Retire, runVars, HInv, IInv, TypeOK
  <2> QED BY <2>1, <2>2, QuietPage
<1>4. ASSUME NEW c \in Calls, ReleaseCall(c) PROVE CallsOfPage' /\ WatchersOfPage'
  BY <1>4, ReleasePage DEF ReleaseCall, pageVars
<1>5. ASSUME NEW w \in Watchers, CallbackRun(w) PROVE CallsOfPage' /\ WatchersOfPage'
  <2>1. PICK n \in 1..Len(CallbackKeys(w)) :
          RunLookup(<<w[1], CallbackKeys(w)[n]>>, CallbackKeys(w)[n])
    BY <1>5 DEF CallbackRun
  <2>2. /\ w[1] \in Handlers /\ CallbackKeys(w)[n] \in Keys
        /\ CallbackKeys(w)[n] \in PageKeys(EntityOf[id[w[1]]])
    BY <1>5, CallbackKeysOK, PageOf DEF CallbackRun
  <2>3. UNCHANGED id
    BY <1>5 DEF CallbackRun, pageVars
  <2> QED BY <2>1, <2>2, <2>3, LookupPage
<1>6. ASSUME NEW w \in Watchers, CallbackWaits(w) \/ CallbackEnd(w) \/ Abandon(w)
      PROVE  CallsOfPage' /\ WatchersOfPage'
  <2>1. UNCHANGED <<pc, key, id>>
    BY <1>6 DEF CallbackWaits, Await, Wake, CallbackEnd, WatcherEnd, Abandon,
                runVars, pageVars
  <2>2. \A v \in Watchers : wstate'[v] # "off" =>
          wstate[v] # "off" /\ wtask'[v] = wtask[v]
    BY <1>6 DEF CallbackWaits, Await, Wake, CallbackEnd, WatcherEnd, Abandon,
                HInv, IInv, TypeOK
  <2> QED BY <2>1, <2>2, QuietPage
<1>7. CASE Time /\ UNCHANGED <<hpc, pageVars>>
  <2>1. UNCHANGED <<pc, key, id, wstate, wtask>>
    BY <1>7 DEF Time, runVars, watchVars, pageVars
  <2> QED BY <2>1, QuietPage
<1> QED BY <1>1, <1>2, <1>3, <1>4, <1>5, <1>6, <1>7
        DEF HNext, SteadyNext, CallbackStep

-----------------------------------------------------------------------------
(* The handlers *)

Finds == UNION {[S -> Values] : S \in SUBSET Keys}

LEMMA FindsGrow ==
  ASSUME NEW f \in Finds, NEW k \in Keys, NEW v \in Values
  PROVE  /\ NoneFound \in Finds
         /\ [j \in (DOMAIN f) \cup {k} |-> IF j = k THEN v ELSE f[j]] \in Finds
<1>1. PICK S \in SUBSET Keys : f \in [S -> Values]
  BY DEF Finds
<1>2. [j \in S \cup {k} |-> IF j = k THEN v ELSE f[j]] \in [S \cup {k} -> Values]
  BY <1>1
<1>3. S \cup {k} \in SUBSET Keys /\ DOMAIN f = S
  BY <1>1
<1>4. NoneFound \in [{} -> Values] /\ {} \in SUBSET Keys
  BY DEF NoneFound
<1> QED BY <1>2, <1>3, <1>4 DEF Finds

\* The type of found, as HandlerTypeOK states it.
LEMMA FindsTyped ==
  ASSUME NEW f
  PROVE  f \in [Handlers -> Finds] <=>
           /\ f = [h \in Handlers |-> f[h]]
           /\ \A h \in Handlers : /\ DOMAIN f[h] \subseteq Keys
                                  /\ f[h] \in [DOMAIN f[h] -> Values]
<1>1. \A g : g \in Finds <=> DOMAIN g \subseteq Keys /\ g \in [DOMAIN g -> Values]
  <2> SUFFICES ASSUME NEW g
               PROVE  g \in Finds <=> DOMAIN g \subseteq Keys /\ g \in [DOMAIN g -> Values]
    OBVIOUS
  <2>1. ASSUME g \in Finds PROVE DOMAIN g \subseteq Keys /\ g \in [DOMAIN g -> Values]
    <3>1. PICK S \in SUBSET Keys : g \in [S -> Values]
      BY <2>1 DEF Finds
    <3>2. DOMAIN g = S
      BY <3>1
    <3> QED BY <3>1, <3>2
  <2>2. ASSUME DOMAIN g \subseteq Keys, g \in [DOMAIN g -> Values] PROVE g \in Finds
    BY <2>2 DEF Finds
  <2> QED BY <2>1, <2>2
<1>2. f \in [Handlers -> Finds] <=>
        f = [h \in Handlers |-> f[h]] /\ \A h \in Handlers : f[h] \in Finds
  OBVIOUS
<1> QED BY <1>1, <1>2

\* What LookupNext finds has been computed for its key.
LEMMA FreshIsComputed ==
  ASSUME HInv, NEW k \in Keys, Fresh(k)
  PROVE  cache[k].val \in ValuesOf[k] /\ cache[k].val \in Values
BY DEF HInv, IInv, CacheIsComputed, TypeOK, CacheTypeOK, Entry, Fresh

\* What a handler turns to is about the id it serves.
LEMMA PageIsForId ==
  ASSUME HInv, NEW h \in Handlers, SelectTask(h) \/ LookupEntity(h)
  PROVE  \/ PageFor(h, EntityOf[id[h]]) /\ hpc'[h] = "page"
         \/ UNCHANGED <<entity, todo>> /\ hpc'[h] \in {"shown", "forget"}
<1>0. DOMAIN hpc = Handlers
  BY DEF HInv, HandlerTypeOK
<1>1. /\ ValuesOf[EntityKey[id[h]]] = {EntityOf[id[h]]}
      /\ id[h] \in Ids /\ EntityKey[id[h]] \in Keys
  BY PageOf DEF HInv, HandlerTypeOK
<1>2. CASE SelectTask(h)
  <2>1. CASE err[Task(h)]
    BY <1>2, <2>1, <1>0 DEF SelectTask, HGoto
  <2>2. CASE ~err[Task(h)]
    <3>1. hpc[h] = "wait" /\ done[Task(h)] # "open"
      BY <1>2, <2>2 DEF SelectTask, HGoto
    <3>2. pc[EntityCall(h)] = "returned"
      BY <3>1 DEF HInv, HoldsTask
    <3>3. result[Task(h)] = EntityOf[id[h]]
      BY <1>1, <2>2, <3>1, <3>2, TaskIsForEntity, ResultIsEntity
    <3>4. PageFor(h, result[Task(h)]) /\ HGoto(h, "wait", "page")
      BY <1>2, <2>2 DEF SelectTask
    <3> QED BY <1>0, <3>3, <3>4 DEF HGoto
  <2> QED BY <2>1, <2>2
<1>3. CASE LookupEntity(h)
  <2> DEFINE k == EntityKey[id[h]]
  <2>1. CASE Fresh(k) /\ HGoto(h, "lookup", "page") /\ PageFor(h, cache[k].val)
    <3>1. cache[k].val = EntityOf[id[h]]
      BY <1>1, <2>1, FreshIsComputed
    <3> QED BY <1>0, <2>1, <3>1 DEF HGoto
  <2>2. CASE /\ HGoto(h, "lookup", "shown") \/ HGoto(h, "lookup", "forget")
             /\ UNCHANGED <<entity, todo>>
    BY <1>0, <2>2 DEF HGoto
  <2> QED BY <1>3, <2>1, <2>2 DEF LookupEntity
<1> QED BY <1>2, <1>3

\* PageFor keeps the types of what it sets.
LEMMA PageForTyped ==
  ASSUME HInv, NEW h \in Handlers, PageFor(h, EntityOf[id[h]])
  PROVE  /\ entity' \in [Handlers -> Entities \cup {NoValue}]
         /\ todo' \in [Handlers -> Seq(Keys)]
<1>1. EntityOf[id[h]] \in Entities
  BY PageOf DEF HInv, HandlerTypeOK
<1>2. <<StyleKey[EntityOf[id[h]]]>> \o ProofKeys[EntityOf[id[h]]] \in Seq(Keys)
  BY PageOf, ConcatProperties DEF HInv, HandlerTypeOK
<1> QED BY <1>1, <1>2 DEF PageFor, HInv, HandlerTypeOK

\* LookupNext keeps the types, and what it adds has been computed.
LEMMA LookupNextFinds ==
  ASSUME HInv, NEW h \in Handlers, LookupNext(h)
  PROVE  /\ todo' \in [Handlers -> Seq(Keys)] /\ found' \in [Handlers -> Finds]
         /\ FoundIsComputed'
<1> DEFINE k == Head(todo[h])
<1>1. k \in Keys /\ Tail(todo[h]) \in Seq(Keys)
  BY HeadTailProperties DEF LookupNext, HInv, HandlerTypeOK
<1> HIDE DEF k
<1>2. found \in [Handlers -> Finds] /\ todo \in [Handlers -> Seq(Keys)]
  BY FindsTyped DEF HInv, HandlerTypeOK
<1>3. CASE Fresh(k) /\ ~Stale(k)
  <2> DEFINE f == [j \in (DOMAIN found[h]) \cup {k} |->
                     IF j = k THEN cache[k].val ELSE found[h][j]]
  <2>1. found' = [found EXCEPT ![h] = f]
    BY <1>2, <1>3 DEF LookupNext, k
  <2>2. f \in Finds
    <3>1. cache[k].val \in Values /\ found[h] \in Finds
      BY <1>1, <1>2, <1>3, FreshIsComputed
    <3> QED BY <1>1, <3>1, FindsGrow
  <2>3. \A j \in DOMAIN f : f[j] \in ValuesOf[j]
    BY <1>1, <1>3, FreshIsComputed DEF HInv, FoundIsComputed
  <2> HIDE DEF f
  <2>4. FoundIsComputed'
    BY <1>2, <2>1, <2>3 DEF HInv, FoundIsComputed
  <2>5. todo' = [todo EXCEPT ![h] = Tail(todo[h])]
    BY <1>3 DEF LookupNext, k
  <2> QED BY <1>1, <1>2, <2>1, <2>2, <2>4, <2>5
<1>4. CASE ~Fresh(k) \/ Stale(k)
  <2>1. UNCHANGED found /\ \/ UNCHANGED todo
                           \/ todo' = [todo EXCEPT ![h] = Tail(todo[h])]
    BY <1>4 DEF LookupNext, k, Fresh, Stale
  <2>2. FoundIsComputed'
    BY <2>1 DEF HInv, FoundIsComputed
  <2> QED BY <1>1, <1>2, <2>1, <2>2
<1> QED BY <1>3, <1>4

Places == {"idle", "reload", "run", "proofs", "select", "wait",
           "lookup", "forget", "page", "evict", "shown"}

\* What HInv says of the handlers.
PagesOK ==
  /\ HandlerTypeOK /\ HoldsTask /\ PageIsAboutId
  /\ \A h \in Handlers : /\ Resting(h) => entity[h] = NoValue
                         /\ hpc[h] = "evict" => todo[h] # <<>>
  /\ FoundIsComputed

\* A step of the runner: a handler keeps the task it holds.
LEMMA PagesStay ==
  ASSUME HInv, IInv', UNCHANGED <<hpc, pageVars>>,
         \A h \in Handlers : ~Resting(h) /\ pc[EntityCall(h)] = "returned" =>
           pc'[EntityCall(h)] = "returned"
  PROVE  PagesOK'
<1> USE DEF pageVars
<1>1. HandlerTypeOK'
  BY DEF HInv, IInv, HandlerTypeOK
<1>2. HoldsTask'
  BY DEF HInv, HoldsTask, EntityCall, Resting
<1>3. PageIsAboutId' /\ FoundIsComputed'
  BY DEF HInv, PageIsAboutId, FoundIsComputed
<1> QED BY <1>1, <1>2, <1>3 DEF HInv, PagesOK, Resting

\* A step of one handler.
LEMMA PageGoes ==
  ASSUME HInv, IInv', NEW h \in Handlers,
         hpc' \in [Handlers -> Places],
         \A g \in Handlers \ {h} : /\ hpc'[g] = hpc[g] /\ id'[g] = id[g]
                                   /\ entity'[g] = entity[g] /\ todo'[g] = todo[g],
         id' \in [Handlers -> Ids], chan' \in [Handlers -> {"none", "open", "nil"}],
         failed' \in [Handlers -> BOOLEAN],
         entity' \in [Handlers -> Entities \cup {NoValue}],
         todo' \in [Handlers -> Seq(Keys)], found' \in [Handlers -> Finds],
         FoundIsComputed',
         \A c \in Calls : pc[c] = "returned" => pc'[c] = "returned",
         hpc'[h] \in {"proofs", "select", "wait"} =>
           id'[h] = id[h] /\ pc'[EntityCall(h)] = "returned",
         entity'[h] \in {NoValue, EntityOf[id'[h]]},
         hpc'[h] \in {"idle", "reload"} => entity'[h] = NoValue,
         hpc'[h] = "evict" => todo'[h] # <<>>
  PROVE  PagesOK'
<1>1. HandlerTypeOK'
  BY FindsTyped DEF IInv, HandlerTypeOK, Places
<1>2. HoldsTask'
  <2> SUFFICES ASSUME NEW g \in Handlers, hpc'[g] \in {"proofs", "select", "wait"}
               PROVE  pc'[EntityCall(g)'] = "returned"
    BY DEF HoldsTask
  <2>1. EntityCall(g)' = EntityCall(g)
    BY DEF EntityCall
  <2>2. EntityCall(g) \in Calls
    BY NamesOfCalls, PageOf DEF EntityCall, HInv, HandlerTypeOK
  <2> QED BY <2>1, <2>2 DEF HInv, HoldsTask
<1>3. PageIsAboutId'
  BY DEF HInv, PageIsAboutId
<1> QED BY <1>1, <1>2, <1>3 DEF HInv, PagesOK, Resting

LEMMA HandlerStepPages ==
  ASSUME HInv, IInv', NEW h \in Handlers, HandlerStep(h) \/ BrowserStep(h)
  PROVE  PagesOK'
<1> USE DEF pageVars, HGoto
<1>1. /\ hpc \in [Handlers -> Places]
      /\ id \in [Handlers -> Ids] /\ chan \in [Handlers -> {"none", "open", "nil"}]
      /\ failed \in [Handlers -> BOOLEAN]
      /\ entity \in [Handlers -> Entities \cup {NoValue}]
      /\ todo \in [Handlers -> Seq(Keys)] /\ found \in [Handlers -> Finds]
  BY FindsTyped DEF HInv, HandlerTypeOK, Places
<1>2. /\ entity[h] \in {NoValue, EntityOf[id[h]]}
      /\ hpc[h] \in {"idle", "reload"} => entity[h] = NoValue
      /\ hpc[h] = "evict" => todo[h] # <<>>
  BY DEF HInv, PageIsAboutId, Resting, IInv, TypeOK
<1>3. /\ FoundIsComputed
      /\ UNCHANGED found => FoundIsComputed'
  BY DEF HInv, FoundIsComputed
<1>4. hpc[h] \in {"proofs", "select", "wait"} => pc[EntityCall(h)] = "returned"
  BY DEF HInv, HoldsTask
<1>5. CASE RunEntity(h)
  <2>1. \A c \in Calls : pc[c] = "returned" => pc'[c] = "returned"
    BY <1>5 DEF RunEntity, RunLookup, HInv, IInv, TypeOK
  <2>2. UNCHANGED <<hpc, pageVars>> /\ hpc[h] = "run"
    BY <1>5 DEF RunEntity
  <2> HIDE DEF pageVars
  <2>3. \A g \in Handlers : EntityCall(g) \in Calls
    BY <1>1, NamesOfCalls, PageOf DEF EntityCall
  <2> QED BY <2>1, <2>2, <2>3, PagesStay
<1>6. CASE AfterStyle(h) \/ AfterProofs(h)
  <2>1. pc[EntityCall(h)] = "returned" /\ UNCHANGED <<pc, pageVars>>
    BY <1>6 DEF AfterStyle, AfterProofs, AfterOf, After, vars, runVars
  <2>2. /\ hpc' \in [Handlers -> Places] /\ hpc'[h] \in {"proofs", "select"}
        /\ \A g \in Handlers \ {h} : hpc'[g] = hpc[g]
    BY <1>1, <1>6 DEF AfterStyle, AfterProofs, Places
  <2> QED BY <1>1, <1>2, <1>3, <2>1, <2>2, PageGoes
<1>7. CASE Select(h)
  BY <1>1, <1>2, <1>3, <1>4, <1>7, PageGoes DEF Select, vars, runVars, Places
<1>8. CASE SelectTask(h) \/ LookupEntity(h)
  <2>1. UNCHANGED <<pc, id, chan, found>> /\ failed' \in [Handlers -> BOOLEAN]
    BY <1>1, <1>8 DEF SelectTask, LookupEntity, vars, runVars
  <2>4. /\ hpc' \in [Handlers -> Places] /\ hpc'[h] \in {"page", "shown", "forget"}
        /\ \A g \in Handlers \ {h} : hpc'[g] = hpc[g]
    BY <1>1, <1>8 DEF SelectTask, LookupEntity, Places
  <2>2. CASE UNCHANGED <<entity, todo>>
    BY <1>1, <1>2, <1>3, <2>1, <2>4, <2>2, PageGoes
  <2>3. CASE PageFor(h, EntityOf[id[h]])
    <3>1. /\ entity' \in [Handlers -> Entities \cup {NoValue}]
          /\ todo' \in [Handlers -> Seq(Keys)]
      BY <2>3, PageForTyped
    <3>2. /\ entity'[h] = EntityOf[id[h]]
          /\ \A g \in Handlers \ {h} : entity'[g] = entity[g] /\ todo'[g] = todo[g]
      BY <1>1, <2>3 DEF PageFor
    <3> QED BY <1>1, <1>3, <2>1, <2>4, <3>1, <3>2, PageGoes
  <2> QED BY <1>8, <2>2, <2>3, PageIsForId
<1>9. CASE SelectDeadline(h) \/ ForgetEntity(h) \/ Show(h)
  <2>1. UNCHANGED <<pc, pageVars>>
    BY <1>9 DEF SelectDeadline, ForgetEntity, Show, vars, runVars
  <2>2. /\ hpc' \in [Handlers -> Places] /\ hpc'[h] \in {"lookup", "shown"}
        /\ \A g \in Handlers \ {h} : hpc'[g] = hpc[g]
    BY <1>1, <1>9 DEF SelectDeadline, ForgetEntity, Show, Places
  <2> QED BY <1>1, <1>2, <1>3, <2>1, <2>2, PageGoes
<1>10. CASE LookupNext(h)
  <2>1. /\ todo' \in [Handlers -> Seq(Keys)] /\ found' \in [Handlers -> Finds]
        /\ FoundIsComputed'
    BY <1>10, LookupNextFinds
  <2>2. /\ UNCHANGED <<pc, id, chan, failed, entity>> /\ todo[h] # <<>>
        /\ \A g \in Handlers \ {h} : todo'[g] = todo[g]
        /\ \/ hpc' = [hpc EXCEPT ![h] = "page"]
           \/ hpc' = [hpc EXCEPT ![h] = "evict"] /\ UNCHANGED todo
    BY <1>1, <1>10 DEF LookupNext, vars, runVars
  <2>3. /\ hpc' \in [Handlers -> Places] /\ hpc'[h] \in {"page", "evict"}
        /\ \A g \in Handlers \ {h} : hpc'[g] = hpc[g]
        /\ hpc'[h] = "evict" => todo'[h] # <<>>
    BY <1>1, <2>2 DEF Places
  <2>4. \A g \in Handlers \ {h} : UNCHANGED <<id[g], entity[g]>>
    BY <2>2
  <2> QED BY <1>1, <1>2, <2>1, <2>2, <2>3, <2>4, PageGoes
<1>11. CASE EvictNext(h)
  <2>1. Tail(todo[h]) \in Seq(Keys)
    BY <1>1, <1>2, <1>11, HeadTailProperties DEF EvictNext
  <2> QED BY <1>1, <1>2, <1>3, <1>11, <2>1, PageGoes DEF EvictNext, runVars, Places
<1>12. CASE Finish(h)
  <2>1. NoneFound \in Finds /\ DOMAIN NoneFound = {}
    <3>1. NoneFound \in [{} -> Values] /\ {} \in SUBSET Keys
      BY DEF NoneFound
    <3> QED BY <3>1 DEF Finds, NoneFound
  <2>2. FoundIsComputed'
    BY <1>1, <1>3, <1>12, <2>1 DEF Finish, FoundIsComputed
  <2>3. \/ hpc' = [hpc EXCEPT ![h] = "idle"]
        \/ hpc' = [hpc EXCEPT ![h] = "reload"]
    BY <1>12 DEF Finish
  <2>4. UNCHANGED <<pc, id, todo>>
    BY <1>12 DEF Finish, vars, runVars
  <2> QED BY <1>1, <1>12, <2>1, <2>2, <2>3, <2>4, PageGoes DEF Finish, Places
<1>13. ASSUME NEW i \in Ids, Request(h, i) PROVE PagesOK'
  <2>1. /\ hpc' = [hpc EXCEPT ![h] = "run"] /\ id' = [id EXCEPT ![h] = i]
        /\ UNCHANGED <<pc, chan, failed, entity, todo, found>>
        /\ entity[h] = NoValue
    BY <1>2, <1>13 DEF Request, vars, runVars
  <2> QED BY <1>1, <1>3, <2>1, PageGoes DEF Places
<1>14. CASE Leave(h)
  <2>1. /\ hpc' = [hpc EXCEPT ![h] = "idle"] /\ entity[h] = NoValue
        /\ UNCHANGED <<pc, id, chan, failed, entity, todo, found>>
    BY <1>2, <1>14 DEF Leave, vars, runVars
  <2> QED BY <1>1, <1>3, <2>1, PageGoes DEF Places
<1>15. ASSUME NEW g \in Handlers, Refresh(h, g) PROVE PagesOK'
  <2>1. /\ hpc' = [hpc EXCEPT ![h] = "idle", ![g] = "run"]
        /\ id' = [id EXCEPT ![g] = id[h]]
        /\ hpc[g] \in {"idle", "reload"}
        /\ UNCHANGED <<pc, chan, failed, entity, todo, found>>
    BY <1>15 DEF Refresh, vars, runVars
  <2>2. entity[g] = NoValue
    BY <2>1 DEF HInv, Resting
  <2>3. HandlerTypeOK'
    <3>1. hpc' \in [Handlers -> Places] /\ id' \in [Handlers -> Ids]
      BY <1>1, <2>1 DEF Places
    <3> QED BY <2>1, <3>1 DEF HInv, IInv, HandlerTypeOK, Places
  <2>4. \A f \in Handlers : hpc'[f] \notin {"idle", "reload", "run"} =>
          hpc'[f] = hpc[f] /\ id'[f] = id[f]
    BY <1>1, <2>1
  <2>5. HoldsTask'
    BY <2>1, <2>4 DEF HInv, HoldsTask, EntityCall
  <2>6. PageIsAboutId'
    BY <1>1, <2>1, <2>2 DEF HInv, PageIsAboutId
  <2>7. \A f \in Handlers : /\ Resting(f)' => entity'[f] = NoValue
                            /\ hpc'[f] = "evict" => todo'[f] # <<>>
    BY <1>1, <1>15, <2>1, <2>2, <2>4 DEF HInv, Resting, Refresh
  <2> QED BY <1>3, <2>1, <2>3, <2>5, <2>6, <2>7 DEF PagesOK
<1> QED BY <1>5, <1>6, <1>7, <1>8, <1>9, <1>10, <1>11, <1>12, <1>13, <1>14, <1>15
        DEF HandlerStep, BrowserStep

\* The other steps leave the handlers alone.
LEMMA PagesInv == ASSUME HInv, HNext PROVE PagesOK'
<1> USE RunnerIInv
<1>1. \A h \in Handlers : EntityCall(h) \in Calls /\ EntityCall(h)[1] = h
  BY NamesOfCalls, PageOf DEF EntityCall, HInv, HandlerTypeOK
<1>2. ASSUME NEW c \in Calls, RunGoesOn(c) \/ TaskGoesOn(c)
      PROVE  PagesOK'
  <2>1. \A d \in Calls : pc[d] = "returned" => pc'[d] = "returned"
    BY <1>2 DEF RunGoesOn, RunStep, RunInsert, RunTake, TaskGoesOn, ProbeHit,
                ProbeMiss, ProbeEvict, Resolve, Reject, FinishClose, FinishClear,
                Store, Retire, runVars, HInv, IInv, TypeOK
  <2>2. UNCHANGED <<hpc, pageVars>>
    BY <1>2 DEF RunGoesOn, TaskGoesOn
  <2> QED BY <1>1, <2>1, <2>2, PagesStay
<1>3. ASSUME NEW c \in Calls, ReleaseCall(c) PROVE PagesOK'
  <2>1. /\ \A d \in Calls : d # c => pc'[d] = pc[d]
        /\ Resting(c[1]) /\ UNCHANGED <<hpc, pageVars>>
    BY <1>3 DEF ReleaseCall, Release, HInv, IInv, TypeOK
  <2> QED BY <1>1, <2>1, PagesStay
<1>4. ASSUME NEW w \in Watchers, CallbackStep(w) \/ Abandon(w) PROVE PagesOK'
  <2>1. \A d \in Calls : pc[d] = "returned" => pc'[d] = "returned"
    <3>1. CASE CallbackRun(w)
      <4>1. PICK n \in 1..Len(CallbackKeys(w)) :
              RunLookup(<<w[1], CallbackKeys(w)[n]>>, CallbackKeys(w)[n])
        BY <3>1 DEF CallbackRun
      <4> QED BY <4>1 DEF RunLookup, HInv, IInv, TypeOK
    <3> QED BY <1>4, <3>1 DEF CallbackStep, CallbackWaits, Await, Wake, CallbackEnd,
                                  WatcherEnd, Abandon, runVars
  <2>2. UNCHANGED <<hpc, pageVars>>
    BY <1>4 DEF CallbackStep, CallbackWaits, CallbackEnd, CallbackRun, Abandon
  <2> QED BY <1>1, <2>1, <2>2, PagesStay
<1>5. CASE Time /\ UNCHANGED <<hpc, pageVars>>
  BY <1>5, PagesStay DEF Time, runVars
<1> QED BY <1>2, <1>3, <1>4, <1>5, HandlerStepPages DEF HNext, SteadyNext

LEMMA HInitHInv == HInit => HInv
<1> SUFFICES ASSUME HInit PROVE HInv
  OBVIOUS
<1>1. IInv
  BY InitIInv DEF HInit
<1>2. HandlerTypeOK
  <2>1. NoneFound \in Finds
    <3>1. NoneFound \in [{} -> Values] /\ {} \in SUBSET Keys
      BY DEF NoneFound
    <3> QED BY <3>1 DEF Finds
  <2>2. found \in [Handlers -> Finds]
    BY <2>1 DEF HInit
  <2>4. /\ found = [h \in Handlers |-> found[h]]
        /\ \A h \in Handlers : /\ DOMAIN found[h] \subseteq Keys
                               /\ found[h] \in [DOMAIN found[h] -> Values]
    BY <2>2, FindsTyped
  <2>3. <<>> \in Seq(Keys)
    OBVIOUS
  <2> QED BY <1>1, <2>3, <2>4 DEF HInit, IInv, HandlerTypeOK
<1> QED BY <1>1, <1>2
        DEF HInit, Init, HInv, CallsOfPage, WatchersOfPage, HoldsTask,
            PageIsAboutId, FoundIsComputed, NoneFound, Resting

LEMMA HNextHInv == HInv /\ [HNext]_allVars => HInv'
<1>1. ASSUME HInv, UNCHANGED allVars PROVE HInv'
  <2>1. IInv'
    BY <1>1, NextIInv DEF HInv, allVars
  <2>2. CallsOfPage' /\ WatchersOfPage'
    BY <1>1, <2>1, QuietPage DEF allVars, vars, runVars, watchVars, pageVars
  <2>3. PagesOK'
    BY <1>1, <2>1, PagesStay DEF allVars, vars, runVars
  <2> QED BY <2>1, <2>2, <2>3 DEF PagesOK, HInv
<1> QED BY <1>1, RunnerIInv, CallsAndWatchersInv, PagesInv DEF PagesOK, HInv

\* Handlers, their calls and callbacks, and the runner under them fit together
\* in every run (app.go:64-224, promise.go:114-179).
THEOREM HandlerInvariant == KeyProofsSpec => []HInv
BY HInitHInv, HNextHInv, PTL DEF KeyProofsSpec

\* Handlers, tasks, callbacks and the cache keep their types.
THEOREM PageTypeCorrect == KeyProofsSpec => []HandlerTypeOK
<1>1. HInv => HandlerTypeOK
  BY DEF HInv
<1> QED BY <1>1, HandlerInvariant, PTL

\* app.go:155-170: a page is about the entity of the id that was asked for,
\* whether it came from the task or, after the deadline, from the cache.
THEOREM PageSound == KeyProofsSpec => []PageIsAboutId
<1>1. HInv => PageIsAboutId
  BY DEF HInv
<1> QED BY <1>1, HandlerInvariant, PTL

\* No two entities name the same account.
AccountsApart ==
  \A d, e \in Entities : ProofKeySet(d) \cap ProofKeySet(e) # {} => d = e

\* What a check of an account may find is found with the fingerprint of an
\* entity that names it: the least that KeyProofsAssumption allows.
ChecksAreOfOwners ==
  \A e \in Entities : \A k \in ProofKeySet(e) :
    ValuesOf[k] = {ProofBy[d] : d \in {f \in Entities : k \in ProofKeySet(f)}}

\* A value found under an account was found with the page's own fingerprint.
LEMMA PagesShowOwn ==
  ASSUME AccountsApart, ChecksAreOfOwners
  PROVE  HInv => ProofsAreOfEntity
<1> SUFFICES ASSUME HInv, NEW h \in Handlers, entity[h] # NoValue,
                    NEW k \in (DOMAIN found[h]) \cap ProofKeySet(entity[h])
             PROVE  found[h][k] = ProofBy[entity[h]]
  BY DEF ProofsAreOfEntity
<1>1. id[h] \in Ids /\ entity[h] = EntityOf[id[h]]
  BY DEF HInv, HandlerTypeOK, PageIsAboutId
<1>2. found[h][k] \in ValuesOf[k]
  BY DEF HInv, FoundIsComputed
<1>3. entity[h] \in Entities
  BY <1>1, PageOf
<1>4. PICK d \in Entities : k \in ProofKeySet(d) /\ found[h][k] = ProofBy[d]
  BY <1>2, <1>3 DEF ChecksAreOfOwners
<1> QED BY <1>3, <1>4 DEF AccountsApart

\* app.go:189: a page shows what was found out with the fingerprint of its own
\* entity, provided that no two entities name the same account.
THEOREM ProofsSound ==
  ASSUME AccountsApart, ChecksAreOfOwners
  PROVE  KeyProofsSpec => []ProofsAreOfEntity
BY PagesShowOwn, HandlerInvariant, PTL

-----------------------------------------------------------------------------
(* What module Promise promises also holds under the handlers, which take *)
(* items out of the cache and have callbacks that are given up.           *)

LEMMA HandlersSettle ==
  ASSUME HInv, [HNext]_allVars, NEW t \in Calls
  PROVE  Settled(t)
<1>1. CASE PageEvicts \/ Abandons \/ UNCHANGED allVars
  BY <1>1 DEF PageEvicts, Abandons, allVars, vars, taskVars, Settled
<1> QED
  BY <1>1, StepsOfRunner, StepSettles DEF HInv

\* app.go:64-224: of the runner under the handlers, a task settles once, a
\* callback runs only with the result of a success, the cache holds under each
\* key what was computed for it, and the queue holds tasks that are under way.
THEOREM RunnerKeepsPromises ==
  KeyProofsSpec => /\ SettlesOnce
                   /\ []FiresOnSuccess /\ []CacheIsComputed
                   /\ []QueueHoldsLiveTasks /\ []HandleIsForKey
<1>1. HInv /\ [HNext]_allVars => [\A t \in Calls : Settled(t)]_vars
  BY HandlersSettle
<1>2. HInv => /\ FiresOnSuccess /\ CacheIsComputed
              /\ QueueHoldsLiveTasks /\ HandleIsForKey
  BY FiresWithResult DEF HInv, IInv
<1> QED
  BY <1>1, <1>2, HandlerInvariant, PTL DEF KeyProofsSpec, SettlesOnce, Settled

\* A callback that is given up is a subscriber that does not wait for ever.
LEMMA AbandonsMaps == HInv /\ Abandons => \E w \in Watchers : F!GiveUp(w)
<1> SUFFICES ASSUME HInv, NEW w \in Watchers, wstate[w] = "stuck",
                    wstate' = [wstate EXCEPT ![w] = "off"],
                    wtask' = [wtask EXCEPT ![w] = NoTask], UNCHANGED taskVars
             PROVE  F!GiveUp(w)
  BY DEF Abandons
<1>1. SubOf(w) = "waiting"
  BY DEF SubOf
<1>2. \A x \in Watchers : SubOf(x)' = IF x = w THEN "off" ELSE SubOf(x)
  BY DEF SubOf, HInv, IInv, TypeOK
<1>3. \A t \in Calls : CellOf(t)' = CellOf(t) /\ ValueOf(t)' = ValueOf(t)
  BY DEF taskVars, CellOf, ValueOf
<1> QED
  BY <1>1, <1>2, <1>3 DEF F!GiveUp

\* app.go:64-224 and promise.go:55-179: the server's tasks are write-once cells,
\* whose subscribers, the callbacks, are told once or give up: no request of any
\* handler sees a task change its mind, and no callback hears of a failure.
THEOREM ServerImplementsFuture == KeyProofsSpec => F!ImpatientSpec
<1>1. HInv /\ [HNext]_allVars => [F!ImpatientNext]_F!futureVars
  <2> SUFFICES ASSUME HInv, [HNext]_allVars
               PROVE  [F!ImpatientNext]_F!futureVars
    OBVIOUS
  <2> USE DEF F!ImpatientNext
  <2>1. CASE PageEvicts \/ UNCHANGED allVars
    <3>1. UNCHANGED <<taskVars, watchVars>>
      BY <2>1 DEF PageEvicts, allVars, vars
    <3>2. \A t \in Calls : CellOf(t)' = CellOf(t) /\ ValueOf(t)' = ValueOf(t)
      BY <3>1 DEF taskVars, CellOf, ValueOf
    <3> QED
      BY <3>1, <3>2, StutterMaps
  <2>2. CASE [Next]_vars
    BY <2>2, RunnerStepMaps DEF HInv
  <2> QED
    BY <2>1, <2>2, StepsOfRunner, AbandonsMaps
<1>2. HInit => F!FutureInit
  BY InitMaps DEF HInit
<1> QED
  BY <1>1, <1>2, HandlerInvariant, PTL DEF KeyProofsSpec, F!ImpatientSpec

-----------------------------------------------------------------------------
(* Who takes a fresh item out of the cache of a server *)

\* The clearing steps of pages and the callbacks that are given up spoil nothing.
LEMMA LoneEvictorStays ==
  HInv /\ LoneEvictorIsStale /\ [HNext]_allVars => LoneEvictorIsStale'
<1> SUFFICES ASSUME HInv, LoneEvictorIsStale, [HNext]_allVars
             PROVE  LoneEvictorIsStale'
  OBVIOUS
<1>1. CASE PageEvicts \/ Abandons
  <2>1. UNCHANGED <<key, queue, phase>>
    BY <1>1 DEF PageEvicts, Abandons, runVars, taskVars
  <2>2. \A k \in Keys : Fresh(k)' => Fresh(k)
    BY <1>1 DEF PageEvicts, Abandons, Remove, Fresh, HInv, IInv, TypeOK, CacheTypeOK
  <2>3. \A t \in Calls : phase[t] = "evict" => key[t] \in Keys
    BY DEF HInv, IInv, CallsAndTasks
  <2> QED
    BY <2>1, <2>2, <2>3 DEF LoneEvictorIsStale, Live
<1>3. CASE [Next]_vars
  BY <1>3, LoneEvictorInv DEF HInv
<1> QED
  BY <1>1, <1>3, StepsOfRunner DEF allVars

\* cache.go:63-71: of a server, too, a fresh item goes only when the ARC is full,
\* when two tasks are under way for its key, or when a page had found it stale
\* before a task stored it anew: then the page takes away what it asked for.
THEOREM FreshLossOfServer ==
  KeyProofsSpec =>
    [][\A k \in Keys : Fresh(k) /\ cache'[k] = NoEntry =>
         FreshLossExcused(k) \/ TakenByPage(k)]_allVars
<1>1. ASSUME HInv, LoneEvictorIsStale, [HNext]_allVars,
             NEW k \in Keys, Fresh(k), cache'[k] = NoEntry
      PROVE  FreshLossExcused(k) \/ TakenByPage(k)
  <2>1. CASE PageEvicts
    BY <1>1, <2>1 DEF PageEvicts, Remove, Fresh, HInv, IInv, TypeOK, CacheTypeOK
  <2>2. CASE Abandons
    BY <1>1, <2>2 DEF Abandons, Fresh
  <2>3. CASE [Next]_vars
    BY <1>1, <2>3, FreshLossStep DEF HInv
  <2> QED
    BY <1>1, <2>1, <2>2, <2>3, StepsOfRunner DEF allVars
<1>2. HInv /\ LoneEvictorIsStale /\ [HNext]_allVars =>
        [\A k \in Keys : Fresh(k) /\ cache'[k] = NoEntry =>
           FreshLossExcused(k) \/ TakenByPage(k)]_allVars
  BY <1>1
<1>3. HInit => LoneEvictorIsStale
  BY DEF HInit, Init, LoneEvictorIsStale
<1> QED
  BY <1>2, <1>3, LoneEvictorStays, HandlerInvariant, PTL DEF KeyProofsSpec

-----------------------------------------------------------------------------
(* What can be proved of progress: a handler goes straight to its page. *)

\* A step of a handler leaves the others alone.
LEMMA OthersStay ==
  ASSUME HInv, NEW h \in Handlers, NEW g \in Handlers \ {h},
         \/ HandlerStep(h) \/ Finish(h) \/ Leave(h)
         \/ \E i \in Ids : Request(h, i)
  PROVE  /\ hpc'[g] = hpc[g] /\ id'[g] = id[g] /\ failed'[g] = failed[g]
         /\ entity'[g] = entity[g] /\ found'[g] = found[g]
         /\ todo'[g] = todo[g]
<1> USE DEF HInv, HandlerTypeOK, HGoto, pageVars
<1>1. CASE Finish(h) \/ Leave(h) \/ \E i \in Ids : Request(h, i)
  BY <1>1 DEF Finish, Leave, Request
<1>2. CASE RunEntity(h) \/ AfterStyle(h) \/ AfterProofs(h) \/ Select(h)
  BY <1>2 DEF RunEntity, AfterStyle, AfterProofs, Select
<1>3. CASE SelectTask(h) \/ SelectDeadline(h)
  BY <1>3 DEF SelectTask, SelectDeadline, PageFor
<1>4. CASE LookupEntity(h) \/ ForgetEntity(h)
  BY <1>4 DEF LookupEntity, ForgetEntity, PageFor
<1>5. CASE LookupNext(h)
  BY <1>5 DEF LookupNext
<1>6. CASE EvictNext(h) \/ Show(h)
  BY <1>6 DEF EvictNext, Show
<1> QED
  BY <1>1, <1>2, <1>3, <1>4, <1>5, <1>6 DEF HandlerStep

\* Steps that are not of a handler leave all of them alone.
LEMMA HandlersStay ==
  ASSUME HNext, ~\E h \in Handlers : HandlerStep(h) \/ BrowserStep(h)
  PROVE  UNCHANGED <<hpc, pageVars>>
BY DEF HNext, SteadyNext, RunGoesOn, TaskGoesOn, ReleaseCall, CallbackStep,
       CallbackWaits, CallbackRun, CallbackEnd, Abandon

HPlace == [idle |-> 0, reload |-> 0, run |-> 1, proofs |-> 2, select |-> 3,
           wait |-> 4, lookup |-> 5, forget |-> 6, page |-> 7, evict |-> 7,
           shown |-> 8]

\* The look-ups and removals that a page may still need.
Left(h) == 2 * Len(todo[h]) - (IF hpc[h] = "evict" THEN 1 ELSE 0)

HandlerAdvances(h) ==
  \/ hpc'[h] = hpc[h] /\ todo'[h] = todo[h] /\ id'[h] = id[h]
  \/ HPlace[hpc'[h]] > HPlace[hpc[h]] /\ (~Resting(h) => id'[h] = id[h])
  \/ HPlace[hpc'[h]] = HPlace[hpc[h]] /\ Left(h)' < Left(h) /\ id'[h] = id[h]
  \/ hpc[h] \in {"shown", "reload"} /\ hpc'[h] \in {"idle", "reload"}

LEMMA TailIsShorter ==
  ASSUME HInv, NEW h \in Handlers, todo[h] # <<>>
  PROVE  Len(todo[h]) \in Nat /\ Len(todo[h]) > 0
         /\ Len(Tail(todo[h])) = Len(todo[h]) - 1
<1>1. todo[h] \in Seq(Keys)
  BY DEF HInv, HandlerTypeOK
<1> QED
  BY <1>1, HeadTailProperties, EmptySeq, LenProperties

LEMMA PageAdvances ==
  ASSUME HInv, NEW h \in Handlers, LookupNext(h) \/ EvictNext(h)
  PROVE  HandlerAdvances(h)
<1> USE DEF HGoto
<1>1. todo[h] # <<>>
  BY DEF LookupNext, EvictNext, HInv
<1>2. /\ hpc \in [Handlers -> Places] /\ todo \in [Handlers -> Seq(Keys)]
      /\ Len(todo[h]) \in Nat /\ Len(Tail(todo[h])) = Len(todo[h]) - 1
  BY <1>1, TailIsShorter DEF HInv, HandlerTypeOK, Places
<1> PICK n \in Nat : n = Len(todo[h]) /\ n - 1 = Len(Tail(todo[h]))
  BY <1>2
<1>3. CASE EvictNext(h)
  <2>1. /\ hpc[h] = "evict" /\ hpc'[h] = "page" /\ todo'[h] = Tail(todo[h])
        /\ id'[h] = id[h]
    BY <1>2, <1>3 DEF EvictNext
  <2>2. Len(todo'[h]) = n - 1
    BY <2>1
  <2>3. Left(h) = 2 * n - 1 /\ Left(h)' = 2 * (n - 1) - 0
    BY <2>1, <2>2 DEF Left
  <2>4. Left(h)' < Left(h)
    BY <2>3
  <2> QED
    BY <2>1, <2>4 DEF HandlerAdvances, HPlace
<1>4. CASE LookupNext(h)
  <2>1. /\ hpc[h] = "page" /\ id'[h] = id[h]
        /\ \/ hpc'[h] = "page" /\ todo'[h] = Tail(todo[h])
           \/ hpc'[h] = "evict" /\ todo'[h] = todo[h]
    BY <1>2, <1>4 DEF LookupNext
  <2>2. Left(h) = 2 * n - 0
    BY <2>1 DEF Left
  <2>3. CASE hpc'[h] = "page"
    <3>1. Len(todo'[h]) = n - 1
      BY <2>1, <2>3
    <3>2. Left(h)' = 2 * (n - 1) - 0
      BY <2>3, <3>1 DEF Left
    <3> QED
      BY <2>1, <2>2, <2>3, <3>2 DEF HandlerAdvances, HPlace
  <2>4. CASE hpc'[h] = "evict"
    <3>1. Len(todo'[h]) = n
      BY <2>1, <2>4
    <3>2. Left(h)' = 2 * n - 1
      BY <2>4, <3>1 DEF Left
    <3> QED
      BY <2>1, <2>2, <2>4, <3>2 DEF HandlerAdvances, HPlace
  <2> QED
    BY <2>1, <2>3, <2>4
<1> QED
  BY <1>3, <1>4

LEMMA OwnStepAdvances ==
  ASSUME HInv, NEW h \in Handlers, HandlerStep(h)
  PROVE  HandlerAdvances(h)
<1> USE DEF HInv, HandlerTypeOK, HGoto, pageVars, HandlerAdvances, HPlace
<1>1. CASE RunEntity(h)
  BY <1>1 DEF RunEntity
<1>2. CASE AfterStyle(h) \/ AfterProofs(h) \/ Select(h)
  BY <1>2 DEF AfterStyle, AfterProofs, Select
<1>3. CASE SelectTask(h)
  BY <1>3 DEF SelectTask
<1>4. CASE SelectDeadline(h) \/ ForgetEntity(h) \/ Show(h)
  BY <1>4 DEF SelectDeadline, ForgetEntity, Show
<1>5. CASE LookupEntity(h)
  BY <1>5 DEF LookupEntity
<1> QED
  BY <1>1, <1>2, <1>3, <1>4, <1>5, PageAdvances DEF HandlerStep

\* The safety half of RequestAnswered (app.go:64-224): a handler never goes
\* back, whatever its tasks do, and its request stays the same; so a page takes
\* a number of its own steps that the length of the list of proofs bounds.
THEOREM HandlersMoveOn ==
  KeyProofsSpec => [][\A h \in Handlers : HandlerAdvances(h)]_allVars
<1>1. ASSUME HInv, [HNext]_allVars, NEW h \in Handlers PROVE HandlerAdvances(h)
  <2>1. ASSUME NEW g \in Handlers, HandlerStep(g) \/ BrowserStep(g)
        PROVE  HandlerAdvances(h)
    <3>1. CASE g # h /\ ~\E f \in Handlers : Refresh(g, f)
      BY <1>1, <2>1, <3>1, OthersStay DEF HandlerAdvances, BrowserStep
    <3>2. CASE HandlerStep(h)
      BY <1>1, <3>2, OwnStepAdvances
    <3>3. CASE Finish(h) \/ Leave(h)
      BY <1>1, <3>3 DEF HInv, HandlerTypeOK, Finish, Leave, HGoto, HandlerAdvances
    <3>4. CASE \E i \in Ids : Request(h, i)
      BY <1>1, <3>4 DEF HInv, HandlerTypeOK, Request, HGoto, Resting,
                        HandlerAdvances, HPlace
    <3>5. ASSUME NEW f \in Handlers, Refresh(g, f) PROVE HandlerAdvances(h)
      <4> USE DEF HInv, HandlerTypeOK, Refresh
      <4>1. CASE h = f
        BY <1>1, <3>5, <4>1 DEF Resting, HandlerAdvances, HPlace
      <4>2. CASE h # f /\ h = g
        BY <1>1, <3>5, <4>2 DEF HandlerAdvances
      <4>3. CASE h # f /\ h # g
        BY <1>1, <3>5, <4>3 DEF HandlerAdvances
      <4> QED BY <4>1, <4>2, <4>3
    <3> QED
      BY <2>1, <3>1, <3>2, <3>3, <3>4, <3>5 DEF BrowserStep
  <2>2. CASE UNCHANGED <<hpc, pageVars>>
    BY <2>2 DEF HandlerAdvances, pageVars
  <2> QED
    BY <1>1, <2>1, <2>2, HandlersStay DEF allVars
<1>2. HInv /\ [HNext]_allVars => [\A h \in Handlers : HandlerAdvances(h)]_allVars
  BY <1>1
<1> QED
  BY <1>2, HandlerInvariant, PTL DEF KeyProofsSpec

-----------------------------------------------------------------------------
(* The handlers implement module PageService. *)

\* A page gets its entity when it is built, and an error only without one.
PagesInMaking ==
  \A h \in Handlers :
    /\ hpc[h] \notin {"page", "evict", "shown"} => entity[h] = NoValue
    /\ failed[h] => hpc[h] = "shown" /\ entity[h] = NoValue

\* Where a step of a handler leads, and what it does to the page.
LEMMA HandlerGoes ==
  ASSUME HInv, PagesInMaking, NEW h \in Handlers, HandlerStep(h)
  PROVE  /\ hpc[h] \notin {"idle", "reload", "shown"}
         /\ hpc'[h] \notin {"idle", "reload"}
         /\ UNCHANGED id
         /\ hpc'[h] \notin {"page", "evict", "shown"} => entity'[h] = NoValue
         /\ failed'[h] => hpc'[h] = "shown" /\ entity'[h] = NoValue
<1> USE DEF HInv, HandlerTypeOK, HGoto, pageVars, PagesInMaking
<1>1. CASE RunEntity(h) \/ AfterStyle(h) \/ AfterProofs(h) \/ Select(h)
  BY <1>1 DEF RunEntity, AfterStyle, AfterProofs, Select
<1>2. CASE SelectTask(h)
  BY <1>2 DEF SelectTask
<1>3. CASE SelectDeadline(h) \/ ForgetEntity(h)
  BY <1>3 DEF SelectDeadline, ForgetEntity
<1>4. CASE LookupEntity(h)
  BY <1>4 DEF LookupEntity
<1>5. CASE LookupNext(h)
  BY <1>5 DEF LookupNext
<1>6. CASE EvictNext(h) \/ Show(h)
  BY <1>6 DEF EvictNext, Show
<1> QED
  BY <1>1, <1>2, <1>3, <1>4, <1>5, <1>6 DEF HandlerStep

LEMMA PagesInMakingInv ==
  HInv /\ PagesInMaking /\ [HNext]_allVars => PagesInMaking'
<1> SUFFICES ASSUME HInv, PagesInMaking, [HNext]_allVars PROVE PagesInMaking'
  OBVIOUS
<1>1. ASSUME NEW h \in Handlers, HandlerStep(h) PROVE PagesInMaking'
  BY <1>1, HandlerGoes, OthersStay DEF PagesInMaking
<1>2. ASSUME NEW h \in Handlers, Finish(h) PROVE PagesInMaking'
  <2>1. entity'[h] = NoValue /\ failed'[h] = FALSE
    BY <1>2 DEF Finish, HInv, HandlerTypeOK
  <2> QED
    BY <1>2, <2>1, OthersStay DEF PagesInMaking
<1>3. ASSUME NEW h \in Handlers, Leave(h) \/ \E i \in Ids : Request(h, i)
      PROVE  PagesInMaking'
  <2>1. hpc[h] \in {"idle", "reload"} /\ UNCHANGED <<entity, failed>>
    BY <1>3 DEF Leave, Request, HGoto, pageVars
  <2>2. entity[h] = NoValue /\ failed[h] = FALSE
    BY <2>1 DEF PagesInMaking, HInv, HandlerTypeOK
  <2> QED
    BY <1>3, <2>1, <2>2, OthersStay DEF PagesInMaking
<1>4. ASSUME NEW h \in Handlers, NEW g \in Handlers, Refresh(h, g)
      PROVE  PagesInMaking'
  BY <1>4 DEF Refresh, PagesInMaking, HInv, HandlerTypeOK
<1>5. CASE UNCHANGED <<hpc, pageVars>>
  BY <1>5 DEF PagesInMaking, pageVars
<1> QED
  BY <1>1, <1>2, <1>3, <1>4, <1>5, HandlersStay DEF allVars, BrowserStep

\* What is written is one of the answers that PageService allows.
LEMMA WrittenIsAnswer ==
  ASSUME AccountsApart, ChecksAreOfOwners
  PROVE  HInv /\ PagesInMaking => \A h \in Handlers : hpc[h] = "shown" =>
           Written(h) \in {Service!BarePage(TRUE), Service!BarePage(FALSE)}
                            \cup Service!PagesAbout(EntityOf[id[h]])
<1> SUFFICES ASSUME HInv, PagesInMaking, NEW h \in Handlers, hpc[h] = "shown"
             PROVE  Written(h) \in {Service!BarePage(TRUE), Service!BarePage(FALSE)}
                                     \cup Service!PagesAbout(EntityOf[id[h]])
  OBVIOUS
<1>1. CASE entity[h] = NoValue
  <2>1. Verdicts(h) = [a \in {} |-> NoValue] /\ Styled(h) = FALSE
    BY <1>1 DEF Verdicts, Styled, NoneFound
  <2>2. failed[h] \in BOOLEAN
    BY DEF HInv, HandlerTypeOK
  <2>3. Written(h) = Service!BarePage(failed[h])
    BY <1>1, <2>1 DEF Written, Service!BarePage
  <2> QED
    BY <2>2, <2>3
<1>2. CASE entity[h] # NoValue
  <2> DEFINE e == EntityOf[id[h]]
             shown == (DOMAIN found[h]) \cap ProofKeySet(e)
  <2>1. entity[h] = e /\ e \in Entities /\ failed[h] = FALSE
    BY <1>2, PageOf
       DEF HInv, HandlerTypeOK, PageIsAboutId, PagesInMaking
  <2>2. \A k \in shown : found[h][k] = ProofBy[e]
    BY <1>2, <2>1, PagesShowOwn DEF ProofsAreOfEntity
  <2>3. Verdicts(h) = [a \in shown |-> ProofBy[e]]
    BY <1>2, <2>1, <2>2 DEF Verdicts
  <2>4. shown \in SUBSET [x \in Entities |-> ProofKeySet(x)][e]
    BY <2>1
  <2>5. Styled(h) \in BOOLEAN
    BY DEF Styled
  <2>6. Written(h) = [failed |-> FALSE, entity |-> e, styled |-> Styled(h),
                      verdicts |-> [a \in shown |-> ProofBy[e]]]
    BY <2>1, <2>3 DEF Written
  <2> HIDE DEF shown, e
  <2>7. [a \in shown |-> ProofBy[e]] \in Service!Findings(e)
    BY <2>4 DEF Service!Findings
  <2>8. Written(h) \in Service!PagesAbout(e)
    BY <2>5, <2>6, <2>7 DEF Service!PagesAbout
  <2> QED
    BY <2>8 DEF e
<1> QED
  BY <1>1, <1>2

\* A handler of which nothing visible changes.
LEMMA SameToBrowser ==
  ASSUME NEW h \in Handlers, hpc'[h] = hpc[h], failed'[h] = failed[h],
         entity'[h] = entity[h], found'[h] = found[h]
  PROVE  TurnOf(h)' = TurnOf(h) /\ Written(h)' = Written(h)
BY DEF TurnOf, Written, Styled, Verdicts

LEMMA HandlerServes ==
  ASSUME AccountsApart, ChecksAreOfOwners, HInv, HInv', PagesInMaking,
         PagesInMaking', NEW h \in Handlers, HandlerStep(h),
         hpc'[h] = "shown" =>
           Written(h)' \in {Service!BarePage(TRUE), Service!BarePage(FALSE)}
                             \cup Service!PagesAbout(EntityOf[id[h]])
  PROVE  [Service!ServiceNext]_Service!serviceVars
<1>1. /\ TurnOf(h) = "asked" /\ Written(h) = NoPageYet /\ UNCHANGED id
      /\ hpc'[h] \notin {"idle", "reload"}
  BY HandlerGoes DEF TurnOf, Written
<1>2. \A g \in Handlers \ {h} :
        TurnOf(g)' = TurnOf(g) /\ Written(g)' = Written(g)
  BY OthersStay, SameToBrowser
<1>3. CASE hpc'[h] = "shown"
  <2>1. TurnOf(h)' = "answered"
    BY <1>3 DEF TurnOf
  <2> DEFINE p == Written(h)'
  <2>2. p \in {Service!BarePage(TRUE), Service!BarePage(FALSE)}
                \cup Service!PagesAbout(EntityOf[id[h]])
    BY <1>3
  <2>3. [g \in Handlers |-> Written(g)'] =
          [[g \in Handlers |-> Written(g)] EXCEPT ![h] = p]
    BY <1>2
  <2>4. [g \in Handlers |-> TurnOf(g)'] =
          [[g \in Handlers |-> TurnOf(g)] EXCEPT ![h] = "answered"]
    BY <1>2, <2>1
  <2> HIDE DEF p
  <2>5. Service!Answer(h)
    BY <1>1, <2>2, <2>3, <2>4 DEF Service!Answer
  <2> QED
    BY <2>5 DEF Service!ServiceNext
<1>4. CASE hpc'[h] # "shown"
  <2>1. TurnOf(h)' = "asked" /\ Written(h)' = NoPageYet
    BY <1>1, <1>4 DEF TurnOf, Written
  <2>2. \A g \in Handlers : TurnOf(g)' = TurnOf(g) /\ Written(g)' = Written(g)
    BY <1>1, <1>2, <2>1
  <2> QED
    BY <1>1, <2>2 DEF Service!serviceVars
<1> QED
  BY <1>3, <1>4

\* The browser is told to load the page again exactly when it is to be.
LEMMA FinishServes ==
  ASSUME HInv, PagesInMaking, NEW h \in Handlers, Finish(h)
  PROVE  Service!Close(h)
<1>1. \A g \in Handlers \ {h} :
        TurnOf(g)' = TurnOf(g) /\ Written(g)' = Written(g)
  BY OthersStay, SameToBrowser
<1>2. /\ TurnOf(h) = "answered"
      /\ TurnOf(h)' = IF IsComplete(h) THEN "rest" ELSE "again"
      /\ Written(h)' = NoPageYet
      /\ UNCHANGED id
  BY DEF Finish, HGoto, HInv, HandlerTypeOK, TurnOf, Written
<1>3. Service!Complete(Written(h)) <=> IsComplete(h)
  <2>1. Written(h) = [failed |-> failed[h], entity |-> entity[h],
                      styled |-> Styled(h), verdicts |-> Verdicts(h)]
    BY DEF Finish, HGoto, Written
  <2>2. CASE entity[h] = NoValue
    BY <2>1, <2>2 DEF Service!Complete, IsComplete
  <2>3. CASE entity[h] # NoValue
    <3>1. entity[h] \in Entities
      BY <2>3 DEF HInv, HandlerTypeOK
    <3>2. DOMAIN Verdicts(h) = (DOMAIN found[h]) \cap ProofKeySet(entity[h])
      BY <2>3 DEF Verdicts
    <3>3. Styled(h) /\ DOMAIN Verdicts(h) = ProofKeySet(entity[h]) <=>
            PageKeys(entity[h]) \subseteq DOMAIN found[h]
      BY <2>3, <3>2 DEF Styled, PageKeys
    <3> QED
      BY <2>1, <2>3, <3>1, <3>3 DEF Service!Complete, IsComplete
  <2> QED
    BY <2>2, <2>3
<1>4. [g \in Handlers |-> TurnOf(g)'] =
        [[g \in Handlers |-> TurnOf(g)] EXCEPT
           ![h] = IF Service!Complete(Written(h)) THEN "rest" ELSE "again"]
  BY <1>1, <1>2, <1>3
<1>5. [g \in Handlers |-> Written(g)'] =
        [[g \in Handlers |-> Written(g)] EXCEPT ![h] = NoPageYet]
  BY <1>1, <1>2
<1> QED
  BY <1>2, <1>4, <1>5 DEF Service!Close

LEMMA RequestServes ==
  ASSUME HInv, PagesInMaking, NEW h \in Handlers, NEW i \in Ids, Request(h, i)
  PROVE  Service!Ask(h, i)
<1>1. \A g \in Handlers \ {h} :
        TurnOf(g)' = TurnOf(g) /\ Written(g)' = Written(g)
  BY OthersStay, SameToBrowser
<1>2. /\ TurnOf(h) = "rest" /\ TurnOf(h)' = "asked"
      /\ Written(h)' = Written(h)
      /\ id' = [id EXCEPT ![h] = i]
  BY DEF Request, HGoto, HInv, HandlerTypeOK, TurnOf, Written
<1>3. [g \in Handlers |-> TurnOf(g)'] =
        [[g \in Handlers |-> TurnOf(g)] EXCEPT ![h] = "asked"]
  BY <1>1, <1>2
<1>4. [g \in Handlers |-> Written(g)'] = [g \in Handlers |-> Written(g)]
  BY <1>1, <1>2
<1> QED
  BY <1>2, <1>3, <1>4 DEF Service!Ask

\* A page that is loaded again, as whatever request, or given up.
LEMMA ReloadServes ==
  ASSUME HInv, NEW h \in Handlers, NEW g \in Handlers, Refresh(h, g)
  PROVE  Service!AskAgain(h, g)
<1> USE DEF Refresh, HInv, HandlerTypeOK, TurnOf, Written
<1>1. TurnOf(h) = "again" /\ (TurnOf(g) = "rest" \/ g = h)
  OBVIOUS
<1>2. [f \in Handlers |-> TurnOf(f)'] =
        [[f \in Handlers |-> TurnOf(f)] EXCEPT ![h] = "rest", ![g] = "asked"]
  OBVIOUS
<1>3. [f \in Handlers |-> Written(f)'] = [f \in Handlers |-> Written(f)]
  BY DEF Verdicts, Styled
<1> QED
  BY <1>1, <1>2, <1>3 DEF Service!AskAgain

LEMMA LeaveServes ==
  ASSUME HInv, PagesInMaking, NEW h \in Handlers, Leave(h)
  PROVE  Service!GiveUp(h)
<1>1. \A g \in Handlers \ {h} :
        TurnOf(g)' = TurnOf(g) /\ Written(g)' = Written(g)
  BY OthersStay, SameToBrowser
<1>2. /\ TurnOf(h) = "again" /\ TurnOf(h)' = "rest"
      /\ Written(h)' = Written(h) /\ UNCHANGED id
  BY DEF Leave, HGoto, pageVars, HInv, HandlerTypeOK, TurnOf, Written
<1>3. [g \in Handlers |-> TurnOf(g)'] =
        [[g \in Handlers |-> TurnOf(g)] EXCEPT ![h] = "rest"]
  BY <1>1, <1>2
<1>4. [g \in Handlers |-> Written(g)'] = [g \in Handlers |-> Written(g)]
  BY <1>1, <1>2
<1> QED
  BY <1>2, <1>3, <1>4 DEF Service!GiveUp

\* app.go:64-224: provided that no two entities name the same account, every
\* browser gets one answer to each request, about what it asked for, put
\* together from findings of its own entity only, whatever tasks and callbacks
\* of other requests do to the cache meanwhile; and it is told to load the page
\* again exactly when something of it is missing.
THEOREM PagesImplementService ==
  ASSUME AccountsApart, ChecksAreOfOwners
  PROVE  KeyProofsSpec => ImplementsService
<1>1. HInit => Service!ServiceInit /\ PagesInMaking
  BY DEF HInit, Service!ServiceInit, TurnOf, Written, PagesInMaking
<1>2. ASSUME HInv, HInv', PagesInMaking, PagesInMaking', [HNext]_allVars,
             \A h \in Handlers : hpc'[h] = "shown" =>
               Written(h)' \in {Service!BarePage(TRUE), Service!BarePage(FALSE)}
                                 \cup Service!PagesAbout(EntityOf[id'[h]])
      PROVE  [Service!ServiceNext]_Service!serviceVars
  <2> USE <1>2
  <2>1. ASSUME NEW h \in Handlers, HandlerStep(h)
        PROVE  [Service!ServiceNext]_Service!serviceVars
    <3>1. UNCHANGED id
      BY <2>1, HandlerGoes
    <3> QED
      BY <2>1, <3>1, HandlerServes
  <2>2. ASSUME NEW h \in Handlers, BrowserStep(h)
        PROVE  [Service!ServiceNext]_Service!serviceVars
    BY <2>2, FinishServes, RequestServes, ReloadServes, LeaveServes
       DEF BrowserStep, Service!ServiceNext
  <2>3. CASE UNCHANGED <<hpc, pageVars>>
    <3>1. \A g \in Handlers : TurnOf(g)' = TurnOf(g) /\ Written(g)' = Written(g)
      BY <2>3, SameToBrowser DEF pageVars
    <3> QED
      BY <2>3, <3>1 DEF Service!serviceVars, pageVars
  <2> QED
    BY <2>1, <2>2, <2>3, HandlersStay DEF allVars
<1> DEFINE Answered == \A h \in Handlers : hpc[h] = "shown" =>
             Written(h) \in {Service!BarePage(TRUE), Service!BarePage(FALSE)}
                              \cup Service!PagesAbout(EntityOf[id[h]])
<1>3. HInv /\ PagesInMaking => Answered
  BY WrittenIsAnswer
<1>4. HInv /\ HInv' /\ PagesInMaking /\ PagesInMaking' /\ Answered'
        /\ [HNext]_allVars => [Service!ServiceNext]_Service!serviceVars
  BY <1>2
<1> HIDE DEF Answered
<1> QED
  BY <1>1, <1>3, <1>4, PagesInMakingInv, HandlerInvariant, PTL
     DEF KeyProofsSpec, ImplementsService, Service!ServiceSpec
=============================================================================
