------------------------- MODULE WebApiPluginProofs -------------------------
(***************************************************************************)
(* WebApiPlugin for any tasks, sync workers, quota, cache size, concurrent *)
(* visits and faults.                                                      *)
(***************************************************************************)
EXTENDS WebApiPlugin, FiniteSetLemmas

---------------------------------------------------------------------------
(* The LRU map.  "newer" is a strict total order on the cached ids, and no *)
(* id has as many newer ones as the cache has room.                        *)

IsLruMap(map) ==
    /\ DOMAIN map \subseteq Ids
    /\ map \in [DOMAIN map -> Cached]
    /\ \A a \in DOMAIN map :
           /\ map[a].newer \subseteq DOMAIN map \ {a}
           /\ Cardinality(map[a].newer) < setup.size
           /\ \A b \in DOMAIN map : b = a \/ b \in map[a].newer \/ a \in map[b].newer
           /\ \A b \in map[a].newer : map[b].newer \subseteq map[a].newer

(* Ordered by use, the cache never holds more than it has room for.        *)
LEMMA RoomForAll ==
    ASSUME IsFiniteSet(Ids), setup \in Setups, IsLruMap(lru)
    PROVE  Cardinality(DOMAIN lru) =< setup.size
<1>1. setup.size \in Nat \ {0}
  BY PluginAssumption
<1>2. IsFiniteSet(DOMAIN lru)
  BY FS_Subset DEF IsLruMap
<1>3. CASE DOMAIN lru = {}
  BY <1>1, <1>3, FS_EmptySet
<1>4. CASE DOMAIN lru # {}
  <2> DEFINE rank(a) == Cardinality(lru[a].newer)
             Ranks == {rank(a) : a \in DOMAIN lru}
  <2>1. \A a \in DOMAIN lru : IsFiniteSet(lru[a].newer) /\ rank(a) \in Nat
    BY <1>2, FS_Subset, FS_CardinalityType DEF IsLruMap
  <2>2. Ranks \in SUBSET Int /\ Ranks # {}
    BY <1>4, <2>1
  <2>3. IsFiniteSet(Ranks)
    <3>1. ASSUME NEW a \in DOMAIN lru PROVE rank(a) \in 0..setup.size
      <4>1. rank(a) < setup.size
        BY DEF IsLruMap
      <4>2. rank(a) \in Nat
        BY <2>1
      <4> QED
        BY <1>1, <4>1, <4>2
    <3>2. Ranks \subseteq 0..setup.size
      BY <3>1
    <3>3. IsFiniteSet(0..setup.size)
      BY <1>1, FS_Interval
    <3> HIDE DEF Ranks
    <3> QED
      BY <3>2, <3>3, FS_Subset
  <2>4. PICK m \in DOMAIN lru : \A a \in DOMAIN lru : rank(a) =< rank(m)
    <3> HIDE DEF Ranks
    <3>1. PICK r \in Ranks : \A x \in Ranks : x =< r
      BY <2>2, <2>3, FiniteMax
    <3> QED
      BY <3>1 DEF Ranks
  <2>5. ASSUME NEW a \in DOMAIN lru, a # m PROVE a \in lru[m].newer
    <3>1. SUFFICES ASSUME a \notin lru[m].newer PROVE FALSE
      OBVIOUS
    <3>2. lru[m].newer \cup {m} \subseteq lru[a].newer
      BY <2>5, <3>1 DEF IsLruMap
    <3>3. m \notin lru[m].newer
      BY DEF IsLruMap
    <3>4. Cardinality(lru[m].newer \cup {m}) = rank(m) + 1 /\ IsFiniteSet(lru[m].newer \cup {m})
      BY <2>1, <3>3, FS_AddElement
    <3>5. rank(m) + 1 =< rank(a)
      BY <2>1, <3>2, <3>4, FS_Subset
    <3> QED
      BY <2>1, <2>4, <3>5
  <2>6. DOMAIN lru \ {m} = lru[m].newer
    BY <2>5 DEF IsLruMap
  <2>7. Cardinality(DOMAIN lru) = rank(m) + 1
    BY <1>2, <2>1, <2>6, FS_RemoveElement, FS_CardinalityType
  <2> QED
    BY <1>1, <2>1, <2>7 DEF IsLruMap
<1> QED
  BY <1>3, <1>4

(* What Add leaves in the cache is the item, or was there before.          *)
LEMMA AddedFacts ==
    ASSUME IsFiniteSet(Ids), setup \in Setups, IsLruMap(lru),
           NEW id \in Ids, NEW item \in Items
    PROVE  LET new == Added(id, item) IN
           /\ IsLruMap(new)
           /\ DOMAIN new \subseteq DOMAIN lru \cup {id}
           /\ id \in DOMAIN new
           /\ new[id].item = item
           /\ \A o \in DOMAIN new : o # id => new[o].item = lru[o].item
<1> DEFINE all == [o \in DOMAIN lru \cup {id} |->
                      IF o = id THEN [item |-> item, newer |-> {}]
                      ELSE [lru[o] EXCEPT !.newer = @ \cup {id}]]
           keep == {x \in DOMAIN all : Cardinality(all[x].newer) < setup.size}
           new == [o \in keep |-> all[o]]
<1>1. Added(id, item) = new
  BY DEF Added
<1>2. all[id] = [item |-> item, newer |-> {}]
  OBVIOUS
<1>3. \A o \in DOMAIN lru : o # id =>
          /\ all[o] = [item |-> lru[o].item, newer |-> lru[o].newer \cup {id}]
          /\ lru[o].item \in Items /\ lru[o].newer \in SUBSET Ids
  BY DEF IsLruMap, Cached
<1>4. DOMAIN all = DOMAIN lru \cup {id}
  OBVIOUS
<1>5. setup.size \in Nat \ {0}
  BY PluginAssumption
<1> HIDE DEF all
<1>6. id \in keep
  <2>1. all[id].newer = {} /\ Cardinality({}) = 0
    BY <1>2, FS_EmptySet
  <2> QED
    BY <1>4, <1>5, <2>1
<1>7. \A a \in keep : new[a] = all[a]
  OBVIOUS
<1>8. \A a \in DOMAIN all : all[a] \in Cached /\ IsFiniteSet(all[a].newer)
  BY <1>2, <1>3, <1>4, FS_Subset DEF Cached
<1>9. \A a \in DOMAIN all : \A b \in all[a].newer :
          b \in DOMAIN all /\ b # a /\ all[b].newer \subseteq all[a].newer
  BY <1>2, <1>3, <1>4 DEF IsLruMap
<1>10. \A a, b \in DOMAIN all : b = a \/ b \in all[a].newer \/ a \in all[b].newer
  BY <1>2, <1>3, <1>4 DEF IsLruMap
<1>11. ASSUME NEW a \in keep, NEW b \in all[a].newer PROVE b \in keep
  <2>1. Cardinality(all[b].newer) =< Cardinality(all[a].newer)
    BY <1>8, <1>9, FS_Subset
  <2>2. Cardinality(all[b].newer) \in Nat /\ Cardinality(all[a].newer) \in Nat
    BY <1>8, <1>9, FS_CardinalityType
  <2> QED
    BY <1>5, <1>9, <2>1, <2>2
<1>12. DOMAIN new = keep
  OBVIOUS
<1>13. new \in [keep -> Cached]
  BY <1>8
<1>14. \A a \in keep : Cardinality(all[a].newer) < setup.size
  OBVIOUS
<1>15. keep \subseteq DOMAIN all
  OBVIOUS
<1> HIDE DEF keep, new
<1>16. DOMAIN lru \subseteq Ids
  BY DEF IsLruMap
<1> QED
  BY <1>1, <1>2, <1>3, <1>4, <1>6, <1>7, <1>9, <1>10, <1>11, <1>12, <1>13, <1>14, <1>15, <1>16
  DEF IsLruMap

(* Removing ids keeps the others, with their items, in their order.        *)
LEMMA WithoutFacts ==
    ASSUME IsFiniteSet(Ids), setup \in Setups, NEW map, IsLruMap(map), NEW ids
    PROVE  /\ IsLruMap(Without(map, ids))
           /\ DOMAIN Without(map, ids) = DOMAIN map \ ids
           /\ \A o \in DOMAIN map \ ids : Without(map, ids)[o].item = map[o].item
<1> DEFINE new == Without(map, ids)
<1>1. DOMAIN new = DOMAIN map \ ids
  BY DEF Without
<1>2. \A o \in DOMAIN new :
          /\ new[o] = [item |-> map[o].item, newer |-> map[o].newer \ ids]
          /\ map[o].item \in Items /\ map[o].newer \in SUBSET Ids
  BY <1>1 DEF Without, IsLruMap, Cached
<1>3. \A o \in DOMAIN new : Cardinality(new[o].newer) < setup.size
  <2> SUFFICES ASSUME NEW o \in DOMAIN new PROVE Cardinality(new[o].newer) < setup.size
    OBVIOUS
  <2>1. IsFiniteSet(map[o].newer) /\ IsFiniteSet(new[o].newer)
    BY <1>2, FS_Subset
  <2>2. Cardinality(new[o].newer) =< Cardinality(map[o].newer)
    BY <1>2, <2>1, FS_Subset
  <2>3. Cardinality(map[o].newer) < setup.size /\ setup.size \in Nat
    BY <1>1, PluginAssumption DEF IsLruMap
  <2> QED
    BY <2>1, <2>2, <2>3, FS_CardinalityType
<1>4. new \in [DOMAIN new -> Cached]
  <2>1. new = [o \in DOMAIN new |-> new[o]]
    BY <1>1 DEF Without
  <2> HIDE DEF new
  <2> QED
    BY <1>2, <2>1 DEF Cached
<1> HIDE DEF new
<1>5. \A a \in DOMAIN new :
          /\ new[a].newer \subseteq DOMAIN new \ {a}
          /\ \A b \in DOMAIN new : b = a \/ b \in new[a].newer \/ a \in new[b].newer
          /\ \A b \in new[a].newer : new[b].newer \subseteq new[a].newer
  BY <1>1, <1>2 DEF IsLruMap
<1>6. DOMAIN new \subseteq Ids
  BY <1>1 DEF IsLruMap
<1> QED
  BY <1>1, <1>2, <1>3, <1>4, <1>5, <1>6 DEF IsLruMap, new

---------------------------------------------------------------------------
(* The inductive invariant.                                                *)

(* An item is of a resource that was created.  What it knows of the        *)
(* resource's end is true, however old the snapshot it was made from, and  *)
(* it has not seen more failed fetches than there were.                    *)
ItemIsTrue(item, resource, left) ==
    /\ item \in Items
    /\ item.failures + left =< MaxFaults
    /\ resource # "none"
    /\ item.resource = "terminated" => resource \in {"terminated", "deleted"}

CacheIsTrue ==
    /\ IsLruMap(lru)
    /\ \A id \in DOMAIN lru : ItemIsTrue(lru[id].item, remote[id], faults)
    /\ queue \subseteq Entries
    /\ \A b \in queue : ItemIsTrue(b.item, remote[b.id], faults)
    /\ working \in [SyncWorkers -> Answers \cup {Idle}]
    /\ \A w \in SyncWorkers :
           working[w] # Idle => ItemIsTrue(working[w].item, remote[working[w].id], faults)

(* The same of a task's plugin state: a phase with ResourceMeta has a      *)
(* resource, and a task that has come to its end leaves it running only if *)
(* the service gave no answer.                                             *)
StateIsTrue(s, resource, left) ==
    /\ s \in States
    /\ s.failures + left =< MaxFaults
    /\ s.phase \in {"ResourcesCreated", "Terminal"} =>
           /\ resource # "none"
           /\ s.node \in {"Ending", "Over"} /\ resource = "running" => s.unanswered

StatesAreTrue ==
    /\ state \in [Ids -> States] /\ visit \in [Ids -> Visits]
    /\ \A t \in Ids : StateIsTrue(state[t], remote[t], faults) /\ StateIsTrue(visit[t].next, remote[t], faults)

(* Who holds a token: a task that has something on the service, or whose   *)
(* recorded phase says that it was granted, or whose visit has been.       *)
Holds(t, s) == remote[t] # "none" \/ s.phase # "NotStarted"

TokensAreHeld ==
    \A t \in Ids :
        /\ state[t].node # "Over" => (Holds(t, state[t]) => t \in tokens)
        /\ state[t].node = "Over" => t \notin tokens
        /\ visit[t].step # "none" => state[t].node = "Active"
        /\ visit[t].step \in {"counted", "allowed"} => state[t].phase = "NotStarted"
        /\ visit[t].step = "handled" =>
               visit[t].next.node # "Over" /\ (Holds(t, visit[t].next) => t \in tokens)

(* Visits that have passed a check count as if they had the token: the     *)
(* quota's, and then the constraints'.                                     *)
Counted == {t \in Ids : visit[t].step \in {"counted", "allowed"}}
Allowed == {t \in Ids : visit[t].step = "allowed"}

VisitsAreBounded ==
    /\ Cardinality(Visited) =< setup.workers
    /\ Cardinality(tokens \cup Counted) < Quota + setup.workers
    /\ \A P \in Projects : Cardinality((tokens \cup Allowed) \cap P) < ProjectQuota + setup.workers

Rest ==
    /\ setup \in Setups /\ faults \in 0..MaxFaults
    /\ toDelete \subseteq Ids /\ processing \subseteq Ids /\ marking \subseteq Ids /\ tokens \subseteq Ids
    /\ remote \in [Ids -> {"none", "running", "terminated", "deleted"}]

IInv ==
    /\ Rest /\ CacheIsTrue /\ StatesAreTrue /\ TokensAreHeld /\ VisitsAreBounded

---------------------------------------------------------------------------
(* Faults are used up, and a resource goes from none over running to its   *)
(* end: what is true of an item or of a plugin state stays true.           *)

RemoteGoesOn ==
    \A t \in Ids : \/ remote'[t] = remote[t]
                   \/ remote[t] = "none" /\ remote'[t] = "running"
                   \/ remote[t] = "running" /\ remote'[t] \in {"terminated", "deleted"}

GoesOn ==
    /\ setup' = setup
    /\ faults' \in 0..faults
    /\ remote' \in [Ids -> {"none", "running", "terminated", "deleted"}]
    /\ RemoteGoesOn

LEMMA StepGoesOn ==
    ASSUME Rest, StatesAreTrue, [Next]_vars
    PROVE  GoesOn
<1> USE DEF Rest, GoesOn, RemoteGoesOn
<1>1. ASSUME NEW t \in Ids, Handle(t) PROVE GoesOn
  <2>1. CASE AskForToken(t) \/ CheckConstraints(t) \/ AddToken(t) \/ LaunchTerminated(t)
    BY <2>1 DEF AskForToken, CheckConstraints, AddToken, LaunchTerminated, cacheVars
  <2>2. CASE Launch(t)
    BY <2>2 DEF Launch, Created
  <2>3. CASE Monitor(t)
    BY <2>3 DEF Monitor
  <2> QED
    BY <1>1, <2>1, <2>2, <2>3 DEF Handle
<1>2. ASSUME NEW t \in Ids, LaunchFails(t) PROVE GoesOn
  BY <1>2, CacheAssumption DEF LaunchFails, Created
<1>3. ASSUME NEW t \in Ids, StoreVisit(t) \/ LoseVisit(t) PROVE GoesOn
  BY <1>3, CacheAssumption DEF StoreVisit, LoseVisit, cacheVars
<1>4. ASSUME NEW t \in Ids, EndTask(t) \/ AbortTask(t) \/ AbortFails(t) PROVE GoesOn
  BY <1>4, CacheAssumption DEF EndTask, AbortTask, AbortFails, Finishes, Deleted
<1>5. ASSUME NEW t \in Ids, RemoteEnds(t) PROVE GoesOn
  BY <1>5 DEF RemoteEnds, cacheVars
<1>6. ASSUME NEW t \in Ids, Enqueue(t) \/ SetMark(t) \/ DropMark(t) PROVE GoesOn
  BY <1>6 DEF Enqueue, EnqueueBatch, SetMark, Mark, DropMark, MarkExpires, InCache
<1>7. ASSUME NEW t \in Ids, Take(t) PROVE GoesOn
  <2>1. PICK w \in SyncWorkers : TakeBatch(w, t, Fetched(t))
    BY <1>7 DEF Take
  <2>2. setup' = setup /\ remote' = remote
    BY <1>7, <2>1 DEF Take, TakeBatch, InCache
  <2>3. \A item, fetched : \A r \in SyncResource(item, fetched) : r.fault \in {0, 1}
    BY DEF SyncResource
  <2>4. faults' \in 0..faults
    BY <2>1, <2>3, CacheAssumption DEF TakeBatch
  <2> QED
    BY <2>2, <2>4
<1>8. ASSUME NEW w \in SyncWorkers, Apply(w) PROVE GoesOn
  BY <1>8 DEF Apply, ApplyBatch, InCache
<1>9. CASE Restart
  BY <1>9, CacheAssumption DEF Restart, CacheRestart
<1>10. CASE Done \/ UNCHANGED vars
  BY <1>10 DEF Done, vars, cacheVars
<1> QED
  BY <1>1, <1>2, <1>3, <1>4, <1>5, <1>6, <1>7, <1>8, <1>9, <1>10 DEF Next

LEMMA TruthLasts ==
    ASSUME Rest, GoesOn, NEW id \in Ids
    PROVE  /\ \A item : ItemIsTrue(item, remote[id], faults) => ItemIsTrue(item, remote'[id], faults')
           /\ \A s : StateIsTrue(s, remote[id], faults) => StateIsTrue(s, remote'[id], faults')
<1>1. faults \in Int /\ faults' \in Int /\ faults' =< faults /\ MaxFaults \in Int
  BY CacheAssumption DEF Rest, GoesOn
<1>2. \A item : item \in Items => item.failures \in Int
  BY CacheAssumption DEF Items
<1>3. \A s : s \in States => s.failures \in Int
  BY CacheAssumption DEF States
<1> QED
  BY <1>1, <1>2, <1>3 DEF GoesOn, RemoteGoesOn, ItemIsTrue, StateIsTrue

LEMMA RestStep ==
    ASSUME Rest, CacheIsTrue, StatesAreTrue, [Next]_vars
    PROVE  Rest'
<1>1. setup' \in Setups /\ faults' \in 0..MaxFaults
      /\ remote' \in [Ids -> {"none", "running", "terminated", "deleted"}]
  BY StepGoesOn, CacheAssumption DEF Rest, GoesOn
<1> DEFINE Sets == toDelete \subseteq Ids /\ processing \subseteq Ids /\ marking \subseteq Ids /\ tokens \subseteq Ids
<1>2. Sets'
  <2> USE DEF Rest
  <2>1. ASSUME NEW t \in Ids, Handle(t) PROVE Sets'
    BY <2>1 DEF Handle, AskForToken, CheckConstraints, AddToken, Launch, LaunchTerminated, Monitor,
                cacheVars, marks, GetOrCreate, Queued, DeleteDelayed
  <2>2. ASSUME NEW t \in Ids, LaunchFails(t) \/ StoreVisit(t) \/ LoseVisit(t) \/ RemoteEnds(t) PROVE Sets'
    BY <2>2 DEF LaunchFails, StoreVisit, LoseVisit, RemoteEnds, cacheVars, marks
  <2>3. ASSUME NEW t \in Ids, EndTask(t) \/ AbortTask(t) \/ AbortFails(t) PROVE Sets'
    BY <2>3 DEF EndTask, AbortTask, AbortFails, Finishes, Finalize, DeleteDelayed, marks
  <2>4. ASSUME NEW t \in Ids, Enqueue(t) \/ SetMark(t) \/ DropMark(t) PROVE Sets'
    BY <2>4 DEF Enqueue, EnqueueBatch, SetMark, Mark, DropMark, MarkExpires, Queued, InCache, marks
  <2>5. ASSUME NEW t \in Ids, Take(t) PROVE Sets'
    BY <2>5 DEF Take, TakeBatch, InCache
  <2>6. ASSUME NEW w \in SyncWorkers, Apply(w) PROVE Sets'
    BY <2>6 DEF Apply, ApplyBatch, InCache, marks
  <2>7. CASE Restart
    BY <2>7 DEF Restart, CacheRestart
  <2>8. CASE Done \/ UNCHANGED vars
    BY <2>8 DEF Done, vars, cacheVars, marks
  <2> QED
    BY <2>1, <2>2, <2>3, <2>4, <2>5, <2>6, <2>7, <2>8 DEF Next
<1> QED
  BY <1>1, <1>2 DEF Rest

---------------------------------------------------------------------------
(* The cache: what it says stays true.                                     *)

(* The parts of the cache are true after a step if each item in them is    *)
(* one that was there before, or true now.                                 *)
LEMMA CacheStaysTrue ==
    ASSUME Rest, CacheIsTrue, GoesOn,
           IsLruMap(lru'),
           \A id \in DOMAIN lru' :
               \/ id \in DOMAIN lru /\ lru'[id].item = lru[id].item
               \/ ItemIsTrue(lru'[id].item, remote'[id], faults'),
           \A b \in queue' : b \in queue \/ (b \in Entries /\ ItemIsTrue(b.item, remote'[b.id], faults')),
           working' \in [SyncWorkers -> Answers \cup {Idle}],
           \A w \in SyncWorkers :
               \/ working'[w] \in {Idle, working[w]}
               \/ ItemIsTrue(working'[w].item, remote'[working'[w].id], faults')
    PROVE  CacheIsTrue'
<1>1. IsLruMap(lru)'
  BY DEF GoesOn, IsLruMap
<1>2. \A id \in DOMAIN lru' : ItemIsTrue(lru'[id].item, remote'[id], faults')
  BY TruthLasts DEF CacheIsTrue, IsLruMap
<1>3. queue' \subseteq Entries /\ \A b \in queue' : ItemIsTrue(b.item, remote'[b.id], faults')
  BY TruthLasts DEF CacheIsTrue, Entries
<1>4. \A w \in SyncWorkers : working'[w] # Idle => ItemIsTrue(working'[w].item, remote'[working'[w].id], faults')
  <2> SUFFICES ASSUME NEW w \in SyncWorkers, working'[w] # Idle
               PROVE  ItemIsTrue(working'[w].item, remote'[working'[w].id], faults')
    OBVIOUS
  <2>1. CASE working'[w] = working[w]
    <3>1. working[w] \in Answers /\ ItemIsTrue(working[w].item, remote[working[w].id], faults)
      BY <2>1 DEF CacheIsTrue
    <3>2. working[w].id \in Ids
      BY <3>1 DEF Answers
    <3>3. \A item : ItemIsTrue(item, remote[working[w].id], faults) => ItemIsTrue(item, remote'[working'[w].id], faults')
      BY <2>1, <3>2, TruthLasts
    <3>4. working'[w].item = working[w].item
      BY <2>1
    <3> QED
      BY <3>1, <3>3, <3>4
  <2> QED
    BY <2>1
<1> QED
  BY <1>1, <1>2, <1>3, <1>4 DEF CacheIsTrue

(* A visit looks its item up, or creates it.                               *)
LEMMA GetOrCreateIsTrue ==
    ASSUME Rest, CacheIsTrue, GoesOn, NEW id \in Ids, NEW item \in Items,
           ItemIsTrue(item, remote'[id], faults'), GetOrCreate(id, item), working' = working
    PROVE  CacheIsTrue'
<1>1. CASE Has(id)
  <2>1. ItemOf(id) \in Items /\ ItemOf(id) = lru[id].item
    BY <1>1 DEF Has, ItemOf, CacheIsTrue, ItemIsTrue
  <2>2. lru' = Added(id, ItemOf(id)) /\ queue' = queue
    BY <1>1 DEF GetOrCreate
  <2>3. IsLruMap(lru') /\ \A o \in DOMAIN lru' : o \in DOMAIN lru /\ lru'[o].item = lru[o].item
    BY <1>1, <2>1, <2>2, AddedFacts, PluginAssumption DEF CacheIsTrue, Rest, Has
  <2> QED
    BY <2>2, <2>3, CacheStaysTrue DEF CacheIsTrue
<1>2. CASE ~Has(id)
  <2>1. lru' = Added(id, item) /\ queue' = queue \cup {Entry(id, item)}
    BY <1>2 DEF GetOrCreate, Queued
  <2>2. /\ IsLruMap(lru')
        /\ \A o \in DOMAIN lru' : \/ o \in DOMAIN lru /\ lru'[o].item = lru[o].item
                                  \/ o = id /\ lru'[o].item = item
    BY <2>1, AddedFacts, PluginAssumption DEF CacheIsTrue, Rest
  <2>3. \A o \in DOMAIN lru' : \/ o \in DOMAIN lru /\ lru'[o].item = lru[o].item
                              \/ ItemIsTrue(lru'[o].item, remote'[o], faults')
    BY <2>2
  <2>4. Entry(id, item) \in Entries /\ Entry(id, item).id = id /\ Entry(id, item).item = item
    BY DEF Entry, Entries
  <2>5. \A b \in queue' : b \in queue \/ (b \in Entries /\ ItemIsTrue(b.item, remote'[b.id], faults'))
    BY <2>1, <2>4
  <2> QED
    BY <2>2, <2>3, <2>5, CacheStaysTrue DEF CacheIsTrue
<1> QED
  BY <1>1, <1>2

(* What a worker makes of a true snapshot is true: the service's answer is *)
(* what it is now, and a failed fetch is paid for with a fault.            *)
LEMMA SyncedIsTrue ==
    ASSUME Rest, NEW id \in Ids, NEW item \in Items, ItemIsTrue(item, remote[id], faults),
           NEW r \in SyncResource(item, Fetched(id)),
           faults >= r.fault, faults' = faults - r.fault, remote' = remote
    PROVE  ItemIsTrue(r.item, remote'[id], faults') /\ r.isUpdate \in BOOLEAN
<1>1. /\ item = [phase |-> item.phase, failures |-> item.failures, resource |-> item.resource]
      /\ item.phase \in {"ResourcesCreated", "SystemFailure"}
      /\ item.failures \in 0..MaxFaults /\ item.resource \in Resources
  BY DEF Items
<1>2. remote[id] \in {"running", "terminated", "deleted"}
  BY DEF Rest, ItemIsTrue
<1>3. Fetched(id) \in Resources
      /\ (Fetched(id) = "terminated" => remote[id] \in {"terminated", "deleted"})
  BY <1>2 DEF Fetched, Resources
<1>4. CASE r = [item |-> item, isUpdate |-> FALSE, fault |-> 0]
  BY <1>4 DEF ItemIsTrue, Rest
<1>5. CASE r = [item |-> [item EXCEPT !.phase = "SystemFailure"], isUpdate |-> TRUE, fault |-> 0]
  BY <1>1, <1>5 DEF ItemIsTrue, Rest, Items
<1>6. CASE r = [item |-> [item EXCEPT !.resource = Fetched(id)], isUpdate |-> TRUE, fault |-> 0]
  BY <1>1, <1>3, <1>6 DEF ItemIsTrue, Rest, Items
<1>7. CASE r = [item |-> [item EXCEPT !.failures = @ + 1], isUpdate |-> TRUE, fault |-> 1]
  BY <1>1, <1>7, CacheAssumption DEF ItemIsTrue, Rest, Items
<1> QED
  BY <1>4, <1>5, <1>6, <1>7 DEF SyncResource

(* Both ends of sync's loop, and the loop that fills the queue.            *)
LEMMA EnqueueIsTrue ==
    ASSUME Rest, CacheIsTrue, GoesOn, NEW id \in Ids, Enqueue(id)
    PROVE  CacheIsTrue'
<1>1. Has(id) /\ working' = working /\ id \in DOMAIN lru
  BY DEF Enqueue, EnqueueBatch, Has
<1>2. CASE lru' = Without(lru, {id}) /\ queue' = queue
  <2>1. IsLruMap(lru') /\ \A o \in DOMAIN lru' : o \in DOMAIN lru /\ lru'[o].item = lru[o].item
    <3>1. IsLruMap(lru) /\ setup \in Setups /\ IsFiniteSet(Ids)
      BY PluginAssumption DEF CacheIsTrue, Rest
    <3>2. IsLruMap(Without(lru, {id}))
      BY <3>1, WithoutFacts
    <3>3. DOMAIN Without(lru, {id}) = DOMAIN lru \ {id}
      BY <3>1, WithoutFacts
    <3>4. \A o \in DOMAIN lru \ {id} : Without(lru, {id})[o].item = lru[o].item
      BY <3>1, WithoutFacts
    <3> QED
      BY <1>2, <3>2, <3>3, <3>4
  <2> QED
    BY <1>1, <1>2, <2>1, CacheStaysTrue DEF CacheIsTrue
<1>3. CASE lru' = lru /\ queue' = queue \cup {Entry(id, ItemOf(id))}
  <2> DEFINE b == Entry(id, lru[id].item)
  <2>1. ItemIsTrue(lru[id].item, remote'[id], faults') /\ lru[id].item \in Items
    BY <1>1, TruthLasts DEF CacheIsTrue, ItemIsTrue
  <2>2. b \in Entries /\ b.id = id /\ b.item = lru[id].item
    BY <2>1 DEF Entry, Entries
  <2>3. \A x \in queue' : x \in queue \/ x = b
    BY <1>3 DEF ItemOf
  <2> HIDE DEF b
  <2>4. \A x \in queue' : x \in queue \/ (x \in Entries /\ ItemIsTrue(x.item, remote'[x.id], faults'))
    BY <2>1, <2>2, <2>3
  <2> QED
    BY <1>1, <1>3, <2>4, CacheStaysTrue DEF CacheIsTrue
<1> QED
  BY <1>2, <1>3 DEF Enqueue, EnqueueBatch, Queued

LEMMA TakeIsTrue ==
    ASSUME Rest, CacheIsTrue, GoesOn, NEW id \in Ids, Take(id)
    PROVE  CacheIsTrue'
<1>1. PICK w \in SyncWorkers : TakeBatch(w, id, Fetched(id))
  BY DEF Take
<1>2. remote' = remote
  BY DEF Take, InCache
<1>3. PICK b \in queue :
          /\ b.id = id /\ queue' = queue \ {b}
          /\ \/ /\ IsPending(id)
                /\ lru' = Added(id, ItemOf(id))
                /\ \E r \in SyncResource(b.item, Fetched(id)) :
                       /\ faults >= r.fault
                       /\ faults' = faults - r.fault
                       /\ working' = [working EXCEPT ![w] = [id |-> id, item |-> r.item, isUpdate |-> r.isUpdate]]
             \/ /\ lru' = IF Has(id) THEN Added(id, ItemOf(id)) ELSE lru
                /\ working' = working
  BY <1>1 DEF TakeBatch
<1>4. b.item \in Items /\ ItemIsTrue(b.item, remote[id], faults)
  BY <1>3 DEF CacheIsTrue, ItemIsTrue
<1>5. lru' = lru \/ (Has(id) /\ lru' = Added(id, ItemOf(id)))
  BY <1>3 DEF IsPending
<1>6. IsLruMap(lru') /\ \A o \in DOMAIN lru' : o \in DOMAIN lru /\ lru'[o].item = lru[o].item
  <2>1. CASE lru' = lru
    BY <2>1 DEF CacheIsTrue
  <2>2. CASE Has(id) /\ lru' = Added(id, ItemOf(id))
    <3>1. ItemOf(id) \in Items /\ ItemOf(id) = lru[id].item
      BY <2>2 DEF Has, ItemOf, CacheIsTrue, ItemIsTrue
    <3> QED
      BY <2>2, <3>1, AddedFacts, PluginAssumption DEF CacheIsTrue, Rest, Has
  <2> QED
    BY <1>5, <2>1, <2>2
<1>7. \A x \in queue' : x \in queue
  BY <1>3
<1>8. CASE working' = working
  BY <1>6, <1>7, <1>8, CacheStaysTrue DEF CacheIsTrue
<1>9. CASE working' # working
  <2>1. PICK r \in SyncResource(b.item, Fetched(id)) :
            /\ faults >= r.fault /\ faults' = faults - r.fault
            /\ working' = [working EXCEPT ![w] = [id |-> id, item |-> r.item, isUpdate |-> r.isUpdate]]
    BY <1>3, <1>9
  <2>2. ItemIsTrue(r.item, remote'[id], faults') /\ r.isUpdate \in BOOLEAN
    BY <1>2, <1>4, <2>1, SyncedIsTrue
  <2>3. r.item \in Items
    BY <2>2 DEF ItemIsTrue
  <2>4. working' \in [SyncWorkers -> Answers \cup {Idle}]
    BY <2>1, <2>2, <2>3 DEF CacheIsTrue, Answers
  <2>5. /\ working'[w].id = id /\ working'[w].item = r.item
        /\ \A v \in SyncWorkers \ {w} : working'[v] = working[v]
    BY <2>1 DEF CacheIsTrue
  <2>6. \A v \in SyncWorkers : \/ working'[v] \in {Idle, working[v]}
                              \/ ItemIsTrue(working'[v].item, remote'[working'[v].id], faults')
    BY <2>2, <2>5
  <2> QED
    BY <1>6, <1>7, <2>4, <2>6, CacheStaysTrue
<1> QED
  BY <1>8, <1>9

LEMMA ApplyIsTrue ==
    ASSUME Rest, CacheIsTrue, GoesOn, NEW w \in SyncWorkers, Apply(w)
    PROVE  CacheIsTrue'
<1> DEFINE b == working[w]
           updated == IF b.isUpdate /\ Has(b.id) THEN Added(b.id, b.item) ELSE lru
<1>1. /\ b # Idle /\ lru' = Without(updated, toDelete) /\ queue' = queue
      /\ working' = [working EXCEPT ![w] = Idle]
  BY DEF Apply, ApplyBatch
<1>2. b \in Answers /\ ItemIsTrue(b.item, remote[b.id], faults)
  BY <1>1 DEF CacheIsTrue
<1>3. b.id \in Ids /\ b.item \in Items
  BY <1>2 DEF Answers
<1> DEFINE id == b.id
           item == b.item
<1>5. id \in Ids /\ item \in Items /\ ItemIsTrue(item, remote[id], faults)
      /\ (updated = lru \/ updated = Added(id, item))
  BY <1>2, <1>3
<1>6. /\ IsLruMap(updated)
      /\ \A o \in DOMAIN updated :
             \/ o \in DOMAIN lru /\ updated[o].item = lru[o].item
             \/ o = id /\ updated[o].item = item
  <2> HIDE DEF updated, id, item
  <2>1. CASE updated = lru
    BY <2>1 DEF CacheIsTrue
  <2>2. CASE updated = Added(id, item)
    BY <1>5, <2>2, AddedFacts, PluginAssumption DEF CacheIsTrue, Rest
  <2> QED
    BY <1>5, <2>1, <2>2
<1>7. /\ IsLruMap(lru')
      /\ \A o \in DOMAIN lru' : o \in DOMAIN updated /\ lru'[o].item = updated[o].item
  <2> HIDE DEF updated
  <2>1. setup \in Setups /\ IsFiniteSet(Ids)
    BY PluginAssumption DEF Rest
  <2>2. IsLruMap(Without(updated, toDelete))
    BY <1>6, <2>1, WithoutFacts
  <2>3. DOMAIN Without(updated, toDelete) = DOMAIN updated \ toDelete
    BY <1>6, <2>1, WithoutFacts
  <2>4. \A o \in DOMAIN updated \ toDelete : Without(updated, toDelete)[o].item = updated[o].item
    BY <1>6, <2>1, WithoutFacts
  <2> QED
    BY <1>1, <2>2, <2>3, <2>4
<1>8. working' \in [SyncWorkers -> Answers \cup {Idle}]
      /\ \A v \in SyncWorkers : working'[v] \in {Idle, working[v]}
  BY <1>1 DEF CacheIsTrue
<1> HIDE DEF updated
<1>9. PICK i, x : i = id /\ x = item
  OBVIOUS
<1> HIDE DEF id, item, b
<1>10. ItemIsTrue(x, remote[i], faults) /\ i \in Ids
  BY <1>5, <1>9
<1>11. ItemIsTrue(x, remote'[i], faults')
  BY <1>10, TruthLasts
<1>12. \A o \in DOMAIN lru' : \/ o \in DOMAIN lru /\ lru'[o].item = lru[o].item
                             \/ ItemIsTrue(lru'[o].item, remote'[o], faults')
  BY <1>6, <1>7, <1>9, <1>11
<1> QED
  BY <1>1, <1>7, <1>8, <1>12, CacheStaysTrue

LEMMA CacheStep ==
    ASSUME Rest, CacheIsTrue, StatesAreTrue, [Next]_vars
    PROVE  CacheIsTrue'
<1>1. GoesOn
  BY StepGoesOn
<1>2. ASSUME lru' = lru, queue' = queue, working' = working PROVE CacheIsTrue'
  BY <1>1, <1>2, CacheStaysTrue DEF CacheIsTrue
<1>3. ASSUME NEW t \in Ids, Handle(t) PROVE CacheIsTrue'
  <2> DEFINE fresh == [phase |-> "ResourcesCreated", failures |-> state[t].failures, resource |-> "nil"]
  <2>1. state[t].failures \in 0..MaxFaults /\ state[t].failures + faults' =< MaxFaults
    BY <1>1, CacheAssumption DEF StatesAreTrue, StateIsTrue, States, GoesOn, Rest
  <2>2. fresh \in Items /\ fresh.failures + faults' =< MaxFaults /\ fresh.resource # "terminated"
    BY <2>1 DEF Items, Resources
  <2>3. CASE AskForToken(t) \/ CheckConstraints(t) \/ AddToken(t) \/ LaunchTerminated(t)
    BY <1>2, <2>3 DEF AskForToken, CheckConstraints, AddToken, LaunchTerminated, cacheVars
  <2>4. CASE Launch(t)
    <3>1. GetOrCreate(t, fresh) /\ working' = working
      BY <2>4 DEF Launch
    <3>2. remote'[t] # "none"
      BY <2>4 DEF Launch, Created, Rest
    <3> HIDE DEF fresh
    <3>3. ItemIsTrue(fresh, remote'[t], faults')
      BY <2>2, <3>2 DEF ItemIsTrue
    <3> QED
      BY <1>1, <2>2, <3>1, <3>3, GetOrCreateIsTrue
  <2>5. CASE Monitor(t)
    <3>1. GetOrCreate(t, fresh) /\ working' = working /\ remote' = remote
      BY <2>5 DEF Monitor
    <3>2. remote'[t] # "none"
      BY <2>5, <3>1 DEF Monitor, CanBegin, StatesAreTrue, StateIsTrue
    <3> HIDE DEF fresh
    <3>3. ItemIsTrue(fresh, remote'[t], faults')
      BY <2>2, <3>2 DEF ItemIsTrue
    <3> QED
      BY <1>1, <2>2, <3>1, <3>3, GetOrCreateIsTrue
  <2> QED
    BY <1>3, <2>3, <2>4, <2>5 DEF Handle
<1>4. ASSUME NEW t \in Ids, LaunchFails(t) \/ StoreVisit(t) \/ LoseVisit(t) \/ RemoteEnds(t)
      PROVE  CacheIsTrue'
  BY <1>2, <1>4 DEF LaunchFails, StoreVisit, LoseVisit, RemoteEnds, cacheVars
<1>5. ASSUME NEW t \in Ids, EndTask(t) \/ AbortTask(t) \/ AbortFails(t) PROVE CacheIsTrue'
  BY <1>2, <1>5 DEF EndTask, AbortTask, AbortFails, Finishes
<1>6. ASSUME NEW t \in Ids, Enqueue(t) \/ Take(t) \/ SetMark(t) \/ DropMark(t) PROVE CacheIsTrue'
  BY <1>1, <1>2, <1>6, EnqueueIsTrue, TakeIsTrue DEF SetMark, Mark, DropMark, MarkExpires
<1>7. ASSUME NEW w \in SyncWorkers, Apply(w) PROVE CacheIsTrue'
  BY <1>1, <1>7, ApplyIsTrue
<1>8. CASE Restart
  <2>1. lru' = [id \in {} |-> Idle] /\ queue' = {} /\ working' = [w \in SyncWorkers |-> Idle]
    BY <1>8 DEF Restart, CacheRestart
  <2>2. IsLruMap(lru')
    BY <2>1 DEF IsLruMap
  <2> QED
    BY <1>1, <2>1, <2>2, CacheStaysTrue
<1>9. CASE Done \/ UNCHANGED vars
  BY <1>2, <1>9 DEF Done, vars, cacheVars
<1> QED
  BY <1>3, <1>4, <1>5, <1>6, <1>7, <1>8, <1>9 DEF Next

---------------------------------------------------------------------------
(* The plugin states, recorded or about to be.                             *)

(* What holds of the other tasks' states is kept.                          *)
LEMMA StatesStayTrue ==
    ASSUME Rest, StatesAreTrue, GoesOn,
           state' \in [Ids -> States], visit' \in [Ids -> Visits],
           \A t \in Ids : \/ state'[t] = state[t]
                          \/ StateIsTrue(state'[t], remote'[t], faults'),
           \A t \in Ids : \/ visit'[t].next \in {visit[t].next, state[t]}
                          \/ StateIsTrue(visit'[t].next, remote'[t], faults')
    PROVE  StatesAreTrue'
<1> SUFFICES ASSUME NEW t \in Ids
             PROVE  /\ StateIsTrue(state'[t], remote'[t], faults')
                    /\ StateIsTrue(visit'[t].next, remote'[t], faults')
  BY DEF StatesAreTrue
<1>1. \A s : StateIsTrue(s, remote[t], faults) => StateIsTrue(s, remote'[t], faults')
  BY TruthLasts
<1> QED
  BY <1>1 DEF StatesAreTrue

(* The end of a visit of t that is handled with a state next.              *)
LEMMA GoesIsTrue ==
    ASSUME Rest, StatesAreTrue, GoesOn, state' = state, NEW t \in Ids, NEW next \in States,
           NEW step \in {"none", "counted", "allowed", "handled"},
           Goes(t, step, next), StateIsTrue(next, remote'[t], faults')
    PROVE  StatesAreTrue'
<1>1. visit' = [visit EXCEPT ![t] = [step |-> step, next |-> next]]
  BY DEF Goes
<1>2. visit' \in [Ids -> Visits] /\ visit'[t].next = next
      /\ \A u \in Ids \ {t} : visit'[u] = visit[u]
  BY <1>1 DEF StatesAreTrue, Visits
<1> QED
  BY <1>2, StatesStayTrue DEF StatesAreTrue

LEMMA HandleStates ==
    ASSUME Rest, CacheIsTrue, StatesAreTrue, GoesOn, NEW t \in Ids,
           Handle(t) \/ LaunchFails(t)
    PROVE  StatesAreTrue'
<1> DEFINE s == state[t]
<1>1. /\ s \in States
      /\ s = [phase |-> s.phase, failures |-> s.failures, node |-> s.node, unanswered |-> s.unanswered]
      /\ StateIsTrue(s, remote'[t], faults')
  BY TruthLasts DEF StatesAreTrue, States
<1>2. CASE AskForToken(t)
  <2>1. Granted(t) = [s EXCEPT !.phase = "AllocationTokenAcquired"] /\ state' = state
    BY <1>2 DEF Granted, AskForToken, cacheVars
  <2>2. Granted(t) \in States /\ StateIsTrue(Granted(t), remote'[t], faults')
    BY <1>1, <2>1 DEF States, StateIsTrue
  <2>3. \/ Goes(t, "handled", Granted(t)) \/ Goes(t, "counted", s) \/ Goes(t, "handled", s)
    BY <1>2 DEF AskForToken
  <2> QED
    BY <1>1, <2>1, <2>2, <2>3, GoesIsTrue
<1>3. CASE AddToken(t)
  <2>1. Granted(t) = [s EXCEPT !.phase = "AllocationTokenAcquired"] /\ state' = state
    BY <1>3 DEF Granted, AddToken, cacheVars
  <2>2. Granted(t) \in States /\ StateIsTrue(Granted(t), remote'[t], faults')
    BY <1>1, <2>1 DEF States, StateIsTrue
  <2> QED
    BY <1>3, <2>1, <2>2, GoesIsTrue DEF AddToken
<1>4. CASE Launch(t)
  <2> DEFINE next == [s EXCEPT !.phase = "ResourcesCreated"]
  <2>1. Goes(t, "handled", next) /\ state' = state /\ s.node = "Active"
    BY <1>4 DEF Launch, CanBegin
  <2>2. remote'[t] # "none"
    BY <1>4 DEF Launch, Created, Rest
  <2>3. next \in States /\ StateIsTrue(next, remote'[t], faults')
    BY <1>1, <2>1, <2>2 DEF States, StateIsTrue
  <2> QED
    BY <2>1, <2>3, GoesIsTrue
<1>5. CASE LaunchTerminated(t) \/ LaunchFails(t)
  <2>1. Goes(t, "handled", Ends(t)) /\ state' = state /\ s.phase = "AllocationTokenAcquired"
    BY <1>5 DEF LaunchTerminated, LaunchFails, CanBegin
  <2>2. Ends(t) \in States /\ StateIsTrue(Ends(t), remote'[t], faults')
    BY <1>1, <2>1 DEF States, StateIsTrue, Ends
  <2> QED
    BY <2>1, <2>2, GoesIsTrue
<1>6. CASE Monitor(t)
  <2> DEFINE fresh == [phase |-> "ResourcesCreated", failures |-> s.failures, resource |-> "nil"]
             item == IF Has(t) THEN ItemOf(t) ELSE fresh
             seen == [s EXCEPT !.failures = item.failures]
  <2>1. /\ state' = state /\ remote' = remote /\ faults' = faults
        /\ s.node = "Active" /\ s.phase = "ResourcesCreated"
        /\ \/ Goes(t, "handled", [Ends(t) EXCEPT !.unanswered = TRUE])
           \/ Goes(t, "handled", s)
           \/ Goes(t, "handled", seen)
           \/ /\ item.resource = "terminated"
              /\ Goes(t, "handled", [seen EXCEPT !.phase = "Terminal", !.node = "Ending"])
    BY <1>6 DEF Monitor, CanBegin
  <2>2. remote[t] # "none"
    BY <1>1, <2>1 DEF StateIsTrue
  <2>3. ItemIsTrue(item, remote[t], faults)
    <3>1. CASE Has(t)
      BY <3>1 DEF CacheIsTrue, Has, ItemOf
    <3>2. CASE ~Has(t)
      <4>1. item = fresh
        BY <3>2
      <4> QED
        BY <1>1, <2>1, <2>2, <4>1 DEF ItemIsTrue, StateIsTrue, Items, Resources, States
    <3> QED
      BY <3>1, <3>2
  <2>4. /\ item.failures \in 0..MaxFaults /\ item.failures + faults =< MaxFaults
        /\ item.resource = "terminated" => remote[t] \in {"terminated", "deleted"}
    BY <2>3 DEF ItemIsTrue, Items
  <2>5. item.resource = "terminated" => remote[t] # "running"
    BY <2>4
  <2> HIDE DEF item
  <2>6. seen \in States /\ StateIsTrue(seen, remote'[t], faults')
    BY <1>1, <2>1, <2>2, <2>4 DEF States, StateIsTrue
  <2> DEFINE unanswered == [Ends(t) EXCEPT !.unanswered = TRUE]
             terminal == [seen EXCEPT !.phase = "Terminal", !.node = "Ending"]
  <2>7. unanswered \in States /\ StateIsTrue(unanswered, remote'[t], faults')
    BY <1>1, <2>1, <2>2 DEF States, StateIsTrue, Ends
  <2>8. item.resource = "terminated" => terminal \in States /\ StateIsTrue(terminal, remote'[t], faults')
    BY <1>1, <2>1, <2>2, <2>4, <2>5 DEF States, StateIsTrue
  <2>9. \E next \in States : Goes(t, "handled", next) /\ StateIsTrue(next, remote'[t], faults')
    <3> HIDE DEF seen, unanswered, terminal
    <3> QED
      BY <1>1, <2>1, <2>6, <2>7, <2>8 DEF unanswered, terminal
  <2> QED
    BY <2>1, <2>9, GoesIsTrue
<1>7. CASE CheckConstraints(t)
  <2>1. state' = state /\ (Goes(t, "allowed", s) \/ Goes(t, "handled", s))
    BY <1>7 DEF CheckConstraints
  <2> QED
    BY <1>1, <2>1, GoesIsTrue
<1> QED
  BY <1>2, <1>3, <1>4, <1>5, <1>6, <1>7 DEF Handle

LEMMA StatesStep ==
    ASSUME Rest, CacheIsTrue, StatesAreTrue, [Next]_vars
    PROVE  StatesAreTrue'
<1>1. GoesOn
  BY StepGoesOn
<1>2. ASSUME state' = state, visit' = visit PROVE StatesAreTrue'
  BY <1>1, <1>2, StatesStayTrue DEF StatesAreTrue
<1>3. ASSUME NEW t \in Ids, Handle(t) \/ LaunchFails(t) PROVE StatesAreTrue'
  BY <1>1, <1>3, HandleStates
<1>4. ASSUME NEW t \in Ids, StoreVisit(t) PROVE StatesAreTrue'
  <2>1. visit[t].next \in States /\ StateIsTrue(visit[t].next, remote'[t], faults')
    BY <1>1, TruthLasts DEF StatesAreTrue, Visits
  <2>2. /\ state' = [state EXCEPT ![t] = visit[t].next]
        /\ visit' = [visit EXCEPT ![t] = [step |-> "none", next |-> visit[t].next]]
    BY <1>4 DEF StoreVisit, Goes
  <2>3. /\ state' \in [Ids -> States] /\ visit' \in [Ids -> Visits]
        /\ state'[t] = visit[t].next /\ visit'[t].next = visit[t].next
        /\ \A u \in Ids \ {t} : state'[u] = state[u] /\ visit'[u] = visit[u]
    BY <2>1, <2>2 DEF StatesAreTrue, Visits
  <2> QED
    BY <1>1, <2>1, <2>3, StatesStayTrue
<1>5. ASSUME NEW t \in Ids, LoseVisit(t) PROVE StatesAreTrue'
  <2>1. /\ state' = state /\ visit' = [visit EXCEPT ![t] = [step |-> "none", next |-> state[t]]]
    BY <1>5 DEF LoseVisit, NoVisit
  <2>2. /\ visit' \in [Ids -> Visits] /\ visit'[t].next = state[t]
        /\ \A u \in Ids \ {t} : visit'[u] = visit[u]
    BY <2>1 DEF StatesAreTrue, Visits
  <2> QED
    BY <1>1, <2>1, <2>2, StatesStayTrue DEF StatesAreTrue
<1>6. ASSUME NEW t \in Ids, EndTask(t) \/ AbortTask(t) PROVE StatesAreTrue'
  <2> DEFINE over == [state[t] EXCEPT !.node = "Over"]
  <2>1. /\ state[t] \in States
        /\ state[t] = [phase |-> state[t].phase, failures |-> state[t].failures,
                       node |-> state[t].node, unanswered |-> state[t].unanswered]
        /\ StateIsTrue(state[t], remote'[t], faults')
    BY <1>1, TruthLasts DEF StatesAreTrue, States
  <2>2. /\ state' = [state EXCEPT ![t] = over]
        /\ visit' = [visit EXCEPT ![t] = [step |-> "none", next |-> state'[t]]]
    BY <1>6 DEF EndTask, AbortTask, Finishes
  <2>3. state[t].phase \in {"ResourcesCreated", "Terminal"} /\ remote'[t] = "running"
            => state[t].unanswered
    <3>1. CASE EndTask(t)
      BY <2>1, <3>1 DEF EndTask, StateIsTrue
    <3>2. CASE AbortTask(t)
      BY <3>2 DEF AbortTask, Deleted, IsKnown, Rest
    <3> QED
      BY <1>6, <3>1, <3>2
  <2>4. over \in States /\ StateIsTrue(over, remote'[t], faults')
    BY <2>1, <2>3 DEF StateIsTrue, States
  <2> HIDE DEF over
  <2>5. /\ state' \in [Ids -> States] /\ state'[t] = over
        /\ \A u \in Ids \ {t} : state'[u] = state[u]
    BY <2>2, <2>4 DEF StatesAreTrue
  <2>6. /\ visit' \in [Ids -> Visits] /\ visit'[t].next = over
        /\ \A u \in Ids \ {t} : visit'[u] = visit[u]
    BY <2>2, <2>4, <2>5 DEF StatesAreTrue, Visits
  <2> QED
    BY <1>1, <2>4, <2>5, <2>6, StatesStayTrue
<1>7. ASSUME NEW t \in Ids, RemoteEnds(t) \/ Enqueue(t) \/ Take(t) \/ SetMark(t) \/ DropMark(t)
      PROVE  StatesAreTrue'
  BY <1>2, <1>7 DEF RemoteEnds, Enqueue, Take, SetMark, DropMark, InCache
<1>8. ASSUME NEW w \in SyncWorkers, Apply(w) PROVE StatesAreTrue'
  BY <1>2, <1>8 DEF Apply, InCache
<1>9. CASE Restart
  <2>1. state' = state /\ visit' = [t \in Ids |-> [step |-> "none", next |-> state[t]]]
    BY <1>9 DEF Restart, NoVisit
  <2>2. visit' \in [Ids -> Visits] /\ \A t \in Ids : visit'[t].next = state[t]
    BY <2>1 DEF StatesAreTrue, Visits
  <2> QED
    BY <1>1, <2>1, <2>2, StatesStayTrue DEF StatesAreTrue
<1>10. CASE Done \/ UNCHANGED vars
  BY <1>2, <1>10 DEF Done, vars
<1>11. ASSUME NEW t \in Ids, AbortFails(t) PROVE StatesAreTrue'
  <2> DEFINE aborting == [state[t] EXCEPT !.node = "Aborting"]
  <2>1. /\ state[t] \in States
        /\ state[t] = [phase |-> state[t].phase, failures |-> state[t].failures,
                       node |-> state[t].node, unanswered |-> state[t].unanswered]
        /\ StateIsTrue(state[t], remote'[t], faults')
    BY <1>1, TruthLasts DEF StatesAreTrue, States
  <2>2. /\ state' = [state EXCEPT ![t] = aborting]
        /\ visit' = [visit EXCEPT ![t] = [step |-> "none", next |-> state'[t]]]
    BY <1>11 DEF AbortFails
  <2>3. aborting \in States /\ StateIsTrue(aborting, remote'[t], faults')
    BY <2>1 DEF StateIsTrue, States
  <2> HIDE DEF aborting
  <2>4. /\ state' \in [Ids -> States] /\ state'[t] = aborting
        /\ \A u \in Ids \ {t} : state'[u] = state[u]
    BY <2>2, <2>3 DEF StatesAreTrue
  <2>5. /\ visit' \in [Ids -> Visits] /\ visit'[t].next = aborting
        /\ \A u \in Ids \ {t} : visit'[u] = visit[u]
    BY <2>2, <2>3, <2>4 DEF StatesAreTrue, Visits
  <2> QED
    BY <1>1, <2>3, <2>4, <2>5, StatesStayTrue
<1> QED
  BY <1>3, <1>4, <1>5, <1>6, <1>7, <1>8, <1>9, <1>10, <1>11 DEF Next

---------------------------------------------------------------------------
(* Tokens.  A lost visit leaves a token that the next one finds.           *)

TokenIsHeld(t) ==
    /\ state[t].node # "Over" => (Holds(t, state[t]) => t \in tokens)
    /\ state[t].node = "Over" => t \notin tokens
    /\ visit[t].step # "none" => state[t].node = "Active"
    /\ visit[t].step \in {"counted", "allowed"} => state[t].phase = "NotStarted"
    /\ visit[t].step = "handled" =>
           visit[t].next.node # "Over" /\ (Holds(t, visit[t].next) => t \in tokens)

LEMMA TokensStep ==
    ASSUME Rest, StatesAreTrue, TokensAreHeld, [Next]_vars
    PROVE  TokensAreHeld'
<1> SUFFICES ASSUME NEW u \in Ids PROVE TokenIsHeld(u)'
  BY DEF TokensAreHeld, TokenIsHeld, Holds
<1>1. /\ TokenIsHeld(u) /\ state[u] \in States /\ visit[u].step \in {"none", "counted", "allowed", "handled"}
      /\ visit[u].next \in States
  BY DEF TokensAreHeld, TokenIsHeld, StatesAreTrue, Visits
<1>2. ASSUME state'[u] = state[u], visit'[u] = visit[u], remote'[u] = remote[u],
             u \in tokens' <=> u \in tokens
      PROVE  TokenIsHeld(u)'
  BY <1>1, <1>2 DEF TokenIsHeld, Holds
<1>3. ASSUME NEW t \in Ids, NEW step \in {"none", "counted", "allowed", "handled"}, NEW next, Goes(t, step, next)
      PROVE  /\ visit'[t].step = step /\ visit'[t].next = next
             /\ u # t => visit'[u] = visit[u]
  BY <1>3 DEF Goes, StatesAreTrue
<1>4. ASSUME NEW t \in Ids, Handle(t) \/ LaunchFails(t) PROVE TokenIsHeld(u)'
  <2>1. state' = state
    BY <1>4 DEF Handle, AskForToken, CheckConstraints, AddToken, Launch, LaunchTerminated, Monitor, LaunchFails
  <2>2. CASE u # t
    <3>1. visit'[u] = visit[u] /\ remote'[u] = remote[u] /\ (u \in tokens' <=> u \in tokens)
      BY <1>4, <2>2 DEF Handle, AskForToken, CheckConstraints, AddToken, Launch, LaunchTerminated, Monitor,
                        LaunchFails, Goes, Created, Rest, StatesAreTrue
    <3> QED
      BY <1>2, <2>1, <3>1
  <2>3. CASE u = t
    <3> DEFINE s == state[u]
    <3>1. s = [phase |-> s.phase, failures |-> s.failures, node |-> s.node, unanswered |-> s.unanswered]
      BY <1>1 DEF States
    <3>2. CASE AskForToken(u)
      <4>1. /\ s.node = "Active" /\ s.phase = "NotStarted" /\ tokens' = tokens /\ remote' = remote
            /\ \/ u \in tokens /\ Goes(u, "handled", Granted(u))
               \/ u \notin tokens /\ (Goes(u, "counted", s) \/ Goes(u, "handled", s))
        BY <3>2 DEF AskForToken, CanBegin
      <4>2. Granted(u).node = "Active"
        BY <3>1, <4>1 DEF Granted
      <4> QED
        BY <1>1, <1>3, <2>1, <4>1, <4>2 DEF TokenIsHeld, Holds
    <3>3. CASE AddToken(u)
      <4>1. s.node = "Active" /\ u \in tokens' /\ remote' = remote /\ Goes(u, "handled", Granted(u))
        BY <1>1, <3>3 DEF AddToken, TokenIsHeld
      <4>2. Granted(u).node = "Active"
        BY <3>1, <4>1 DEF Granted
      <4> QED
        BY <1>1, <1>3, <2>1, <4>1, <4>2 DEF TokenIsHeld, Holds
    <3>4. CASE Launch(u) \/ LaunchTerminated(u) \/ LaunchFails(u) \/ Monitor(u)
      <4>1. s.node = "Active" /\ s.phase # "NotStarted" /\ tokens' = tokens /\ u \in tokens
        BY <1>1, <3>4 DEF Launch, LaunchTerminated, LaunchFails, Monitor, CanBegin, TokenIsHeld, Holds
      <4>2. \E next : Goes(u, "handled", next) /\ next.node # "Over"
        <5>1. CASE Launch(u)
          BY <3>1, <4>1, <5>1 DEF Launch
        <5>2. CASE LaunchTerminated(u) \/ LaunchFails(u)
          BY <3>1, <4>1, <5>2 DEF LaunchTerminated, LaunchFails, Ends
        <5>3. CASE Monitor(u)
          <6> DEFINE fresh == [phase |-> "ResourcesCreated", failures |-> s.failures, resource |-> "nil"]
                     item == IF Has(u) THEN ItemOf(u) ELSE fresh
                     seen == [s EXCEPT !.failures = item.failures]
                     unanswered == [Ends(u) EXCEPT !.unanswered = TRUE]
                     terminal == [seen EXCEPT !.phase = "Terminal", !.node = "Ending"]
          <6>1. \/ Goes(u, "handled", unanswered) \/ Goes(u, "handled", s)
                \/ Goes(u, "handled", seen) \/ Goes(u, "handled", terminal)
            BY <5>3 DEF Monitor
          <6> HIDE DEF item
          <6>2. /\ seen.node # "Over" /\ terminal.node # "Over"
                /\ unanswered.node # "Over" /\ s.node # "Over"
            BY <3>1, <4>1 DEF Ends
          <6> HIDE DEF seen, unanswered, terminal
          <6> QED
            BY <6>1, <6>2
        <5> QED
          BY <3>4, <5>1, <5>2, <5>3
      <4> QED
        BY <1>1, <1>3, <2>1, <4>1, <4>2 DEF TokenIsHeld, Holds
    <3>5. CASE CheckConstraints(u)
      <4>1. /\ s.node = "Active" /\ s.phase = "NotStarted" /\ tokens' = tokens /\ remote' = remote
            /\ Goes(u, "allowed", s) \/ Goes(u, "handled", s)
        BY <1>1, <3>5 DEF CheckConstraints, TokenIsHeld
      <4> QED
        BY <1>1, <1>3, <2>1, <4>1 DEF TokenIsHeld, Holds
    <3> QED
      BY <1>4, <2>3, <3>2, <3>3, <3>4, <3>5 DEF Handle
  <2> QED
    BY <2>2, <2>3
<1>5. ASSUME NEW t \in Ids, StoreVisit(t) PROVE TokenIsHeld(u)'
  <2>1. /\ visit[t].step = "handled" /\ state'[t] = visit[t].next /\ visit'[t].step = "none"
        /\ tokens' = tokens /\ remote' = remote
        /\ u # t => state'[u] = state[u] /\ visit'[u] = visit[u]
    BY <1>3, <1>5 DEF StoreVisit, StatesAreTrue
  <2> QED
    BY <1>1, <1>2, <2>1 DEF TokenIsHeld, Holds
<1>6. ASSUME NEW t \in Ids, LoseVisit(t) PROVE TokenIsHeld(u)'
  <2>1. /\ visit'[t].step = "none" /\ (u # t => visit'[u] = visit[u])
        /\ tokens' = tokens /\ remote' = remote /\ state' = state
    BY <1>6 DEF LoseVisit, NoVisit, StatesAreTrue
  <2> QED
    BY <1>1, <1>2, <2>1 DEF TokenIsHeld, Holds
<1>7. ASSUME NEW t \in Ids, EndTask(t) \/ AbortTask(t) PROVE TokenIsHeld(u)'
  <2>1. tokens' = tokens \ {t} /\ state' = [state EXCEPT ![t].node = "Over"]
        /\ visit' = [visit EXCEPT ![t] = [step |-> "none", next |-> state'[t]]]
    BY <1>7 DEF EndTask, AbortTask, Finalize, Finishes
  <2>2. u # t => remote'[u] = remote[u]
    BY <1>7 DEF EndTask, AbortTask, Deleted, Rest
  <2>3. state[t] \in States /\ state'[t].node = "Over" /\ visit'[t].step = "none"
        /\ (u # t => state'[u] = state[u] /\ visit'[u] = visit[u])
    BY <2>1 DEF StatesAreTrue, States
  <2> QED
    BY <1>2, <2>1, <2>2, <2>3 DEF TokenIsHeld
<1>8. ASSUME NEW t \in Ids, RemoteEnds(t) PROVE TokenIsHeld(u)'
  <2>1. /\ tokens' = tokens /\ state' = state /\ visit' = visit
        /\ remote'[u] # "none" => remote[u] # "none"
    BY <1>8 DEF RemoteEnds, Rest
  <2> QED
    BY <1>1, <2>1 DEF TokenIsHeld, Holds
<1>9. ASSUME NEW t \in Ids, Enqueue(t) \/ Take(t) \/ SetMark(t) \/ DropMark(t) PROVE TokenIsHeld(u)'
  BY <1>2, <1>9 DEF Enqueue, Take, SetMark, DropMark, InCache
<1>10. ASSUME NEW w \in SyncWorkers, Apply(w) PROVE TokenIsHeld(u)'
  BY <1>2, <1>10 DEF Apply, InCache
<1>11. CASE Restart
  <2>1. visit'[u].step = "none" /\ tokens' = tokens /\ remote' = remote /\ state' = state
    BY <1>11 DEF Restart, NoVisit
  <2> QED
    BY <1>1, <2>1 DEF TokenIsHeld, Holds
<1>12. CASE Done \/ UNCHANGED vars
  BY <1>2, <1>12 DEF Done, vars
<1>13. ASSUME NEW t \in Ids, AbortFails(t) PROVE TokenIsHeld(u)'
  <2>1. tokens' = tokens /\ state[t].node \in {"Active", "Aborting"}
        /\ state' = [state EXCEPT ![t].node = "Aborting"]
        /\ visit' = [visit EXCEPT ![t] = [step |-> "none", next |-> state'[t]]]
    BY <1>13 DEF AbortFails, CanAbort
  <2>2. (u # t => remote'[u] = remote[u]) /\ (remote'[u] # "none" => remote[u] # "none")
    BY <1>13 DEF AbortFails, Deleted, Rest
  <2>3. /\ state[t] \in States /\ state'[t].node = "Aborting" /\ state'[t].phase = state[t].phase
        /\ visit'[t].step = "none"
        /\ (u # t => state'[u] = state[u] /\ visit'[u] = visit[u])
    BY <2>1 DEF StatesAreTrue, States
  <2> QED
    BY <1>1, <1>2, <2>1, <2>2, <2>3 DEF TokenIsHeld, Holds
<1> QED
  BY <1>4, <1>5, <1>6, <1>7, <1>8, <1>9, <1>10, <1>11, <1>12, <1>13 DEF Next

---------------------------------------------------------------------------
(* The quota.  Between the call that counts the tokens and the one that    *)
(* adds to them no more visits can be than there are workers.              *)

LEMMA Fewer ==
    ASSUME NEW S, NEW T, S \subseteq T, IsFiniteSet(T), NEW n \in Nat, Cardinality(T) < n
    PROVE  Cardinality(S) < n
<1>1. IsFiniteSet(S) /\ Cardinality(S) =< Cardinality(T)
  BY FS_Subset
<1>2. Cardinality(S) \in Nat /\ Cardinality(T) \in Nat
  BY <1>1, FS_CardinalityType
<1> QED
  BY <1>1, <1>2

LEMMA RoomForVisits ==
    ASSUME NEW held, NEW visits, IsFiniteSet(held), IsFiniteSet(visits),
           NEW quota \in Nat, NEW workers \in Nat,
           Cardinality(held) < quota, Cardinality(visits) =< workers
    PROVE  IsFiniteSet(held \cup visits) /\ Cardinality(held \cup visits) < quota + workers
<1>1. /\ IsFiniteSet(held \cup visits)
      /\ Cardinality(held \cup visits)
           = Cardinality(held) + Cardinality(visits) - Cardinality(held \cap visits)
  BY FS_Union
<1>2. IsFiniteSet(held \cap visits)
  BY FS_Intersection
<1>3. Cardinality(held) \in Nat /\ Cardinality(visits) \in Nat /\ Cardinality(held \cap visits) \in Nat
  BY <1>2, FS_CardinalityType
<1> QED
  BY <1>1, <1>3

LEMMA VisitsStep ==
    ASSUME Rest, CacheIsTrue, StatesAreTrue, VisitsAreBounded, [Next]_vars
    PROVE  VisitsAreBounded'
<1> USE PluginAssumption
<1>1. /\ tokens \subseteq Ids /\ tokens' \subseteq Ids
      /\ Visited \subseteq Ids /\ Visited' \subseteq Ids
      /\ Counted \subseteq Ids /\ Allowed \subseteq Ids
      /\ \A S : S \subseteq Ids => IsFiniteSet(S)
  <2>1. tokens' \subseteq Ids
    BY RestStep DEF Rest
  <2> QED
    BY <2>1, FS_Subset DEF Visited, Counted, Allowed, Rest
<1>2. /\ setup' = setup /\ setup.workers \in Nat \ {0} /\ Quota \in Nat /\ ProjectQuota \in Nat
      /\ Quota + setup.workers \in Nat /\ ProjectQuota + setup.workers \in Nat
  BY StepGoesOn DEF GoesOn, Rest
<1>3. ASSUME tokens' \cup Counted' \subseteq tokens \cup Counted
      PROVE  Cardinality(tokens' \cup Counted') < Quota + setup.workers
  <2>1. IsFiniteSet(tokens \cup Counted)
    BY <1>1
  <2>2. Cardinality(tokens \cup Counted) < Quota + setup.workers
    BY DEF VisitsAreBounded
  <2> QED
    BY <1>2, <1>3, <2>1, <2>2, Fewer
<1>4. ASSUME NEW P \in Projects, (tokens' \cup Allowed') \cap P \subseteq (tokens \cup Allowed) \cap P
      PROVE  Cardinality((tokens' \cup Allowed') \cap P) < ProjectQuota + setup.workers
  <2>1. IsFiniteSet((tokens \cup Allowed) \cap P)
    BY <1>1
  <2>2. Cardinality((tokens \cup Allowed) \cap P) < ProjectQuota + setup.workers
    BY DEF VisitsAreBounded
  <2> QED
    BY <1>2, <1>4, <2>1, <2>2, Fewer
<1>5. ASSUME Cardinality(Visited') =< setup.workers,
             tokens' \cup Counted' \subseteq tokens \cup Counted,
             tokens' \cup Allowed' \subseteq tokens \cup Allowed
      PROVE  VisitsAreBounded'
  BY <1>2, <1>3, <1>4, <1>5 DEF VisitsAreBounded
<1>6. ASSUME Visited' \subseteq Visited PROVE Cardinality(Visited') =< setup.workers
  <2>1. Cardinality(Visited) < setup.workers + 1 /\ setup.workers + 1 \in Nat
    <3>1. Cardinality(Visited) \in Nat
      BY <1>1, FS_CardinalityType
    <3> QED
      BY <1>2, <3>1 DEF VisitsAreBounded
  <2>2. Cardinality(Visited') < setup.workers + 1
    BY <1>1, <1>6, <2>1, Fewer
  <2>3. Cardinality(Visited') \in Nat
    BY <1>1, FS_CardinalityType
  <2> QED
    BY <1>2, <2>2, <2>3
<1>7. ASSUME NEW t \in Ids, Cardinality(Visited) < setup.workers, Visited' \subseteq Visited \cup {t}
      PROVE  Cardinality(Visited') =< setup.workers
  <2>1. Cardinality({t}) = 1
    BY FS_Singleton
  <2>2. /\ IsFiniteSet({t}) /\ IsFiniteSet(Visited)
        /\ setup.workers \in Nat /\ setup.workers + 1 \in Nat /\ Cardinality({t}) =< 1
    BY <1>1, <1>2, <2>1
  <2>3. Cardinality(Visited \cup {t}) < setup.workers + 1 /\ IsFiniteSet(Visited \cup {t})
    BY <1>7, <2>2, RoomForVisits
  <2>4. Cardinality(Visited') < setup.workers + 1
    BY <1>7, <2>2, <2>3, Fewer
  <2>5. Cardinality(Visited') \in Nat
    BY <1>1, FS_CardinalityType
  <2> QED
    BY <1>2, <2>4, <2>5
<1>8. ASSUME NEW t \in Ids, NEW step \in {"none", "counted", "allowed", "handled"}, NEW next, Goes(t, step, next)
      PROVE  /\ Visited' \subseteq Visited \cup {t}
             /\ Counted' \subseteq Counted \cup {t} /\ Allowed' \subseteq Allowed \cup {t}
             /\ Counted' \subseteq Visited' /\ Allowed' \subseteq Visited'
             /\ step \in {"none", "handled"} => Counted' \subseteq Counted
             /\ step # "allowed" => Allowed' \subseteq Allowed
  BY <1>8 DEF Goes, Visited, Counted, Allowed, StatesAreTrue
<1>9. ASSUME NEW t \in Ids, AskForToken(t) PROVE VisitsAreBounded'
  <2>1. tokens' = tokens /\ Cardinality(Visited) < setup.workers
    BY <1>9 DEF AskForToken, CanBegin
  <2>2. \/ \E next : Goes(t, "handled", next)
        \/ Quota > Cardinality(tokens) /\ Goes(t, "counted", state[t])
    BY <1>9 DEF AskForToken, IsAllowed
  <2>3. Cardinality(Visited') =< setup.workers
    BY <1>7, <1>8, <2>1, <2>2
  <2>4. CASE \E next : Goes(t, "handled", next)
    BY <1>5, <1>8, <2>1, <2>3, <2>4
  <2>5. CASE Quota > Cardinality(tokens) /\ Goes(t, "counted", state[t])
    <3>1. Counted' \subseteq Visited' /\ Allowed' \subseteq Allowed
      BY <1>8, <2>5
    <3>2. Cardinality(tokens) < Quota
      BY <1>1, <1>2, <2>5, FS_CardinalityType
    <3>3. IsFiniteSet(tokens \cup Visited') /\ Cardinality(tokens \cup Visited') < Quota + setup.workers
      BY <1>1, <1>2, <2>3, <3>2, RoomForVisits
    <3>4. Cardinality(tokens' \cup Counted') < Quota + setup.workers
      BY <1>2, <2>1, <3>1, <3>3, Fewer
    <3> QED
      BY <1>2, <1>4, <2>1, <2>3, <3>1, <3>4 DEF VisitsAreBounded
  <2> QED
    BY <2>2, <2>4, <2>5
<1>10. ASSUME NEW t \in Ids, CheckConstraints(t) PROVE VisitsAreBounded'
  <2>1. visit[t].step = "counted" /\ tokens' = tokens
    BY <1>10 DEF CheckConstraints
  <2>2. t \in Counted /\ t \in Visited
    BY <2>1 DEF Counted, Visited
  <2>3. \/ Goes(t, "handled", state[t])
        \/ /\ \A P \in Projects : t \in P => ProjectQuota > Cardinality(tokens \cap P)
           /\ Goes(t, "allowed", state[t])
    BY <1>10 DEF CheckConstraints, ProjectsOf, IsAllowed
  <2>4. Cardinality(Visited') =< setup.workers
    BY <1>6, <1>8, <2>2, <2>3
  <2>5. CASE Goes(t, "handled", state[t])
    BY <1>5, <1>8, <2>1, <2>4, <2>5
  <2>6. CASE /\ \A P \in Projects : t \in P => ProjectQuota > Cardinality(tokens \cap P)
             /\ Goes(t, "allowed", state[t])
    <3>1. Counted' \subseteq Counted /\ Allowed' \subseteq Allowed \cup {t} /\ Allowed' \subseteq Visited'
      BY <1>8, <2>2, <2>6
    <3>2. ASSUME NEW P \in Projects
          PROVE  Cardinality((tokens' \cup Allowed') \cap P) < ProjectQuota + setup.workers
      <4>1. CASE t \in P
        <5>1. IsFiniteSet(tokens \cap P) /\ Cardinality(tokens \cap P) \in Nat
          BY <1>1, FS_CardinalityType
        <5>2. Cardinality(tokens \cap P) < ProjectQuota
          BY <1>2, <2>6, <4>1, <5>1
        <5>3. /\ IsFiniteSet((tokens \cap P) \cup Visited')
              /\ Cardinality((tokens \cap P) \cup Visited') < ProjectQuota + setup.workers
          BY <1>1, <1>2, <2>4, <5>1, <5>2, RoomForVisits
        <5>4. (tokens' \cup Allowed') \cap P \subseteq (tokens \cap P) \cup Visited'
          BY <2>1, <3>1
        <5> QED
          BY <1>2, <5>3, <5>4, Fewer
      <4>2. CASE t \notin P
        BY <1>4, <2>1, <3>1, <4>2
      <4> QED
        BY <4>1, <4>2
    <3> QED
      BY <1>2, <1>3, <2>1, <2>4, <3>1, <3>2 DEF VisitsAreBounded
  <2> QED
    BY <2>3, <2>5, <2>6
<1>11. ASSUME NEW t \in Ids, AddToken(t) PROVE VisitsAreBounded'
  <2>1. visit[t].step = "allowed" /\ tokens' = tokens \cup {t} /\ Goes(t, "handled", Granted(t))
    BY <1>11 DEF AddToken
  <2>2. t \in Allowed /\ t \in Counted /\ t \in Visited
    BY <2>1 DEF Allowed, Counted, Visited
  <2> QED
    BY <1>5, <1>6, <1>8, <2>1, <2>2
<1>12. ASSUME NEW t \in Ids, Launch(t) \/ LaunchTerminated(t) \/ LaunchFails(t) \/ Monitor(t)
       PROVE  VisitsAreBounded'
  <2>1. Cardinality(Visited) < setup.workers /\ tokens' = tokens
    BY <1>12 DEF Launch, LaunchTerminated, LaunchFails, Monitor, CanBegin
  <2>2. \E next : Goes(t, "handled", next)
    BY <1>12 DEF Launch, LaunchTerminated, LaunchFails, Monitor
  <2> QED
    BY <1>5, <1>7, <1>8, <2>1, <2>2
<1>13. ASSUME NEW t \in Ids,
              StoreVisit(t) \/ LoseVisit(t) \/ EndTask(t) \/ AbortTask(t) \/ AbortFails(t)
       PROVE  VisitsAreBounded'
  <2>1. \E next : visit' = [visit EXCEPT ![t] = [step |-> "none", next |-> next]]
    BY <1>13 DEF StoreVisit, Goes, LoseVisit, NoVisit, EndTask, AbortTask, AbortFails, Finishes
  <2>2. tokens' \subseteq tokens
    BY <1>13 DEF StoreVisit, LoseVisit, EndTask, AbortTask, AbortFails, Finalize
  <2>3. Visited' \subseteq Visited /\ Counted' \subseteq Counted /\ Allowed' \subseteq Allowed
    BY <2>1 DEF Visited, Counted, Allowed, StatesAreTrue
  <2> QED
    BY <1>5, <1>6, <2>2, <2>3
<1>14. ASSUME visit' = visit, tokens' = tokens PROVE VisitsAreBounded'
  BY <1>5, <1>6, <1>14 DEF Visited, Counted, Allowed
<1>15. ASSUME NEW t \in Ids, RemoteEnds(t) \/ Enqueue(t) \/ Take(t) \/ SetMark(t) \/ DropMark(t)
       PROVE  VisitsAreBounded'
  BY <1>14, <1>15 DEF RemoteEnds, Enqueue, Take, SetMark, DropMark, InCache
<1>16. ASSUME NEW w \in SyncWorkers, Apply(w) PROVE VisitsAreBounded'
  BY <1>14, <1>16 DEF Apply, InCache
<1>17. CASE Restart
  <2>1. tokens' = tokens /\ \A t \in Ids : visit'[t].step = "none"
    BY <1>17 DEF Restart, NoVisit
  <2>2. Visited' = {} /\ Counted' = {} /\ Allowed' = {}
    BY <2>1 DEF Visited, Counted, Allowed
  <2> QED
    BY <1>5, <1>6, <2>1, <2>2
<1>18. CASE Done \/ UNCHANGED vars
  BY <1>14, <1>18 DEF Done, vars
<1> QED
  BY <1>9, <1>10, <1>11, <1>12, <1>13, <1>15, <1>16, <1>17, <1>18 DEF Next, Handle

---------------------------------------------------------------------------
(* The theorems.                                                           *)

LEMMA InitIInv == Init => IInv
<1> SUFFICES ASSUME Init PROVE IInv
  OBVIOUS
<1> USE DEF Init, CacheInit
<1>1. setup \in Setups /\ faults = setup.faults /\ faults \in 0..MaxFaults
  BY PluginAssumption
<1>2. Rest
  BY <1>1 DEF Rest
<1>3. CacheIsTrue
  <2>1. IsLruMap(lru)
    BY DEF IsLruMap
  <2> QED
    BY <2>1 DEF CacheIsTrue
<1>4. \A t \in Ids : state[t] \in States /\ StateIsTrue(state[t], "none", faults)
  <2>0. MaxFaults \in Nat /\ faults \in 0..MaxFaults
    BY <1>1, CacheAssumption
  <2>1. ASSUME NEW n \in {"Active", "Over"},
               NEW s, s = [phase |-> "NotStarted", failures |-> 0, node |-> n, unanswered |-> FALSE]
        PROVE  s \in States /\ StateIsTrue(s, "none", faults)
    <3>1. s \in States
      BY <2>0, <2>1 DEF States
    <3> QED
      BY <2>0, <2>1, <3>1 DEF StateIsTrue
  <2>2. ASSUME NEW t \in Ids
        PROVE  \E n \in {"Active", "Over"} :
                   state[t] = [phase |-> "NotStarted", failures |-> 0, node |-> n, unanswered |-> FALSE]
    BY DEF NewState
  <2> QED
    BY <2>1, <2>2
<1>5. StatesAreTrue
  BY <1>4 DEF StatesAreTrue, Visits
<1>6. TokensAreHeld
  BY DEF TokensAreHeld, Holds, NewState
<1>7. VisitsAreBounded
  <2>1. Visited = {} /\ tokens \cup Counted = {} /\ \A P \in Projects : (tokens \cup Allowed) \cap P = {}
    BY DEF Visited, Counted, Allowed
  <2>2. Cardinality({}) = 0
    BY FS_EmptySet
  <2>3. setup.workers \in Nat \ {0} /\ Quota \in Nat \ {0} /\ ProjectQuota \in Nat \ {0}
    BY <1>1, PluginAssumption
  <2>4. /\ 0 =< setup.workers /\ 0 < Quota + setup.workers /\ 0 < ProjectQuota + setup.workers
    BY <2>3
  <2>5. /\ Cardinality(Visited) = 0 /\ Cardinality(tokens \cup Counted) = 0
        /\ \A P \in Projects : Cardinality((tokens \cup Allowed) \cap P) = 0
    BY <2>1, <2>2
  <2> QED
    BY <2>4, <2>5 DEF VisitsAreBounded
<1> QED
  BY <1>2, <1>3, <1>5, <1>6, <1>7 DEF IInv

LEMMA IInvStep == IInv /\ [Next]_vars => IInv'
  BY RestStep, CacheStep, StatesStep, TokensStep, VisitsStep DEF IInv

(* The invariant of the plugin, the cache and the resource manager.        *)
THEOREM Invariance == Spec => []IInv
  BY InitIInv, IInvStep, PTL DEF Spec

(* The cache and the plugin stay well-typed; the LRU map never holds more  *)
(* than lru.New was given as its size, and the failures that an item or a  *)
(* plugin state has counted never exceed the fetches that failed.          *)
THEOREM TypeCorrect == Spec => []TypeOK
<1>1. IInv => TypeOK
  <2> SUFFICES ASSUME IInv PROVE TypeOK
    OBVIOUS
  <2>1. Cardinality(DOMAIN lru) =< setup.size
    BY RoomForAll, PluginAssumption DEF IInv, Rest, CacheIsTrue
  <2> QED
    BY <2>1 DEF IInv, Rest, CacheIsTrue, StatesAreTrue, IsLruMap, TypeOK, CacheTypeOK
<1> QED
  BY <1>1, Invariance, PTL

(* AllocateResource (redis_resourcemanager.go) counts the tokens, checks   *)
(* the constraints and adds a token in separate calls: with any number of  *)
(* tasks and whatever is lost, fewer tokens than the quota and the workers *)
(* together are handed out, of the namespace and of every project.         *)
THEOREM QuotaBound == Spec => []QuotaOvershootIsBounded
<1>1. IInv => QuotaOvershootIsBounded
  <2> SUFFICES ASSUME IInv PROVE QuotaOvershootIsBounded
    OBVIOUS
  <2>1. tokens \cup Counted \subseteq Ids /\ tokens \cup Allowed \subseteq Ids
    BY DEF IInv, Rest, Counted, Allowed
  <2>2. IsFiniteSet(tokens \cup Counted) /\ \A P \in Projects : IsFiniteSet((tokens \cup Allowed) \cap P)
    BY <2>1, PluginAssumption, FS_Subset
  <2>3. Quota + setup.workers \in Nat /\ ProjectQuota + setup.workers \in Nat
    BY PluginAssumption DEF IInv, Rest
  <2>4. Cardinality(tokens) < Quota + setup.workers
    BY <2>2, <2>3, Fewer DEF IInv, VisitsAreBounded
  <2>5. ASSUME NEW P \in Projects PROVE Cardinality(tokens \cap P) < ProjectQuota + setup.workers
    <3>1. Cardinality((tokens \cup Allowed) \cap P) < ProjectQuota + setup.workers
      BY DEF IInv, VisitsAreBounded
    <3>2. tokens \cap P \subseteq (tokens \cup Allowed) \cap P
      OBVIOUS
    <3> QED
      BY <2>2, <2>3, <3>1, <3>2, Fewer
  <2> QED
    BY <2>4, <2>5 DEF QuotaOvershootIsBounded
<1> QED
  BY <1>1, Invariance, PTL

(* Finalize and ReleaseResource: a task with something on the service has  *)
(* a token, and one that is over has given it back, although a visit that  *)
(* took the token may have been lost before it was recorded.               *)
THEOREM Tokens == Spec => []TokensFollowTasks
<1>1. IInv => TokensFollowTasks
  BY DEF IInv, TokensAreHeld, Holds, TokensFollowTasks
<1> QED
  BY <1>1, Invariance, PTL

(* Abort, and monitor on an item from the cache: whatever snapshots and    *)
(* answers were under way, a task that is over has left a resource running *)
(* only if its creation was never recorded or the service gave no answer.  *)
THEOREM ResourcesEnd == Spec => []NoResourceIsLeftRunning
<1>1. IInv => NoResourceIsLeftRunning
  BY DEF IInv, StatesAreTrue, StateIsTrue, NoResourceIsLeftRunning, IsKnown
<1> QED
  BY <1>1, Invariance, PTL
=============================================================================
