-------------------------- MODULE AutoRefreshCache --------------------------
(***************************************************************************)
(* The auto-refresh cache of flytestdlib with the sync function of web API *)
(* plugins: a bounded LRU map that visits read and fill, a loop that puts  *)
(* snapshots of its items on a queue, and workers that query the remote    *)
(* service and write back what they know.                                  *)
(***************************************************************************)
EXTENDS Naturals, FiniteSets

CONSTANTS
    Ids,                \* names of the tasks
    SyncWorkers,        \* goroutines that run sync
    Idle,               \* a worker without a batch
    MaxSystemFailures,  \* CachingConfig.MaxSystemFailures
    MaxFaults           \* bound: fetches that fail, and the faults of those who use the cache

ASSUME CacheAssumption == MaxSystemFailures \in Nat /\ MaxFaults \in Nat

VARIABLES
    setup,              \* the configuration: size is the capacity of the LRU map
    lru,                \* the LRU map: per cached id its item and the ids used after it
    toDelete,           \* ids to be deleted in a later cycle
    queue,              \* batches of one snapshot each
    processing,         \* marked ids, which enqueueBatches leaves out
    marking,            \* ids that are queued and whose mark has still to be set
    working,            \* what each sync worker is at
    faults              \* faults that may still happen

marks == <<processing, marking>>
cacheVars == <<setup, lru, toDelete, queue, marks, working, faults>>

(* State and Resource of a CacheItem, the parts that matter here.          *)
Resources == {"nil", "running", "terminated"}
Items == [phase : {"ResourcesCreated", "SystemFailure"},
          failures : 0..MaxFaults, resource : Resources]
Cached == [item : Items, newer : SUBSET Ids]
Entries == [id : Ids, item : Items]
Answers == [id : Ids, item : Items, isUpdate : BOOLEAN]

CacheTypeOK ==
    /\ DOMAIN lru \subseteq Ids /\ Cardinality(DOMAIN lru) =< setup.size
    /\ lru \in [DOMAIN lru -> Cached]
    /\ toDelete \subseteq Ids
    /\ queue \subseteq Entries
    /\ processing \subseteq Ids /\ marking \subseteq Ids
    /\ working \in [SyncWorkers -> Answers \cup {Idle}]
    /\ faults \in 0..MaxFaults

(* An empty cache, at the start of the process.                            *)
CacheInit ==
    /\ lru = [id \in {} |-> Idle] /\ toDelete = {} /\ queue = {}
    /\ processing = {} /\ marking = {}
    /\ working = [w \in SyncWorkers |-> Idle]

(* A process that restarts has an empty cache.                             *)
CacheRestart ==
    /\ lru' = [id \in {} |-> Idle] /\ toDelete' = {} /\ queue' = {}
    /\ processing' = {} /\ marking' = {}
    /\ working' = [w \in SyncWorkers |-> Idle]
    /\ UNCHANGED setup

Entry(id, item) == [id |-> id, item |-> item]
Has(id) == id \in DOMAIN lru
ItemOf(id) == lru[id].item

(* CacheItem.IsTerminal, of a resource that says whether it has terminated *)
(* (the agents' does); only without a resource is the phase looked at.     *)
IsTerminal(item) ==
    IF item.resource = "nil" THEN item.phase = "SystemFailure" ELSE item.resource = "terminated"
IsPending(id) == Has(id) /\ ~IsTerminal(ItemOf(id))

(* lruMap.Remove.                                                          *)
Without(map, ids) ==
    [o \in DOMAIN map \ ids |-> [map[o] EXCEPT !.newer = @ \ ids]]

(* lruMap.Add, and lruMap.Get of an item that is there: it is the last     *)
(* used, and what was not used for longest goes when there is no room.     *)
Added(id, item) ==
    LET all == [o \in DOMAIN lru \cup {id} |->
                   IF o = id THEN [item |-> item, newer |-> {}]
                   ELSE [lru[o] EXCEPT !.newer = @ \cup {id}]]
    IN  [o \in {x \in DOMAIN all : Cardinality(all[x].newer) < setup.size} |-> all[o]]

(* AddRateLimited; processing.Store follows, and a worker may have taken   *)
(* the batch by then.                                                      *)
Queued(id, item) ==
    /\ queue' = queue \cup {Entry(id, item)}
    /\ marking' = marking \cup {id}

Mark(id) ==
    /\ id \in marking
    /\ marking' = marking \ {id}
    /\ processing' = processing \cup {id}
    /\ UNCHANGED <<setup, lru, toDelete, queue, working, faults>>

MarkStays(id) ==  \* mutant: an old mark is not dropped
    /\ id \in processing
    /\ UNCHANGED cacheVars

(* inProcessing drops a mark that is too old.                              *)
MarkExpires(id) ==
    /\ id \in processing
    /\ processing' = processing \ {id}
    /\ UNCHANGED <<setup, lru, toDelete, queue, marking, working, faults>>

(* GetOrCreate: a new item is queued at once (syncOnCreate).               *)
GetOrCreate(id, item) ==
    IF Has(id)
    THEN lru' = Added(id, ItemOf(id)) /\ UNCHANGED <<queue, marks>>
    ELSE lru' = Added(id, item) /\ Queued(id, item) /\ UNCHANGED processing

(* enqueueBatches, for one of the keys it lists.                           *)
EnqueueBatch(id) ==
    /\ Has(id)
    /\ \/ /\ id \in toDelete
          /\ lru' = Without(lru, {id}) /\ toDelete' = toDelete \ {id}
          /\ UNCHANGED <<queue, marks>>
       \/ /\ id \notin toDelete /\ IsPending(id) /\ id \notin processing
          /\ Queued(id, ItemOf(id))
          /\ UNCHANGED <<lru, toDelete, processing>>
    /\ UNCHANGED <<setup, working, faults>>

(* ResourceCache.SyncResource, on a snapshot that may be older than what   *)
(* the cache has: an answer, or a fetch that fails.                        *)
SyncResource(item, fetched) ==
    IF IsTerminal(item) THEN {[item |-> item, isUpdate |-> FALSE, fault |-> 0]}
    ELSE IF item.failures > MaxSystemFailures
    THEN {[item |-> [item EXCEPT !.phase = "SystemFailure"], isUpdate |-> TRUE, fault |-> 0]}
    ELSE {[item |-> [item EXCEPT !.resource = fetched], isUpdate |-> TRUE, fault |-> 0],
          [item |-> [item EXCEPT !.failures = @ + 1], isUpdate |-> TRUE, fault |-> 1]}

(* sync, up to the answer: what is no longer in the cache, or is terminal  *)
(* there, is not asked for.                                                *)
TakeBatch(w, id, fetched) ==
    /\ working[w] = Idle
    /\ \E b \in {x \in queue : x.id = id} :
           /\ queue' = queue \ {b} /\ processing' = processing \ {id}
           /\ \/ /\ IsPending(id)
                 /\ lru' = Added(id, ItemOf(id))
                 /\ \E r \in SyncResource(b.item, fetched) :
                        /\ faults >= r.fault
                        /\ faults' = faults - r.fault
                        /\ working' = [working EXCEPT ![w] = [id |-> id, item |-> r.item, isUpdate |-> r.isUpdate]]
              \/ /\ ~IsPending(id)
                 /\ lru' = IF Has(id) THEN Added(id, ItemOf(id)) ELSE lru
                 /\ UNCHANGED <<working, faults>>
    /\ UNCHANGED <<setup, toDelete, marking>>

(* The end of sync's loop: Update, and whatever waits for deletion.        *)
ApplyBatch(w) ==
    LET b == working[w] IN
    /\ b # Idle
    /\ LET updated == IF b.isUpdate /\ Has(b.id) THEN Added(b.id, b.item) ELSE lru
       IN  lru' = Without(updated, toDelete)
    /\ toDelete' = {}
    /\ working' = [working EXCEPT ![w] = Idle]
    /\ UNCHANGED <<setup, queue, marks, faults>>

(* DeleteDelayed.                                                          *)
DeleteDelayed(id) == toDelete' = toDelete \cup {id}
=============================================================================
