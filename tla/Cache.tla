------------------------------- MODULE Cache -------------------------------
(***************************************************************************)
(* pkg/cache: a keyed store of items with an expiry, over the ARC cache    *)
(* that main.go creates.  The ARC is external and locks itself, so each    *)
(* call on it is one step; cache.Get is two calls when the item is stale   *)
(* (look up, then Remove), and users of this module keep them apart.       *)
(***************************************************************************)
EXTENDS Naturals, FiniteSets

CONSTANTS
  Keys,      \* the typed keys: entity, style and proof keys
  Values,    \* what tasks resolve to
  NoEntry,   \* the key is not in the ARC
  Capacity   \* size of the ARC (4096 in main.go)

Entry == [val : Values, stale : BOOLEAN]

ASSUME CacheAssumption ==
  /\ NoEntry \notin Entry
  /\ Capacity \in Nat \ {0}

VARIABLE cache   \* cache[k]: the item stored under k, or NoEntry

CacheInit == cache = [k \in Keys |-> NoEntry]

CacheTypeOK == cache \in [Keys -> Entry \cup {NoEntry}]

Held == {k \in Keys : cache[k] # NoEntry}

\* The three answers of the look-up that cache.Get starts with.
Fresh(k)  == cache[k] # NoEntry /\ ~cache[k].stale
Stale(k)  == cache[k] # NoEntry /\ cache[k].stale
Absent(k) == cache[k] = NoEntry

NewItem(v) == [val |-> v, stale |-> FALSE]

\* A new key pushes some other key out of a full ARC.
Add(k, v) ==
  \/ /\ k \in Held \/ Cardinality(Held) < Capacity
     /\ cache' = [cache EXCEPT ![k] = NewItem(v)]
  \/ /\ k \notin Held /\ Cardinality(Held) >= Capacity
     /\ \E old \in Held :
          cache' = [cache EXCEPT ![old] = NoEntry, ![k] = NewItem(v)]

\* Remove deletes whatever is under k by now, stale or not.
Remove(k) == cache' = [cache EXCEPT ![k] = NoEntry]

\* The clock passes the item's expireOn.
Expire(k) ==
  /\ Fresh(k)
  /\ cache' = [cache EXCEPT ![k].stale = TRUE]

=============================================================================
