---------------------------- MODULE SemanticCache ----------------------------
(***************************************************************************)
(* The semantic cache (agents/cache/semantic_cache.py) over its in-memory  *)
(* store: a dictionary from key hashes to entries.  The entries are        *)
(* objects that callers hold references to, so they are kept in a heap and *)
(* the dictionary maps a key to a place in it.                             *)
(*                                                                         *)
(* A near hit compares the three words of a key with the five or more of   *)
(* an entry and wants 92% overlap: it never happens, and all a look-up of  *)
(* this kind does is to evict what has expired.                            *)
(***************************************************************************)
EXTENDS Naturals, Sequences

CONSTANTS
    Tenants,
    Anyone,      \* the empty tenant id, which lookups take for no tenant
    Keys,
    TTLs,        \* the times to live that writers ask for; 0 never expires
    PromoteAt,
    MaxEntries,  \* bound of the model on the entries ever written
    MaxHits,     \* bound of the model on the hits counted for an entry
    MaxTime      \* bound of the model on the clock

ASSUME CacheAssumption ==
    /\ Anyone \notin Tenants
    /\ TTLs \subseteq Nat
    /\ PromoteAt \in Nat

VARIABLES
    heap,     \* every entry written, in order
    place,    \* the dictionary; 0 where a key has no entry
    now,
    served    \* history: which tenant was given which entry

vars == <<heap, place, now, served>>

Entry ==
    [key : Keys, tenant : Tenants, expires : Nat, hits : Nat, shared : BOOLEAN]

Init ==
    /\ heap = <<>>
    /\ place = [k \in Keys |-> 0]
    /\ now = 0
    /\ served = {}

IsExpired(e) == e.expires # 0 /\ now >= e.expires

-----------------------------------------------------------------------------

\* Slip: the entry that is replaced hands its hits down.
NewEntryInherits(t, k, ttl) ==
    [key |-> k,
     tenant |-> t,
     expires |-> IF ttl > 0 THEN now + ttl ELSE 0,
     hits |-> IF place[k] # 0 THEN heap[place[k]].hits ELSE 0,
     shared |-> FALSE]

NewEntry(t, k, ttl) ==
    [key |-> k,
     tenant |-> t,
     expires |-> IF ttl > 0 THEN now + ttl ELSE 0,
     hits |-> 0,
     shared |-> FALSE]

\* A writer whose gate did not pass gets a ValueError.  The entry of the key is
\* replaced, whoever wrote it.
Write(t, k, ttl, gatePassed) ==
    /\ gatePassed
    /\ Len(heap) < MaxEntries
    /\ heap' = Append(heap, NewEntry(t, k, ttl))
    /\ place' = [place EXCEPT ![k] = Len(heap) + 1]
    /\ UNCHANGED <<now, served>>

Found(k) == place[k] # 0 /\ ~IsExpired(heap[place[k]])

Visible(t, e) == t = Anyone \/ e.shared \/ e.tenant = t

\* Slip: the expiry is not looked at.
LookupExactStale(t, k) ==
    LET i == place[k]
    IN /\ i # 0
       /\ Visible(t, heap[i])
       /\ heap[i].hits < MaxHits
       /\ heap' = [heap EXCEPT ![i].hits = @ + 1,
                               ![i].shared = @ \/ heap[i].hits + 1 >= PromoteAt]
       /\ served' = IF t = Anyone THEN served ELSE served \cup {<<t, i>>}
       /\ UNCHANGED <<place, now>>

\* A hit is counted and may share the entry, for the next one to come.
LookupExact(t, k) ==
    LET i == place[k]
    IN /\ Found(k)
       /\ Visible(t, heap[i])
       /\ heap[i].hits < MaxHits
       /\ heap' = [heap EXCEPT ![i].hits = @ + 1,
                               ![i].shared = @ \/ heap[i].hits + 1 >= PromoteAt]
       /\ served' = IF t = Anyone THEN served ELSE served \cup {<<t, i>>}
       /\ UNCHANGED <<place, now>>

\* A miss goes on to the near look-up, which evicts all that has expired.
Miss(t, k) ==
    /\ ~(Found(k) /\ Visible(t, heap[place[k]]))
    /\ place' = [q \in Keys |->
          IF place[q] # 0 /\ IsExpired(heap[place[q]]) THEN 0 ELSE place[q]]
    /\ UNCHANGED <<heap, now, served>>

Invalidate(k) ==
    /\ place' = [place EXCEPT ![k] = 0]
    /\ UNCHANGED <<heap, now, served>>

Tick ==
    /\ now < MaxTime
    /\ now' = now + 1
    /\ UNCHANGED <<heap, place, served>>

Next ==
    \/ \E t \in Tenants, k \in Keys, ttl \in TTLs, gatePassed \in BOOLEAN :
          Write(t, k, ttl, gatePassed)
    \/ \E t \in Tenants \cup {Anyone}, k \in Keys :
          LookupExact(t, k) \/ Miss(t, k)
    \/ \E k \in Keys : Invalidate(k)
    \/ Tick

Spec == Init /\ [][Next]_vars

-----------------------------------------------------------------------------
(* Properties.                                                             *)

\* The dictionary points to entries that were written for their key, an entry
\* that is shared has the hits for it, and only what was written is served.
TypeOK ==
    /\ heap \in Seq(Entry)
    /\ place \in [Keys -> 0..Len(heap)]
    /\ now \in Nat
    /\ served \subseteq Tenants \X (1..Len(heap))
    /\ \A k \in Keys : place[k] # 0 => heap[place[k]].key = k
    /\ \A i \in 1..Len(heap) : heap[i].shared => heap[i].hits >= PromoteAt

\* Writing over an entry, expiry and invalidation never give a tenant what it
\* may not see: the cache implements GatedSharing (lookup_exact and write; a
\* look-up that names no tenant is not held to it, and sees everything).
Sharing == INSTANCE GatedSharing WITH
    owner <- [i \in 1..Len(heap) |-> heap[i].tenant],
    reuses <- [i \in 1..Len(heap) |-> heap[i].hits],
    shared <- {i \in 1..Len(heap) : heap[i].shared}

SharesAsPromised == Sharing!Spec

\* What a look-up returns has not expired, and nobody has written the key since:
\* a tenant never gets an older result than the key's last one, also when that
\* one was invalidated or is hidden from it (is_expired and lookup_exact).
HitsAreCurrent ==
    [][\A i \in 1..Len(heap) : heap'[i] # heap[i] =>
          /\ ~IsExpired(heap[i])
          /\ \A j \in (i + 1)..Len(heap) : heap[j].key # heap[i].key]_vars
=============================================================================
