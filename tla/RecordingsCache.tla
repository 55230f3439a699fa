-------------------------- MODULE RecordingsCache --------------------------
(***************************************************************************)
(* The cache of recording queries (internal/storage/recordings_cache.go)   *)
(* between ListRecordings and CountRecordings and the table.  The table's  *)
(* contents are told apart by how many writes they include.  A write that  *)
(* fails changes nothing and does not invalidate.                          *)
(***************************************************************************)
EXTENDS Naturals, FiniteSets

CONSTANTS
  CacheReaders,   \* goroutines that list or count recordings
  CacheWriters,   \* goroutines that insert, update or delete them
  Filters,        \* keys of queries (recordingFilterKey)
  MaxEntries,     \* recordingsCacheMaxEntries (64)
  MaxWrites       \* bounds the writes

ASSUME CacheAssumption == Filters # {} /\ MaxEntries \in Nat /\ MaxWrites \in Nat

VARIABLES
  table,        \* the writes the table includes
  generation,   \* recCache.gen
  entries,      \* recCache.list or recCache.count: filter -> generation and rows
  returned,     \* the last write that has returned to its caller
  reader, writer

cacheVars == <<table, generation, entries, returned, reader, writer>>

\* A query: its filter, the writes that had returned when it began, the
\* generation it noted and the rows it has.
NewQuery(f) == [pc |-> "idle", filter |-> f, since |-> 0, gen |-> 0, rows |-> 0]

\* Mutant: an entry of an earlier generation is served.
IsStored(f) == f \in DOMAIN entries

IsCached(f) == f \in DOMAIN entries /\ entries[f].gen = generation

Lookup(r) ==
  /\ reader[r].pc = "idle"
  /\ \E f \in Filters :
       reader' = [reader EXCEPT ![r] =
                    IF IsCached(f)
                    THEN [NewQuery(f) EXCEPT !.pc = "answered", !.since = returned, !.rows = entries[f].rows]
                    ELSE [NewQuery(f) EXCEPT !.pc = "missed", !.since = returned]]
  /\ UNCHANGED <<table, generation, entries, returned, writer>>

NoteGeneration(r) ==
  /\ reader[r].pc = "missed"
  /\ reader' = [reader EXCEPT ![r].pc = "noted", ![r].gen = generation]
  /\ UNCHANGED <<table, generation, entries, returned, writer>>

Query(r) ==
  /\ reader[r].pc = "noted"
  /\ reader' = [reader EXCEPT ![r].pc = "queried", ![r].rows = table]
  /\ UNCHANGED <<table, generation, entries, returned, writer>>

\* The cache starts over when it is full (so an invalidation never finds it
\* overfull, the case it clears it for).
Room == IF Cardinality(DOMAIN entries) >= MaxEntries THEN {} ELSE DOMAIN entries

\* Rows read before an invalidation are not kept.
Store(r) ==
  /\ reader[r].pc = "queried"
  /\ IF reader[r].gen = generation
     THEN entries' = [f \in Room \cup {reader[r].filter} |->
                        IF f = reader[r].filter
                        THEN [gen |-> reader[r].gen, rows |-> reader[r].rows]
                        ELSE entries[f]]
     ELSE UNCHANGED entries
  /\ reader' = [reader EXCEPT ![r].pc = "answered"]
  /\ UNCHANGED <<table, generation, returned, writer>>

Answer(r) ==
  /\ reader[r].pc = "answered"
  /\ reader' = [reader EXCEPT ![r] = NewQuery(@.filter)]
  /\ UNCHANGED <<table, generation, entries, returned, writer>>

Write(w) ==
  /\ writer[w] = 0 /\ table < MaxWrites
  /\ table' = table + 1
  /\ writer' = [writer EXCEPT ![w] = table']
  /\ UNCHANGED <<generation, entries, returned, reader>>

Invalidate(w) ==
  /\ writer[w] # 0
  /\ generation' = generation + 1
  /\ returned' = IF writer[w] > returned THEN writer[w] ELSE returned
  /\ writer' = [writer EXCEPT ![w] = 0]
  /\ UNCHANGED <<table, entries, reader>>

CacheInit ==
  /\ table = 0 /\ generation = 0 /\ returned = 0
  /\ entries = [f \in {} |-> [gen |-> 0, rows |-> 0]]
  /\ reader = [r \in CacheReaders |-> NewQuery(CHOOSE f \in Filters : TRUE)]
  /\ writer = [w \in CacheWriters |-> 0]

CacheNext ==
  \/ \E r \in CacheReaders : Lookup(r) \/ NoteGeneration(r) \/ Query(r) \/ Store(r) \/ Answer(r)
  \/ \E w \in CacheWriters : Write(w) \/ Invalidate(w)

CacheSpec == CacheInit /\ [][CacheNext]_cacheVars

-----------------------------------------------------------------------------
\* A query reflects every write that had returned when the query began,
\* whether it is answered from the cache or from the table.
ReadsAreFresh ==
  \A r \in CacheReaders : reader[r].pc = "answered" => reader[r].rows >= reader[r].since

=============================================================================
