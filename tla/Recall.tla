------------------------------- MODULE Recall -------------------------------
(***************************************************************************)
(* What the agent remembers and retrieves (crustcore-index,                *)
(* crustcore-index-rag): the memory store and its snapshot on disk, the    *)
(* exact and the approximate vector index, the namespaced chunk store with *)
(* its resolver and query planner, the stores behind HTTP, and the bundle  *)
(* of context a query ends in. Saving is not atomic: the program may stop  *)
(* in the middle. A chunk store need not be honest about its hits.         *)
(* Vectors are of integers, so that every comparison is exact.             *)
(***************************************************************************)
EXTENDS Chunks, SequencesExt

CONSTANTS
  MemKeys,        \* keys of memory entries
  MaxMemories,    \* bound on entries put
  EntriesMax,     \* MAX_MEMORY_ENTRIES
  Vectors,        \* embeddings, some of another dimension
  Dim,            \* AnnIndex.dim
  Planes,         \* tables of hyperplanes: a sequence of sequences of vectors
  AnnMax,         \* ANN_MAX_VECTORS
  Spaces,         \* namespaces
  Queries,        \* embeddings of queries to the chunk store
  Floors,         \* RetrievalPlan.floor: [num, den], between 0 and 1
  Trees,          \* repositories to index: sequences of chunks [id, text, vec, size]
  Forgeries,      \* hits a store makes up
  KMax,           \* MAX_NEAREST_K
  HitsMax,        \* MAX_STORE_HITS
  SpacesMax,      \* MAX_NAMESPACES
  PerSpaceMax,    \* MAX_ENTRIES_PER_NS
  ChunksMax,      \* MAX_INDEX_CHUNKS
  FragmentsMax,   \* MAX_CONTEXT_FRAGMENTS
  FragmentMax,    \* MAX_FRAGMENT_BYTES
  BundleMax,      \* MAX_CONTEXT_BUNDLE
  MaxIndexed      \* bound on chunks written

\* Vectors are of integers; there is a table of hyperplanes (ANN_TABLES).
ASSUME RecallAssumption ==
  /\ EntriesMax \in Nat /\ KMax \in Nat \ {0} /\ HitsMax \in Nat /\ ChunksMax \in Nat /\ FragmentsMax \in Nat
  /\ FragmentMax \in Nat /\ BundleMax \in Nat /\ Dim \in Nat
  /\ Vectors \subseteq Seq(Int) /\ Queries \subseteq Seq(Int)
  /\ Planes \in Seq(Seq(Seq(Int))) \ {<<>>}
  /\ Trees \subseteq Seq([id : STRING, text : STRING, vec : Seq(Int), size : Nat])
  /\ Forgeries \subseteq Seq(STRING)

VARIABLES
  memories,    \* MemoryStore.entries
  memFile,     \* <<>> or <<[entries, written]>>: the snapshot, as far as it was written
  memSaving,   \* a save is under way
  memLoaded,   \* the last load: its result, what it gave, and what the file was to hold
  ann,         \* AnnIndex.entries, the vectors VectorMemory holds too
  annAsked,    \* the last query of the two indexes: [q, exact, approx]
  spaces,      \* LocalVectorStore.namespaces: namespace -> chunks with their seq
  active,      \* LocalVectorStore.namespace
  seq,         \* LocalVectorStore.next_seq
  resolvers,   \* IndexedContent of the last index_repo of each namespace
  ragFile,     \* <<>> or the last snapshot of the chunk store, whole or not
  bundle,      \* the last query's context and what it was made from
  remote       \* the last request to a store behind HTTP

recallVars == <<memories, memFile, memSaving, memLoaded, ann, annAsked, spaces, active, seq, resolvers,
                ragFile, bundle, remote>>
memVars == <<memories, memFile, memSaving, memLoaded>>
annVars == <<ann, annAsked>>
ragVars == <<spaces, active, seq, resolvers, ragFile, bundle, remote>>

NoBundle == [space |-> "", q |-> <<>>, fragments |-> <<>>, dropped |-> 0, hits |-> 0]
NoRemote == [requires |-> FALSE, key |-> FALSE, sent |-> FALSE, into |-> "", outcome |-> "none", hits |-> <<>>]
NoLoad == [result |-> "none", got |-> <<>>, meant |-> <<>>]
RecallInit ==
  /\ memories = <<>> /\ memFile = <<>> /\ memSaving = FALSE /\ memLoaded = NoLoad
  /\ ann = <<>> /\ annAsked = [q |-> <<>>, exact |-> <<>>, approx |-> <<>>]
  /\ spaces = <<>> /\ active = "default" /\ seq = 0 /\ resolvers = <<>> /\ ragFile = <<>>
  /\ bundle = NoBundle /\ remote = NoRemote

(***************************************************************************)
(* The memory store.                                                       *)
(***************************************************************************)
Put(kind, key) ==
  /\ ~memSaving /\ Len(memories) < MaxMemories
  /\ memories' = Append(memories, [kind |-> kind, key |-> key])
  /\ memLoaded' = NoLoad /\ UNCHANGED <<memFile, memSaving, annVars, ragVars>>
(* save: fs::write empties the file and writes count and entries over it. *)
BeginSave ==
  /\ ~memSaving /\ memSaving' = TRUE
  /\ memFile' = <<[entries |-> memories, written |-> 0]>>
  /\ memLoaded' = NoLoad /\ UNCHANGED <<memories, annVars, ragVars>>
WriteSnapshot ==
  /\ memSaving
  /\ IF memFile[1].written < Len(memFile[1].entries)
     THEN memFile' = <<[memFile[1] EXCEPT !.written = @ + 1]>> /\ UNCHANGED memSaving
     ELSE memSaving' = FALSE /\ UNCHANGED memFile
  /\ UNCHANGED <<memories, memLoaded, annVars, ragVars>>
(* Bug: the entries are read until the file ends. *)
DecodeSnapshotLoose(snapshot) == IF Len(snapshot.entries) > EntriesMax THEN "BadContents" ELSE "ok"

DecodeSnapshot(snapshot) ==
  IF Len(snapshot.entries) > EntriesMax \/ snapshot.written < Len(snapshot.entries) THEN "BadContents" ELSE "ok"
(* The program stops, and loads the snapshot when it is started again. *)
RestartAndLoad ==
  /\ memFile # <<>> /\ memSaving' = FALSE
  /\ LET result == DecodeSnapshot(memFile[1])
     IN  /\ memories' = IF result = "ok" THEN SubSeq(memFile[1].entries, 1, memFile[1].written) ELSE <<>>
         /\ memLoaded' = [result |-> result, got |-> memories', meant |-> memFile[1].entries]
  /\ UNCHANGED <<memFile, annVars, ragVars>>

(***************************************************************************)
(* Similarity. cosine is 0 for vectors of different dimensions and for a   *)
(* null one; only its sign and its order matter.                           *)
(***************************************************************************)
Dot(a, b) ==
  LET sum[n \in 0 .. Len(a)] == IF n = 0 THEN 0 ELSE sum[n - 1] + a[n] * b[n]
  IN  sum[Len(a)]
Norm2(a) == Dot(a, a)
Similar(q, v) == Len(q) = Len(v) /\ Dot(q, v) > 0
Nearer(q, a, b) == Dot(q, a) * Dot(q, a) * Norm2(b) > Dot(q, b) * Dot(q, b) * Norm2(a)
(* n goes before the first it is nearer than. *)
Placed(q, vectors, order, n) ==
  LET further == {i \in DOMAIN order : Nearer(q, vectors[n], vectors[order[i]])}
      at == IF further = {} THEN Len(order) + 1 ELSE Min(further)
  IN  [i \in 1 .. Len(order) + 1 |-> IF i < at THEN order[i] ELSE IF i = at THEN n ELSE order[i - 1]]
(* The numbers among `of`, up to the last, of vectors similar to q, nearest *)
(* first, ties in order of insertion.                                       *)
Ranked(q, vectors, of, last) ==
  LET order[n \in 0 .. last] ==
        IF n = 0 THEN <<>>
        ELSE IF n \in of /\ Similar(q, vectors[n]) THEN Placed(q, vectors, order[n - 1], n)
        ELSE order[n - 1]
  IN  order[last]
Take(s, k) == SubSeq(s, 1, IF Len(s) < k THEN Len(s) ELSE k)

(* Which hyperplanes of table t the vector lies above; none, when its      *)
(* dimension is another one.                                               *)
Signature(t, v) == {i \in DOMAIN Planes[t] : Len(v) = Len(Planes[t][i]) /\ Dot(v, Planes[t][i]) > 0}
HammingBall(base, radius, bits) ==
  {s \in SUBSET bits : Cardinality((s \ base) \cup (base \ s)) <= radius}
AnnCandidates(q, radius) ==
  {i \in DOMAIN ann : \E t \in DOMAIN Planes :
     Signature(t, ann[i]) \in HammingBall(Signature(t, q), radius, DOMAIN Planes[t])}
VectorNearest(q, k) == Take(Ranked(q, ann, DOMAIN ann, Len(ann)), k)
(* Bug: the first candidates, not the nearest. *)
AnnNearestUnranked(q, k, radius) == Take(SetToSortSeq(AnnCandidates(q, radius), <), k)
AnnNearest(q, k, radius) == Take(Ranked(q, ann, AnnCandidates(q, radius), Len(ann)), k)

AnnPut(v) ==
  /\ Len(ann) < AnnMax /\ Len(v) = Dim /\ ann' = Append(ann, v)
  /\ annAsked' = [annAsked EXCEPT !.q = <<>>] /\ UNCHANGED <<memVars, ragVars>>
AskNearest(q, k, radius) ==
  /\ annAsked' = [q |-> q, exact |-> VectorNearest(q, k), approx |-> AnnNearest(q, k, radius)]
  /\ UNCHANGED <<ann, memVars, ragVars>>

(***************************************************************************)
(* The chunk store.                                                        *)
(***************************************************************************)
StoredIn(ns) == IF ns \in DOMAIN spaces THEN spaces[ns] ELSE {}
(* index_repo into a namespace: its first ChunksMax chunks replace those   *)
(* of the same id, each with a sequence number of its own.                 *)
IndexRepo(ns, tree) ==
  LET taken == Take(tree, ChunksMax)
      ids == {taken[i].id : i \in DOMAIN taken}
      stored == {[id |-> taken[i].id, vec |-> taken[i].vec, seq |-> seq + i - 1] : i \in DOMAIN taken}
  IN  /\ seq < MaxIndexed /\ active' = ns /\ seq' = seq + Len(taken)
      /\ spaces' = [n \in DOMAIN spaces \cup {ns} |->
                     IF n = ns THEN {c \in StoredIn(ns) : c.id \notin ids} \cup stored ELSE spaces[n]]
      /\ resolvers' = [n \in DOMAIN resolvers \cup {ns} |-> IF n = ns THEN Range(taken) ELSE resolvers[n]]
      /\ bundle' = NoBundle /\ remote' = NoRemote /\ UNCHANGED <<ragFile, memVars, annVars>>
DeleteChunk(id) ==
  /\ active \in DOMAIN spaces /\ \E c \in spaces[active] : c.id = id
  /\ spaces' = [spaces EXCEPT ![active] = {c \in @ : c.id # id}]
  /\ bundle' = NoBundle /\ remote' = NoRemote /\ UNCHANGED <<active, seq, resolvers, ragFile, memVars, annVars>>
(* LocalVectorStore::nearest: ids of the chunks that score the floor or    *)
(* more, nearest first, ties in order of upsert.                           *)
Scores(q, v, floor) ==
  floor.den * floor.den * Dot(q, v) * Dot(q, v) >= floor.num * floor.num * Norm2(q) * Norm2(v)
StoreNearest(ns, q, k, floor) ==
  LET at == {c.seq + 1 : c \in StoredIn(ns)}
      chunk == [n \in at |-> CHOOSE c \in StoredIn(ns) : c.seq + 1 = n]
      above == {n \in at : Len(chunk[n].vec) = Len(q) /\ Scores(q, chunk[n].vec, floor)}
      hits == Take(Ranked(q, [n \in at |-> chunk[n].vec], above, seq), k)
  IN  [i \in DOMAIN hits |-> chunk[hits[i]].id]
(* save: fs::write empties the file and fills it. It may fail on the way,  *)
(* and the program may stop in it: then the file is not whole.             *)
TornChunks == [spaces |-> <<>>, active |-> "", seq |-> 0, whole |-> FALSE]
SaveChunks ==
  /\ ragFile = <<>>   \* bound: one snapshot
  /\ ragFile' \in {<<[spaces |-> spaces, active |-> active, seq |-> seq, whole |-> TRUE]>>, <<TornChunks>>}
  /\ bundle' = NoBundle /\ remote' = NoRemote /\ UNCHANGED <<spaces, active, seq, resolvers, memVars, annVars>>
(* decode_snapshot: a file that ends early is refused, and so is one with  *)
(* more than the caps, which save does not look at.                        *)
DecodeChunks(snapshot) ==
  /\ snapshot.whole /\ Cardinality(DOMAIN snapshot.spaces) <= SpacesMax
  /\ \A n \in DOMAIN snapshot.spaces : Cardinality(snapshot.spaces[n]) <= PerSpaceMax
(* A restart: the store comes back if it can be decoded, and is a new one  *)
(* if not; the resolvers, kept in memory, are gone.                        *)
LoadChunks ==
  /\ ragFile # <<>> /\ resolvers' = <<>>
  /\ IF DecodeChunks(ragFile[1])
     THEN spaces' = ragFile[1].spaces /\ seq' = ragFile[1].seq /\ active' = ragFile[1].active
     ELSE spaces' = <<>> /\ seq' = 0 /\ active' = "default"
  /\ bundle' = NoBundle /\ remote' = NoRemote /\ UNCHANGED <<ragFile, memVars, annVars>>

(***************************************************************************)
(* Context.                                                                *)
(***************************************************************************)
(* build_bundle: in order, each fragment cut to its bound, the ones that   *)
(* would overflow the bundle passed over.                                  *)
Cut(size) == IF size > FragmentMax THEN FragmentMax ELSE size
BuildBundle(ordered) ==
  LET filled[n \in 0 .. Len(ordered)] ==
        IF n = 0 THEN [kept |-> <<>>, used |-> 0]
        ELSE LET acc == filled[n - 1]
                 size == Cut(ordered[n].size)
             IN  IF Len(acc.kept) >= FragmentsMax \/ acc.used + size > BundleMax THEN acc
                 ELSE [kept |-> Append(acc.kept, ordered[n]), used |-> acc.used + size]
  IN  filled[Len(ordered)]
Known(ns) == IF ns \in DOMAIN resolvers THEN resolvers[ns] ELSE {}
(* Bug: an id a store returns twice is taken twice. *)
ResolvedTwice(ns, hits) ==
  LET taken[n \in 0 .. Len(hits)] ==
        IF n = 0 THEN <<>>
        ELSE LET found == {c \in Known(ns) : c.id = hits[n]}
             IN  IF found = {} THEN taken[n - 1] ELSE Append(taken[n - 1], CHOOSE c \in found : TRUE)
  IN  taken[Len(hits)]

Resolved(ns, hits) ==
  LET taken[n \in 0 .. Len(hits)] ==
        IF n = 0 THEN <<>>
        ELSE LET found == {c \in Known(ns) : c.id = hits[n] /\ \A j \in 1 .. n - 1 : hits[j] # hits[n]}
             IN  IF found = {} THEN taken[n - 1] ELSE Append(taken[n - 1], CHOOSE c \in found : TRUE)
  IN  taken[Len(hits)]
(* semantic_select: ranked again, by the resolver's embeddings. *)
SemanticSelect(q, candidates) ==
  LET order == Ranked(q, [i \in DOMAIN candidates |-> candidates[i].vec], DOMAIN candidates, Len(candidates))
  IN  BuildBundle([i \in DOMAIN order |-> candidates[order[i]]])
(* QueryPlanner::run over the hits of a store, the first HitsMax of them. *)
Planned(ns, q, hits) ==
  LET candidates == Resolved(ns, Take(hits, HitsMax))
      selected == SemanticSelect(q, candidates)
  IN  [space |-> ns, q |-> q, fragments |-> selected.kept,
       dropped |-> Len(candidates) - Len(selected.kept), hits |-> Len(hits)]
ClampK(k) == IF k < 1 THEN 1 ELSE IF k > KMax THEN KMax ELSE k
Query(ns, q, k, floor) ==
  /\ active' = ns
  /\ bundle' = Planned(ns, q, StoreNearest(ns, q, ClampK(k), floor))
  /\ remote' = NoRemote /\ UNCHANGED <<spaces, seq, resolvers, ragFile, memVars, annVars>>
(* A store that answers what it likes: ids it was never given, the same id twice, any order. *)
QueryForged(ns, q, hits) ==
  /\ active' = ns /\ bundle' = Planned(ns, q, hits)
  /\ remote' = NoRemote /\ UNCHANGED <<spaces, seq, resolvers, ragFile, memVars, annVars>>

(***************************************************************************)
(* Stores behind HTTP (Qdrant, LanceDB): the broker's secret is resolved   *)
(* before anything is sent, into the collection of the namespace or, when  *)
(* that is empty, of the configuration.                                    *)
(***************************************************************************)
CollectionOf(namespace, configured) == IF namespace = "" THEN configured ELSE namespace
(* Bug: a secret that cannot be had is left out of the request. *)
ApplyAuthLoose(requires, unlocked) == TRUE

ApplyAuth(requires, unlocked) == ~requires \/ unlocked
ParseHits(items) == Take(SelectSeq(items, LAMBDA it : it # ""), HitsMax)
Sent(table, requires, unlocked, status, items) ==
  LET sent == ApplyAuth(requires, unlocked)
  IN  [requires |-> requires, key |-> requires /\ unlocked, sent |-> sent, into |-> table,
       outcome |-> CASE ~sent -> "Auth" [] status # 200 -> "Status" [] OTHER -> "ok",
       hits |-> IF sent /\ status = 200 THEN ParseHits(items) ELSE <<>>]
SendRemote(namespace, requires, unlocked, status, items) ==
  /\ remote' = Sent(CollectionOf(namespace, "configured"), requires, unlocked, status, items)
  /\ bundle' = NoBundle /\ UNCHANGED <<spaces, active, seq, resolvers, ragFile, memVars, annVars>>
(* LanceDB: rows without an id are passed over; scores are not kept.        *)
LanceRows(rows) == [i \in DOMAIN rows |-> IF rows[i].id = <<>> THEN "" ELSE rows[i].id[1]]
SendLanceDb(namespace, requires, unlocked, status, rows) ==
  /\ remote' = Sent(CollectionOf(namespace, "table"), requires, unlocked, status, LanceRows(rows))
  /\ bundle' = NoBundle /\ UNCHANGED <<spaces, active, seq, resolvers, ragFile, memVars, annVars>>

MemoryNext ==
  \/ \E kind \in {"failure", "command"}, key \in MemKeys : Put(kind, key)
  \/ BeginSave \/ WriteSnapshot \/ RestartAndLoad
VectorNext ==
  \/ \E v \in Vectors : AnnPut(v)
  \/ \E q \in Vectors, k \in {0, 1, 2}, radius \in {0, 1} : AskNearest(q, k, radius)
ChunkIds == UNION {{t[i].id : i \in DOMAIN t} : t \in Trees}
ChunkNext ==
  \/ \E ns \in Spaces, t \in Trees : IndexRepo(ns, t)
  \/ \E id \in ChunkIds : DeleteChunk(id)
  \/ SaveChunks \/ LoadChunks
  \/ \E ns \in Spaces, q \in Queries :
       \/ \E floor \in Floors : Query(ns, q, 3, floor)
       \/ \E hits \in Forgeries : QueryForged(ns, q, hits)
RemoteNext ==
  \E ns \in {"", "a"}, requires, unlocked \in BOOLEAN, status \in {200, 401}, items \in {<<"", "x", "y", "z">>} :
       \/ SendRemote(ns, requires, unlocked, status, items)
       \/ SendLanceDb(ns, requires, unlocked, status, <<[id |-> <<"x">>], [id |-> <<>>], [id |-> <<"y">>]>>)

RetrievalNext ==
  \/ (MemoryNext \/ VectorNext \/ ChunkNext \/ RemoteNext) /\ UNCHANGED chunkVars
  \/ ChunksNext /\ UNCHANGED recallVars
RetrievalSpec == RecallInit /\ ChunksInit /\ [][RetrievalNext]_<<recallVars, chunkVars>>

(***************************************************************************)
(* A restart gives back the memory of the last snapshot that was written   *)
(* to its end, or none of it: never a part of one the program stopped in   *)
(* the middle of (MemoryStore::save, decode_snapshot).                     *)
(***************************************************************************)
MemoryIsAllOrNothing == memLoaded.got = (IF memLoaded.result = "ok" THEN memLoaded.meant ELSE <<>>)

(***************************************************************************)
(* The approximate index returns, in the exact order, entries the exact    *)
(* one would rank, and it never misses a perfect match: when the nearest   *)
(* entry points the way the query does, both put the same one first        *)
(* (AnnIndex::nearest, VectorMemory::nearest).                             *)
(***************************************************************************)
AnnAgreesWithExact ==
  annAsked.q # <<>> =>
    LET q == annAsked.q  e == annAsked.exact  a == annAsked.approx
    IN  /\ Len(a) <= Len(e)
        /\ \A i \in DOMAIN a : Similar(q, ann[a[i]])
        /\ \A i, j \in DOMAIN a : i < j =>
             /\ ~Nearer(q, ann[a[j]], ann[a[i]])
             /\ a[j] < a[i] => Nearer(q, ann[a[i]], ann[a[j]])
        /\ e # <<>> /\ Dot(q, ann[e[1]]) * Dot(q, ann[e[1]]) = Norm2(q) * Norm2(ann[e[1]]) => a # <<>> /\ a[1] = e[1]

\* The bytes of a bundle's fragments.
BundleBytes(f) ==
  LET sum[n \in 0 .. Len(f)] == IF n = 0 THEN 0 ELSE sum[n - 1] + Cut(f[n].size)
  IN  sum[Len(f)]

(***************************************************************************)
(* The context of a query holds chunks as they were last indexed in its    *)
(* namespace, none twice, nearest first, within its bounds, whatever the   *)
(* store returned and whatever older chunks it still holds                 *)
(* (QueryPlanner::run, build_bundle); and a store that needs a key is not  *)
(* asked without it (apply_auth).                                          *)
(***************************************************************************)
RetrievedIsCurrent ==
  LET f == bundle.fragments
  IN  /\ \A i \in DOMAIN f : bundle.space \in DOMAIN resolvers /\ f[i] \in resolvers[bundle.space]
      /\ \A i, j \in DOMAIN f : i < j => f[i].id # f[j].id /\ ~Nearer(bundle.q, f[j].vec, f[i].vec)
      /\ Len(f) <= FragmentsMax /\ BundleBytes(f) <= BundleMax
      /\ remote.sent => (remote.requires => remote.key)

\* What is remembered and retrieved is what was stored: memory after a restart,
\* the approximate index, the context of a query, and every byte of a chunked
\* file (crustcore-index, crustcore-index-rag).
RetrievalIsFaithful ==
  MemoryIsAllOrNothing /\ AnnAgreesWithExact /\ RetrievedIsCurrent /\ EveryByteIsIndexed

=============================================================================
