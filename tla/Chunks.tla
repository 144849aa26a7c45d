------------------------------- MODULE Chunks -------------------------------
(***************************************************************************)
(* Cutting a file into chunks (crustcore-index-rag: chunk/mod.rs,          *)
(* symbol.rs, ast.rs): along lines, or along the spans of its symbols, no  *)
(* chunk over the bound or across a character, overlapping by whole units. *)
(* A file is a sequence of bytes: "a" a character, "n" a newline, "h" and  *)
(* "c" the two bytes of a longer one. Offsets count from 0, as in the code.*)
(***************************************************************************)
EXTENDS Integers, Sequences, FiniteSetsExt

CONSTANTS
  Files,         \* contents to cut
  SymbolSets,    \* for each, sets of spans [start, end] found for its symbols
  MaxChunk,      \* MAX_CHUNK_BYTES
  Targets,       \* arguments of with_target_bytes
  Overlaps,      \* arguments of with_overlap_bytes
  PerFile        \* MAX_CHUNKS_PER_FILE

LeastOf(a, b) == IF a < b THEN a ELSE b
MostOf(a, b) == IF a < b THEN b ELSE a
IsBoundary(f, i) == i = Len(f) \/ f[i + 1] # "c"

\* A file is text: it begins with a character, a newline has one byte, and
\* every character fits into a chunk. Spans begin and end between characters,
\* or beyond the file.
ASSUME ChunksAssumption ==
  /\ MaxChunk \in Nat \ {0} /\ PerFile \in Nat /\ Targets \subseteq Nat /\ Overlaps \subseteq Nat
  /\ Files \subseteq Seq({"a", "n", "h", "c"}) \ {<<>>}
  /\ \A f \in Files :
       /\ \A i \in 1..Len(f) : f[i] = "c" => i > 1 /\ f[i - 1] # "n"
       /\ \A i \in 0..(Len(f) - 1) : \E e \in (i + 1)..(i + MaxChunk) : e <= Len(f) /\ IsBoundary(f, e)
       /\ SymbolSets[f] \subseteq SUBSET [start : Nat, end : Nat]
       /\ \A spans \in SymbolSets[f] : \A s \in spans :
            IsBoundary(f, LeastOf(s.start, Len(f))) /\ IsBoundary(f, LeastOf(s.end, Len(f)))

VARIABLES
  file,      \* the content being cut
  sizes,     \* Chunker: [target, overlap]
  regions,   \* regions still to assemble: [units, symbol]
  unit,      \* index in the first region's units the next chunk starts at
  made,      \* chunks of the first region
  chunks     \* chunks of the regions before it

chunkVars == <<file, sizes, regions, unit, made, chunks>>
ChunksInit == file = <<>> /\ sizes = [target |-> 1, overlap |-> 0] /\ regions = <<>> /\ unit = 1 /\ made = <<>> /\ chunks = <<>>

FloorBoundary(f, i) == Max({b \in 0 .. LeastOf(i, Len(f)) : IsBoundary(f, b)})
NextBoundary(f, i) == Min({b \in LeastOf(i + 1, Len(f)) .. Len(f) : IsBoundary(f, b)})

(* line_units, bounded_line_units: the lines of f from one offset to another. *)
LineUnits(f, from, to) ==
  LET scan[n \in 0 .. to - from] ==
        IF n = 0 THEN [start |-> from, units |-> <<>>]
        ELSE LET before == scan[n - 1]
             IN  IF f[from + n] = "n" \/ n = to - from
                 THEN [start |-> from + n, units |-> Append(before.units, <<before.start, from + n>>)]
                 ELSE before
  IN  scan[to - from].units

(* No unit is longer than a chunk may be: the pieces of one, and of all. *)
PieceEnd(f, s, end) ==
  LET cut == LeastOf(MostOf(FloorBoundary(f, LeastOf(s + MaxChunk, end)), s + 1), end)
  IN  IF FloorBoundary(f, cut) <= s THEN LeastOf(NextBoundary(f, s), end) ELSE FloorBoundary(f, cut)
Pieces(f, start, end, units) ==
  LET cut[n \in 0 .. end - start] ==
        IF n = 0 THEN [start |-> start, units |-> units]
        ELSE LET before == cut[n - 1]
                 e == PieceEnd(f, before.start, end)
             IN  IF before.start >= end THEN before
                 ELSE [start |-> e, units |-> Append(before.units, <<before.start, e>>)]
  IN  cut[end - start].units
BoundedUnits(f, units) ==
  LET bounded[i \in 0 .. Len(units)] ==
        IF i = 0 THEN <<>> ELSE Pieces(f, units[i][1], units[i][2], bounded[i - 1])
  IN  bounded[Len(units)]

(* chunk_with_symbols: the spans as far as they lie in the file, in order,  *)
(* those that start inside an earlier one left out, and the lines between   *)
(* and after them.                                                          *)
Clamp(f, s) ==
  [start |-> LeastOf(s.start, Len(f)), end |-> MostOf(LeastOf(s.end, Len(f)), LeastOf(s.start, Len(f)))]
Clamped(f, symbols) == {s \in {Clamp(f, t) : t \in symbols} : s.end > s.start}
NextSpan(spans, cursor) ==
  CHOOSE s \in spans :
    /\ s.start >= cursor
    /\ \A t \in spans : t.start >= cursor => s.start < t.start \/ (s.start = t.start /\ s.end <= t.end)
Gap(f, from, to) == IF from < to THEN <<[units |-> LineUnits(f, from, to), symbol |-> <<>>]>> ELSE <<>>
SymbolRegions(f, symbols) ==
  LET spans == Clamped(f, symbols)
      walk[n \in 0 .. Len(f)] ==
        IF n = 0 THEN [start |-> 0, out |-> <<>>]
        ELSE LET before == walk[n - 1]
                 s == NextSpan(spans, before.start)
             IN  IF \A t \in spans : t.start < before.start THEN before
                 ELSE [start |-> s.end,
                       out |-> before.out \o Gap(f, before.start, s.start)
                               \o <<[units |-> <<<<s.start, s.end>>>>, symbol |-> <<s>>]>>]
      last == walk[Len(f)]
  IN  last.out \o Gap(f, last.start, Len(f))
Regions(f, symbols) ==
  LET raw == IF symbols = {} THEN Gap(f, 0, Len(f)) ELSE SymbolRegions(f, symbols)
  IN  [i \in DOMAIN raw |-> [raw[i] EXCEPT !.units = BoundedUnits(f, @)]]

(* Chunker::new, with_target_bytes and with_overlap_bytes in either order. *)
ChunkerSizes(target, overlap, overlapFirst) ==
  LET t == MostOf(1, LeastOf(target, MaxChunk))
  IN  [target |-> t, overlap |-> IF overlapFirst THEN overlap ELSE LeastOf(overlap, t - 1)]
Chunk(f, symbols, target, overlap, overlapFirst) ==
  /\ file = <<>> /\ file' = f /\ sizes' = ChunkerSizes(target, overlap, overlapFirst)
  /\ regions' = Regions(f, symbols) /\ unit' = 1 /\ made' = <<>> /\ chunks' = <<>>

(* Units from i on joined to the target, the last index taken and the end. *)
JoinedTo(units, i) == Max({i} \cup {j \in i + 1 .. Len(units) : units[j][2] - units[i][1] <= sizes.target})
(* Bug: the overlap is taken from the end of the next chunk. *)
NextUnitAfter(units, i, j) ==
  LET back == {k \in i + 1 .. Len(units) : units[k][1] >= units[j][2] + sizes.overlap}
  IN  IF back = {} THEN j + 1 ELSE Min(back)

NextUnit(units, i, j) ==
  LET back == {k \in i + 1 .. j : units[k][1] >= units[j][2] - sizes.overlap /\ units[k][1] > units[i][1]}
  IN  IF back = {} THEN j + 1 ELSE Min(back)
AssembleOne ==
  /\ regions # <<>>
  /\ LET r == regions[1]  j == JoinedTo(r.units, unit)
     IN  IF unit > Len(r.units) \/ Len(made) >= PerFile
         THEN /\ chunks' = chunks \o made /\ made' = <<>> /\ unit' = 1 /\ regions' = Tail(regions)
         ELSE /\ made' = Append(made, [start |-> r.units[unit][1], end |-> r.units[j][2], symbol |-> r.symbol])
              /\ unit' = NextUnit(r.units, unit, j)
              /\ UNCHANGED <<chunks, regions>>
  /\ UNCHANGED <<file, sizes>>

(* The chunks go to index_repo, which cuts the next file. *)
HandOver ==
  /\ file # <<>> /\ regions = <<>> /\ file' = <<>> /\ sizes' = [target |-> 1, overlap |-> 0]
  /\ unit' = 1 /\ made' = <<>> /\ chunks' = <<>> /\ UNCHANGED regions

ChunksNext ==
  \/ \E f \in Files, t \in Targets, o \in Overlaps, first \in BOOLEAN :
       \E symbols \in {{}} \cup SymbolSets[f] : Chunk(f, symbols, t, o, first)
  \/ AssembleOne \/ HandOver

(***************************************************************************)
(* Chunks are whole characters within the bound, each with an id of its    *)
(* own; a chunk of a symbol lies inside it; and when the file has been     *)
(* cut, every byte of it is in one, up to the number of chunks a region    *)
(* may have (Chunker::assemble, chunk_with_symbols).                       *)
(***************************************************************************)
EveryByteIsIndexed ==
  LET all == chunks \o made
  IN  /\ \A i \in DOMAIN all :
           /\ all[i].end \in all[i].start + 1 .. all[i].start + MaxChunk
           /\ IsBoundary(file, all[i].start) /\ IsBoundary(file, all[i].end)
           /\ all[i].symbol # <<>> => all[i].symbol[1].start <= all[i].start /\ all[i].end <= all[i].symbol[1].end
           /\ \A j \in DOMAIN all : i # j => <<all[i].start, all[i].end>> # <<all[j].start, all[j].end>>
      /\ regions = <<>> /\ Len(chunks) < PerFile =>
           \A b \in DOMAIN file : \E i \in DOMAIN chunks : all[i].start < b /\ b <= all[i].end
=============================================================================
