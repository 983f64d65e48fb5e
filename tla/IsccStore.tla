------------------------------ MODULE IsccStore ------------------------------
(***************************************************************************)
(* The banded similarity index over ISCC Content-Codes: the bucket         *)
(* arithmetic and exact verification of registry-core/src/similarity.rs    *)
(* and the blob-backed segmented index of registry-core/src/iscc_store.rs, *)
(* with the older unsegmented format it reads and migrates.                *)
(*                                                                         *)
(* Data abstraction.  A code is the set of its one bits.  A blob's hash    *)
(* is the blob itself: content addressing without collisions.  Segment     *)
(* lists, manifests and directories are kept in sets of their own because  *)
(* no blob is read as another kind.                                        *)
(***************************************************************************)
EXTENDS Naturals, FiniteSets, Sequences, SequencesExt, TLC

CONSTANTS
    CONTENT_CODE_BITS,
    NumBands,            \* ISCC_INDEX_BANDS
    SEGMENT_MAX_MEMBERS,
    Keys,
    Members,             \* the members that may be delivered
    LegacyLists,         \* posting lists an index of the old format was made from
    QueryCodes,          \* codes that are searched for
    SearchMaxRadius,     \* ISCC_SEARCH_MAX_RADIUS
    MAX_HITS,            \* 10000 in the viewer's scan
    MaxBatch,            \* bound on the members of a batch
    MaxBatches           \* bound on the batches

Codes == SUBSET (0 .. CONTENT_CODE_BITS - 1)

IsccMember == [key : Keys, content_code : Codes]

\* BandParams::new refuses everything else.
ASSUME BandParams ==
    /\ CONTENT_CODE_BITS \in Nat
    /\ NumBands \in 1 .. CONTENT_CODE_BITS
    /\ CONTENT_CODE_BITS % NumBands = 0

ASSUME IsccAssumption ==
    /\ SEGMENT_MAX_MEMBERS \in Nat \ {0}
    /\ Members \subseteq IsccMember /\ LegacyLists \subseteq Seq(IsccMember)
    /\ QueryCodes \subseteq Codes
    /\ SearchMaxRadius \in Nat /\ MAX_HITS \in Nat
    /\ MaxBatch \in Nat /\ MaxBatches \in Nat

VARIABLES
    segments, manifests, directories, \* the blobs in the store, by kind
    root,      \* the published directory
    batches,   \* batches delivered so far
    delivered, \* every member of a successful insert
    memory     \* IsccIndex, fed with the same members

vars == <<segments, manifests, directories, root, batches, delivered, memory>>
blobs == <<segments, manifests, directories>>

-----------------------------------------------------------------------------
(***************************************************************************)
(* similarity.rs.                                                          *)
(***************************************************************************)
hamming(a, b) == Cardinality((a \ b) \union (b \ a))

band_width == CONTENT_CODE_BITS \div NumBands

\* Bands are counted from the most significant bits.
band_value(code, band) ==
    LET shift == CONTENT_CODE_BITS - band_width * (band + 1)
    IN  {bit - shift : bit \in {b \in code : shift <= b /\ b < shift + band_width}}

BucketIds == (0 .. NumBands - 1) \X SUBSET (0 .. band_width - 1)

buckets(code) == {<<band, band_value(code, band)>> : band \in 0 .. NumBands - 1}

\* Every mask with at most radius bits, each made once: bits are added above
\* the highest one a mask has.
bit_flip_masks(width, radius) ==
    LET highest(m) == CHOOSE h \in 0 .. width :
                         (\A b \in m : b < h) /\ (h = 0 \/ h - 1 \in m)
        level[n \in 0 .. radius] ==
            IF n = 0 THEN {{}}
            ELSE UNION {{m \union {bit} : bit \in highest(m) .. width - 1} : m \in level[n - 1]}
    IN  UNION {level[n] : n \in 0 .. radius}

query_buckets(code, probe) ==
    LET masks == bit_flip_masks(band_width, IF probe < band_width THEN probe ELSE band_width)
    IN  UNION {{<<band, (band_value(code, band) \ flip) \union (flip \ band_value(code, band))>> :
                   flip \in masks} : band \in 0 .. NumBands - 1}

\* verify: per key the smallest distance, when that is within the radius.
verify(code, candidates, radius) ==
    LET near == {m \in candidates : hamming(code, m.content_code) <= radius}
    IN  {[key |-> m.key, distance |-> hamming(code, m.content_code)] :
            m \in {n \in near : \A o \in near : o.key = n.key =>
                     hamming(code, n.content_code) <= hamming(code, o.content_code)}}

\* IsccIndex::insert, for the members of a batch in turn.
MemoryInsert(index, batch) ==
    LET Insert1(lists, m) ==
            [b \in BucketIds |->
               IF b \in buckets(m.content_code) /\ ~\E e \in lists[b] : e.key = m.key
               THEN lists[b] \union {m} ELSE lists[b]]
        after[n \in 0 .. Len(batch)] ==
            IF n = 0 THEN index ELSE Insert1(after[n - 1], batch[n])
    IN  after[Len(batch)]

-----------------------------------------------------------------------------
(***************************************************************************)
(* Reading the index.                                                      *)
(***************************************************************************)
EmptyManifest == [count |-> 0, segments |-> <<>>]

\* No index yet: load_directory takes it for an empty directory.
NoRoot == [v |-> 0, buckets |-> <<>>]

\* load_directory: the buckets there are.
Directory == DOMAIN root.buckets

\* load_bucket_manifest: an old posting list is one frozen segment.  (In an old
\* directory a bucket's list stands as the one segment of an uncounted manifest.)
load_bucket_manifest(b) ==
    IF b \notin Directory THEN EmptyManifest
    ELSE IF root.v = 2 THEN root.buckets[b]
    ELSE [root.buckets[b] EXCEPT !.count = Len(root.buckets[b].segments[1])]

\* The blobs a bucket is read from.
BucketReadable(b) ==
    /\ root.v = 2 => root.buckets[b] \in manifests
    /\ ToSet(load_bucket_manifest(b).segments) \subseteq segments

BucketMembers(b) == UNION {ToSet(s) : s \in ToSet(load_bucket_manifest(b).segments)}

QueryReadable(code, probe) ==
    \/ root = NoRoot
    \/ /\ root \in directories
       /\ \A b \in query_buckets(code, probe) \intersect Directory : BucketReadable(b)

query(code, radius, probe) ==
    verify(code, UNION {BucketMembers(b) : b \in query_buckets(code, probe) \intersect Directory},
           radius)

\* storectl similar: no wider than the configured radius.
similar(code, radius, probe) ==
    IF radius > SearchMaxRadius THEN {} ELSE query(code, radius, probe)

-----------------------------------------------------------------------------
(***************************************************************************)
(* insert_batch: of a bucket the last segment is taken up when it is not   *)
(* full, members it has not got are added, and the result is cut again.    *)
(***************************************************************************)
Segmented(tail) ==
    LET n == (Len(tail) + SEGMENT_MAX_MEMBERS - 1) \div SEGMENT_MAX_MEMBERS
        end(i) == IF i * SEGMENT_MAX_MEMBERS < Len(tail) THEN i * SEGMENT_MAX_MEMBERS ELSE Len(tail)
    IN  [i \in 1 .. n |-> SubSeq(tail, (i - 1) * SEGMENT_MAX_MEMBERS + 1, end(i))]

\* The members of the batch that belong in bucket b, after those of tail; each
\* is added when it is not there yet.
Extended(b, tail, batch) ==
    LET New(list, m) == b \in buckets(m.content_code) /\ m \notin ToSet(list)
        after[n \in 0 .. Len(batch)] ==
            IF n = 0 THEN tail
            ELSE IF New(after[n - 1], batch[n]) THEN Append(after[n - 1], batch[n])
            ELSE after[n - 1]
    IN  after[Len(batch)]

\* The last segment is taken up whether it is full or not.
Open_Full(b) == load_bucket_manifest(b).segments # <<>>

\* Whether the last segment of a bucket is taken up again, and what is then in
\* hand and what is left.
Open(b) ==
    LET old == load_bucket_manifest(b).segments
    IN  old # <<>> /\ Len(Last(old)) < SEGMENT_MAX_MEMBERS

Popped(b) == IF Open(b) THEN Last(load_bucket_manifest(b).segments) ELSE <<>>

Kept(b) ==
    LET old == load_bucket_manifest(b).segments
    IN  IF Open(b) THEN Front(old) ELSE old

NewTail(b, batch) == Extended(b, Popped(b), batch)

\* The segment that is taken up is not written back.
NewManifest_LostTail(b, batch) ==
    LET tail == Extended(b, <<>>, batch)
    IN  [count |-> load_bucket_manifest(b).count - Len(Popped(b)) + Len(tail),
         segments |-> Kept(b) \o Segmented(tail)]

\* The count of a segment that is taken up again is not given back.
NewManifest_CountsTwice(b, batch) ==
    LET tail == NewTail(b, batch)
    IN  [count |-> load_bucket_manifest(b).count + Len(tail),
         segments |-> Kept(b) \o Segmented(tail)]

NewManifest(b, batch) ==
    LET tail == NewTail(b, batch)
    IN  [count |-> load_bucket_manifest(b).count - Len(Popped(b)) + Len(tail),
         segments |-> Kept(b) \o Segmented(tail)]

Touched(batch) == UNION {buckets(m.content_code) : m \in ToSet(batch)}

\* The new directory: touched buckets are rewritten, the others carried over,
\* old posting lists under a manifest.
insert_batch(batch) ==
    [v |-> 2,
     buckets |-> [b \in Directory \union Touched(batch) |->
                    IF b \in Touched(batch) THEN NewManifest(b, batch)
                    ELSE load_bucket_manifest(b)]]

\* The blobs it reads: the directory, what it migrates, and the touched
\* buckets' manifests and last segments.
InsertReadable(batch) ==
    \/ root = NoRoot
    \/ /\ root \in directories
       /\ \A b \in Directory : root.v = 1 \/ b \in Touched(batch) => BucketReadable(b)

NewSegments(batch) == UNION {ToSet(Segmented(NewTail(b, batch))) : b \in Touched(batch)}
NewManifests(batch) == {insert_batch(batch).buckets[b] : b \in Directory \union Touched(batch)}

Insert(batch) ==
    /\ batches < MaxBatches /\ InsertReadable(batch)
    /\ segments' = segments \union NewSegments(batch)
    /\ manifests' = manifests \union NewManifests(batch)
    /\ directories' = directories \union {insert_batch(batch)}
    /\ root' = insert_batch(batch)
    /\ delivered' = delivered \union ToSet(batch)
    /\ memory' = MemoryInsert(memory, batch)
    /\ batches' = batches + 1

\* A put fails or the process ends: blobs were written, the root is the old one.
InsertFails(batch) ==
    /\ batches < MaxBatches
    /\ segments' = segments \union NewSegments(batch)
    /\ manifests' \in {manifests, manifests \union NewManifests(batch)}
    /\ batches' = batches + 1
    /\ UNCHANGED <<directories, root, delivered, memory>>

\* A walk that does not record segments.
Reachable_NoSegments ==
    [segments |-> {}, manifests |-> {load_bucket_manifest(b) : b \in Directory}]

\* collect_reachable from the root: segments are recorded without being read.
Reachable ==
    [segments |-> UNION {ToSet(load_bucket_manifest(b).segments) : b \in Directory},
     manifests |-> IF root # NoRoot /\ root.v = 2 THEN {root.buckets[b] : b \in Directory} ELSE {}]

\* The store's sweep, with the index walk as its protect set.
Sweep ==
    /\ segments' = segments \intersect Reachable.segments
    /\ manifests' = manifests \intersect Reachable.manifests
    /\ directories' = directories \intersect {root}
    /\ UNCHANGED <<root, batches, delivered, memory>>

-----------------------------------------------------------------------------
Batches == UNION {[1 .. n -> Members] : n \in 1 .. MaxBatch}

\* An index of the old format: every bucket one posting list.
Legacy(list) ==
    [v |-> 1,
     buckets |-> [b \in UNION {buckets(m.content_code) : m \in ToSet(list)} |->
                    [count |-> 0,
                     segments |-> <<Extended(b, <<>>, list)>>]]]

NoMemory == [b \in BucketIds |-> {}]

Init ==
    /\ manifests = {} /\ batches = 0
    /\ \E list \in LegacyLists \union {<<>>} :
          /\ root = IF list = <<>> THEN NoRoot ELSE Legacy(list)
          /\ directories = {root} \ {NoRoot}
          /\ segments = UNION {ToSet(load_bucket_manifest(b).segments) : b \in Directory}
          /\ delivered = ToSet(list)
          /\ memory = MemoryInsert(NoMemory, list)

Next ==
    \/ \E batch \in Batches : Insert(batch) \/ InsertFails(batch)
    \/ Sweep

Spec == Init /\ [][Next]_vars

-----------------------------------------------------------------------------
(***************************************************************************)
(* Search against its definition: whatever was delivered, redelivered,     *)
(* rolled over, migrated, cut short or swept, a query at the published     *)
(* root finds all its blobs, returns no key that is not within the radius  *)
(* at that distance, and misses none as long as the radius is below        *)
(* bands * (probe + 1): then some band differs in at most probe bits.      *)
(***************************************************************************)
SearchIsExact ==
    \A code \in QueryCodes, radius \in 0 .. SearchMaxRadius, probe \in 0 .. band_width :
        LET all == verify(code, delivered, radius)
        IN  /\ QueryReadable(code, probe)
            /\ radius < NumBands * (probe + 1) => similar(code, radius, probe) = all
            /\ \A r \in similar(code, radius, probe) : \E m \in delivered :
                  m.key = r.key /\ hamming(code, m.content_code) = r.distance /\ r.distance <= radius

\* Where the lists hold a member.
Places(lists) == UNION {{i} \X (1 .. Len(lists[i])) : i \in DOMAIN lists}

(***************************************************************************)
(* "Only the last segment may be non-full", and a manifest's count is the  *)
(* number of its members: over redelivery, rollover and migration.         *)
(***************************************************************************)
SegmentsAreTidy ==
    \A b \in Directory :
        LET m == load_bucket_manifest(b)
        IN  /\ m.count = Cardinality(Places(m.segments))
            /\ \A i \in 1 .. Len(m.segments) - 1 : Len(m.segments[i]) >= SEGMENT_MAX_MEMBERS

(***************************************************************************)
(* "full segments are immutable forever": a full segment of a bucket is    *)
(* still the same segment of its manifest after any step, a migration      *)
(* included.                                                               *)
(***************************************************************************)
StillThere(old, new) ==
    \A i \in DOMAIN old : Len(old[i]) >= SEGMENT_MAX_MEMBERS =>
        i \in DOMAIN new /\ new[i] = old[i]

FullSegmentsStay ==
    [][\A b \in Directory : StillThere(load_bucket_manifest(b).segments,
                                       load_bucket_manifest(b).segments')]_vars

\* The codes within a distance, by their place in the list.
Matches(codes, code, max_distance) ==
    {i \in DOMAIN codes : hamming(code, codes[i].content_code) <= max_distance}

\* The first n of some places.
FirstPlaces(places, n) == {i \in places : Cardinality({j \in places : j < i}) < n}

\* sort_by_key: by distance, at the same distance by place; no two are equal.
Before(codes, code, i, j) ==
    LET distance(k) == hamming(code, codes[k].content_code)
    IN  distance(i) < distance(j) \/ (distance(i) = distance(j) /\ i < j)

\* The hit that n - 1 others come before is the n-th.
Sorted(codes, code, hits) ==
    [n \in 1 .. Cardinality(hits) |->
       codes[CHOOSE i \in hits : Cardinality({j \in hits : Before(codes, code, j, i)}) = n - 1]]

FirstOf(n, seq) == SubSeq(seq, 1, IF Len(seq) < n THEN Len(seq) ELSE n)

\* A scan that stops at the limit, then sorts.
scan_CutFirst(codes, code, max_distance, limit) ==
    Sorted(codes, code, FirstPlaces(Matches(codes, code, max_distance), limit))

(***************************************************************************)
(* The viewer's own search over the codes of all listings: matches in scan *)
(* order up to MAX_HITS, sorted by distance, cut to the limit.             *)
(***************************************************************************)
scan(codes, code, max_distance, limit) ==
    FirstOf(limit, Sorted(codes, code, FirstPlaces(Matches(codes, code, max_distance), MAX_HITS)))

(***************************************************************************)
(* "Exact nearest-neighbor search", "exact (no LSH candidate misses)": as  *)
(* long as no more than MAX_HITS codes match, the scan answers with as     *)
(* many of the nearest matches as were asked for, each once and nearest    *)
(* first, in whatever order the listings have the codes.                   *)
(***************************************************************************)
ScanIsExact ==
    LET orders == SetToSeqs(delivered)
    IN  \A code \in QueryCodes, radius \in 0 .. SearchMaxRadius :
          LET Distance(m) == hamming(code, m.content_code)
              near == {m \in delivered : Distance(m) <= radius}
          IN  Cardinality(near) <= MAX_HITS =>
                \A codes \in orders, limit \in 1 .. MAX_HITS :
                  LET found == scan(codes, code, radius, limit)
                  IN  /\ Len(found) = IF Cardinality(near) < limit THEN Cardinality(near) ELSE limit
                      /\ \A i \in DOMAIN found :
                            /\ found[i] \in near \ {found[h] : h \in 1 .. i - 1}
                            /\ \A m \in near \ {found[h] : h \in 1 .. i} :
                                  Distance(found[i]) <= Distance(m)

(***************************************************************************)
(* "the reference the blob-backed distributed index mirrors                *)
(* bucket-for-bucket": the two indexes have the same keys in every bucket. *)
(***************************************************************************)
MirrorsReference ==
    \A b \in BucketIds :
        {m.key : m \in BucketMembers(b)} = {m.key : m \in memory[b]}

=============================================================================
