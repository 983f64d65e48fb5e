------------------------------- MODULE Seeder -------------------------------
(***************************************************************************)
(* storectl seed (crates/storectl/src/commands.rs): an always-on replica   *)
(* that warms its blob store partition by partition and re-serves it.      *)
(*                                                                         *)
(* Data abstraction.  The roots published for a partition are numbered     *)
(* from 1; root r indexes records 1 .. r, every one with a value blob, and *)
(* 0 is "no root".  The local store is the set of roots whose index nodes  *)
(* are all there and the set of records whose value is.                    *)
(***************************************************************************)
EXTENDS Naturals, FiniteSets

CONSTANTS
    NumPartitions, \* top_level_partitions
    Selected,      \* --shards
    MaxRoot,       \* bound on the roots the origin publishes per partition
    FullEvery      \* passes from one full pass to the next (120)

Partitions == 0 .. NumPartitions - 1
Root0      == 0 .. MaxRoot

ASSUME SeederAssumption ==
    /\ NumPartitions \in Nat /\ MaxRoot \in Nat /\ FullEvery \in Nat \ {0}
    /\ Selected \subseteq Partitions

VARIABLES
    published,  \* the origin's roots
    doc,        \* the replicated pointer document
    index,      \* (partition, root) whose index nodes are held
    values,     \* (partition, record) whose value is held
    at,         \* where the seed loop stands
    todo,       \* partitions this pass has not come to
    pass,       \* pass number, modulo FullEvery
    last_roots, \* roots warmed by this process, 0 for none
    root,       \* the root being warmed
    left,       \* records whose fetch has not ended
    calm        \* no more faults or publications

envVars  == <<published, doc, calm>>
seedVars == <<envVars, index, values, at, todo, pass, last_roots, root, left>>

NoRoots == [p \in Partitions |-> 0]

SeederTypeOK ==
    /\ published \in [Partitions -> Root0] /\ doc \in [Partitions -> Root0]
    /\ index \subseteq Partitions \X Root0 /\ values \subseteq Partitions \X Root0
    /\ at \in {"off", "sleep", "pass", "walk", "values"}
    /\ todo \subseteq Selected /\ pass \in 0 .. FullEvery - 1
    /\ at \in {"walk", "values"} => todo # {}
    /\ last_roots \in [Partitions -> Root0]
    /\ root \in Root0 /\ left \subseteq 1 .. MaxRoot
    /\ calm \in BOOLEAN

\* A persistent store may have a copy of the document from an earlier run.
SeedInit ==
    /\ published \in [Partitions -> Root0] /\ calm = FALSE
    /\ doc \in [Partitions -> Root0] /\ \A p \in Partitions : doc[p] <= published[p]
    /\ index = {} /\ values = {}
    /\ at = "off" /\ todo = {} /\ pass = 0 /\ last_roots = NoRoots
    /\ root = 0 /\ left = {}

-----------------------------------------------------------------------------
\* External: the origin publishes, document sync delivers, faults end.
OriginPublishes ==
    /\ ~calm
    /\ \E p \in Partitions : /\ published[p] < MaxRoot
                             /\ published' = [published EXCEPT ![p] = @ + 1]
    /\ UNCHANGED <<doc, calm, index, values, at, todo, pass, last_roots, root, left>>

Replicate ==
    /\ at # "off"
    /\ \E p \in Partitions : /\ doc[p] # published[p]
                             /\ doc' = [doc EXCEPT ![p] = published[p]]
    /\ UNCHANGED <<published, calm, index, values, at, todo, pass, last_roots, root, left>>

FaultsCease ==
    /\ ~calm /\ calm' = TRUE
    /\ UNCHANGED <<published, doc, index, values, at, todo, pass, last_roots, root, left>>

-----------------------------------------------------------------------------
\* The process starts with nothing remembered, so its first pass warms all.
Start ==
    /\ at = "off"
    /\ at' = "sleep"
    /\ UNCHANGED <<envVars, index, values, todo, pass, last_roots, root, left>>

PassBegin ==
    /\ at = "sleep"
    /\ at' = "pass" /\ todo' = Selected
    /\ UNCHANGED <<envVars, index, values, pass, last_roots, root, left>>

\* The partition of the pass's for loop.
Current == CHOOSE p \in todo : \A q \in todo : p <= q

Skip == at' = "pass" /\ todo' = todo \ {Current} /\ root' = 0 /\ left' = {}

\* A seeder without its safety net.
full_pass_Never == FALSE

full_pass == pass = 0

\* The root from the document: none yet, unreadable, unchanged, or to be warmed.
SeedPartition ==
    /\ at = "pass" /\ todo # {}
    /\ \/ /\ \/ doc[Current] = 0
             \/ ~calm
             \/ ~full_pass /\ last_roots[Current] = doc[Current]
          /\ Skip
       \/ /\ doc[Current] # 0
          /\ full_pass \/ last_roots[Current] # doc[Current]
          /\ at' = "walk" /\ root' = doc[Current]
          /\ UNCHANGED <<todo, left>>
    /\ UNCHANGED <<envVars, index, values, pass, last_roots>>

\* A walk whose failure is remembered like a success.
WalkIndex_Marked ==
    /\ at = "walk"
    /\ \/ /\ index' = index \union {<<Current, root>>}
          /\ at' = "values" /\ left' = 1 .. root
          /\ UNCHANGED <<todo, root, last_roots>>
       \/ /\ ~calm /\ <<Current, root>> \notin index
          /\ Skip
          /\ last_roots' = [last_roots EXCEPT ![Current] = root]
          /\ UNCHANGED index
    /\ UNCHANGED <<envVars, values, pass>>

\* warm_partition: walk_entries first; a node that cannot be fetched fails it.
WalkIndex ==
    /\ at = "walk"
    /\ \/ /\ index' = index \union {<<Current, root>>}
          /\ at' = "values" /\ left' = 1 .. root
          /\ UNCHANGED <<todo, root>>
       \/ /\ ~calm /\ <<Current, root>> \notin index
          /\ Skip
          /\ UNCHANGED index
    /\ UNCHANGED <<envVars, values, pass, last_roots>>

\* Then every value: a get that finds no provider is no error, it is a None.
WarmValue ==
    /\ at = "values"
    /\ \E i \in left :
          /\ left' = left \ {i}
          /\ \/ values' = values \union {<<Current, i>>}
             \/ ~calm /\ UNCHANGED values
    /\ UNCHANGED <<envVars, index, at, todo, pass, last_roots, root>>

WarmDone ==
    /\ at = "values" /\ left = {}
    /\ last_roots' = [last_roots EXCEPT ![Current] = root]
    /\ Skip
    /\ UNCHANGED <<envVars, index, values, pass>>

\* The bound on one partition.  Fetches in flight are dropped, blobs are kept.
WarmTimesOut ==
    /\ at \in {"walk", "values"} /\ ~calm
    /\ Skip
    /\ UNCHANGED <<envVars, index, values, pass, last_roots>>

PassEnd ==
    /\ at = "pass" /\ todo = {}
    /\ pass' = (pass + 1) % FullEvery
    /\ at' = "sleep"
    /\ UNCHANGED <<envVars, index, values, todo, last_roots, root, left>>

Crash ==
    /\ at # "off" /\ ~calm
    /\ at' = "off" /\ todo' = {} /\ pass' = 0 /\ last_roots' = NoRoots
    /\ root' = 0 /\ left' = {}
    /\ UNCHANGED <<envVars, index, values>>

SeedStep ==
    \/ Start \/ PassBegin \/ SeedPartition \/ WalkIndex \/ WarmValue \/ WarmDone \/ PassEnd

SeedNext == SeedStep \/ WarmTimesOut \/ Crash \/ OriginPublishes \/ Replicate \/ FaultsCease

SeedSpec == SeedInit /\ [][SeedNext]_seedVars

-----------------------------------------------------------------------------
(***************************************************************************)
(* "unchanged since last warm": what a pass leaves out for that reason has *)
(* its whole index in the store, and is a root the document has had.       *)
(***************************************************************************)
WarmedHasIndex ==
    \A p \in Selected : last_roots[p] # 0 =>
        <<p, last_roots[p]>> \in index /\ last_roots[p] <= doc[p]

=============================================================================
