--------------------------- MODULE StorectlProofs ---------------------------
(***************************************************************************)
(* What storectl promises, for any number of partitions and roots, any set *)
(* of sick partitions and every combination of options: what a seeder      *)
(* remembers stays true of its store, a listing accounts for what it was   *)
(* asked for, and a get answers truly and closes its node.                 *)
(***************************************************************************)
EXTENDS Storectl, WellFoundedInduction, TLAPS

\* A root being warmed came from the document, and its index is walked before
\* its values.
WarmingInOrder ==
    /\ \A p \in Partitions : doc[p] <= published[p]
    /\ at \in {"walk", "values"} => root <= doc[Current]
    /\ at = "values" => <<Current, root>> \in index

SeederInv == SeederTypeOK /\ WarmingInOrder /\ WarmedHasIndex

\* The partition of a loop is one it has still to do.
LEMMA CurrentType ==
    ASSUME todo \subseteq Partitions, todo # {}
    PROVE  Current \in todo /\ Current \in Partitions
<1>1. todo \subseteq Nat
  BY SeederAssumption DEF Partitions
<1>2. \E p \in todo : \A q \in todo : p <= q
  <2> DEFINE R == OpToRel(<, Nat)
  <2>1. IsWellFoundedOn(R, Nat)
    BY NatLessThanWellFounded, Zenon
  <2>2. \A p, q \in Nat : <<q, p>> \notin R => p <= q
    BY SMT DEF OpToRel
  <2> HIDE DEF R
  <2>3. PICK p \in todo : \A q \in todo : <<q, p>> \notin R
    BY <1>1, <2>1, WFMin
  <2> QED
    BY <1>1, <2>2, <2>3
<1> QED
  BY <1>1, <1>2 DEF Current

\* The seed loop goes through the partitions of --shards.
LEMMA CurrentSelected ==
    ASSUME SeederTypeOK, todo # {}
    PROVE  Current \in todo /\ Current \in Selected /\ Current \in Partitions
  BY CurrentType, SeederAssumption DEF SeederTypeOK

\* A seeder that has just started has warmed nothing.
LEMMA SeedInitInv == SeedInit => SeederInv
<1> SUFFICES ASSUME SeedInit PROVE SeederInv
  OBVIOUS
<1>1. 0 \in Root0 /\ NoRoots \in [Partitions -> Root0] /\ 0 \in 0 .. FullEvery - 1
  BY SeederAssumption DEF Root0, NoRoots
<1>2. SeederTypeOK
  BY <1>1 DEF SeedInit, SeederTypeOK
<1> QED
  BY <1>2, SeederAssumption
     DEF SeedInit, SeederInv, WarmingInOrder, WarmedHasIndex, NoRoots, Root0

\* The environment: roots only grow, in the document too.
LEMMA EnvironmentInv ==
    ASSUME SeederInv, OriginPublishes \/ Replicate \/ FaultsCease
    PROVE  SeederInv'
<1> USE SeederAssumption DEF SeederInv, Root0
<1>1. todo' = todo /\ Current' = Current
  BY DEF OriginPublishes, Replicate, FaultsCease, Current
<1>2. at \in {"walk", "values"} => Current \in Partitions
  BY CurrentSelected DEF SeederTypeOK
<1>3. CASE OriginPublishes
  <2>1. SeederTypeOK'
    BY <1>3 DEF OriginPublishes, SeederTypeOK
  <2>2. WarmingInOrder'
    BY <1>1, <1>3 DEF OriginPublishes, SeederTypeOK, WarmingInOrder
  <2> QED
    BY <1>3, <2>1, <2>2 DEF OriginPublishes, WarmedHasIndex
<1>4. CASE Replicate
  <2>1. PICK p \in Partitions : doc' = [doc EXCEPT ![p] = published[p]]
    BY <1>4 DEF Replicate
  <2>2. SeederTypeOK'
    BY <1>4, <2>1 DEF Replicate, SeederTypeOK
  <2>3. \A q \in Partitions : doc[q] <= doc'[q] /\ doc'[q] <= published'[q]
    BY <1>4, <2>1 DEF Replicate, SeederTypeOK, WarmingInOrder
  <2>4. WarmingInOrder'
    BY <1>1, <1>2, <1>4, <2>2, <2>3 DEF Replicate, SeederTypeOK, WarmingInOrder
  <2>5. WarmedHasIndex'
    BY <1>4, <2>2, <2>3 DEF Replicate, SeederTypeOK, WarmedHasIndex
  <2> QED
    BY <2>2, <2>4, <2>5
<1>5. CASE FaultsCease
  BY <1>1, <1>5 DEF FaultsCease, SeederTypeOK, WarmingInOrder, WarmedHasIndex
<1> QED
  BY <1>3, <1>4, <1>5

\* Start, begin and end of a pass, crash: nothing is being warmed afterwards.
LEMMA LoopInv ==
    ASSUME SeederInv, Start \/ PassBegin \/ PassEnd \/ WarmTimesOut \/ Crash
    PROVE  SeederInv'
<1> USE SeederAssumption DEF SeederInv, Root0, envVars
<1>1. CASE Start
  BY <1>1 DEF Start, SeederTypeOK, WarmingInOrder, WarmedHasIndex
<1>2. CASE PassBegin
  BY <1>2 DEF PassBegin, SeederTypeOK, WarmingInOrder, WarmedHasIndex
<1>3. CASE PassEnd
  <2>1. (pass + 1) % FullEvery \in 0 .. FullEvery - 1
    BY DEF SeederTypeOK
  <2> QED
    BY <1>3, <2>1 DEF PassEnd, SeederTypeOK, WarmingInOrder, WarmedHasIndex
<1>4. CASE WarmTimesOut
  BY <1>4 DEF WarmTimesOut, Skip, SeederTypeOK, WarmingInOrder, WarmedHasIndex
<1>5. CASE Crash
  BY <1>5 DEF Crash, NoRoots, SeederTypeOK, WarmingInOrder, WarmedHasIndex
<1> QED
  BY <1>1, <1>2, <1>3, <1>4, <1>5

\* Warming one partition: the root is remembered only after its index is held.
LEMMA WarmInv ==
    ASSUME SeederInv, SeedPartition \/ WalkIndex \/ WarmValue \/ WarmDone
    PROVE  SeederInv'
<1> USE SeederAssumption DEF SeederInv, Root0, envVars
<1>0. todo # {} /\ Current \in todo /\ Current \in Selected /\ Current \in Partitions
  BY CurrentSelected DEF SeedPartition, WalkIndex, WarmValue, WarmDone, SeederTypeOK
<1>1. CASE SeedPartition
  <2>1. SeederTypeOK'
    <3>1. doc[Current] \in Root0
      BY <1>0 DEF SeederTypeOK
    <3>2. CASE Skip
      BY <1>0, <1>1, <3>2 DEF SeedPartition, Skip, SeederTypeOK
    <3>3. CASE at' = "walk" /\ root' = doc[Current] /\ UNCHANGED <<todo, left>>
      BY <1>0, <1>1, <3>1, <3>3 DEF SeedPartition, SeederTypeOK
    <3> QED
      BY <1>1, <3>2, <3>3 DEF SeedPartition
  <2>2. at' = "walk" => Current' = Current
    BY <1>1 DEF SeedPartition, Skip, Current
  <2> QED
    BY <1>0, <1>1, <2>1, <2>2
       DEF SeedPartition, Skip, SeederTypeOK, WarmingInOrder, WarmedHasIndex
<1>2. CASE WalkIndex
  <2>1. SeederTypeOK'
    <3>1. root \in Root0 /\ 1 .. root \subseteq 1 .. MaxRoot
      BY DEF SeederTypeOK
    <3>2. CASE Skip /\ UNCHANGED index
      BY <1>0, <1>2, <3>2 DEF WalkIndex, Skip, SeederTypeOK
    <3>3. CASE /\ index' = index \union {<<Current, root>>}
               /\ at' = "values" /\ left' = 1 .. root /\ UNCHANGED <<todo, root>>
      <4>1. index' \subseteq Partitions \X Root0
        BY ONLY <1>0, <3>1, <3>3, SeederInv DEF SeederInv, SeederTypeOK
      <4>2. left' \subseteq 1 .. MaxRoot
        BY ONLY <3>1, <3>3
      <4>3. /\ UNCHANGED <<published, doc, calm, values, pass, last_roots, todo, root>>
            /\ at' = "values"
        BY ONLY <1>2, <3>3 DEF WalkIndex, envVars
      <4> QED
        BY ONLY <1>0, <4>1, <4>2, <4>3, SeederInv DEF SeederInv, SeederTypeOK
    <3> QED
      BY <1>2, <3>2, <3>3 DEF WalkIndex
  <2>2. at' = "values" => Current' = Current
    BY <1>2 DEF WalkIndex, Skip, Current
  <2> QED
    BY <1>0, <1>2, <2>1, <2>2
       DEF WalkIndex, Skip, SeederTypeOK, WarmingInOrder, WarmedHasIndex
<1>3. CASE WarmValue
  <2>1. Current' = Current
    BY <1>3 DEF WarmValue, Current
  <2>2. SeederTypeOK'
    BY <1>0, <1>3 DEF WarmValue, SeederTypeOK
  <2> QED
    BY <1>3, <2>1, <2>2 DEF WarmValue, WarmingInOrder, WarmedHasIndex
<1>4. CASE WarmDone
  <2>1. SeederTypeOK'
    BY <1>0, <1>4 DEF WarmDone, Skip, SeederTypeOK
  <2> QED
    BY <1>0, <1>4, <2>1 DEF WarmDone, Skip, SeederTypeOK, WarmingInOrder, WarmedHasIndex
<1> QED
  BY <1>1, <1>2, <1>3, <1>4

\* A step of the seed loop, or of what goes on around it.
LEMMA SeedStepInv ==
    ASSUME SeederInv, [SeedNext]_seedVars
    PROVE  SeederInv'
<1>1. CASE OriginPublishes \/ Replicate \/ FaultsCease
  BY <1>1, EnvironmentInv
<1>2. CASE Start \/ PassBegin \/ PassEnd \/ WarmTimesOut \/ Crash
  BY <1>2, LoopInv
<1>3. CASE SeedPartition \/ WalkIndex \/ WarmValue \/ WarmDone
  BY <1>3, WarmInv
<1>4. CASE UNCHANGED seedVars
  BY <1>4 DEF SeederInv, SeederTypeOK, WarmingInOrder, WarmedHasIndex, Current,
              seedVars, envVars
<1> QED
  BY <1>1, <1>2, <1>3, <1>4 DEF SeedNext, SeedStep

-----------------------------------------------------------------------------
\* The partitions a report has placed.
Accounted == report.listed \union report.empty \union report.unreadable

\* A report places each partition once, and blames sick ones only.
PlacedOnce ==
    /\ report.listed \intersect (report.empty \union report.unreadable) = {}
    /\ report.empty \intersect report.unreadable = {}
    /\ report.partial \union report.unreadable \subseteq Sick
    /\ \A p \in Partitions \ Accounted : report.shown[p] = 0

\* list has placed the partitions it is past, and the one whose rows it shows.
ListPlaces ==
    /\ at \in {"off", "anchor", "next", "rows", "summary", "end"}
    /\ opts \in Options /\ todo \subseteq Requested
    /\ at = "off" => todo = {} /\ report = NoReport
    /\ at \in {"anchor", "next", "summary"} => Accounted = Requested \ todo
    /\ at = "rows" => /\ todo # {} /\ Current \in report.listed
                      /\ Accounted = (Requested \ todo) \union {Current}
    /\ at = "end" /\ error = "none" /\ ~stopped => Accounted = Requested
    /\ at \in {"off", "anchor", "next", "summary"} => ~stopped

\* What it has placed as complete it has shown, but for the rows to come.
RowsShown ==
    /\ at = "rows" => /\ rows > 0 \/ stopped
                      /\ \/ Current \in report.partial
                         \/ report.shown[Current] + rows = report.read[Current]
    /\ error = "none" /\ ~stopped => \A p \in report.listed \ report.partial :
          (at = "rows" /\ p = Current) \/ report.shown[p] = report.read[p]

\* A row is begun only below --max.
MaxKept ==
    opts.max # None =>
        /\ at # "end" /\ ~stopped => printed = 0 \/ printed < opts.max
        /\ printed <= opts.max \/ (opts.max = 0 /\ printed <= 1)

\* Once open, only a sick partition or a prompt makes it fail, and neither does
\* in the summary of all.
FailsOnSick ==
    /\ at \in {"next", "rows"} => ~SummaryOfAll
    /\ at # "end" => error = "none"
    /\ error \notin {"none", "spawn", "import", "input"} => Current \in Sick /\ ~SummaryOfAll
    /\ error = "input" => ~opts.summary /\ ~opts.no_page

ListInv == PlacedOnce /\ ListPlaces /\ RowsShown /\ MaxKept /\ FailsOnSick

\* get looks up at the root it read, which is no older than the document it was
\* opened on, and ends with its node shut down once it is open.
GetInv ==
    /\ \A p \in Partitions : doc[p] <= published[p]
    /\ at = "off" => closed
    /\ at # "off" => known <= doc[want[1]]
    /\ at \in {"lookup", "fetch"} => known <= rows
    /\ at = "fetch" => want[2] <= rows
    /\ at \in {"off", "root", "lookup", "fetch", "end"}
    /\ at # "off" => want \in Partitions \X (1 .. MaxRoot)
    /\ at \in {"off", "root"} => rows = 0
    /\ GetIsHonest

StorectlInv ==
    /\ TypeOK
    /\ command = "seed" => SeederInv
    /\ command # "seed" => last_roots = NoRoots
    /\ command = "list" => ListInv
    /\ command = "get" => GetInv

\* The fields of a report that places p in none of the sets but one.
LEMMA PlacedFields ==
    ASSUME report \in Report, NEW p \in Partitions
    PROVE  /\ LET e == [report EXCEPT !.empty = @ \union {p}]
              IN  /\ e \in Report /\ e.listed = report.listed /\ e.empty = report.empty \union {p}
                  /\ e.unreadable = report.unreadable /\ e.partial = report.partial
                  /\ e.read = report.read /\ e.shown = report.shown
           /\ LET u == [report EXCEPT !.unreadable = @ \union {p}]
              IN  /\ u \in Report /\ u.listed = report.listed /\ u.empty = report.empty
                  /\ u.unreadable = report.unreadable \union {p} /\ u.partial = report.partial
                  /\ u.read = report.read /\ u.shown = report.shown
  BY DEF Report

\* The fields of a report after a walk of p from root r.
LEMMA WalkedFields ==
    ASSUME report \in Report, NEW p \in Partitions, NEW r \in Root0, NEW walk \in Walks(p, r)
    PROVE  LET w == Walked(p, r, walk)
           IN  /\ w \in Report /\ w.empty = report.empty /\ w.shown = report.shown
               /\ walk.n \in 0 .. r
               /\ \/ /\ walk.n = 0 /\ p \in Sick
                     /\ w.unreadable = report.unreadable \union {p}
                     /\ w.listed = report.listed /\ w.read = report.read
                     /\ w.partial = report.partial
                  \/ /\ w.unreadable = report.unreadable
                     /\ w.listed = report.listed \union {p}
                     /\ w.read = [report.read EXCEPT ![p] = r]
                     /\ \/ p \in Sick /\ w.partial = report.partial \union {p}
                        \/ walk.n = r /\ w.partial = report.partial
<1>1. r \in Nat /\ MaxRoot \in Nat /\ 0 \in 0 .. r /\ r \in 0 .. r
  BY SeederAssumption DEF Root0
<1>2. \/ walk = [n |-> r, complete |-> TRUE]
      \/ p \in Sick /\ \E n \in 0 .. r : walk = [n |-> n, complete |-> FALSE]
  BY DEF Walks
<1>3. /\ walk.n \in 0 .. r
      /\ \/ walk.n = r /\ walk.complete = TRUE
         \/ p \in Sick /\ walk.complete = FALSE
  BY <1>1, <1>2
<1>4. report.read \in [Partitions -> Root0] /\ report.partial \in SUBSET Partitions
      /\ report.listed \in SUBSET Partitions
  BY DEF Report
<1>5. CASE walk.n = 0 /\ ~walk.complete
  BY <1>3, <1>5, PlacedFields DEF Walked
<1>6. CASE ~(walk.n = 0 /\ ~walk.complete)
  <2> DEFINE w == [report EXCEPT !.listed = @ \union {p}, !.read[p] = r,
                        !.partial = IF walk.complete THEN @ ELSE @ \union {p}]
  <2>1. Walked(p, r, walk) = w
    BY <1>6 DEF Walked
  <2>2. /\ w.listed = report.listed \union {p} /\ w.read = [report.read EXCEPT ![p] = r]
        /\ w.partial = (IF walk.complete THEN report.partial ELSE report.partial \union {p})
        /\ w.empty = report.empty /\ w.shown = report.shown /\ w.unreadable = report.unreadable
    BY DEF Report
  <2>3. w \in Report
    BY <1>4 DEF Report
  <2> HIDE DEF w
  <2> QED
    BY <1>3, <2>1, <2>2, <2>3
<1> QED
  BY <1>5, <1>6

\* A step puts p into one set of the report, a healthy p not among the failures.
Places(p) ==
    /\ report' \in Report
    /\ \A q \in Partitions \ {p} : /\ report'.shown[q] = report.shown[q]
                                   /\ report'.read[q] = report.read[q]
    /\ \/ /\ report'.empty = report.empty \union {p} /\ report'.listed = report.listed
          /\ report'.unreadable = report.unreadable /\ report'.partial = report.partial
       \/ /\ report'.unreadable = report.unreadable \union {p} /\ report'.listed = report.listed
          /\ report'.empty = report.empty /\ report'.partial = report.partial /\ p \in Sick
       \/ /\ report'.listed = report.listed \union {p} /\ report'.empty = report.empty
          /\ report'.unreadable = report.unreadable
          /\ \/ p \in Sick /\ report'.partial = report.partial \union {p}
             \/ report'.partial = report.partial

\* Placing what was not placed yet keeps the report in order.
LEMMA PlacesKeeps ==
    ASSUME report \in Report, PlacedOnce, NEW p \in Partitions, p \notin Accounted, Places(p)
    PROVE  /\ PlacedOnce' /\ Accounted' = Accounted \union {p}
           /\ \A q \in report'.listed \ report'.partial : q # p =>
                 /\ q \in report.listed \ report.partial
                 /\ report'.shown[q] = report.shown[q] /\ report'.read[q] = report.read[q]
<1>1. Accounted' = Accounted \union {p}
  BY DEF Places, Accounted
<1>2. \A q \in Partitions \ Accounted' : report'.shown[q] = 0
  BY <1>1 DEF Places, PlacedOnce
<1>3. /\ report'.listed \intersect (report'.empty \union report'.unreadable) = {}
      /\ report'.empty \intersect report'.unreadable = {}
      /\ report'.partial \union report'.unreadable \subseteq Sick
  BY DEF Places, PlacedOnce, Accounted
<1>4. \A q \in report'.listed \ report'.partial : q # p => q \in report.listed \ report.partial
  BY DEF Places
<1>5. report'.listed \subseteq Partitions
  BY DEF Places, Report
<1> QED
  BY <1>1, <1>2, <1>3, <1>4, <1>5 DEF Places, PlacedOnce

\* What list goes through.
LEMMA RequestedType ==
    ASSUME opts \in Options
    PROVE  Requested \subseteq Partitions /\ (opts.max # None => opts.max \in Nat)
  BY StorectlAssumption DEF Requested

\* The next partition of a listing.
LEMMA ListPartitionInv ==
    ASSUME TypeOK, ListInv, ListPartition
    PROVE  TypeOK' /\ ListInv'
<1>t. /\ report \in Report /\ todo \subseteq Requested /\ Requested \subseteq Partitions
      /\ opts \in Options /\ at = "next" /\ todo # {} /\ ~stopped /\ error = "none"
      /\ Accounted = Requested \ todo /\ ~SummaryOfAll /\ doc \in [Partitions -> Root0]
      /\ UNCHANGED <<doc, published, command, opts, printed, want, known>>
  BY RequestedType DEF ListPartition, ListInv, ListPlaces, FailsOnSick, TypeOK, warmVars
<1> PICK p \in Partitions : p = Current /\ p \in todo
  BY <1>t, CurrentType
<1>p. p \notin Accounted /\ p \in Requested
  BY <1>t
<1>s. Requested' = Requested /\ SummaryOfAll' = SummaryOfAll
  BY <1>t DEF Requested, SummaryOfAll
<1>q. PlacedOnce /\ \A q \in report.listed \ report.partial : report.shown[q] = report.read[q]
  BY <1>t DEF ListInv, RowsShown
<1>m. at' # "end" /\ stopped' = FALSE => MaxKept'
  BY <1>t DEF ListInv, MaxKept
<1>1. CASE /\ doc[p] = 0 /\ report' = [report EXCEPT !.empty = @ \union {p}]
           /\ todo' = todo \ {p} /\ UNCHANGED <<at, rows, prompt, stopped, error, closed>>
  <2>1. Places(p)
    BY <1>t, <1>1, PlacedFields DEF Places
  <2>2. /\ PlacedOnce' /\ Accounted' = Accounted \union {p}
        /\ \A q \in report'.listed \ report'.partial : q # p =>
                 /\ q \in report.listed \ report.partial
                 /\ report'.shown[q] = report.shown[q] /\ report'.read[q] = report.read[q]
    BY <1>t, <1>p, <1>q, <2>1, PlacesKeeps
  <2>3. report'.listed = report.listed
    BY <1>t, <1>1, PlacedFields
  <2>4. p \notin report'.listed
    BY <1>p, <2>3 DEF Accounted
  <2>5. ListPlaces'
    BY <1>t, <1>s, <1>p, <1>1, <2>2 DEF ListInv, ListPlaces
  <2>6. RowsShown'
    BY <1>t, <1>q, <1>1, <2>2, <2>4 DEF RowsShown
  <2>7. TypeOK'
    BY <1>t, <1>1, <2>1 DEF TypeOK, Places
  <2>8. FailsOnSick'
    BY <1>t, <1>s, <1>1 DEF FailsOnSick
  <2>9. MaxKept'
    BY <1>t, <1>m, <1>1
  <2> QED
    BY <2>2, <2>5, <2>6, <2>7, <2>8, <2>9 DEF ListInv
<1>2. CASE p \in Sick /\ Dies("root")
  <2>1. at' = "end" /\ error' = "root" /\ UNCHANGED <<todo, rows, report, prompt, stopped, closed>>
    BY <1>2 DEF Dies
  <2>2. Current' = p /\ PlacedOnce' /\ Accounted' = Accounted
    BY <1>q, <2>1 DEF Current, PlacedOnce, Accounted
  <2>3. ListPlaces'
    BY <1>t, <1>s, <2>1 DEF ListPlaces
  <2>4. RowsShown' /\ FailsOnSick'
    BY <1>t, <1>s, <1>2, <2>1, <2>2 DEF RowsShown, FailsOnSick
  <2>5. MaxKept'
    BY <1>t, <2>1 DEF ListInv, MaxKept
  <2>6. TypeOK'
    BY <1>t, <2>1 DEF TypeOK, Errors
  <2> QED
    BY <2>2, <2>3, <2>4, <2>5, <2>6 DEF ListInv
<1>3. CASE /\ doc[p] # 0
           /\ \E walk \in Walks(p, doc[p]) :
                 /\ report' = Walked(p, doc[p], walk) /\ rows' = walk.n
                 /\ IF walk.n = 0 THEN at' = at /\ todo' = todo \ {p}
                                  ELSE at' = "rows" /\ todo' = todo
           /\ UNCHANGED <<prompt, stopped, error, closed>>
  <2>1. PICK walk \in Walks(p, doc[p]) :
                 /\ report' = Walked(p, doc[p], walk) /\ rows' = walk.n
                 /\ IF walk.n = 0 THEN at' = at /\ todo' = todo \ {p}
                                  ELSE at' = "rows" /\ todo' = todo
    BY <1>3
  <2> PICK r \in Root0 : r = doc[p] /\ r # 0
    BY <1>t, <1>3
  <2>2. /\ report' \in Report /\ report'.empty = report.empty /\ report'.shown = report.shown
        /\ rows' \in 0 .. r
        /\ \/ /\ rows' = 0 /\ p \in Sick
              /\ report'.unreadable = report.unreadable \union {p}
              /\ report'.listed = report.listed /\ report'.read = report.read
              /\ report'.partial = report.partial
           \/ /\ report'.unreadable = report.unreadable
              /\ report'.listed = report.listed \union {p}
              /\ report'.read = [report.read EXCEPT ![p] = r]
              /\ \/ p \in Sick /\ report'.partial = report.partial \union {p}
                 \/ rows' = r /\ report'.partial = report.partial
    BY <1>t, <2>1, WalkedFields
  <2>3. Places(p)
    <3>1. report.read \in [Partitions -> Root0]
      BY <1>t DEF Report
    <3> QED
      BY <2>2, <3>1 DEF Places
  <2>4. /\ PlacedOnce' /\ Accounted' = Accounted \union {p}
        /\ \A q \in report'.listed \ report'.partial : q # p =>
                 /\ q \in report.listed \ report.partial
                 /\ report'.shown[q] = report.shown[q] /\ report'.read[q] = report.read[q]
    BY <1>t, <1>p, <1>q, <2>3, PlacesKeeps
  <2>5. rows' \in Root0 /\ rows' \in Nat /\ r \in Nat
    BY <2>2, SeederAssumption DEF Root0
  <2>6. report.shown[p] = 0 /\ p \notin report.listed
    BY <1>p, <1>q DEF PlacedOnce, Accounted
  <2>7. p \in report'.listed \ report'.partial => rows' = r /\ report'.read[p] = r
    <3>1. report.read \in [Partitions -> Root0]
      BY <1>t DEF Report
    <3> QED
      BY <2>2, <2>6, <3>1
  <2>8. TypeOK'
    BY <1>t, <1>3, <2>1, <2>2, <2>5 DEF TypeOK
  <2>9. MaxKept' /\ FailsOnSick'
    BY <1>t, <1>m, <1>s, <1>3, <2>1 DEF FailsOnSick
  <2>10. CASE rows' = 0
    <3>1. at' = "next" /\ todo' = todo \ {p}
      BY <1>t, <2>1, <2>10
    <3>2. ListPlaces'
      BY <1>t, <1>s, <1>p, <1>3, <2>4, <3>1 DEF ListPlaces
    <3>3. p \notin report'.listed \ report'.partial
      BY <2>7, <2>10
    <3>4. RowsShown'
      BY <1>t, <1>q, <2>4, <3>1, <3>3 DEF RowsShown
    <3> QED
      BY <2>4, <2>8, <2>9, <3>2, <3>4 DEF ListInv
  <2>11. CASE rows' # 0
    <3>1. at' = "rows" /\ todo' = todo
      BY <2>1, <2>11
    <3>2. Current' = p
      BY <3>1 DEF Current
    <3>3. p \in report'.listed
      BY <2>2, <2>11
    <3>4. ListPlaces'
      BY <1>t, <1>s, <1>p, <1>3, <2>4, <3>1, <3>2, <3>3 DEF ListPlaces
    <3>5. p \in report'.partial \/ report'.shown[p] + rows' = report'.read[p]
      BY <2>2, <2>5, <2>6, <2>7, <3>3
    <3>6. RowsShown'
      BY <1>t, <1>q, <2>4, <2>5, <2>11, <3>1, <3>2, <3>5 DEF RowsShown
    <3> QED
      BY <2>4, <2>8, <2>9, <3>4, <3>6 DEF ListInv
  <2> QED
    BY <2>10, <2>11
<1> QED
  BY <1>1, <1>2, <1>3 DEF ListPartition

\* One row of a listing: its value, --max, the pager.
LEMMA ListRowInv ==
    ASSUME TypeOK, ListInv, ListRow
    PROVE  TypeOK' /\ ListInv'
<1>t. /\ report \in Report /\ todo \subseteq Requested /\ Requested \subseteq Partitions
      /\ opts \in Options /\ at = "rows" /\ todo # {} /\ ~stopped /\ error = "none"
      /\ Accounted = (Requested \ todo) \union {Current} /\ Current \in report.listed
      /\ ~SummaryOfAll /\ rows \in Nat /\ rows > 0 /\ rows \in Root0 /\ printed \in Nat
      /\ UNCHANGED <<doc, published, command, opts, want, known>> /\ printed' = printed + 1
  BY RequestedType, SeederAssumption
     DEF ListRow, ListInv, ListPlaces, RowsShown, FailsOnSick, TypeOK, warmVars, Root0
<1> PICK p \in Partitions : p = Current /\ p \in todo
  BY <1>t, CurrentType
<1>s. Requested' = Requested /\ SummaryOfAll' = SummaryOfAll
  BY <1>t DEF Requested, SummaryOfAll
<1>x. opts.max # None => opts.max \in Nat
  BY <1>t, RequestedType
<1>m. opts.max # None => printed' <= opts.max \/ (opts.max = 0 /\ printed' <= 1)
  BY <1>t, <1>x DEF ListInv, MaxKept
<1>1. CASE \/ p \in Sick /\ Dies("value")
           \/ ~opts.summary /\ ~opts.no_page /\ Dies("input")
  <2>1. /\ at' = "end" /\ UNCHANGED <<todo, rows, report, prompt, stopped, closed>>
        /\ \/ error' = "value" /\ p \in Sick
           \/ error' = "input" /\ ~opts.summary /\ ~opts.no_page
    BY <1>1 DEF Dies
  <2>2. Current' = p /\ PlacedOnce' /\ Accounted' = Accounted
    BY <2>1 DEF ListInv, Current, PlacedOnce, Accounted
  <2>3. ListPlaces'
    BY <1>t, <1>s, <2>1 DEF ListPlaces
  <2>4. RowsShown' /\ FailsOnSick'
    BY <1>t, <1>s, <2>1, <2>2 DEF RowsShown, FailsOnSick
  <2>5. MaxKept'
    BY <1>t, <1>m, <2>1 DEF MaxKept
  <2>6. printed' \in Nat
    BY <1>t
  <2>7. TypeOK'
    BY <1>t, <2>1, <2>6 DEF TypeOK, Errors
  <2> QED
    BY <2>2, <2>3, <2>4, <2>5, <2>7 DEF ListInv
<1>2. CASE /\ report' = [report EXCEPT !.shown[p] = @ + 1] /\ rows' = rows - 1
           /\ prompt' \in {0, prompt, prompt + 1} /\ stopped' \in BOOLEAN
           /\ opts.max # None /\ printed' >= opts.max => stopped'
           /\ at' = IF stopped' \/ rows' > 0 THEN at ELSE "next"
           /\ todo' = IF stopped' \/ rows' > 0 THEN todo ELSE todo \ {p}
           /\ UNCHANGED <<error, closed>>
  <2>1. /\ report' \in Report /\ report'.shown = [report.shown EXCEPT ![p] = @ + 1]
        /\ report'.listed = report.listed /\ report'.empty = report.empty
        /\ report'.unreadable = report.unreadable /\ report'.partial = report.partial
        /\ report'.read = report.read
    BY <1>t, <1>2 DEF Report
  <2>2. report.shown \in [Partitions -> Nat] /\ report.listed \subseteq Partitions
    BY <1>t DEF Report
  <2>3. /\ report'.shown[p] = report.shown[p] + 1 /\ report.shown[p] \in Nat
        /\ \A q \in Partitions : q # p => report'.shown[q] = report.shown[q]
    BY <2>1, <2>2
  <2>4. Accounted' = Accounted /\ p \in Accounted
    BY <1>t, <2>1 DEF Accounted
  <2>5. PlacedOnce'
    <3>1. \A q \in Partitions \ Accounted' : report'.shown[q] = 0
      BY <2>3, <2>4 DEF ListInv, PlacedOnce
    <3> QED
      BY <2>1, <3>1 DEF ListInv, PlacedOnce
  <2>6. rows' \in Root0 /\ rows' \in Nat /\ prompt' \in Nat /\ printed' \in Nat
    BY <1>t, <1>2, SeederAssumption DEF Root0, TypeOK
  <2>7. TypeOK'
    <3>1. at' \in {"rows", "next"} /\ todo' \subseteq Partitions
      BY <1>t, <1>2
    <3> QED
      BY <1>t, <1>2, <2>1, <2>6, <3>1 DEF TypeOK
  <2>8. ~stopped' => printed' = 0 \/ (opts.max # None => printed' < opts.max)
    BY <1>t, <1>x, <1>2
  <2>9. MaxKept'
    BY <1>t, <1>m, <2>8 DEF MaxKept
  <2>10. FailsOnSick'
    BY <1>t, <1>s, <1>2 DEF FailsOnSick
  <2>11. \/ p \in report'.partial \/ report'.shown[p] + rows' = report'.read[p]
    <3>1. p \in report.partial \/ report.shown[p] + rows = report.read[p]
      BY <1>t DEF ListInv, RowsShown
    <3> QED
      BY <1>t, <1>2, <2>1, <2>3, <2>6, <3>1
  <2>12. \A q \in report'.listed \ report'.partial : q # p => report'.shown[q] = report'.read[q]
    BY <1>t, <2>1, <2>2, <2>3 DEF ListInv, RowsShown
  <2>13. CASE stopped' \/ rows' > 0
    <3>1. at' = "rows" /\ todo' = todo /\ Current' = p
      BY <1>t, <1>2, <2>13 DEF Current
    <3>2. ListPlaces'
      BY <1>t, <1>s, <2>1, <2>4, <3>1 DEF ListPlaces
    <3>3. RowsShown'
      BY <2>11, <2>12, <2>13, <3>1 DEF RowsShown
    <3> QED
      BY <2>5, <2>7, <2>9, <2>10, <3>2, <3>3 DEF ListInv
  <2>14. CASE ~(stopped' \/ rows' > 0)
    <3>0. ~stopped' /\ ~(rows' > 0)
      BY <2>14
    <3>1. at' = "next" /\ todo' = todo \ {p} /\ ~stopped' /\ rows' = 0
      <4>1. rows' = 0
        BY <2>6, <3>0
      <4>2. at' = "next" /\ todo' = todo \ {p}
        BY <1>2, <3>0, Zenon
      <4> QED
        BY <3>0, <4>1, <4>2
    <3>2. ListPlaces'
      BY <1>t, <1>s, <2>4, <3>1 DEF ListPlaces
    <3>3. p \in report'.partial \/ report'.shown[p] = report'.read[p]
      <4>1. report'.shown[p] \in Nat
        BY <2>3
      <4> QED
        BY <2>11, <3>1, <4>1
    <3>4. RowsShown'
      BY <2>12, <3>1, <3>3 DEF RowsShown
    <3> QED
      BY <2>5, <2>7, <2>9, <2>10, <3>2, <3>4 DEF ListInv
  <2> QED
    BY <2>13, <2>14
<1>3. \/ p \in Sick /\ Dies("value")
      \/ ~opts.summary /\ ~opts.no_page /\ Dies("input")
      \/ /\ report' = [report EXCEPT !.shown[p] = @ + 1] /\ rows' = rows - 1
         /\ prompt' \in {0, prompt, prompt + 1} /\ stopped' \in BOOLEAN
         /\ opts.max # None /\ printed' >= opts.max => stopped'
         /\ at' = IF stopped' \/ rows' > 0 THEN at ELSE "next"
         /\ todo' = IF stopped' \/ rows' > 0 THEN todo ELSE todo \ {p}
         /\ UNCHANGED <<error, closed>>
  BY DEF ListRow
<1> QED
  BY <1>1, <1>2, <1>3

\* The start of a listing, the wait for the document, and its end.
LEMMA ListEndsInv ==
    ASSUME TypeOK, ListInv, command = "list", List \/ Anchor \/ ListEnds
    PROVE  TypeOK' /\ ListInv'
<1>t. /\ Requested \subseteq Partitions /\ opts \in Options /\ todo \subseteq Requested
      /\ UNCHANGED <<doc, published, command, opts, rows, report, printed, prompt, stopped, want, known>>
  BY RequestedType DEF List, Anchor, ListEnds, ListInv, ListPlaces, warmVars
<1>s. Requested' = Requested /\ SummaryOfAll' = SummaryOfAll /\ Accounted' = Accounted
  BY <1>t DEF Requested, SummaryOfAll, Accounted
<1>o. PlacedOnce'
  BY <1>t, <1>s DEF ListInv, PlacedOnce
<1>1. CASE List
  <2>1. /\ at = "off" /\ todo' = Requested /\ closed' \in BOOLEAN
        /\ \/ at' = "end" /\ error' \in {"spawn", "import"}
           \/ at' = "anchor" /\ error' = error
    BY <1>1 DEF List, Opens, TypeOK
  <2>2. Accounted = {}
    BY <2>1 DEF ListInv, ListPlaces, Accounted, NoReport
  <2>3. ListPlaces'
    BY <1>t, <1>s, <2>1, <2>2 DEF ListInv, ListPlaces
  <2>4. RowsShown' /\ MaxKept'
    BY <1>t, <2>1 DEF ListInv, RowsShown, MaxKept
  <2>5. FailsOnSick'
    BY <1>t, <2>1 DEF ListInv, FailsOnSick
  <2>6. TypeOK'
    BY <1>t, <2>1 DEF TypeOK, Errors
  <2> QED
    BY <1>o, <2>3, <2>4, <2>5, <2>6 DEF ListInv
<1>2. CASE Anchor
  <2>1. at = "anchor" /\ at' = (IF SummaryOfAll THEN "summary" ELSE "next")
        /\ UNCHANGED <<todo, closed, error>>
    BY <1>2 DEF Anchor
  <2>2. ListPlaces'
    BY <1>t, <1>s, <2>1 DEF ListInv, ListPlaces
  <2>3. RowsShown' /\ MaxKept'
    BY <1>t, <2>1 DEF ListInv, RowsShown, MaxKept
  <2>4. FailsOnSick'
    BY <1>t, <1>s, <2>1 DEF ListInv, FailsOnSick
  <2>5. TypeOK'
    BY <1>t, <2>1 DEF TypeOK, Errors
  <2> QED
    BY <1>o, <2>2, <2>3, <2>4, <2>5 DEF ListInv
<1>3. CASE ListEnds
  <2>1. /\ at' = "end" /\ closed' = TRUE /\ UNCHANGED <<todo, error>>
        /\ \/ at \in {"next", "summary"} /\ todo = {}
           \/ at = "rows" /\ stopped
    BY <1>3 DEF ListEnds
  <2>2. error = "none"
    BY <2>1 DEF ListInv, FailsOnSick
  <2>3. ListPlaces'
    BY <1>t, <1>s, <2>1 DEF ListInv, ListPlaces
  <2>4. RowsShown'
    BY <1>t, <2>1 DEF ListInv, RowsShown
  <2>5. MaxKept'
    BY <1>t, <2>1 DEF ListInv, MaxKept
  <2>6. FailsOnSick'
    BY <1>t, <2>1, <2>2 DEF FailsOnSick
  <2>7. TypeOK'
    BY <1>t, <2>1 DEF TypeOK, Errors
  <2> QED
    BY <1>o, <2>3, <2>4, <2>5, <2>6, <2>7 DEF ListInv
<1> QED
  BY <1>1, <1>2, <1>3

\* One result of the parallel summary.
LEMMA SummariseInv ==
    ASSUME TypeOK, ListInv, Summarise
    PROVE  TypeOK' /\ ListInv'
<1>t. /\ report \in Report /\ todo \subseteq Requested /\ Requested \subseteq Partitions
      /\ opts \in Options /\ at = "summary" /\ ~stopped /\ error = "none"
      /\ Accounted = Requested \ todo /\ doc \in [Partitions -> Root0]
      /\ UNCHANGED <<doc, published, command, at, opts, rows, printed, prompt, stopped, error, want, known, closed>>
  BY RequestedType DEF Summarise, ListInv, ListPlaces, FailsOnSick, TypeOK, warmVars
<1>s. Requested' = Requested /\ SummaryOfAll' = SummaryOfAll
  BY <1>t DEF Requested, SummaryOfAll
<1>q. PlacedOnce /\ \A q \in report.listed \ report.partial : report.shown[q] = report.read[q]
  BY <1>t DEF ListInv, RowsShown
<1>1. PICK p \in todo :
          /\ todo' = todo \ {p}
          /\ \/ doc[p] = 0 /\ report' = [report EXCEPT !.empty = @ \union {p}]
             \/ p \in Sick /\ doc[p] # 0 /\ report' = [report EXCEPT !.unreadable = @ \union {p}]
             \/ /\ doc[p] # 0
                /\ \E walk \in Walks(p, doc[p]) :
                      report' = [Walked(p, doc[p], walk) EXCEPT !.shown[p] = walk.n]
  BY DEF Summarise
<1>p. p \in Partitions /\ p \notin Accounted /\ p \in Requested
  BY <1>t
<1>f. p \notin report.listed
  BY <1>p DEF Accounted
<1>2. Places(p) /\ (p \in report'.listed \ report'.partial => report'.shown[p] = report'.read[p])
  <2>1. CASE \/ report' = [report EXCEPT !.empty = @ \union {p}]
             \/ p \in Sick /\ report' = [report EXCEPT !.unreadable = @ \union {p}]
    <3>1. Places(p) /\ report'.listed = report.listed
      BY <1>t, <1>p, <2>1, PlacedFields DEF Places
    <3> QED
      BY <1>f, <3>1
  <2>2. CASE \E walk \in Walks(p, doc[p]) :
                 report' = [Walked(p, doc[p], walk) EXCEPT !.shown[p] = walk.n]
    <3> PICK walk \in Walks(p, doc[p]) :
                 report' = [Walked(p, doc[p], walk) EXCEPT !.shown[p] = walk.n]
      BY <2>2
    <3> PICK w : w = Walked(p, doc[p], walk)
      OBVIOUS
    <3> PICK r \in Root0 : r = doc[p]
      BY <1>t, <1>p
    <3>1. /\ w \in Report /\ w.empty = report.empty /\ w.shown = report.shown
          /\ walk.n \in 0 .. r
          /\ \/ /\ walk.n = 0 /\ p \in Sick
                /\ w.unreadable = report.unreadable \union {p}
                /\ w.listed = report.listed /\ w.read = report.read
                /\ w.partial = report.partial
             \/ /\ w.unreadable = report.unreadable
                /\ w.listed = report.listed \union {p}
                /\ w.read = [report.read EXCEPT ![p] = r]
                /\ \/ p \in Sick /\ w.partial = report.partial \union {p}
                   \/ walk.n = r /\ w.partial = report.partial
      BY <1>t, <1>p, WalkedFields
    <3>2. walk.n \in Nat /\ r \in Nat
      BY <3>1, SeederAssumption DEF Root0
    <3>3. /\ report' \in Report /\ report'.shown = [report.shown EXCEPT ![p] = walk.n]
          /\ report'.listed = w.listed /\ report'.empty = w.empty /\ report'.read = w.read
          /\ report'.unreadable = w.unreadable /\ report'.partial = w.partial
      BY <1>p, <3>1, <3>2 DEF Report
    <3>4. report.shown \in [Partitions -> Nat] /\ report.read \in [Partitions -> Root0]
      BY <1>t DEF Report
    <3>5. Places(p)
      BY <1>p, <3>1, <3>3, <3>4 DEF Places
    <3>6. p \in report'.listed \ report'.partial => report'.shown[p] = report'.read[p]
      BY <1>p, <1>f, <3>1, <3>3, <3>4
    <3> QED
      BY <3>5, <3>6
  <2> QED
    BY <1>1, <2>1, <2>2
<1>3. /\ PlacedOnce' /\ Accounted' = Accounted \union {p}
      /\ \A q \in report'.listed \ report'.partial : q # p =>
               /\ q \in report.listed \ report.partial
               /\ report'.shown[q] = report.shown[q] /\ report'.read[q] = report.read[q]
  BY <1>t, <1>p, <1>q, <1>2, PlacesKeeps
<1>4. ListPlaces'
  BY <1>t, <1>s, <1>p, <1>1, <1>3 DEF ListPlaces
<1>5. RowsShown'
  BY <1>t, <1>q, <1>2, <1>3 DEF RowsShown
<1>6. MaxKept' /\ FailsOnSick'
  BY <1>t, <1>s DEF ListInv, MaxKept, FailsOnSick
<1>7. TypeOK'
  BY <1>t, <1>1, <1>2 DEF TypeOK, Places
<1> QED
  BY <1>3, <1>4, <1>5, <1>6, <1>7 DEF ListInv

\* The steps of get.
LEMMA GetStepInv ==
    ASSUME TypeOK, GetInv, command = "get", Get \/ GetRoot \/ GetLookup \/ GetValue
    PROVE  TypeOK' /\ GetInv'
<1>t. UNCHANGED <<doc, published, command, todo, report, printed, prompt, stopped>>
  BY DEF Get, GetRoot, GetLookup, GetValue, warmVars
<1>u. /\ MaxRoot \in Nat /\ rows \in Nat /\ known \in Nat /\ doc \in [Partitions -> Root0]
      /\ \A p \in Partitions : doc[p] \in Nat
      /\ at # "off" => want \in Partitions \X (1 .. MaxRoot) /\ want[1] \in Partitions
                       /\ want[2] \in Nat /\ want[2] > 0
  BY SeederAssumption DEF TypeOK, GetInv, Root0
<1>d. \A p \in Partitions : doc'[p] <= published'[p]
  BY <1>t DEF GetInv
<1>e. ASSUME NEW e \in Errors \union {"none"}, GetEnds(e), UNCHANGED <<want, known, rows>>,
             at # "off",
             e \in {"none", "output", "value"} => want[2] <= rows,
             e = "timeout" => known = 0, e = "absent" => known < want[2],
             e \in {"root", "index", "value"} => want[1] \in Sick
      PROVE  TypeOK' /\ GetInv'
  <2>1. at' = "end" /\ error' = e /\ closed' = TRUE
    BY <1>e DEF GetEnds
  <2>2. TypeOK'
    BY <1>t, <1>e, <2>1 DEF TypeOK
  <2>3. GetIsHonest'
    BY <1>e, <2>1 DEF GetIsHonest
  <2> QED
    BY <1>t, <1>d, <1>u, <1>e, <2>1, <2>2, <2>3 DEF GetInv
<1>1. CASE Get
  <2>1. PICK p \in Partitions, i \in 1 .. MaxRoot : want' = <<p, i>> /\ known' = doc[p]
    BY <1>1 DEF Get
  <2>2. /\ at = "off" /\ UNCHANGED rows /\ rows = 0
        /\ \/ at' = "end" /\ error' = "spawn" /\ closed' = closed
           \/ at' = "end" /\ error' = "import" /\ closed' = FALSE
           \/ at' = "root" /\ closed' = FALSE /\ error' = error
    BY <1>1 DEF Get, Opens, GetInv
  <2>3. /\ want' \in Partitions \X (1 .. MaxRoot) /\ known' \in Root0
        /\ want'[1] = p /\ known' <= doc'[want'[1]]
    BY <1>t, <1>u, <2>1
  <2>4. TypeOK'
    BY <1>t, <2>2, <2>3 DEF TypeOK, Errors
  <2>5. GetIsHonest'
    BY <2>2 DEF GetIsHonest, GetInv
  <2> QED
    BY <1>d, <2>2, <2>3, <2>4, <2>5 DEF GetInv
<1>2. CASE GetRoot
  <2>0. at = "root" /\ UNCHANGED <<want, known>> /\ known <= doc[want[1]]
    BY <1>2 DEF GetRoot, GetInv
  <2>1. CASE at' = "lookup" /\ rows' = doc[want[1]] /\ UNCHANGED <<error, closed>>
    <3>1. rows' \in Root0
      BY <1>u, <2>0, <2>1
    <3>2. TypeOK'
      BY <1>t, <2>0, <2>1, <3>1 DEF TypeOK
    <3> QED
      BY <1>t, <1>d, <1>u, <2>0, <2>1, <3>2 DEF GetInv, GetIsHonest
  <2>2. CASE want[1] \in Sick /\ GetEnds("root") /\ UNCHANGED rows
    BY <1>e, <2>0, <2>2 DEF Errors
  <2>3. CASE doc[want[1]] = 0 /\ GetEnds("timeout") /\ UNCHANGED rows
    <3>1. known = 0
      BY <1>u, <2>0, <2>3
    <3> QED
      BY <1>e, <2>0, <2>3, <3>1 DEF Errors
  <2> QED
    BY <1>2, <2>1, <2>2, <2>3 DEF GetRoot
<1>3. CASE GetLookup
  <2>0. at = "lookup" /\ UNCHANGED <<want, known, rows>> /\ known <= rows
    BY <1>3 DEF GetLookup, GetInv
  <2>1. CASE want[2] <= rows /\ at' = "fetch" /\ UNCHANGED <<error, closed>>
    <3>1. TypeOK'
      BY <1>t, <2>0, <2>1 DEF TypeOK
    <3> QED
      BY <1>t, <1>d, <1>u, <2>0, <2>1, <3>1 DEF GetInv, GetIsHonest
  <2>2. CASE want[2] > rows /\ GetEnds("absent")
    <3>1. known < want[2]
      BY <1>u, <2>0, <2>2
    <3> QED
      BY <1>e, <2>0, <2>2, <3>1 DEF Errors
  <2>3. CASE want[1] \in Sick /\ GetEnds("index")
    BY <1>e, <2>0, <2>3 DEF Errors
  <2> QED
    BY <1>3, <2>1, <2>2, <2>3 DEF GetLookup
<1>4. CASE GetValue
  <2>0. at = "fetch" /\ UNCHANGED <<want, known, rows>> /\ want[2] <= rows
    BY <1>4 DEF GetValue, GetInv
  <2>1. CASE GetEnds("none") \/ GetEnds("output")
    BY <1>e, <2>0, <2>1 DEF Errors
  <2>2. CASE want[1] \in Sick /\ GetEnds("value")
    BY <1>e, <2>0, <2>2 DEF Errors
  <2> QED
    BY <1>4, <2>1, <2>2 DEF GetValue
<1> QED
  BY <1>1, <1>2, <1>3, <1>4

\* Publication and sync around a command change the document only.
LEMMA AroundInv ==
    ASSUME StorectlInv, Environment \/ UNCHANGED vars
    PROVE  StorectlInv'
<1>1. UNCHANGED <<command, opts, rows, report, printed, prompt, stopped, error, want, known, closed>>
  BY DEF Environment, readVars, vars
<1>2. [OriginPublishes \/ Replicate \/ FaultsCease]_seedVars
  BY DEF Environment, vars
<1>3. UNCHANGED <<at, todo, last_roots>>
  BY <1>2 DEF OriginPublishes, Replicate, FaultsCease, seedVars
<1>4. published' \in [Partitions -> Root0] /\ doc' \in [Partitions -> Root0]
  <2>0. published \in [Partitions -> Root0] /\ doc \in [Partitions -> Root0]
    BY DEF StorectlInv, TypeOK
  <2>1. CASE OriginPublishes
    BY <2>0, <2>1, SeederAssumption DEF OriginPublishes, Root0
  <2>2. CASE Replicate
    BY <2>0, <2>2 DEF Replicate
  <2>3. CASE FaultsCease \/ UNCHANGED seedVars
    BY <2>0, <2>3 DEF FaultsCease, seedVars, envVars
  <2> QED
    BY <1>2, <2>1, <2>2, <2>3
<1>5. TypeOK'
  BY <1>1, <1>3, <1>4 DEF StorectlInv, TypeOK
<1>6. command = "seed" => SeederInv'
  BY <1>2, SeedStepInv DEF StorectlInv, SeedNext
<1>7. /\ Current' = Current /\ Requested' = Requested /\ SummaryOfAll' = SummaryOfAll
      /\ Accounted' = Accounted
  BY <1>1, <1>3 DEF Current, Requested, SummaryOfAll, Accounted
<1>8. ASSUME ListInv PROVE ListInv'
  <2>1. PlacedOnce' /\ ListPlaces'
    BY <1>1, <1>3, <1>7, <1>8 DEF ListInv, PlacedOnce, ListPlaces
  <2>2. RowsShown' /\ MaxKept' /\ FailsOnSick'
    BY <1>1, <1>3, <1>7, <1>8 DEF ListInv, RowsShown, MaxKept, FailsOnSick
  <2> QED
    BY <2>1, <2>2 DEF ListInv
<1>9. ASSUME GetInv PROVE GetInv'
  <2>1. \A p \in Partitions : doc[p] <= doc'[p] /\ doc'[p] <= published'[p]
    BY <1>2, <1>9, SeederAssumption
       DEF OriginPublishes, Replicate, FaultsCease, seedVars, envVars, StorectlInv, TypeOK,
           GetInv, Root0
  <2>2. at # "off" => known <= doc'[want[1]]
    <3>1. /\ known \in Nat /\ \A p \in Partitions : doc[p] \in Nat /\ doc'[p] \in Nat
          /\ at # "off" => want[1] \in Partitions /\ known <= doc[want[1]]
      BY <1>4, <1>9, SeederAssumption DEF StorectlInv, TypeOK, GetInv, Root0
    <3> QED
      BY <2>1, <3>1
  <2> QED
    BY <1>1, <1>3, <1>9, <2>1, <2>2 DEF GetInv, GetIsHonest
<1> QED
  BY <1>1, <1>3, <1>5, <1>6, <1>8, <1>9 DEF StorectlInv

\* A step of the seeder is one of its loop; nothing else of the process moves.
LEMMA SeedingInv ==
    ASSUME StorectlInv, Seed(SeedStep) \/ Seed(WarmTimesOut \/ Crash)
    PROVE  StorectlInv'
<1>1. /\ command = "seed" /\ SeedNext
      /\ UNCHANGED <<command, opts, rows, report, printed, prompt, stopped, error, want, known, closed>>
  BY DEF Seed, readVars, SeedNext
<1>2. SeederInv'
  BY <1>1, SeedStepInv DEF StorectlInv
<1>3. /\ published' \in [Partitions -> Root0] /\ doc' \in [Partitions -> Root0]
      /\ at' \in {"off", "sleep", "pass", "walk", "values"} /\ todo' \subseteq Partitions
  BY <1>2, SeederAssumption DEF SeederInv, SeederTypeOK
<1>4. TypeOK'
  BY <1>1, <1>3 DEF StorectlInv, TypeOK
<1> QED
  BY <1>1, <1>2, <1>4 DEF StorectlInv

\* Every step keeps the invariant.
LEMMA StorectlStep == StorectlInv /\ [Next]_vars => StorectlInv'
<1> SUFFICES ASSUME StorectlInv, [Next]_vars PROVE StorectlInv'
  OBVIOUS
<1>1. CASE CommandStep
  <2>1. at \in {"off", "anchor", "next", "rows", "summary", "root", "lookup", "fetch"}
        /\ (command = "seed" => at = "off")
    <3>1. at \in {"off", "anchor", "next", "rows", "summary", "root", "lookup", "fetch"}
      BY <1>1 DEF CommandStep, List, Anchor, ListPartition, ListRow, ListEnds, Summarise,
         Get, GetRoot, GetLookup, GetValue
    <3> QED
      BY <3>1 DEF StorectlInv, SeederInv, SeederTypeOK
  <2>2. UNCHANGED <<command, last_roots>>
    BY <1>1 DEF CommandStep, List, Anchor, ListPartition, ListRow, ListEnds, Summarise,
       Get, GetRoot, GetLookup, GetValue, warmVars
  <2>3. CASE List \/ Anchor \/ ListPartition \/ ListRow \/ ListEnds \/ Summarise
    <3>1. command = "list"
      BY <2>1, <2>3 DEF List, Anchor, ListPartition, ListRow, ListEnds, Summarise,
         StorectlInv, TypeOK, GetInv
    <3>2. TypeOK /\ ListInv
      BY <3>1 DEF StorectlInv
    <3>3. TypeOK' /\ ListInv'
      BY <2>3, <3>1, <3>2, ListPartitionInv, ListRowInv, ListEndsInv, SummariseInv
    <3> QED
      BY <2>2, <3>1, <3>3 DEF StorectlInv
  <2>4. CASE Get \/ GetRoot \/ GetLookup \/ GetValue
    <3>1. command = "get"
      BY <2>1, <2>4 DEF Get, GetRoot, GetLookup, GetValue, StorectlInv, TypeOK, ListInv, ListPlaces
    <3>2. TypeOK' /\ GetInv'
      BY <2>4, <3>1, GetStepInv DEF StorectlInv
    <3> QED
      BY <2>2, <3>1, <3>2 DEF StorectlInv
  <2> QED
    BY <1>1, <2>3, <2>4 DEF CommandStep
<1> QED
  BY <1>1, AroundInv, SeedingInv DEF Next

\* It holds when the process starts, whatever it was started for.
LEMMA StorectlInit == Init => StorectlInv
<1> SUFFICES ASSUME Init PROVE StorectlInv
  OBVIOUS
<1>1. /\ SeedInit /\ command \in {"seed", "list", "get"} /\ at = "off" /\ todo = {}
      /\ rows = 0 /\ report = NoReport /\ printed = 0 /\ prompt = 0 /\ want = <<0, 0>>
      /\ stopped = FALSE /\ error = "none" /\ closed = TRUE /\ known = 0
      /\ (command = "list" => opts \in Options) /\ last_roots = NoRoots
  BY DEF Init, SeedInit
<1>2. SeederInv
  BY <1>1, SeedInitInv
<1>3. 0 \in Root0 /\ NoReport \in Report
  BY SeederAssumption DEF Root0, NoReport, Report
<1>4. TypeOK
  BY <1>1, <1>2, <1>3 DEF TypeOK, SeederInv, SeederTypeOK
<1>5. /\ report.listed = {} /\ report.empty = {} /\ report.unreadable = {} /\ report.partial = {}
      /\ \A p \in Partitions : report.shown[p] = 0
  BY <1>1 DEF NoReport
<1>6. command = "list" => ListInv
  <2>1. PlacedOnce
    BY <1>5 DEF PlacedOnce
  <2>2. command = "list" => ListPlaces
    BY <1>1 DEF ListPlaces
  <2>3. RowsShown /\ FailsOnSick
    BY <1>1, <1>5 DEF RowsShown, FailsOnSick
  <2>4. command = "list" => MaxKept
    BY <1>1, RequestedType DEF MaxKept
  <2> QED
    BY <2>1, <2>2, <2>3, <2>4 DEF ListInv
<1>7. GetInv
  BY <1>1, <1>2 DEF GetInv, GetIsHonest, SeederInv, WarmingInOrder
<1> QED
  BY <1>1, <1>2, <1>4, <1>6, <1>7 DEF StorectlInv

(***************************************************************************)
(* The inductive invariant of the process, whatever command it runs, while *)
(* the origin publishes and the document syncs under it.                   *)
(***************************************************************************)
THEOREM StorectlInvariant == Spec => []StorectlInv
  BY StorectlInit, StorectlStep, PTL DEF Spec

(***************************************************************************)
(* Seeding: a root a pass leaves out as unchanged since it was warmed has  *)
(* its whole index in the store, through failed walks, timeouts, crashes   *)
(* and newer roots.                                                        *)
(***************************************************************************)
THEOREM WarmedHasIndexHolds == Spec => []WarmedHasIndex
<1>1. StorectlInv => WarmedHasIndex
  <2>1. last_roots = NoRoots => WarmedHasIndex
    BY SeederAssumption DEF NoRoots, WarmedHasIndex
  <2> QED
    BY <2>1 DEF StorectlInv, SeederInv
<1> QED
  BY <1>1, StorectlInvariant, PTL

(***************************************************************************)
(* Listing: a report at the end of a listing places every requested        *)
(* partition once, has shown all rows of what it calls complete, keeps to  *)
(* --max and blames healthy partitions for nothing, for every combination  *)
(* of options and whatever is published meanwhile.                         *)
(***************************************************************************)
THEOREM ListIsHonestHolds == Spec => []ListIsHonest
<1>1. StorectlInv => ListIsHonest
  <2> SUFFICES ASSUME StorectlInv, at = "end", command = "list" PROVE ListIsHonest
    BY DEF ListIsHonest
  <2>1. ListInv
    BY DEF StorectlInv
  <2>2. /\ error \notin {"none", "spawn", "import", "input"} => Current \in Sick /\ ~SummaryOfAll
        /\ error = "input" => ~opts.summary /\ ~opts.no_page
    BY <2>1 DEF ListInv, FailsOnSick
  <2>3. opts.max # None => printed <= opts.max \/ (opts.max = 0 /\ printed <= 1)
    BY <2>1 DEF ListInv, MaxKept
  <2>4. error = "none" /\ ~stopped => Accounted = Requested
    BY <2>1 DEF ListInv, ListPlaces
  <2>5. error = "none" /\ ~stopped => \A p \in report.listed \ report.partial : report.shown[p] = report.read[p]
    BY <2>1 DEF ListInv, RowsShown
  <2>6. /\ report.listed \intersect (report.empty \union report.unreadable) = {}
        /\ report.empty \intersect report.unreadable = {}
        /\ \A p \in Requested \ Sick : p \notin report.partial \union report.unreadable
    BY <2>1 DEF ListInv, PlacedOnce
  <2> QED
    BY <2>2, <2>3, <2>4, <2>5, <2>6 DEF ListIsHonest, Accounted
<1> QED
  BY <1>1, StorectlInvariant, PTL

(***************************************************************************)
(* Getting: a get that is open ends with its node shut down, and answers   *)
(* truly of the document it was opened on, whatever is published and       *)
(* synced while it waits, reads and fetches.                               *)
(***************************************************************************)
THEOREM GetIsHonestHolds == Spec => []GetIsHonest
<1>1. StorectlInv => GetIsHonest
  BY DEF StorectlInv, GetInv, GetIsHonest
<1> QED
  BY <1>1, StorectlInvariant, PTL

=============================================================================
