------------------------------ MODULE Storectl ------------------------------
(***************************************************************************)
(* storectl (crates/storectl/src/commands.rs): one process, which is a     *)
(* seeder (module Seeder), a get, or a list in its row-by-row or its       *)
(* parallel summary form, on a node of its own while the pointer document  *)
(* syncs under it.                                                         *)
(*                                                                         *)
(* Data abstraction, beside that of Seeder.  A walk gives all records of a *)
(* root, or fewer and says so.  The nodes, entry contents and values of    *)
(* sick partitions may be unavailable.  Output is the rows shown and the   *)
(* sets a report names.                                                    *)
(***************************************************************************)
EXTENDS Seeder

CONSTANTS
    Sick,          \* partitions with blobs that no peer serves
    Options,       \* the options list may be called with
    None           \* Rust's None: no --partition, no --max

ASSUME StorectlAssumption ==
    \A o \in Options :
        /\ o.partition # None => o.partition \in Partitions
        /\ o.max # None => o.max \in Nat
        /\ {o.summary, o.values, o.no_page} \subseteq BOOLEAN
        /\ {o.free_limit, o.page_size} \subseteq Nat

VARIABLES
    command, \* what the process was started for
    opts,    \* the options of list
    rows,    \* list: entries of the current partition not shown yet; get: the root read
    report,  \* what the final report is made of
    printed, \* list, row by row: rows begun
    prompt,  \* since_prompt
    stopped, \* --max, or q at a prompt
    error,   \* what the command failed on
    want,    \* get: the record asked for
    known,   \* get: the root of its partition the document had when it was opened
    closed   \* no node is up: not made yet, or shut down

warmVars == <<published, calm, index, values, pass, last_roots, root, left>>
readVars == <<opts, rows, report, printed, prompt, stopped, error, want, known, closed>>
vars     == <<seedVars, command, readVars>>

\* The early returns of a command, by the call that fails.
Errors == {"spawn", "import", "root", "timeout", "index", "absent", "value", "output", "input"}

\* read: the root a partition's walk started from; shown: rows or counts of it.
Report == [listed : SUBSET Partitions, empty : SUBSET Partitions,
           unreadable : SUBSET Partitions, partial : SUBSET Partitions,
           read : [Partitions -> Root0], shown : [Partitions -> Nat]]

NoReport == [listed |-> {}, empty |-> {}, unreadable |-> {}, partial |-> {},
             read |-> [p \in Partitions |-> 0], shown |-> [p \in Partitions |-> 0]]

TypeOK ==
    /\ command \in {"seed", "list", "get"}
    /\ published \in [Partitions -> Root0] /\ doc \in [Partitions -> Root0]
    /\ at \in {"off", "sleep", "pass", "walk", "values", "anchor", "next", "rows", "summary",
              "root", "lookup", "fetch", "end"}
    /\ todo \subseteq Partitions /\ rows \in Root0 /\ known \in Root0
    /\ report \in Report /\ printed \in Nat /\ prompt \in Nat
    /\ want \in (Partitions \X (1 .. MaxRoot)) \union {<<0, 0>>}
    /\ stopped \in BOOLEAN /\ error \in Errors \union {"none"} /\ closed \in BOOLEAN

Init ==
    /\ SeedInit
    /\ command \in {"seed", "list", "get"}
    /\ IF command = "list" THEN opts \in Options ELSE opts = CHOOSE o \in Options : TRUE
    /\ rows = 0 /\ report = NoReport /\ printed = 0 /\ prompt = 0
    /\ stopped = FALSE /\ error = "none" /\ want = <<0, 0>> /\ known = 0 /\ closed = TRUE

\* walk_entries_parallel: entries and completeness.
Walks(p, r) ==
    {[n |-> r, complete |-> TRUE]} \union
        (IF p \in Sick THEN {[n |-> n, complete |-> FALSE] : n \in 0 .. r} ELSE {})

-----------------------------------------------------------------------------
\* The ticket, the node and the import of the document: an error of the last is
\* returned with the node up.
Opens(next) ==
    \/ at' = "end" /\ error' = "spawn" /\ UNCHANGED closed
    \/ at' = "end" /\ error' = "import" /\ closed' = FALSE
    \/ at' = next /\ closed' = FALSE /\ UNCHANGED error

\* The partitions list goes through.
Requested == IF opts.partition = None THEN Partitions ELSE {opts.partition}

List ==
    /\ at = "off" /\ command = "list"
    /\ Opens("anchor") /\ todo' = Requested
    /\ UNCHANGED <<doc, command, warmVars, opts, rows, report, printed, prompt, stopped, want, known>>

SummaryOfAll == opts.summary /\ opts.partition = None

\* The wait for the first partition's root and for the document to settle: it
\* came, or patience is over.
Anchor ==
    /\ at = "anchor"
    /\ at' = IF SummaryOfAll THEN "summary" ELSE "next"
    /\ UNCHANGED <<doc, command, warmVars, opts, todo, rows, report, printed, prompt, stopped, error, want, known, closed>>

\* A listing that does not say when a walk was cut short.
Walked_Silent(p, r, walk) ==
    IF walk.n = 0 /\ ~walk.complete
    THEN [report EXCEPT !.unreadable = @ \union {p}]
    ELSE [report EXCEPT !.listed = @ \union {p}, !.read[p] = r]

\* What a walk of partition p from root r adds to a report.
Walked(p, r, walk) ==
    IF walk.n = 0 /\ ~walk.complete
    THEN [report EXCEPT !.unreadable = @ \union {p}]
    ELSE [report EXCEPT !.listed = @ \union {p}, !.read[p] = r,
                        !.partial = IF walk.complete THEN @ ELSE @ \union {p}]

\* An error that leaves list: no report, and the node is dropped as it is.
Dies(e) ==
    /\ at' = "end" /\ error' = e
    /\ UNCHANGED <<todo, rows, report, prompt, stopped, closed>>

\* The next partition of list: no root, a root that cannot be read, or a walk.
ListPartition ==
    /\ at = "next" /\ todo # {}
    /\ \/ /\ doc[Current] = 0
          /\ report' = [report EXCEPT !.empty = @ \union {Current}]
          /\ todo' = todo \ {Current}
          /\ UNCHANGED <<at, rows, prompt, stopped, error, closed>>
       \/ Current \in Sick /\ doc[Current] # 0 /\ Dies("root")
       \/ /\ doc[Current] # 0
          /\ \E walk \in Walks(Current, doc[Current]) :
                /\ report' = Walked(Current, doc[Current], walk)
                /\ rows' = walk.n
                /\ IF walk.n = 0 THEN at' = at /\ todo' = todo \ {Current}
                                 ELSE at' = "rows" /\ todo' = todo
          /\ UNCHANGED <<prompt, stopped, error, closed>>
    /\ UNCHANGED <<doc, command, warmVars, opts, printed, want, known>>

\* One row: its value when asked for, then --max, then the pager.
ListRow ==
    /\ at = "rows"
    /\ printed' = printed + 1
    /\ LET atMax == opts.max # None /\ printed' >= opts.max
           paged == ~opts.summary /\ ~opts.no_page /\ printed' >= opts.free_limit
           page  == paged /\ prompt + 1 >= opts.page_size
       IN  \/ opts.values /\ ~opts.summary /\ Current \in Sick /\ Dies("value")
           \/ page /\ ~atMax /\ Dies("input")
           \/ /\ report' = [report EXCEPT !.shown[Current] = @ + 1] /\ rows' = rows - 1
              /\ prompt' = IF page THEN 0 ELSE IF paged THEN prompt + 1 ELSE prompt
              /\ stopped' \in {atMax} \union (IF page THEN {TRUE} ELSE {})
              /\ at' = IF stopped' \/ rows' > 0 THEN at ELSE "next"
              /\ todo' = IF stopped' \/ rows' > 0 THEN todo ELSE todo \ {Current}
              /\ UNCHANGED <<error, closed>>
    /\ ~stopped
    /\ UNCHANGED <<doc, command, warmVars, opts, want, known>>

\* The report and the end.
ListEnds ==
    /\ \/ at \in {"next", "summary"} /\ todo = {}
       \/ at = "rows" /\ stopped
    /\ at' = "end" /\ closed' = TRUE
    /\ UNCHANGED <<doc, command, warmVars, opts, todo, rows, report, printed, prompt, stopped, error, want, known>>

\* list --summary over all partitions: tasks in any order, one result each, a
\* root that cannot be read among the unreadable.
Summarise ==
    /\ at = "summary"
    /\ \E p \in todo :
          /\ todo' = todo \ {p}
          /\ \/ doc[p] = 0 /\ report' = [report EXCEPT !.empty = @ \union {p}]
             \/ p \in Sick /\ doc[p] # 0 /\ report' = [report EXCEPT !.unreadable = @ \union {p}]
             \/ /\ doc[p] # 0
                /\ \E walk \in Walks(p, doc[p]) :
                      report' = [Walked(p, doc[p], walk) EXCEPT !.shown[p] = walk.n]
    /\ UNCHANGED <<doc, command, warmVars, at, opts, rows, printed, prompt, stopped, error, want, known, closed>>

-----------------------------------------------------------------------------
(***************************************************************************)
(* get: the partition's root, waiting for it up to 20 s; a lookup; the     *)
(* value; the output.  From the root on, every way out passes the node's   *)
(* shutdown.                                                               *)
(***************************************************************************)
Get ==
    /\ at = "off" /\ command = "get"
    /\ \E p \in Partitions, i \in 1 .. MaxRoot : want' = <<p, i>> /\ known' = doc[p]
    /\ Opens("root")
    /\ UNCHANGED <<doc, command, warmVars, opts, todo, rows, report, printed, prompt, stopped>>

\* An error that returns past the shutdown.
GetEnds_Early(e) == at' = "end" /\ error' = e /\ closed' = (e = "none")

GetEnds(e) == at' = "end" /\ error' = e /\ closed' = TRUE

\* wait_for_partition_root: found, unreadable, or not there in time.
GetRoot ==
    /\ at = "root"
    /\ \/ /\ doc[want[1]] # 0
          /\ at' = "lookup" /\ rows' = doc[want[1]]
          /\ UNCHANGED <<error, closed>>
       \/ doc[want[1]] # 0 /\ want[1] \in Sick /\ GetEnds("root") /\ UNCHANGED rows
       \/ doc[want[1]] = 0 /\ GetEnds("timeout") /\ UNCHANGED rows
    /\ UNCHANGED <<doc, command, warmVars, opts, todo, report, printed, prompt, stopped, want, known>>

\* The lookup at the root that was read, whatever is published meanwhile.
GetLookup ==
    /\ at = "lookup"
    /\ \/ want[2] <= rows /\ at' = "fetch" /\ UNCHANGED <<error, closed>>
       \/ want[2] > rows /\ GetEnds("absent")
       \/ want[1] \in Sick /\ GetEnds("index")
    /\ UNCHANGED <<doc, command, warmVars, opts, todo, rows, report, printed, prompt, stopped, want, known>>

\* The value, and its write to the file or to stdout.
GetValue ==
    /\ at = "fetch"
    /\ \/ GetEnds("none") \/ GetEnds("output")
       \/ want[1] \in Sick /\ GetEnds("value")
    /\ UNCHANGED <<doc, command, warmVars, opts, todo, rows, report, printed, prompt, stopped, want, known>>

-----------------------------------------------------------------------------
CommandStep ==
    \/ List \/ Anchor \/ ListPartition \/ ListRow \/ ListEnds \/ Summarise
    \/ Get \/ GetRoot \/ GetLookup \/ GetValue

Seed(step) == command = "seed" /\ step /\ UNCHANGED <<command, readVars>>

Environment == (OriginPublishes \/ Replicate \/ FaultsCease) /\ UNCHANGED <<command, readVars>>

Next == Seed(SeedStep) \/ Seed(WarmTimesOut \/ Crash) \/ CommandStep \/ Environment

Spec == Init /\ [][Next]_vars

\* The seed loop never ends and its process is kept up; document sync delivers.
FairSpec ==
    /\ Spec
    /\ WF_vars(Seed(SeedStep))
    /\ WF_vars(Replicate /\ UNCHANGED <<command, readVars>>)
    /\ WF_vars(FaultsCease /\ UNCHANGED <<command, readVars>>)

-----------------------------------------------------------------------------
Replicated(p, r) == /\ r # 0 => <<p, r>> \in index
                    /\ \A i \in 1 .. r : <<p, i>> \in values

(***************************************************************************)
(* "turns any machine into an always-on replica: it syncs every            *)
(* partition": once the network is well, every selected partition is held  *)
(* in full at the origin's root, whatever failed, timed out or was         *)
(* restarted before, values that failed silently included.                 *)
(***************************************************************************)
EventuallySeeded ==
    \A p \in Selected : (calm /\ command = "seed") ~> Replicated(p, published[p])

(***************************************************************************)
(* A listing that ran to its end accounts for every partition exactly      *)
(* once, and has shown every record of the roots it read except where it   *)
(* says partial, whatever the document learnt meanwhile.  It shows no more *)
(* than --max rows (one for --max 0).  Once it is open, only a sick        *)
(* partition or a lost terminal ends it with an error, and neither does in *)
(* the summary of all partitions: "reported and skipped, never fatal".     *)
(***************************************************************************)
ListIsHonest ==
    at = "end" /\ command = "list" =>
        /\ error \notin {"none", "spawn", "import", "input"} => Current \in Sick /\ ~SummaryOfAll
        /\ error = "input" => ~opts.summary /\ ~opts.no_page
        /\ opts.max # None /\ ~SummaryOfAll =>
              printed <= opts.max \/ (opts.max = 0 /\ printed <= 1)
        /\ error = "none" /\ ~stopped =>
              /\ report.listed \union report.empty \union report.unreadable = Requested
              /\ report.listed \intersect (report.empty \union report.unreadable) = {}
              /\ report.empty \intersect report.unreadable = {}
              /\ \A p \in report.listed \ report.partial : report.shown[p] = report.read[p]
              /\ \A p \in Requested \ Sick : p \notin report.partial \union report.unreadable

(***************************************************************************)
(* A get that got past the import of the document has shut its node down,  *)
(* whatever failed after that.  It delivers what the root it read lists,   *)
(* and what it answers is true of the document it was opened on: a record  *)
(* listed there is never "not in the current index", a partition with a    *)
(* root never "not there in time", and only blobs nobody serves make it    *)
(* fail otherwise.                                                         *)
(***************************************************************************)
GetIsHonest ==
    at = "end" /\ command = "get" =>
        /\ error # "import" => closed
        /\ error \in {"none", "output", "value"} => want[2] <= rows
        /\ error = "timeout" => known = 0
        /\ error = "absent" => known < want[2]
        /\ error \in {"root", "index", "value"} => want[1] \in Sick

=============================================================================
