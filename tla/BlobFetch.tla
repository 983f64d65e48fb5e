------------------------------ MODULE BlobFetch ------------------------------
(***************************************************************************)
(* The blob store every service reads and writes through                   *)
(* (crates/registry-node/src/blob_store.rs): batched prefetch from the     *)
(* providers under a stall guard, a pacing semaphore and a soft deadline,  *)
(* and single reads with retries and a download on a miss.                 *)
(*                                                                         *)
(* Data abstraction.  A blob stands for one request's worth of hashes (32  *)
(* in the code).  Clocks are left out: a deadline or a timeout may pass at *)
(* any time it is armed.  A transfer's progress events change nothing; its *)
(* end, its failure and its silence do.                                    *)
(***************************************************************************)
EXTENDS Naturals, FiniteSets

CONSTANTS
    NumBlobs,
    Callers,       \* concurrent prefetch calls
    Getters,       \* concurrent get calls
    NumProviders,
    PREFETCH_CONCURRENCY,
    Handlers       \* the callers that run in a request handler and may be dropped with it

ASSUME BlobFetchAssumption ==
    /\ IsFiniteSet(Callers) /\ IsFiniteSet(Getters)
    /\ NumBlobs \in Nat \ {0} /\ NumProviders \in Nat
    /\ PREFETCH_CONCURRENCY \in Nat \ {0} /\ Handlers \subseteq Callers

VARIABLES
    can_fetch, \* the store knows an endpoint and providers; not so if made with local_only
    held,      \* blobs complete in the local store
    writing,   \* transfer futures that write into the store and have not come to an end
    poisoned,  \* slots marked corrupt: the blob, and the caller whose transfer wrote it
    wedged,    \* providers that keep a connection up and answer nothing
    permits,   \* prefetch_limit
    call,      \* per caller: where its prefetch stands
    detached,  \* transfer futures left to a task of their own
    getter     \* per getter: where its get stands

fetchVars == <<permits, call, detached>>
vars      == <<can_fetch, held, writing, poisoned, wedged, fetchVars, getter>>

Blobs     == 1 .. NumBlobs
Providers == 1 .. NumProviders

\* A transfer future: the call that made it, its provider, what it asks for.
Future == Callers \X Providers \X Blobs

\* chunks: what this provider is still to be asked for.
Call == [at : {"idle", "filter", "dial", "acquire", "transfer", "drain"},
         missing : SUBSET Blobs, chunks : SUBSET Blobs,
         provider : 0 .. NumProviders + 1]

\* The transient errors in a row that a get is to outlast: two for a local store,
\* one for a store that confirms with its downloader.  The store gives no more.
MaxErrors == IF can_fetch THEN 1 ELSE 2

\* present: the store had the blob when the get began; errors: transient ones it met.
Getter == [at : {"idle", "read", "download", "reread", "none"},
           blob : Blobs, attempt : 0 .. 4, present : BOOLEAN, errors : 0 .. 2]

IdleCall == [at |-> "idle", missing |-> {}, chunks |-> {},
             provider |-> 0]

IdleGetter == [at |-> "idle", blob |-> 1, attempt |-> 0,
               present |-> FALSE, errors |-> 0]

TypeOK ==
    /\ can_fetch \in BOOLEAN
    /\ held \subseteq Blobs /\ poisoned \subseteq Callers \X Blobs
    /\ writing \subseteq Future /\ detached \subseteq Future
    /\ wedged \subseteq Providers
    /\ permits \in 0 .. PREFETCH_CONCURRENCY
    /\ call \in [Callers -> Call]
    /\ getter \in [Getters -> Getter]

Init ==
    /\ can_fetch \in BOOLEAN /\ (can_fetch => NumProviders > 0)
    /\ held \in SUBSET Blobs /\ writing = {} /\ poisoned = {} /\ wedged = {}
    /\ permits = PREFETCH_CONCURRENCY
    /\ call = [c \in Callers |-> IdleCall]
    /\ detached = {}
    /\ getter = [g \in Getters |-> IdleGetter]

-----------------------------------------------------------------------------
(***************************************************************************)
(* External: the providers.                                                *)
(***************************************************************************)
Wedge(p) ==
    /\ wedged' = IF p \in wedged THEN wedged \ {p} ELSE wedged \union {p}
    /\ UNCHANGED <<can_fetch, held, writing, poisoned, fetchVars, getter>>

-----------------------------------------------------------------------------
(***************************************************************************)
(* prefetch.  Without an endpoint or a provider it does nothing.  A member *)
(* of Callers stands for one call after the other; it bounds the model     *)
(* that it begins another when the transfers it left behind have ended.    *)
(***************************************************************************)
Prefetch(c) ==
    /\ call[c].at = "idle" /\ can_fetch
    /\ \A f \in writing : f[1] # c
    /\ \E wanted \in (SUBSET Blobs) \ {{}} :
          call' = [call EXCEPT ![c] = [at |-> "filter", missing |-> wanted, chunks |-> {},
                                       provider |-> 1]]
    /\ UNCHANGED <<can_fetch, held, writing, poisoned, wedged, permits, detached, getter>>

\* The presence filter is read-only and abandoned at the deadline, which ends the
\* call as nothing missing does; a blob whose presence cannot be told is fetched.
Filter(c) ==
    /\ call[c].at = "filter"
    /\ \/ call' = [call EXCEPT ![c] = IdleCall]
       \/ \E known \in SUBSET held :
             /\ call[c].missing \ known # {}
             /\ call' = [call EXCEPT ![c] = [call[c] EXCEPT !.missing = @ \ known, !.at = "dial"]]
    /\ UNCHANGED <<can_fetch, held, writing, poisoned, wedged, permits, detached, getter>>

\* The next provider, unless the deadline is over: a connection, or none.
Dial(c) ==
    /\ call[c].at = "dial"
    /\ \/ call' = [call EXCEPT ![c] = IdleCall]
       \/ /\ call[c].provider <= NumProviders
          /\ \/ call' = [call EXCEPT ![c] = [call[c] EXCEPT !.at = "acquire",
                                                           !.chunks = call[c].missing]]
             \/ call' = [call EXCEPT ![c].provider = @ + 1]
    /\ UNCHANGED <<can_fetch, held, writing, poisoned, wedged, permits, detached, getter>>

\* The chunk a caller asks for: missing.chunks(BATCH) goes through them in order.
Asked(c) == {b \in call[c].chunks : \A d \in call[c].chunks : b <= d}

\* The future execute_get_many gives it for that chunk.
Transfer(c) == {<<c, call[c].provider, b>> : b \in Asked(c)}

\* A request sent without waiting for a permit.
Acquire_Unpaced(c) ==
    /\ call[c].at = "acquire"
    /\ call' = [call EXCEPT ![c].at = "transfer"]
    /\ permits' = IF permits > 0 THEN permits - 1 ELSE 0
    /\ writing' = writing \union Transfer(c)
    /\ UNCHANGED <<can_fetch, held, poisoned, wedged, detached, getter>>

\* A permit, then the request.  timeout_at polls the acquire before its own
\* timer: a permit that is free is taken however late it is, and only a wait
\* for one ends at the deadline.
Acquire(c) ==
    /\ call[c].at = "acquire" /\ permits > 0
    /\ call' = [call EXCEPT ![c].at = "transfer"]
    /\ permits' = permits - 1
    /\ writing' = writing \union Transfer(c)
    /\ UNCHANGED <<can_fetch, held, poisoned, wedged, detached, getter>>

AcquireTimesOut(c) ==
    /\ call[c].at = "acquire" /\ permits = 0
    /\ call' = [call EXCEPT ![c] = IdleCall]
    /\ UNCHANGED <<can_fetch, held, writing, poisoned, wedged, permits, detached, getter>>

\* The transfer's own end: the permit is dropped; a failure moves on to the next
\* provider, the last chunk ends the prefetch.
TransferDone(c) ==
    /\ call[c].at = "transfer" /\ call[c].provider \notin wedged
    /\ held' = held \union Asked(c) /\ writing' = writing \ Transfer(c)
    /\ permits' = permits + 1
    /\ IF call[c].chunks = Asked(c)
       THEN call' = [call EXCEPT ![c] = IdleCall]
       ELSE call' = [call EXCEPT ![c] = [call[c] EXCEPT !.chunks = @ \ Asked(c),
                                                        !.at = "acquire"]]
    /\ UNCHANGED <<can_fetch, poisoned, wedged, detached, getter>>

\* What follows run_transfer_with_stall_guard's FALSE.
NextProvider(c) ==
    call' = [call EXCEPT ![c] = [call[c] EXCEPT !.at = "dial", !.chunks = {},
                                                !.provider = @ + 1]]

TransferFails(c) ==
    /\ call[c].at = "transfer"
    /\ writing' = writing \ Transfer(c)
    /\ permits' = permits + 1
    /\ NextProvider(c)
    /\ UNCHANGED <<can_fetch, held, poisoned, wedged, detached, getter>>

\* No timeout at all: a transfer ends when its provider ends it.
Stall_Never(c) ==
    /\ FALSE
    /\ UNCHANGED vars

(***************************************************************************)
(* run_transfer_with_stall_guard: silence closes the connection, and the   *)
(* transfer is driven to the error that makes; if even that takes too long *)
(* it goes on in a task of its own.                                        *)
(***************************************************************************)
Stall(c) ==
    /\ call[c].at = "transfer" /\ call[c].provider \in wedged
    /\ call' = [call EXCEPT ![c].at = "drain"]
    /\ UNCHANGED <<can_fetch, held, writing, poisoned, wedged, permits, detached, getter>>

\* The drain reads the future's own end, an error or what was under way.
Drained(c) ==
    /\ call[c].at = "drain"
    /\ held' \in {held, held \union Asked(c)} /\ writing' = writing \ Transfer(c)
    /\ permits' = permits + 1
    /\ NextProvider(c)
    /\ UNCHANGED <<can_fetch, poisoned, wedged, detached, getter>>

\* A drain that runs out of time and returns: the future goes with its scope.
Detach_Forgets(c) ==
    /\ call[c].at = "drain"
    /\ permits' = permits + 1
    /\ NextProvider(c)
    /\ UNCHANGED <<can_fetch, held, writing, poisoned, wedged, detached, getter>>

\* The drain runs out of time: the future moves to a task of its own.
Detach(c) ==
    /\ call[c].at = "drain"
    /\ detached' = detached \union Transfer(c)
    /\ permits' = permits + 1
    /\ NextProvider(c)
    /\ UNCHANGED <<can_fetch, held, writing, poisoned, wedged, getter>>

\* It ends by its own error, or with what had arrived before the close.
DetachedEnds ==
    /\ \E f \in detached :
          /\ detached' = detached \ {f} /\ writing' = writing \ {f}
          /\ held' \in {held, held \union {f[3]}}
    /\ UNCHANGED <<can_fetch, poisoned, wedged, permits, call, getter>>

\* The task a prefetch runs in is dropped (an HTTP handler whose client is
\* gone), and with it all it holds: its permit and the transfer it drives.
CallerDropped(c) ==
    /\ c \in Handlers /\ call[c].at # "idle"
    /\ permits' = IF call[c].at \in {"transfer", "drain"} THEN permits + 1 ELSE permits
    /\ call' = [call EXCEPT ![c] = IdleCall]
    /\ UNCHANGED <<can_fetch, held, writing, poisoned, wedged, detached, getter>>

\* A future is driven by the call that polls it, or by its own task.
Driven(f) ==
    \/ f \in detached
    \/ call[f[1]].at \in {"transfer", "drain"} /\ f \in Transfer(f[1])

\* External: the store finds a write that nobody drives, and marks the slot of
\* a blob that is not complete as corrupt.
Corrupts ==
    /\ \E f \in writing :
          /\ ~Driven(f)
          /\ writing' = writing \ {f}
          /\ poisoned' = poisoned \union ({f[1]} \X ({f[3]} \ held))
    /\ UNCHANGED <<can_fetch, held, wedged, fetchVars, getter>>

-----------------------------------------------------------------------------
(***************************************************************************)
(* get.  get_bytes does not tell a missing blob from a transient error.    *)
(***************************************************************************)
Readable(b) == b \in held /\ \A c \in Callers : <<c, b>> \notin poisoned

\* A local store that gives up one attempt early.
attempts_OneLess == IF can_fetch THEN 1 ELSE 2

attempts == IF can_fetch THEN 1 ELSE 3

Get(g) ==
    /\ getter[g].at \in {"idle", "none"}
    /\ \E b \in Blobs :
          getter' = [getter EXCEPT ![g] = [at |-> "read", blob |-> b, attempt |-> 1,
                                           present |-> Readable(b), errors |-> 0]]
    /\ UNCHANGED <<can_fetch, held, writing, poisoned, wedged, fetchVars>>

\* A read that fails: the next attempt, the download, or the answer "missing".
GetFails(g, otherwise, errors) ==
    IF otherwise = "none"
    THEN getter' = [getter EXCEPT ![g] = [at |-> "none", blob |-> 1, attempt |-> 0,
                                          present |-> getter[g].present, errors |-> 0]]
    ELSE getter' = [getter EXCEPT ![g] = [getter[g] EXCEPT !.at = otherwise,
                                          !.attempt = @ + 1, !.errors = errors]]

\* One get_bytes: the bytes, or an error that is transient or a miss.  Transient
\* errors are counted, and limited, for a blob that was there from the start.
GetBytes(g, otherwise) ==
    \/ /\ Readable(getter[g].blob)
       /\ getter' = [getter EXCEPT ![g] = IdleGetter]
    \/ /\ ~Readable(getter[g].blob) \/ ~getter[g].present
       /\ GetFails(g, otherwise, getter[g].errors)
    \/ /\ getter[g].present /\ getter[g].errors < MaxErrors
       /\ GetFails(g, otherwise, getter[g].errors + 1)

GetRead(g) ==
    /\ getter[g].at = "read"
    /\ GetBytes(g, IF getter[g].attempt < attempts THEN "read"
                   ELSE IF can_fetch THEN "download" ELSE "none")
    /\ UNCHANGED <<can_fetch, held, writing, poisoned, wedged, fetchVars>>

\* The downloader (external) confirms a blob it has, or fetches it, or fails.
GetDownload(g) ==
    /\ getter[g].at = "download"
    /\ \/ /\ getter[g].blob \in held \/ Providers \ wedged # {}
          /\ held' = held \union {getter[g].blob}
          /\ getter' = [getter EXCEPT ![g].at = "reread"]
       \/ /\ getter[g].blob \notin held
          /\ GetFails(g, "none", 0)
          /\ UNCHANGED held
    /\ UNCHANGED <<can_fetch, writing, poisoned, wedged, fetchVars>>

GetReread(g) ==
    /\ getter[g].at = "reread"
    /\ GetBytes(g, "none")
    /\ UNCHANGED <<can_fetch, held, writing, poisoned, wedged, fetchVars>>

\* put: add_bytes; the blob is complete when it returns.
Put ==
    /\ \E b \in Blobs \ held : held' = held \union {b}
    /\ UNCHANGED <<can_fetch, writing, poisoned, wedged, fetchVars, getter>>

-----------------------------------------------------------------------------
PrefetchStep(c) ==
    \/ Filter(c) \/ Dial(c) \/ Acquire(c) \/ AcquireTimesOut(c)
    \/ TransferDone(c) \/ TransferFails(c) \/ Stall(c) \/ Drained(c) \/ Detach(c)

GetStep(g) == GetRead(g) \/ GetDownload(g) \/ GetReread(g)

Next ==
    \/ \E p \in Providers : Wedge(p)
    \/ \E c \in Callers : Prefetch(c) \/ PrefetchStep(c) \/ CallerDropped(c)
    \/ \E g \in Getters : Get(g) \/ GetStep(g)
    \/ Put \/ DetachedEnds \/ Corrupts

Spec == Init /\ [][Next]_vars

\* Timers fire and a task that can run does; a provider owes nothing.
FairSpec ==
    /\ Spec
    /\ \A c \in Callers :
          /\ WF_vars(Filter(c)) /\ WF_vars(Dial(c)) /\ WF_vars(Drained(c) \/ Detach(c))
          /\ WF_vars(Acquire(c) \/ AcquireTimesOut(c))
          /\ WF_vars(TransferDone(c) \/ Stall(c))

-----------------------------------------------------------------------------
(***************************************************************************)
(* "The guard NEVER cancels the transfer future - dropping it mid-write is *)
(* what corrupt-marks store slots": whatever stalls, fails, is drained,    *)
(* detached or runs out of time, someone drives every transfer to its end, *)
(* and a slot is corrupted only through a caller that is itself dropped    *)
(* with the request handler it runs in.                                    *)
(***************************************************************************)
NeverPoisoned ==
    /\ \A f \in writing : f[1] \notin Handlers => Driven(f)
    /\ \A c \in Callers, b \in Blobs : <<c, b>> \in poisoned => c \in Handlers

Transferring == {c \in Callers : call[c].at = "transfer"}

(***************************************************************************)
(* "Global cap on in-flight batched prefetch requests across every clone": *)
(* over stalls, detached transfers, dropped callers and retries, no more   *)
(* requests are on open connections than the cap, and every permit comes   *)
(* back.                                                                   *)
(***************************************************************************)
ProvidersAreSpared ==
    /\ Cardinality(Transferring) <= PREFETCH_CONCURRENCY
    /\ (\A c \in Callers : call[c].at = "idle") => permits = PREFETCH_CONCURRENCY

(***************************************************************************)
(* "Treating a transient error as a miss is catastrophic for writers": a   *)
(* blob the store has held since a get began is never reported missing,    *)
(* with as many transient errors as the retries are meant to outlast.      *)
(***************************************************************************)
TransientErrorsAreNotMisses ==
    \A g \in Getters : getter[g].at = "none" => ~getter[g].present

(***************************************************************************)
(* "a wedged or slow store delays a caller ... never forever": every       *)
(* prefetch returns, with every provider wedged for good and every permit  *)
(* in use.                                                                 *)
(***************************************************************************)
EveryPrefetchEnds ==
    \A c \in Callers : (call[c].at # "idle") ~> (call[c].at = "idle")

=============================================================================
