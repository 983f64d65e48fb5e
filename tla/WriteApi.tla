------------------------------ MODULE WriteApi ------------------------------
(***************************************************************************)
(* The write path of the HTTP API (crates/registryd/src/api.rs):           *)
(* POST /records (submit_record, ingest_one, prepare_one) and              *)
(* POST /records/batch (submit_batch).  Handlers run concurrently, one per *)
(* client; a handler goes through                                          *)
(*                                                                         *)
(*   arrival    validation (no I/O) and, for a batch, the duplicate        *)
(*              precheck against the index: what is known is answered from *)
(*              the precheck and never reaches the blob store              *)
(*   put        the value blobs are written, each one may fail             *)
(*   submit     the index transaction, then the response                   *)
(*                                                                         *)
(* The value blob comes before the index claim, on purpose: a record must  *)
(* never be queued without its bytes.  The puts of one request are one     *)
(* step: nobody reads the blob set between two of them, and a crash in the *)
(* middle leaves what a step with fewer successful puts leaves.  Requests  *)
(* that fail validation change no state and are left out.                  *)
(***************************************************************************)
EXTENDS RecordIndex

CONSTANTS
    Clients,     \* concurrent connections
    BatchMax,    \* batch_max_records
    Requests,    \* the requests clients send, [kind, subs]
    MaxDetached  \* bound on the transactions that outlive their handler

\* Submissions by their position in the request; dropping one keeps the order.
Positioned == UNION {[D -> Submission] : D \in SUBSET (1 .. BatchMax)}

ASSUME ApiAssumption ==
    /\ BatchMax \in Nat \ {0}
    /\ MaxDetached \in Nat
    /\ Requests \subseteq [kind : {"record", "batch"}, subs : Positioned]

VARIABLES
    blobs,     \* content hashes of the value blobs in the store
    req,       \* per client: the handler's position and what it carries
    detached,  \* blocking index transactions whose handler is gone
    acked      \* history: submissions a response has reported as accepted

apiVars == <<blobs, req, detached, acked>>

NoSubs    == [i \in {} |-> None]
NoRequest == [at |-> "idle", subs |-> NoSubs, dups |-> {}]

Handler == [at : {"idle", "put", "submit"}, subs : Positioned, dups : SUBSET Submission]

ApiTypeOK ==
    /\ blobs \subseteq Hashes
    /\ req \in [Clients -> Handler]
    /\ detached \subseteq Positioned
    /\ acked \subseteq Submission

(***************************************************************************)
(* validate_one and, for a batch, get_many with the three-way answer.  A   *)
(* conflict found here is answered as an error; nothing of it is kept.     *)
(***************************************************************************)
Only(subs, keep) == [i \in keep |-> subs[i]]

Unknown(subs)   == {i \in DOMAIN subs : records[subs[i].key] = None}
Identical(subs) == {i \in DOMAIN subs \ Unknown(subs) :
                       records[subs[i].key].hash = subs[i].hash}

Arrive(c, r) ==
    /\ req[c].at = "idle"
    /\ req' = [req EXCEPT ![c] =
         IF r.kind = "record"
         THEN [at |-> "put", subs |-> r.subs, dups |-> {}]
         ELSE [at |-> "put", subs |-> Only(r.subs, Unknown(r.subs)),
               dups |-> {r.subs[i] : i \in Identical(r.subs)}]]
    /\ UNCHANGED <<blobs, detached, acked, indexVars>>

\* BlobStore::put for every value: a submission whose put failed is dropped.
put(c, ok) ==
    /\ req[c].at = "put"
    /\ blobs' = blobs \union {req[c].subs[i].hash : i \in ok}
    /\ req' = [req EXCEPT ![c] = [req[c] EXCEPT !.at = "submit", !.subs = Only(@, ok)]]
    /\ UNCHANGED <<detached, acked, indexVars>>

\* The submissions the response reports as accepted.
Accepted(c) ==
    req[c].dups \union {req[c].subs[i] : i \in
        {j \in DOMAIN req[c].subs : SubmitOutcome(req[c].subs, j) # "Conflict"}}

\* submit / submit_many and the response.
Submit(c) ==
    /\ req[c].at = "submit"
    /\ submit_many(req[c].subs)
    /\ acked' = acked \union Accepted(c)
    /\ req' = [req EXCEPT ![c] = NoRequest]
    /\ UNCHANGED <<blobs, detached>>

\* The transaction fails: 500, nothing is written and nothing is accepted.
SubmitFails(c) ==
    /\ req[c].at = "submit"
    /\ req' = [req EXCEPT ![c] = NoRequest]
    /\ UNCHANGED <<blobs, detached, acked, indexVars>>

(***************************************************************************)
(* The client hangs up and the server drops the handler's future.  What    *)
(* the handler has handed to other tasks goes on: any of the puts may      *)
(* still be made, and a transaction that spawn_blocking has taken runs on  *)
(* without its handler and without anybody to tell.                        *)
(***************************************************************************)
Disconnect(c) ==
    /\ \/ /\ req[c].at = "put"
          /\ \E ok \in SUBSET DOMAIN req[c].subs :
                blobs' = blobs \union {req[c].subs[i].hash : i \in ok}
          /\ UNCHANGED detached
       \/ /\ req[c].at = "submit"
          /\ UNCHANGED blobs
          /\ \/ UNCHANGED detached
             \/ /\ Cardinality(detached) < MaxDetached
                /\ detached' = detached \union {req[c].subs}
    /\ req' = [req EXCEPT ![c] = NoRequest]
    /\ UNCHANGED <<acked, indexVars>>

\* A transaction that has lost its handler commits, or fails.
DetachedSubmit(subs) ==
    /\ subs \in detached
    /\ submit_many(subs)
    /\ detached' = detached \ {subs}
    /\ UNCHANGED <<blobs, req, acked>>

DetachedFails(subs) ==
    /\ subs \in detached
    /\ detached' = detached \ {subs}
    /\ UNCHANGED <<blobs, req, acked, indexVars>>

=============================================================================
