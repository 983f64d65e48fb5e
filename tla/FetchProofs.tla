----------------------------- MODULE FetchProofs -----------------------------
(***************************************************************************)
(* The safety of the blob store's fetches, for any number of blobs,        *)
(* callers, readers, providers and permits.                                *)
(***************************************************************************)
EXTENDS BlobFetch, FiniteSetTheorems, TLAPS

\* The callers that hold a permit: theirs is given back when the transfer ends.
Busy == {c \in Callers : call[c].at \in {"transfer", "drain"}}

PermitsBalance == permits + Cardinality(Busy) = PREFETCH_CONCURRENCY

\* A get of a blob that was there: it still is, every failed attempt was a
\* transient error, and the answer "missing" takes one error more than there are.
GetOutlasts(g) ==
    /\ getter[g].at = "read" => getter[g].attempt \in 1 .. attempts
    /\ getter[g].at \in {"download", "reread"} => can_fetch
    /\ getter[g].errors <= MaxErrors
    /\ getter[g].present /\ getter[g].at \in {"read", "download", "reread"} =>
          /\ Readable(getter[g].blob)
          /\ getter[g].at = "read" => getter[g].errors = getter[g].attempt - 1
          /\ getter[g].at \in {"download", "reread"} => getter[g].errors = 1

GetsOutlast == \A g \in Getters : GetOutlasts(g)

\* A call counts its providers from the first, and asks only those there are.
ProviderCounted ==
    \A c \in Callers :
        /\ call[c].at # "idle" => call[c].provider >= 1
        /\ call[c].at \in {"acquire", "transfer", "drain"} => call[c].provider \in Providers

FetchInv ==
    /\ TypeOK /\ ProviderCounted /\ PermitsBalance /\ NeverPoisoned
    /\ GetsOutlast /\ TransientErrorsAreNotMisses

\* Finitely many callers hold permits.
LEMMA BusyFinite == IsFiniteSet(Busy) /\ Cardinality(Busy) \in Nat
<1>1. Busy \subseteq Callers
  BY DEF Busy
<1> QED
  BY <1>1, BlobFetchAssumption, FS_Subset, FS_CardinalityType

\* One caller's step moves the permit count with its own need of one.
LEMMA PermitsMove ==
    ASSUME TypeOK, PermitsBalance, NEW c \in Callers,
           \A d \in Callers \ {c} : call'[d] = call[d],
           \/ (c \in Busy') = (c \in Busy) /\ permits' = permits
           \/ c \in Busy /\ c \notin Busy' /\ permits' = permits + 1
           \/ c \notin Busy /\ c \in Busy' /\ permits > 0 /\ permits' = permits - 1
    PROVE  PermitsBalance' /\ permits' \in 0 .. PREFETCH_CONCURRENCY
<1>1. permits \in Nat /\ IsFiniteSet(Busy) /\ Cardinality(Busy) \in Nat
  BY BusyFinite, BlobFetchAssumption DEF TypeOK
<1>2. CASE (c \in Busy') = (c \in Busy) /\ permits' = permits
  <2>1. Busy' = Busy
    BY <1>2 DEF Busy
  <2> QED
    BY <1>2, <2>1 DEF PermitsBalance, TypeOK
<1>3. CASE c \in Busy /\ c \notin Busy' /\ permits' = permits + 1
  <2>1. Busy' = Busy \ {c}
    BY <1>3 DEF Busy
  <2>2. Cardinality(Busy') = Cardinality(Busy) - 1 /\ Cardinality(Busy') \in Nat
    BY <1>1, <1>3, <2>1, FS_RemoveElement, FS_CardinalityType
  <2> QED
    BY <1>1, <1>3, <2>2, BlobFetchAssumption DEF PermitsBalance
<1>4. CASE c \notin Busy /\ c \in Busy' /\ permits > 0 /\ permits' = permits - 1
  <2>1. Busy' = Busy \union {c}
    BY <1>4 DEF Busy
  <2>2. Cardinality(Busy') = Cardinality(Busy) + 1 /\ Cardinality(Busy') \in Nat
    BY <1>1, <1>4, <2>1, FS_AddElement, FS_CardinalityType
  <2>3. PICK n \in Nat : n = Cardinality(Busy') /\ n = Cardinality(Busy) + 1
    BY <2>2
  <2> QED
    BY <1>1, <1>4, <2>3, BlobFetchAssumption DEF PermitsBalance, TypeOK
<1> QED
  BY <1>2, <1>3, <1>4

\* A blob that can be read stays readable: nothing removes one, and a dropped
\* transfer leaves marks only on a blob that was not there.
LEMMA StaysReadable ==
    ASSUME held \subseteq held',
           \A d \in Callers, e \in Blobs : <<d, e>> \in poisoned' \ poisoned => e \notin held,
           NEW b \in Blobs, Readable(b)
    PROVE  Readable(b)'
BY DEF Readable

\* What does not touch the gets keeps what is known of them.
LEMMA GetsKept ==
    ASSUME TypeOK, GetsOutlast, TransientErrorsAreNotMisses,
           UNCHANGED <<getter, can_fetch>>, held \subseteq held',
           \A d \in Callers, e \in Blobs : <<d, e>> \in poisoned' \ poisoned => e \notin held
    PROVE  GetsOutlast' /\ TransientErrorsAreNotMisses'
<1>1. \A g \in Getters : getter[g].blob \in Blobs
  BY DEF TypeOK, Getter
<1>2. \A g \in Getters : Readable(getter[g].blob) => Readable(getter[g].blob)'
  BY <1>1, StaysReadable
<1> QED
  BY <1>2 DEF GetsOutlast, GetOutlasts, TransientErrorsAreNotMisses, attempts, MaxErrors

\* What one caller does leaves the futures of the others to those who drive them.
LEMMA OthersDriven ==
    ASSUME TypeOK, NeverPoisoned, NEW c \in Callers,
           \A d \in Callers \ {c} : call'[d] = call[d],
           poisoned' = poisoned, detached \subseteq detached',
           writing' \subseteq Future, \A f \in writing' : f \in writing \/ f[1] = c,
           \A f \in writing' : f[1] = c /\ c \notin Handlers => Driven(f)'
    PROVE  NeverPoisoned'
<1>1. ASSUME NEW f \in writing', f[1] \notin Handlers PROVE Driven(f)'
  <2>1. CASE f[1] = c
    BY <1>1, <2>1
  <2>2. CASE f[1] # c
    <3>1. f \in writing /\ f[1] \in Callers /\ call'[f[1]] = call[f[1]]
      BY <2>2 DEF Future
    <3>2. Driven(f)
      BY <1>1, <3>1 DEF NeverPoisoned
    <3> QED
      BY <3>1, <3>2 DEF Driven, Transfer, Asked
  <2> QED
    BY <2>1, <2>2
<1> QED
  BY <1>1 DEF NeverPoisoned

\* A caller that polls no future and is not dropped has left its own to their tasks.
LEMMA LeftBehind ==
    ASSUME NeverPoisoned, NEW c \in Callers, c \notin Handlers,
           NEW f \in writing, f[1] = c, c \notin Busy \/ f \notin Transfer(c)
    PROVE  f \in detached
BY DEF NeverPoisoned, Driven, Busy

\* A future is a caller's own, and one of the futures there can be.
LEMMA TransferType ==
    ASSUME TypeOK, ProviderCounted, NEW c \in Callers,
           call[c].at \in {"acquire", "transfer", "drain"}
    PROVE  Transfer(c) \subseteq Future /\ \A f \in Transfer(c) : f[1] = c
BY DEF Transfer, Asked, Future, TypeOK, Call, ProviderCounted

\* At the start no permit is out and nothing is remembered as missing.
LEMMA FetchInitInv == Init => FetchInv
<1> SUFFICES ASSUME Init PROVE FetchInv
  OBVIOUS
<1> USE BlobFetchAssumption
<1>1. IdleCall \in Call /\ IdleCall.at = "idle"
  BY DEF IdleCall, Call
<1>2. IdleGetter \in Getter /\ IdleGetter.at = "idle" /\ IdleGetter.errors = 0
  BY DEF IdleGetter, Getter, Blobs
<1>3. TypeOK
  BY <1>1, <1>2 DEF Init, TypeOK
<1>4. Busy = {}
  BY <1>1 DEF Init, Busy
<1>5. PermitsBalance
  BY <1>4, FS_EmptySet DEF Init, PermitsBalance
<1>6. NeverPoisoned
  BY DEF Init, NeverPoisoned
<1>8. ProviderCounted
  BY <1>1 DEF Init, ProviderCounted
<1>7. GetsOutlast /\ TransientErrorsAreNotMisses
  BY <1>2 DEF Init, GetsOutlast, GetOutlasts, MaxErrors, TransientErrorsAreNotMisses
<1> QED
  BY <1>3, <1>5, <1>6, <1>7, <1>8 DEF FetchInv

-----------------------------------------------------------------------------
\* A caller's own part of the invariant when its call becomes another one.
CallStep(c) ==
    /\ call' \in [Callers -> Call] /\ \A d \in Callers \ {c} : call'[d] = call[d]
    /\ call'[c].at # "idle" => call'[c].provider >= 1
    /\ call'[c].at \in {"acquire", "transfer", "drain"} => call'[c].provider \in Providers

\* The counts of providers over one caller's step.
LEMMA CallStepCounts ==
    ASSUME ProviderCounted, NEW c \in Callers, CallStep(c)
    PROVE  ProviderCounted'
BY DEF ProviderCounted, CallStep, Providers

\* Going to the next provider, from one there is.
LEMMA NextProviderStep ==
    ASSUME TypeOK, ProviderCounted, NEW c \in Callers, NextProvider(c),
           call[c].at \in {"transfer", "drain"}
    PROVE  CallStep(c) /\ call'[c].at = "dial"
<1>1. call[c] \in Call /\ call[c].provider \in 1 .. NumProviders /\ NumProviders \in Nat
  BY BlobFetchAssumption DEF TypeOK, ProviderCounted, Providers
<1>0. PICK n \in 0 .. NumProviders + 1 : n = call[c].provider + 1 /\ n >= 1
  BY <1>1
<1>2. PICK r : r = [call[c] EXCEPT !.at = "dial", !.chunks = {}, !.provider = n]
  OBVIOUS
<1>3. r \in Call /\ r.at = "dial" /\ r.provider >= 1
  BY <1>0, <1>1, <1>2 DEF Call
<1>4. call' = [call EXCEPT ![c] = r]
  BY <1>0, <1>2 DEF NextProvider
<1> QED
  BY <1>3, <1>4 DEF CallStep, TypeOK

\* Steps of a prefetch that neither write blobs nor hold a permit.
LEMMA PrefetchWaits ==
    ASSUME FetchInv, NEW c \in Callers,
           Prefetch(c) \/ Filter(c) \/ Dial(c) \/ AcquireTimesOut(c) \/ Stall(c)
    PROVE  FetchInv'
<1> USE BlobFetchAssumption DEF FetchInv
<1>0. IdleCall \in Call /\ IdleCall.at = "idle" /\ call[c] \in Call
  BY DEF IdleCall, Call, TypeOK
<1>1. /\ UNCHANGED <<can_fetch, held, writing, poisoned, wedged, permits, detached, getter>>
  BY DEF Prefetch, Filter, Dial, AcquireTimesOut, Stall
<1>2. /\ CallStep(c)
      /\ (call'[c].at \in {"transfer", "drain"}) = (call[c].at \in {"transfer", "drain"})
      /\ call[c].at \in {"transfer", "drain"} =>
            call'[c].chunks = call[c].chunks /\ call'[c].provider = call[c].provider
  <2>0. ASSUME NEW r \in Call, call' = [call EXCEPT ![c] = r],
               r.at # "idle" => r.provider >= 1,
               r.at = "acquire" => r.provider \in Providers,
               r.at \notin {"transfer", "drain"}, call[c].at \notin {"transfer", "drain"}
        PROVE  /\ CallStep(c)
               /\ (call'[c].at \in {"transfer", "drain"}) = (call[c].at \in {"transfer", "drain"})
               /\ call[c].at \in {"transfer", "drain"} =>
                     call'[c].chunks = call[c].chunks /\ call'[c].provider = call[c].provider
    BY <2>0 DEF CallStep, TypeOK
  <2>1. CASE Prefetch(c)
    <3>1. PICK wanted \in SUBSET Blobs :
             call' = [call EXCEPT ![c] = [at |-> "filter", missing |-> wanted, chunks |-> {},
                                          provider |-> 1]]
      BY <2>1 DEF Prefetch
    <3>2. PICK r : r = [at |-> "filter", missing |-> wanted, chunks |-> {}, provider |-> 1]
      OBVIOUS
    <3>3. r \in Call /\ r.at = "filter" /\ r.provider >= 1 /\ call' = [call EXCEPT ![c] = r]
      BY <3>1, <3>2 DEF Call
    <3>4. call[c].at = "idle"
      BY <2>1 DEF Prefetch
    <3> QED
      BY <2>0, <3>3, <3>4
  <2>2. CASE Filter(c)
    <3>1. CASE call' = [call EXCEPT ![c] = IdleCall]
      BY <1>0, <2>0, <2>2, <3>1 DEF Filter
    <3>2. CASE \E known \in SUBSET held :
                  call' = [call EXCEPT ![c] = [call[c] EXCEPT !.missing = @ \ known, !.at = "dial"]]
      <4>1. PICK known \in SUBSET held :
                  call' = [call EXCEPT ![c] = [call[c] EXCEPT !.missing = @ \ known, !.at = "dial"]]
        BY <3>2
      <4>2. PICK r : r = [call[c] EXCEPT !.missing = @ \ known, !.at = "dial"]
        OBVIOUS
      <4>3. r \in Call /\ r.at = "dial" /\ r.provider = call[c].provider
        BY <1>0, <4>2 DEF Call
      <4>4. call[c].at = "filter" /\ call[c].provider >= 1
        BY <2>2 DEF Filter, ProviderCounted
      <4> QED
        BY <2>0, <4>1, <4>2, <4>3, <4>4
    <3> QED
      BY <2>2, <3>1, <3>2 DEF Filter
  <2>3. CASE Dial(c)
    <3>0. call[c].at = "dial" /\ call[c].provider >= 1 /\ call[c].provider \in Nat
      BY <1>0, <2>3 DEF Dial, ProviderCounted, Call
    <3>1. CASE call' = [call EXCEPT ![c] = IdleCall]
      BY <1>0, <2>0, <3>0, <3>1
    <3>2. CASE /\ call[c].provider <= NumProviders
               /\ call' = [call EXCEPT ![c] = [call[c] EXCEPT !.at = "acquire",
                                                              !.chunks = call[c].missing]]
      <4>1. PICK r : r = [call[c] EXCEPT !.at = "acquire", !.chunks = call[c].missing]
        OBVIOUS
      <4>2. r \in Call /\ r.at = "acquire" /\ r.provider = call[c].provider
        BY <1>0, <4>1 DEF Call
      <4>3. call[c].provider \in Providers
        BY <3>0, <3>2 DEF Providers
      <4> QED
        BY <2>0, <3>0, <3>2, <4>1, <4>2, <4>3
    <3>3. CASE /\ call[c].provider <= NumProviders
               /\ call' = [call EXCEPT ![c].provider = @ + 1]
      <4>1. PICK r : r = [call[c] EXCEPT !.provider = call[c].provider + 1]
        OBVIOUS
      <4>2. r \in Call /\ r.at = "dial" /\ r.provider >= 1
        BY <1>0, <3>0, <3>3, <4>1 DEF Call
      <4>3. call' = [call EXCEPT ![c] = r]
        BY <3>3, <4>1
      <4> QED
        BY <2>0, <3>0, <4>2, <4>3
    <3> QED
      BY <2>3, <3>1, <3>2, <3>3 DEF Dial
  <2>4. CASE AcquireTimesOut(c)
    BY <1>0, <2>0, <2>4 DEF AcquireTimesOut
  <2>5. CASE Stall(c)
    <3>1. call' = [call EXCEPT ![c].at = "drain"] /\ call[c].at = "transfer"
          /\ call[c].provider \in Providers
      BY <2>5 DEF Stall, ProviderCounted
    <3>2. /\ call'[c] \in Call /\ call'[c].at = "drain"
          /\ call'[c].chunks = call[c].chunks /\ call'[c].provider = call[c].provider
          /\ call' \in [Callers -> Call] /\ \A d \in Callers \ {c} : call'[d] = call[d]
      BY <1>0, <3>1 DEF TypeOK, Call
    <3>3. call[c].provider >= 1
      BY <3>1 DEF Providers
    <3> QED
      BY <3>1, <3>2, <3>3 DEF CallStep
  <2> QED
    BY <2>1, <2>2, <2>3, <2>4, <2>5
<1>3. ProviderCounted'
  BY <1>2, CallStepCounts
<1>4. \A f \in writing' : f[1] = c /\ c \notin Handlers => Driven(f)'
  <2> SUFFICES ASSUME NEW f \in writing, f[1] = c, c \notin Handlers PROVE Driven(f)'
    BY <1>1
  <2>1. CASE c \in Busy
    <3>1. Transfer(c)' = Transfer(c)
      BY <1>2, <2>1 DEF Busy, Transfer, Asked
    <3>2. Driven(f)
      BY DEF NeverPoisoned
    <3> QED
      BY <1>1, <1>2, <3>1, <3>2 DEF Driven
  <2>2. CASE c \notin Busy
    BY <1>1, <2>2, LeftBehind DEF Driven
  <2> QED
    BY <2>1, <2>2
<1>5. (c \in Busy') = (c \in Busy)
  BY <1>2 DEF Busy
<1>6. PermitsBalance'
  BY <1>1, <1>2, <1>5, PermitsMove DEF CallStep
<1>7. GetsOutlast' /\ TransientErrorsAreNotMisses'
  BY <1>1, GetsKept
<1>8. TypeOK'
  BY <1>1, <1>2 DEF TypeOK, CallStep
<1>9. NeverPoisoned'
  BY <1>1, <1>2, <1>4, OthersDriven DEF TypeOK, CallStep
<1> QED
  BY <1>3, <1>6, <1>7, <1>8, <1>9

\* What a caller that needs no permit any more leaves behind: its transfer is at
\* an end, or in its own task, or the caller is dropped with its handler.
LEMMA PermitReturned ==
    ASSUME FetchInv, NEW c \in Callers, c \in Busy, CallStep(c),
           call'[c].at \notin {"transfer", "drain"}, permits' = permits + 1,
           UNCHANGED <<can_fetch, wedged, getter, poisoned>>,
           held \subseteq held', held' \subseteq Blobs,
           \/ writing' = writing \ Transfer(c) /\ detached' = detached
           \/ writing' = writing /\ detached' = detached \union Transfer(c)
           \/ writing' = writing /\ detached' = detached /\ c \in Handlers
    PROVE  FetchInv'
<1> USE DEF FetchInv
<1>1. c \notin Busy'
  BY DEF Busy
<1>2. PermitsBalance' /\ permits' \in 0 .. PREFETCH_CONCURRENCY
  BY <1>1, PermitsMove DEF CallStep
<1>3. Transfer(c) \subseteq Future
  BY TransferType DEF Busy
<1>4. \A f \in writing' : f[1] = c /\ c \notin Handlers => Driven(f)'
  <2> SUFFICES ASSUME NEW f \in writing', f[1] = c, c \notin Handlers PROVE f \in detached'
    BY DEF Driven
  <2> QED
    BY LeftBehind
<1>5. TypeOK'
  BY <1>2, <1>3 DEF TypeOK, CallStep
<1>6. NeverPoisoned'
  BY <1>4, <1>5, OthersDriven DEF TypeOK, CallStep
<1>7. GetsOutlast' /\ TransientErrorsAreNotMisses'
  BY GetsKept
<1> QED
  BY <1>2, <1>5, <1>6, <1>7, CallStepCounts

\* The start and the ends of a transfer.
LEMMA TransferInv ==
    ASSUME FetchInv, NEW c \in Callers,
           \/ Acquire(c) \/ TransferDone(c) \/ TransferFails(c)
           \/ Drained(c) \/ Detach(c) \/ CallerDropped(c)
    PROVE  FetchInv'
<1> USE BlobFetchAssumption DEF FetchInv
<1>0. /\ IdleCall \in Call /\ IdleCall.at = "idle" /\ call[c] \in Call
      /\ Asked(c) \subseteq Blobs
  BY DEF IdleCall, Call, TypeOK, Asked
<1>1. CASE Acquire(c)
  <2>0. call[c].at = "acquire" /\ call[c].provider \in Providers /\ call[c].provider >= 1
    BY <1>1 DEF Acquire, ProviderCounted
  <2>1. /\ call' \in [Callers -> Call] /\ \A d \in Callers \ {c} : call'[d] = call[d]
        /\ call'[c].at = "transfer" /\ call'[c].chunks = call[c].chunks
        /\ call'[c].provider = call[c].provider
    BY <1>0, <1>1 DEF Acquire, TypeOK, Call
  <2>2. c \notin Busy /\ c \in Busy' /\ permits > 0 /\ permits' = permits - 1
    BY <1>1, <2>1 DEF Acquire, Busy
  <2>3. PermitsBalance' /\ permits' \in 0 .. PREFETCH_CONCURRENCY
    BY <2>1, <2>2, PermitsMove
  <2>4. /\ UNCHANGED <<can_fetch, held, poisoned, wedged, detached, getter>>
        /\ writing' = writing \union Transfer(c)
    BY <1>1 DEF Acquire
  <2>5. GetsOutlast' /\ TransientErrorsAreNotMisses'
    BY <2>4, GetsKept
  <2>6. Transfer(c) \subseteq Future /\ \A f \in Transfer(c) : f[1] = c
    BY <2>0, TransferType
  <2>7. Transfer(c)' = Transfer(c)
    BY <2>1 DEF Transfer, Asked
  <2>8. \A f \in writing' : f[1] = c /\ c \notin Handlers => Driven(f)'
    <3> SUFFICES ASSUME NEW f \in writing', f[1] = c, c \notin Handlers PROVE Driven(f)'
      OBVIOUS
    <3>1. CASE f \in Transfer(c)
      BY <2>1, <2>7, <3>1 DEF Driven
    <3>2. CASE f \notin Transfer(c)
      BY <2>4, <3>2, LeftBehind DEF Driven
    <3> QED
      BY <3>1, <3>2
  <2>9. TypeOK'
    BY <2>1, <2>3, <2>4, <2>6 DEF TypeOK
  <2>10. NeverPoisoned'
    BY <2>1, <2>4, <2>6, <2>8, <2>9, OthersDriven DEF TypeOK
  <2>11. ProviderCounted'
    BY <2>0, <2>1, CallStepCounts DEF CallStep
  <2> QED
    BY <2>3, <2>5, <2>9, <2>10, <2>11
<1>3. CASE TransferDone(c)
  <2>0. /\ call[c].at = "transfer" /\ c \in Busy
        /\ permits' = permits + 1 /\ UNCHANGED <<can_fetch, poisoned, wedged, detached, getter>>
        /\ held' = held \union Asked(c) /\ writing' = writing \ Transfer(c)
    BY <1>3 DEF TransferDone, Busy
  <2>1. CallStep(c) /\ call'[c].at \notin {"transfer", "drain"}
    <3>1. CASE call[c].chunks = Asked(c)
      <4>1. call' = [call EXCEPT ![c] = IdleCall]
        BY <1>3, <3>1 DEF TransferDone
      <4> QED
        BY <1>0, <4>1 DEF CallStep, TypeOK
    <3>2. CASE call[c].chunks # Asked(c)
      <4>1. PICK r : r = [call[c] EXCEPT !.chunks = @ \ Asked(c), !.at = "acquire"]
        OBVIOUS
      <4>2. call' = [call EXCEPT ![c] = r]
        BY <1>3, <3>2, <4>1 DEF TransferDone
      <4>3. r \in Call /\ r.at = "acquire" /\ r.provider = call[c].provider
        BY <1>0, <4>1 DEF Call
      <4>4. call[c].provider \in Providers /\ call[c].provider >= 1
        BY <2>0 DEF ProviderCounted
      <4> QED
        BY <4>2, <4>3, <4>4 DEF CallStep, TypeOK
    <3> QED
      BY <3>1, <3>2
  <2> QED
    BY <1>0, <2>0, <2>1, PermitReturned DEF TypeOK
<1>4. CASE TransferFails(c) \/ Drained(c) \/ Detach(c)
  <2>1. /\ call[c].at \in {"transfer", "drain"} /\ c \in Busy /\ NextProvider(c)
        /\ permits' = permits + 1 /\ UNCHANGED <<can_fetch, poisoned, wedged, getter>>
        /\ held' \in {held, held \union Asked(c)}
    BY <1>4 DEF TransferFails, Drained, Detach, Busy
  <2>2. \/ writing' = writing \ Transfer(c) /\ detached' = detached
        \/ writing' = writing /\ detached' = detached \union Transfer(c)
    BY <1>4 DEF TransferFails, Drained, Detach
  <2>3. CallStep(c) /\ call'[c].at = "dial"
    BY <2>1, NextProviderStep
  <2>4. held \subseteq held' /\ held' \subseteq Blobs
    BY <1>0, <2>1 DEF TypeOK
  <2> QED
    BY <2>1, <2>2, <2>3, <2>4, PermitReturned
<1>5. CASE CallerDropped(c)
  <2>1. CallStep(c) /\ call'[c].at = "idle"
    BY <1>0, <1>5 DEF CallerDropped, TypeOK, CallStep
  <2>2. UNCHANGED <<can_fetch, held, writing, poisoned, wedged, detached, getter>> /\ c \in Handlers
    BY <1>5 DEF CallerDropped
  <2>3. CASE call[c].at \in {"transfer", "drain"}
    BY <1>5, <2>1, <2>2, <2>3, PermitReturned DEF CallerDropped, Busy, TypeOK
  <2>4. CASE call[c].at \notin {"transfer", "drain"}
    <3>1. UNCHANGED permits
      BY <1>5, <2>4 DEF CallerDropped
    <3>2. PermitsBalance'
      BY <2>1, <2>4, <3>1, PermitsMove DEF Busy, CallStep
    <3>3. GetsOutlast' /\ TransientErrorsAreNotMisses'
      BY <2>2, <3>1, GetsKept
    <3>4. TypeOK'
      BY <2>1, <2>2, <3>1 DEF TypeOK, CallStep
    <3>5. NeverPoisoned'
      BY <2>1, <2>2, OthersDriven DEF TypeOK, CallStep
    <3> QED
      BY <2>1, <3>2, <3>3, <3>4, <3>5, CallStepCounts
  <2> QED
    BY <2>3, <2>4
<1> QED
  BY <1>1, <1>3, <1>4, <1>5

\* The store and its providers.
LEMMA StoreInv ==
    ASSUME FetchInv, (\E p \in Providers : Wedge(p)) \/ Put \/ DetachedEnds
    PROVE  FetchInv'
<1> USE DEF FetchInv
<1>1. /\ UNCHANGED <<can_fetch, poisoned, permits, call, getter>>
      /\ held \subseteq held' /\ held' \subseteq Blobs /\ wedged' \subseteq Providers
  BY DEF Wedge, Put, DetachedEnds, fetchVars, TypeOK, Future
<1>2. PermitsBalance' /\ ProviderCounted'
  BY <1>1 DEF PermitsBalance, Busy, ProviderCounted
<1>3. GetsOutlast' /\ TransientErrorsAreNotMisses'
  BY <1>1, GetsKept
<1>4. \E ended : detached' = detached \ ended /\ writing' = writing \ ended
  <2>1. CASE UNCHANGED <<writing, detached>>
    BY <2>1, detached' = detached \ {} /\ writing' = writing \ {}
  <2> QED
    BY <2>1 DEF Wedge, Put, DetachedEnds, fetchVars
<1>5. TypeOK'
  BY <1>1, <1>4 DEF TypeOK
<1>6. \A f \in writing' : f \in writing /\ (Driven(f) => Driven(f)')
  BY <1>1, <1>4 DEF Driven, Transfer, Asked
<1> QED
  BY <1>1, <1>2, <1>3, <1>5, <1>6 DEF NeverPoisoned

\* A write that nobody drives is a dropped handler's, and so is the slot it spoils.
LEMMA CorruptsInv ==
    ASSUME FetchInv, Corrupts
    PROVE  FetchInv'
<1> USE DEF FetchInv
<1>1. PICK f \in writing :
         /\ ~Driven(f) /\ writing' = writing \ {f}
         /\ poisoned' = poisoned \union ({f[1]} \X ({f[3]} \ held))
  BY DEF Corrupts
<1>2. UNCHANGED <<can_fetch, held, wedged, permits, call, detached, getter>>
  BY DEF Corrupts, fetchVars
<1>3. f[1] \in Callers /\ f[3] \in Blobs
  BY DEF TypeOK, Future
<1>4. f[1] \in Handlers
  BY <1>1 DEF NeverPoisoned
<1>5. TypeOK'
  BY <1>1, <1>2, <1>3 DEF TypeOK
<1>6. NeverPoisoned'
  <2>1. \A g : Driven(g)' = Driven(g)
    BY <1>2 DEF Driven, Transfer, Asked
  <2> QED
    BY <1>1, <1>4, <2>1 DEF NeverPoisoned
<1>7. GetsOutlast' /\ TransientErrorsAreNotMisses'
  <2>1. \A d \in Callers, e \in Blobs : <<d, e>> \in poisoned' \ poisoned => e \notin held
    BY <1>1
  <2> QED
    BY <1>2, <2>1, GetsKept
<1>8. PermitsBalance' /\ ProviderCounted'
  BY <1>2 DEF PermitsBalance, Busy, ProviderCounted
<1> QED
  BY <1>5, <1>6, <1>7, <1>8

\* One get_bytes and what its failure leads to, for a get still at work.
LEMMA GetBytesKeeps ==
    ASSUME FetchInv, NEW g \in Getters, NEW otherwise \in {"read", "download", "none"},
           GetBytes(g, otherwise), UNCHANGED <<can_fetch, held, writing, poisoned, wedged, fetchVars>>,
           getter[g].at \in {"read", "reread"},
           otherwise = "read" => getter[g].at = "read" /\ getter[g].attempt < attempts,
           otherwise = "download" => getter[g].at = "read" /\ can_fetch,
           otherwise = "none" => \/ getter[g].at = "reread"
                                 \/ getter[g].attempt = attempts /\ ~can_fetch
    PROVE  FetchInv'
<1> USE BlobFetchAssumption DEF FetchInv
<1>0. /\ getter[g] \in Getter /\ getter[g].blob \in Blobs
      /\ IdleGetter \in Getter /\ IdleGetter.at = "idle" /\ IdleGetter.errors = 0
      /\ ~IdleGetter.present
  BY DEF TypeOK, Getter, IdleGetter, Blobs
<1>1. /\ UNCHANGED <<can_fetch, held, writing, poisoned, wedged, permits, call, detached>>
      /\ \A b : Readable(b)' = Readable(b)
  BY DEF fetchVars, Readable
<1>2. MaxErrors' = MaxErrors /\ attempts' = attempts /\ MaxErrors \in 1 .. 2
  BY <1>1 DEF MaxErrors, attempts
<1>3. GetOutlasts(g)
  BY DEF GetsOutlast
<1>4. /\ getter' \in [Getters -> Getter] /\ \A h \in Getters \ {g} : getter'[h] = getter[h]
      /\ GetOutlasts(g)' /\ (getter'[g].at = "none" => ~getter'[g].present)
  <2>1. CASE getter' = [getter EXCEPT ![g] = IdleGetter]
    BY <1>0, <1>1, <2>1 DEF TypeOK, GetOutlasts, MaxErrors
  <2>2. ASSUME NEW n \in {getter[g].errors, getter[g].errors + 1}, n <= MaxErrors,
               n = getter[g].errors => ~Readable(getter[g].blob) \/ ~getter[g].present,
               GetFails(g, otherwise, n)
        PROVE  /\ getter' \in [Getters -> Getter] /\ \A h \in Getters \ {g} : getter'[h] = getter[h]
               /\ GetOutlasts(g)' /\ (getter'[g].at = "none" => ~getter'[g].present)
    <3>1. n \in 0 .. 2 /\ (getter[g].present => n = getter[g].errors + 1)
      BY <1>0, <1>2, <1>3, <2>2 DEF Getter, GetOutlasts
    <3>2. CASE otherwise = "none"
      <4>1. ~getter[g].present
        BY <1>0, <1>3, <2>2, <3>2 DEF GetOutlasts, MaxErrors, attempts, Getter
      <4> QED
        BY <1>0, <1>1, <2>2, <3>2, <4>1 DEF GetFails, TypeOK, Getter, GetOutlasts, MaxErrors, Blobs
    <3>3. CASE otherwise # "none"
      <4>2. getter[g].attempt \in 1 .. 3
        BY <1>3, <3>3 DEF GetOutlasts, attempts
      <4>0. PICK a \in 0 .. 4 : a = getter[g].attempt + 1
        BY <4>2
      <4> DEFINE r == [getter[g] EXCEPT !.at = otherwise, !.attempt = a, !.errors = n]
      <4>1. getter' = [getter EXCEPT ![g] = r]
        BY <2>2, <3>3, <4>0 DEF GetFails
      <4>3. getter' \in [Getters -> Getter] /\ \A h \in Getters \ {g} : getter'[h] = getter[h]
        <5>1. r \in Getter
          BY <1>0, <3>1, <3>3, <4>2 DEF Getter
        <5> QED
          BY <4>1, <5>1 DEF TypeOK
      <4>4. /\ getter'[g].at = otherwise /\ getter'[g].attempt = getter[g].attempt + 1
            /\ getter'[g].errors = n /\ getter'[g].blob = getter[g].blob
            /\ getter'[g].present = getter[g].present
        BY <1>0, <4>0, <4>1 DEF TypeOK, Getter
      <4>5. GetOutlasts(g)'
        BY <1>1, <1>3, <2>2, <3>1, <3>3, <4>2, <4>4 DEF GetOutlasts, MaxErrors, attempts
      <4> QED
        BY <3>3, <4>3, <4>4, <4>5
    <3> QED
      BY <3>2, <3>3
  <2> QED
    BY <1>0, <1>2, <1>3, <2>1, <2>2 DEF GetBytes, GetOutlasts, Getter
<1>5. GetsOutlast'
  <2> SUFFICES ASSUME NEW h \in Getters PROVE GetOutlasts(h)'
    BY DEF GetsOutlast
  <2>1. CASE h # g
    BY <1>1, <1>2, <1>4, <2>1 DEF GetsOutlast, GetOutlasts
  <2> QED
    BY <1>4, <2>1
<1>6. TransientErrorsAreNotMisses'
  BY <1>4 DEF TransientErrorsAreNotMisses
<1> QED
  BY <1>1, <1>4, <1>5, <1>6 DEF TypeOK, NeverPoisoned, Driven, Transfer, Asked,
                                PermitsBalance, Busy, ProviderCounted

\* The other steps of a get: its start and the downloader's answer.
LEMMA GetInv ==
    ASSUME FetchInv, NEW g \in Getters, Get(g) \/ GetStep(g)
    PROVE  FetchInv'
<1> USE BlobFetchAssumption DEF FetchInv
<1>0. /\ getter[g] \in Getter /\ getter[g].blob \in Blobs /\ GetOutlasts(g)
      /\ attempts \in 1 .. 3
  BY DEF TypeOK, Getter, GetsOutlast, attempts
<1>1. CASE GetRead(g)
  <2> DEFINE otherwise == IF getter[g].attempt < attempts THEN "read"
                          ELSE IF can_fetch THEN "download" ELSE "none"
  <2>1. getter[g].at = "read" /\ getter[g].attempt \in 1 .. attempts
    BY <1>0, <1>1 DEF GetRead, GetOutlasts
  <2>2. GetBytes(g, otherwise) /\ UNCHANGED <<can_fetch, held, writing, poisoned, wedged, fetchVars>>
    BY <1>1 DEF GetRead
  <2>3. /\ otherwise \in {"read", "download", "none"}
        /\ otherwise = "read" => getter[g].attempt < attempts
        /\ otherwise = "download" => can_fetch
        /\ otherwise = "none" => getter[g].attempt = attempts /\ ~can_fetch
    BY <1>0, <2>1
  <2> HIDE DEF otherwise
  <2> QED
    BY <2>1, <2>2, <2>3, GetBytesKeeps
<1>2. CASE GetReread(g)
  BY <1>2, GetBytesKeeps DEF GetReread
<1>3. ASSUME UNCHANGED <<can_fetch, writing, poisoned, wedged, fetchVars>>,
             held \subseteq held', held' \subseteq Blobs,
             getter' \in [Getters -> Getter],
             \A h \in Getters \ {g} : getter'[h] = getter[h],
             GetOutlasts(g)', getter'[g].at = "none" => ~getter'[g].present
      PROVE  FetchInv'
  <2>1. UNCHANGED <<can_fetch, writing, poisoned, wedged, permits, call, detached>>
    BY <1>3 DEF fetchVars
  <2>2. ASSUME NEW h \in Getters PROVE GetOutlasts(h)'
    <3>1. CASE h = g
      BY <1>3, <3>1
    <3>2. CASE h # g
      <4>1. getter'[h] = getter[h] /\ getter[h].blob \in Blobs /\ GetOutlasts(h)
        BY <1>3, <3>2 DEF TypeOK, Getter, GetsOutlast
      <4>2. Readable(getter[h].blob) => Readable(getter[h].blob)'
        BY <1>3, <2>1, <4>1 DEF Readable
      <4> QED
        BY <2>1, <4>1, <4>2 DEF GetOutlasts, MaxErrors, attempts
    <3> QED
      BY <3>1, <3>2
  <2>3. TransientErrorsAreNotMisses'
    BY <1>3 DEF TransientErrorsAreNotMisses
  <2> QED
    BY <1>3, <2>1, <2>2, <2>3 DEF TypeOK, NeverPoisoned, Driven, Transfer, Asked,
                                  PermitsBalance, Busy, ProviderCounted, GetsOutlast
<1>4. CASE Get(g)
  <2>1. PICK b \in Blobs :
           getter' = [getter EXCEPT ![g] = [at |-> "read", blob |-> b, attempt |-> 1,
                                            present |-> Readable(b), errors |-> 0]]
    BY <1>4 DEF Get
  <2>2. UNCHANGED <<can_fetch, held, writing, poisoned, wedged, fetchVars>> /\ Readable(b)' = Readable(b)
    BY <1>4 DEF Get, Readable
  <2>3. Readable(b) \in BOOLEAN
    BY DEF Readable
  <2>4. /\ getter' \in [Getters -> Getter] /\ \A h \in Getters \ {g} : getter'[h] = getter[h]
    BY <2>1, <2>3 DEF TypeOK, Getter
  <2>5. getter'[g] = [at |-> "read", blob |-> b, attempt |-> 1,
                      present |-> Readable(b), errors |-> 0]
    BY <2>1 DEF TypeOK
  <2>6. GetOutlasts(g)'
    BY <2>2, <2>5 DEF GetOutlasts, MaxErrors, attempts
  <2>7. held \subseteq Blobs
    BY DEF TypeOK
  <2> QED
    BY <1>3, <2>2, <2>4, <2>5, <2>6, <2>7
<1>5. CASE GetDownload(g)
  <2>1. UNCHANGED <<can_fetch, writing, poisoned, wedged, fetchVars>>
    BY <1>5 DEF GetDownload
  <2>2. CASE held' = held \union {getter[g].blob} /\ getter' = [getter EXCEPT ![g].at = "reread"]
    <3>1. /\ getter' \in [Getters -> Getter] /\ \A h \in Getters \ {g} : getter'[h] = getter[h]
      BY <1>0, <2>2 DEF TypeOK, Getter
    <3>2. getter'[g] = [getter[g] EXCEPT !.at = "reread"]
      BY <2>2 DEF TypeOK
    <3>3. /\ getter'[g].at = "reread" /\ getter'[g].errors = getter[g].errors
          /\ getter'[g].blob = getter[g].blob /\ getter'[g].present = getter[g].present
      BY <1>0, <3>2 DEF Getter
    <3>4. held \subseteq held' /\ held' \subseteq Blobs
      BY <1>0, <2>2 DEF TypeOK
    <3>5. Readable(getter[g].blob) => Readable(getter[g].blob)'
      BY <2>1, <3>3, <3>4 DEF Readable
    <3>6. GetOutlasts(g)'
      BY <1>0, <1>5, <2>1, <3>3, <3>5 DEF GetDownload, GetOutlasts, MaxErrors, attempts
    <3> QED
      BY <1>3, <2>1, <3>1, <3>3, <3>4, <3>6
  <2>3. CASE getter[g].blob \notin held /\ GetFails(g, "none", 0) /\ UNCHANGED held
    <3>1. ~getter[g].present
      BY <1>0, <1>5, <2>3 DEF GetDownload, GetOutlasts, Readable
    <3>2. getter' = [getter EXCEPT ![g] = [at |-> "none", blob |-> 1, attempt |-> 0,
                                           present |-> getter[g].present, errors |-> 0]]
      BY <2>3 DEF GetFails
    <3>3. /\ getter' \in [Getters -> Getter] /\ \A h \in Getters \ {g} : getter'[h] = getter[h]
          /\ getter'[g].at = "none" /\ getter'[g].errors = 0 /\ ~getter'[g].present
      BY <1>0, <3>1, <3>2 DEF TypeOK, Getter, Blobs
    <3>4. GetOutlasts(g)'
      BY <2>1, <3>3 DEF GetOutlasts, MaxErrors
    <3>5. held' \subseteq Blobs /\ held \subseteq held'
      BY <2>3 DEF TypeOK
    <3> QED
      BY <1>3, <2>1, <3>3, <3>4, <3>5
  <2> QED
    BY <1>5, <2>2, <2>3 DEF GetDownload
<1> QED
  BY <1>1, <1>2, <1>4, <1>5 DEF GetStep

(***************************************************************************)
(* The inductive invariant of the blob store: permits are balanced by the  *)
(* transfers that hold them, a get's failed attempts by the transient      *)
(* errors it met, and a transfer that still writes is polled by its call   *)
(* or by the task it was left to, unless its handler was dropped.          *)
(***************************************************************************)
THEOREM FetchInvariant == Spec => []FetchInv
<1>1. FetchInv /\ [Next]_vars => FetchInv'
  <2> SUFFICES ASSUME FetchInv, [Next]_vars PROVE FetchInv'
    OBVIOUS
  <2>1. ASSUME NEW c \in Callers, Prefetch(c) \/ PrefetchStep(c) \/ CallerDropped(c)
        PROVE  FetchInv'
    BY <2>1, PrefetchWaits, TransferInv DEF PrefetchStep
  <2>2. ASSUME NEW g \in Getters, Get(g) \/ GetStep(g) PROVE FetchInv'
    BY <2>2, GetInv
  <2>3. CASE (\E p \in Providers : Wedge(p)) \/ Put \/ DetachedEnds
    BY <2>3, StoreInv
  <2>5. CASE Corrupts
    BY <2>5, CorruptsInv
  <2>4. CASE UNCHANGED vars
    BY <2>4 DEF vars, fetchVars, FetchInv, TypeOK, PermitsBalance, Busy, NeverPoisoned,
                Driven, Transfer, Asked, ProviderCounted,
                GetsOutlast, GetOutlasts, Readable, attempts, MaxErrors,
                TransientErrorsAreNotMisses
  <2> QED
    BY <2>1, <2>2, <2>3, <2>4, <2>5 DEF Next
<1> QED
  BY <1>1, FetchInitInv, PTL DEF Spec

\* Every transfer is driven to its end, over any number of providers, stalls,
\* drains and detached tasks, except those of a request handler that is dropped;
\* so no other slot is ever marked corrupt.
THEOREM NeverPoisonedHolds == Spec => []NeverPoisoned
<1>1. FetchInv => NeverPoisoned
  BY DEF FetchInv
<1> QED
  BY <1>1, FetchInvariant, PTL

\* The cap on requests holds for any number of callers, and permits come back.
THEOREM ProvidersAreSparedHolds == Spec => []ProvidersAreSpared
<1>1. FetchInv => ProvidersAreSpared
  <2> SUFFICES ASSUME FetchInv PROVE ProvidersAreSpared
    OBVIOUS
  <2>1. /\ permits \in Nat /\ permits + Cardinality(Busy) = PREFETCH_CONCURRENCY
        /\ Cardinality(Busy) \in Nat /\ IsFiniteSet(Busy) /\ PREFETCH_CONCURRENCY \in Nat
    BY BusyFinite, BlobFetchAssumption DEF FetchInv, TypeOK, PermitsBalance
  <2>2. Cardinality(Transferring) <= Cardinality(Busy) /\ Cardinality(Transferring) \in Nat
    <3>1. Transferring \subseteq Busy
      BY DEF Transferring, Busy
    <3> QED
      BY <2>1, <3>1, FS_Subset, FS_CardinalityType
  <2>3. ASSUME \A c \in Callers : call[c].at = "idle" PROVE permits = PREFETCH_CONCURRENCY
    <3>1. Busy = {}
      BY <2>3 DEF Busy
    <3> QED
      BY <2>1, <3>1, FS_EmptySet
  <2> QED
    BY <2>1, <2>2, <2>3 DEF ProvidersAreSpared
<1> QED
  BY <1>1, FetchInvariant, PTL

\* A blob that is there is never reported missing.
THEOREM NoFalseMiss == Spec => []TransientErrorsAreNotMisses
<1>1. FetchInv => TransientErrorsAreNotMisses
  BY DEF FetchInv
<1> QED
  BY <1>1, FetchInvariant, PTL

=============================================================================
