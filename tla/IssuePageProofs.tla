---------------------------- MODULE IssuePageProofs ----------------------------
(***************************************************************************)
(* Proofs about the issue page, for any queries, any number of events,     *)
(* faults and uses and any flush limit.                                    *)
(***************************************************************************)
EXTENDS IssuePage, TLAPS

\* The types of the query client's variables.
QueryTypes ==
  /\ cache \in [Queries -> Answers] /\ reply \in [Queries -> Answers]
  /\ phase \in [Queries -> {"idle", "sent", "answered"}]
  /\ failed \in [Queries -> BOOLEAN] /\ unheard \in [Queries -> BOOLEAN]

\* The types of the others, and the order of frames, watermark and table.
StreamTypes ==
  /\ rev \in 1..MaxEvents /\ active \in BOOLEAN /\ owed \in BOOLEAN
  /\ wake \in BOOLEAN /\ mounted \in BOOLEAN /\ fallback \in BOOLEAN
  /\ srv \in {"none", "initial", "serving"} /\ conn \in {"off", "connecting", "open", "waiting"}
  /\ mark \in 0..rev /\ got \in 0..mark
  /\ faults \in 0..MaxFaults /\ uses \in 0..MaxUses

\* A request is only made of a query that is enabled, and an answer holds data.
RequestsAreEnabled ==
  \A q \in Queries : /\ phase[q] # "idle" => EnabledWith(cache, q)
                     /\ phase[q] = "answered" => reply[q].rev > 0

\* The stream is opened by a page that is shown and knows its issue, and
\* nothing is left of a handler whose client has gone.
StreamNeedsIssue ==
  /\ conn # "open" => srv = "none" /\ mark = 0 /\ got = 0
  /\ ~mounted => conn = "off"
  /\ conn # "off" => Loaded(cache, "issue")

\* The inductive invariant.
PageInv ==
  /\ QueryTypes /\ StreamTypes /\ RequestsAreEnabled /\ StreamNeedsIssue
  /\ HandledFramesAreFetched /\ FallbackOnlyWhileDown

-----------------------------------------------------------------------------
\* What a query will show is a number of events.
LEMMA ComingIsNat ==
  ASSUME QueryTypes, rev \in Nat, NEW q \in Queries
  PROVE  Coming(q) \in Nat
BY DEF QueryTypes, Answers, Coming

\* Starting requests of enabled queries.
LEMMA RequestedKeeps ==
  ASSUME QueryTypes, RequestsAreEnabled, NEW R, Requested(R), cache' = cache,
         \A q \in R \cap Queries : EnabledWith(cache, q)
  PROVE  /\ reply' \in [Queries -> Answers]
         /\ phase' \in [Queries -> {"idle", "sent", "answered"}]
         /\ RequestsAreEnabled'
         /\ \A q \in Queries : IF q \in R THEN phase'[q] = "sent"
                               ELSE phase'[q] = phase[q] /\ reply'[q] = reply[q]
<1>1. NoData \in Answers
  BY DEF NoData, Answers
<1>2. /\ reply' \in [Queries -> Answers]
      /\ phase' \in [Queries -> {"idle", "sent", "answered"}]
      /\ \A q \in Queries : IF q \in R THEN phase'[q] = "sent"
                            ELSE phase'[q] = phase[q] /\ reply'[q] = reply[q]
  BY <1>1 DEF Requested, QueryTypes
<1>3. RequestsAreEnabled'
  BY <1>2 DEF RequestsAreEnabled, EnabledWith, Loaded
<1> QED
  BY <1>2, <1>3

\* An invalidation starts every enabled query, but for one whose first
\* answer is on its way.
LEMMA InvalidationKeeps ==
  ASSUME QueryTypes, RequestsAreEnabled, InvalidateQueries(Queries)
  PROVE  /\ QueryTypes' /\ RequestsAreEnabled' /\ cache' = cache /\ failed' = failed
         /\ \A q \in Queries :
              \/ phase'[q] = "sent"
              \/ /\ phase'[q] = phase[q] /\ reply'[q] = reply[q]
                 /\ unheard[q] => unheard'[q]
                 /\ Enabled(q) => unheard'[q]
<1>1. cache' = cache /\ failed' = failed /\ Requested(Restarted(Queries))
  BY DEF InvalidateQueries
<1>2. /\ reply' \in [Queries -> Answers]
      /\ phase' \in [Queries -> {"idle", "sent", "answered"}]
      /\ RequestsAreEnabled'
      /\ \A q \in Queries : IF q \in Restarted(Queries) THEN phase'[q] = "sent"
                            ELSE phase'[q] = phase[q] /\ reply'[q] = reply[q]
  <2>1. \A q \in Restarted(Queries) \cap Queries : EnabledWith(cache, q)
    BY DEF Restarted, Enabled
  <2> QED
    BY <1>1, <2>1, RequestedKeeps
<1>3. unheard' = [q \in Queries |->
        IF q \in Restarted(Queries) THEN FALSE
        ELSE unheard[q] \/ (q \in Queries /\ ~Loaded(cache, q) /\ phase[q] = "answered")]
  BY DEF InvalidateQueries
<1>4. unheard' \in [Queries -> BOOLEAN]
  BY <1>3 DEF QueryTypes
<1>5. QueryTypes'
  BY <1>1, <1>2, <1>4 DEF QueryTypes
<1>6. ASSUME NEW q \in Queries
      PROVE  \/ phase'[q] = "sent"
             \/ /\ phase'[q] = phase[q] /\ reply'[q] = reply[q]
                /\ unheard[q] => unheard'[q]
                /\ Enabled(q) => unheard'[q]
  <2>1. CASE q \in Restarted(Queries)
    BY <1>2, <2>1
  <2>2. CASE q \notin Restarted(Queries)
    <3>1. phase'[q] = phase[q] /\ reply'[q] = reply[q]
      BY <1>2, <2>2
    <3>2. unheard'[q] <=> unheard[q] \/ (~Loaded(cache, q) /\ phase[q] = "answered")
      BY <1>3, <2>2
    <3>3. Enabled(q) => phase[q] # "idle" /\ ~Loaded(cache, q)
      BY <2>2 DEF Restarted
    <3>4. phase[q] \in {"idle", "sent", "answered"}
      BY DEF QueryTypes
    <3> QED
      BY <3>1, <3>2, <3>3, <3>4
  <2> QED
    BY <2>1, <2>2
<1> QED
  BY <1>1, <1>2, <1>5, <1>6

\* Requests started by invalidation, poll, focus or arrival fetch at least
\* what has been handled; the others show what they showed.
LEMMA StillFetched ==
  ASSUME QueryTypes', rev' \in Nat, HandledFramesAreFetched, got' <= rev',
         got' = got, mounted' = mounted,
         \A q \in Queries :
           \/ phase'[q] = "sent"
           \/ /\ phase'[q] = phase[q] /\ reply'[q] = reply[q] /\ cache'[q] = cache[q]
              /\ phase[q] # "sent" /\ failed'[q] = failed[q] /\ (unheard[q] => unheard'[q])
  PROVE  HandledFramesAreFetched'
<1> SUFFICES ASSUME NEW q \in Queries, mounted', ~unheard'[q], ~(failed'[q] /\ phase'[q] = "idle")
             PROVE  Coming(q)' >= got'
  BY DEF HandledFramesAreFetched
<1>1. CASE phase'[q] = "sent"
  BY <1>1 DEF Coming
<1>2. CASE phase'[q] # "sent"
  <2>1. Coming(q) >= got
    BY <1>2 DEF HandledFramesAreFetched
  <2>2. phase'[q] \in {"idle", "answered"}
    BY <1>2 DEF QueryTypes
  <2> QED
    BY <1>2, <2>1, <2>2 DEF Coming
<1> QED
  BY <1>1, <1>2

\* A client that has handled nothing has nothing to fetch.
LEMMA NothingHandled ==
  ASSUME QueryTypes', rev' \in Nat, got' = 0
  PROVE  HandledFramesAreFetched'
<1>1. \A q \in Queries : Coming(q)' \in Nat
  BY DEF QueryTypes, Answers, Coming
<1> QED
  BY <1>1 DEF HandledFramesAreFetched

-----------------------------------------------------------------------------
\* The page before it is opened.
LEMMA PageStart == PageInit => PageInv
<1> SUFFICES ASSUME PageInit PROVE PageInv
  OBVIOUS
<1> USE PageAssumption DEF PageInit
<1>1. NoData \in Answers
  BY DEF NoData, Answers
<1>2. QueryTypes
  BY <1>1 DEF QueryTypes
<1>3. StreamTypes
  <2>1. /\ rev \in 1..MaxEvents /\ mark \in 0..rev /\ got \in 0..mark
        /\ faults \in 0..MaxFaults /\ uses \in 0..MaxUses
    OBVIOUS
  <2>2. /\ active \in BOOLEAN /\ owed \in BOOLEAN /\ wake \in BOOLEAN
        /\ mounted \in BOOLEAN /\ fallback \in BOOLEAN
    BY Zenon
  <2> QED
    BY <2>1, <2>2 DEF StreamTypes
<1>4. RequestsAreEnabled /\ StreamNeedsIssue /\ FallbackOnlyWhileDown
  BY DEF RequestsAreEnabled, StreamNeedsIssue, FallbackOnlyWhileDown
<1>5. HandledFramesAreFetched
  BY DEF HandledFramesAreFetched
<1> QED
  BY <1>2, <1>3, <1>4, <1>5 DEF PageInv

\* A step of the server or of the stream that leaves the queries alone.
LEMMA QueriesUntouched ==
  ASSUME QueryTypes, RequestsAreEnabled, UNCHANGED queryVars
  PROVE  QueryTypes' /\ RequestsAreEnabled'
BY DEF queryVars, QueryTypes, RequestsAreEnabled, EnabledWith, Loaded

\* Commits and the bus.
LEMMA ServerStep ==
  ASSUME PageInv,
         (\E notifies, busy \in BOOLEAN : AppendRunEvent(notifies, busy)) \/ OnRunEvent
  PROVE  PageInv'
<1> USE PageAssumption
<1>t. /\ QueryTypes /\ StreamTypes /\ RequestsAreEnabled /\ StreamNeedsIssue
      /\ HandledFramesAreFetched /\ FallbackOnlyWhileDown
  BY DEF PageInv
<1>1. /\ UNCHANGED <<srv, mark, clientVars, queryVars, faults, uses>>
      /\ rev' \in {rev, rev + 1} /\ rev' <= MaxEvents /\ active' \in BOOLEAN /\ owed' \in BOOLEAN
      /\ wake' \in BOOLEAN
  <2>1. ASSUME NEW notifies \in BOOLEAN, NEW busy \in BOOLEAN, AppendRunEvent(notifies, busy)
        PROVE  /\ UNCHANGED <<srv, wake, mark, clientVars, queryVars, faults, uses>>
               /\ rev' = rev + 1 /\ rev' <= MaxEvents /\ active' \in BOOLEAN /\ owed' \in BOOLEAN
    <3>1. owed' \in BOOLEAN /\ active' \in BOOLEAN
      BY <2>1, Zenon DEF AppendRunEvent
    <3>2. rev < MaxEvents /\ rev' = rev + 1
      BY <2>1 DEF AppendRunEvent
    <3>3. rev' <= MaxEvents
      BY <1>t, <3>2 DEF StreamTypes
    <3>4. UNCHANGED <<srv, wake, mark, clientVars, queryVars, faults, uses>>
      BY <2>1 DEF AppendRunEvent, handlerVars
    <3> QED
      BY <3>1, <3>2, <3>3, <3>4
  <2>2. CASE OnRunEvent
    <3>1. owed' \in BOOLEAN /\ wake' \in BOOLEAN
      BY <2>2, Zenon DEF OnRunEvent
    <3>2. UNCHANGED <<rev, active, srv, mark, clientVars, queryVars, faults, uses>>
      BY <2>2 DEF OnRunEvent
    <3> QED
      BY <1>t, <3>1, <3>2 DEF StreamTypes
  <2> QED
    BY <1>t, <2>1, <2>2 DEF StreamTypes
<1>2. QueryTypes' /\ RequestsAreEnabled'
  BY <1>t, <1>1, QueriesUntouched
<1>3. StreamTypes'
  BY <1>t, <1>1 DEF StreamTypes, clientVars
<1>4. StreamNeedsIssue' /\ FallbackOnlyWhileDown'
  BY <1>t, <1>1 DEF StreamNeedsIssue, FallbackOnlyWhileDown, clientVars, queryVars, Loaded
<1>5. HandledFramesAreFetched'
  <2>1. rev \in Nat /\ rev' \in Nat /\ rev' >= rev /\ got \in Nat
    BY <1>t, <1>1 DEF StreamTypes
  <2>2. ASSUME NEW q \in Queries PROVE Coming(q)' >= Coming(q) /\ Coming(q) \in Nat /\ Coming(q)' \in Nat
    BY <1>t, <1>1, <2>1 DEF Coming, QueryTypes, Answers, queryVars
  <2> QED
    BY <1>t, <1>1, <2>1, <2>2 DEF HandledFramesAreFetched, clientVars, queryVars
<1> QED
  BY <1>2, <1>3, <1>4, <1>5 DEF PageInv

\* A flush moves the watermark forward, and not past the table.
LEMMA FlushStep ==
  ASSUME PageInv, InitialFlush \/ WakeFlush \/ KeepAliveFlush
  PROVE  PageInv'
<1> USE PageAssumption
<1>t. /\ QueryTypes /\ StreamTypes /\ RequestsAreEnabled /\ StreamNeedsIssue
      /\ HandledFramesAreFetched /\ FallbackOnlyWhileDown
  BY DEF PageInv
<1>1. /\ UNCHANGED <<serverVars, clientVars, queryVars, faults, uses>>
      /\ srv # "none" /\ srv' = "serving" /\ wake' \in BOOLEAN
      /\ mark' = ListIssueRunEventsSince
  BY <1>t DEF InitialFlush, WakeFlush, KeepAliveFlush, Flush, StreamTypes
<1>2. mark' \in mark..rev
  BY <1>t, <1>1 DEF ListIssueRunEventsSince, StreamTypes
<1>3. QueryTypes' /\ RequestsAreEnabled'
  BY <1>t, <1>1, QueriesUntouched
<1>4. StreamTypes'
  BY <1>t, <1>1, <1>2 DEF StreamTypes, clientVars, serverVars
<1>5. StreamNeedsIssue' /\ FallbackOnlyWhileDown'
  BY <1>t, <1>1 DEF StreamNeedsIssue, FallbackOnlyWhileDown, clientVars, queryVars, Loaded
<1>6. HandledFramesAreFetched'
  BY <1>t, <1>1 DEF HandledFramesAreFetched, Coming, serverVars, clientVars, queryVars
<1> QED
  BY <1>3, <1>4, <1>5, <1>6 DEF PageInv

\* A step of the query client that keeps the page's issue loaded.
LEMMA StreamUntouched ==
  ASSUME StreamTypes, StreamNeedsIssue, FallbackOnlyWhileDown,
         UNCHANGED <<serverVars, handlerVars, clientVars>>,
         faults' \in 0..MaxFaults, uses' \in 0..MaxUses,
         Loaded(cache, "issue") => Loaded(cache, "issue")'
  PROVE  StreamTypes' /\ StreamNeedsIssue' /\ FallbackOnlyWhileDown' /\ got' = got /\ got' <= rev' /\ rev' \in Nat
<1>1. StreamTypes' /\ got' = got
  BY DEF StreamTypes, serverVars, handlerVars, clientVars
<1>2. got' <= rev' /\ rev' \in Nat
  BY <1>1 DEF StreamTypes
<1>3. StreamNeedsIssue' /\ FallbackOnlyWhileDown'
  BY DEF StreamNeedsIssue, FallbackOnlyWhileDown, handlerVars, clientVars
<1> QED
  BY <1>1, <1>2, <1>3

\* Polls, focus, answers and failures of one query.
LEMMA QueryStep ==
  ASSUME PageInv, NEW q \in Queries,
         PollTick(q) \/ WindowFocus(q) \/ Answer(q) \/ RequestFails(q)
  PROVE  PageInv'
<1> USE PageAssumption
<1>t. /\ QueryTypes /\ StreamTypes /\ RequestsAreEnabled /\ StreamNeedsIssue
      /\ HandledFramesAreFetched /\ FallbackOnlyWhileDown
  BY DEF PageInv
<1>n. NoData \in Answers
  BY DEF NoData, Answers
<1>1. UNCHANGED <<serverVars, handlerVars, clientVars, cache, uses>> /\ faults' \in 0..MaxFaults
  BY <1>t DEF PollTick, WindowFocus, Answer, RequestFails, StreamTypes
<1>2. /\ StreamTypes' /\ StreamNeedsIssue' /\ FallbackOnlyWhileDown'
      /\ got' = got /\ got' <= rev' /\ rev' \in Nat
  <2>1. uses' \in 0..MaxUses /\ (Loaded(cache, "issue") => Loaded(cache, "issue")')
    BY <1>t, <1>1 DEF StreamTypes, Loaded
  <2> QED
    BY <1>t, <1>1, <2>1, StreamUntouched
<1>m. mounted' = mounted /\ rev' = rev
  BY <1>1 DEF clientVars, serverVars
<1>3. CASE PollTick(q) \/ WindowFocus(q)
  <2>1. /\ Requested({q}) /\ EnabledWith(cache, q) /\ failed' = failed
        /\ unheard' = [unheard EXCEPT ![q] = FALSE]
    BY <1>3 DEF PollTick, WindowFocus, Enabled
  <2>2. /\ reply' \in [Queries -> Answers]
        /\ phase' \in [Queries -> {"idle", "sent", "answered"}]
        /\ RequestsAreEnabled'
        /\ \A x \in Queries : IF x \in {q} THEN phase'[x] = "sent"
                              ELSE phase'[x] = phase[x] /\ reply'[x] = reply[x]
    BY <1>t, <1>1, <2>1, RequestedKeeps
  <2>3. QueryTypes'
    BY <1>t, <1>1, <2>1, <2>2 DEF QueryTypes
  <2>4. \A x \in Queries \ {q} : unheard'[x] = unheard[x]
    BY <1>t, <2>1 DEF QueryTypes
  <2>5. HandledFramesAreFetched'
    BY <1>t, <1>1, <1>2, <1>m, <2>1, <2>2, <2>3, <2>4, StillFetched
  <2> QED
    BY <1>2, <2>2, <2>3, <2>5 DEF PageInv
<1>4. CASE Answer(q)
  <2>1. /\ phase[q] = "sent" /\ phase' = [phase EXCEPT ![q] = "answered"]
        /\ reply' = [reply EXCEPT ![q] = [rev |-> rev, busy |-> active /\ q = "issue"]]
        /\ failed' = failed /\ unheard' = unheard
    BY <1>4 DEF Answer
  <2>2. [rev |-> rev, busy |-> active /\ q = "issue"] \in Answers /\ rev > 0
    BY <1>t DEF StreamTypes, Answers
  <2>3. QueryTypes'
    BY <1>t, <1>1, <2>1, <2>2 DEF QueryTypes
  <2>4. RequestsAreEnabled'
    BY <1>t, <1>1, <2>1, <2>2 DEF QueryTypes, RequestsAreEnabled, EnabledWith, Loaded
  <2>5. \A x \in Queries : Coming(x)' = Coming(x) /\ (phase'[x] = "idle" <=> phase[x] = "idle")
    BY <1>t, <1>1, <1>m, <2>1 DEF Coming, QueryTypes
  <2>6. HandledFramesAreFetched'
    BY <1>t, <1>2, <1>m, <2>1, <2>5 DEF HandledFramesAreFetched
  <2> QED
    BY <1>2, <2>3, <2>4, <2>6 DEF PageInv
<1>5. CASE RequestFails(q)
  <2>1. /\ phase' = [phase EXCEPT ![q] = "idle"] /\ reply' = [reply EXCEPT ![q] = NoData]
        /\ failed' = [failed EXCEPT ![q] = TRUE] /\ unheard' = unheard
    BY <1>5 DEF RequestFails
  <2>2. QueryTypes'
    BY <1>t, <1>n, <1>1, <2>1 DEF QueryTypes
  <2>3. RequestsAreEnabled'
    BY <1>t, <1>1, <2>1 DEF QueryTypes, RequestsAreEnabled, EnabledWith, Loaded
  <2>4. failed'[q] /\ phase'[q] = "idle"
    BY <1>t, <2>1 DEF QueryTypes
  <2>5. \A x \in Queries \ {q} : Coming(x)' = Coming(x) /\ phase'[x] = phase[x] /\ failed'[x] = failed[x]
    BY <1>t, <1>1, <1>m, <2>1 DEF Coming, QueryTypes
  <2>6. HandledFramesAreFetched'
    BY <1>t, <1>2, <1>m, <2>1, <2>4, <2>5 DEF HandledFramesAreFetched
  <2> QED
    BY <1>2, <2>2, <2>3, <2>6 DEF PageInv
<1> QED
  BY <1>3, <1>4, <1>5

\* The refresh button and the fallback poll.
LEMMA RefreshStep ==
  ASSUME PageInv, RefreshIssue \/ PollRealtimeFallback
  PROVE  PageInv'
<1> USE PageAssumption
<1>t. /\ QueryTypes /\ StreamTypes /\ RequestsAreEnabled /\ StreamNeedsIssue
      /\ HandledFramesAreFetched /\ FallbackOnlyWhileDown
  BY DEF PageInv
<1>1. /\ UNCHANGED <<serverVars, handlerVars, clientVars, faults>> /\ uses' \in 0..MaxUses
      /\ InvalidateQueries(Queries)
  BY <1>t DEF RefreshIssue, PollRealtimeFallback, StreamTypes
<1>2. /\ QueryTypes' /\ RequestsAreEnabled' /\ cache' = cache /\ failed' = failed
      /\ \A q \in Queries :
           \/ phase'[q] = "sent"
           \/ /\ phase'[q] = phase[q] /\ reply'[q] = reply[q]
              /\ unheard[q] => unheard'[q]
              /\ Enabled(q) => unheard'[q]
  BY <1>t, <1>1, InvalidationKeeps
<1>3. /\ StreamTypes' /\ StreamNeedsIssue' /\ FallbackOnlyWhileDown'
      /\ got' = got /\ got' <= rev' /\ rev' \in Nat
  <2>1. faults' \in 0..MaxFaults /\ (Loaded(cache, "issue") => Loaded(cache, "issue")')
    BY <1>t, <1>1, <1>2 DEF StreamTypes, Loaded
  <2> QED
    BY <1>t, <1>1, <2>1, StreamUntouched
<1>4. mounted' = mounted
  BY <1>1 DEF clientVars
<1>5. HandledFramesAreFetched'
  BY <1>t, <1>2, <1>3, <1>4, StillFetched
<1> QED
  BY <1>2, <1>3, <1>5 DEF PageInv

\* A frame: every query is started or has its first answer on its way.
LEMMA FrameStep ==
  ASSUME PageInv, OnEvent
  PROVE  PageInv'
<1> USE PageAssumption
<1>t. /\ QueryTypes /\ StreamTypes /\ RequestsAreEnabled /\ StreamNeedsIssue
      /\ HandledFramesAreFetched /\ FallbackOnlyWhileDown
  BY DEF PageInv
<1>1. /\ UNCHANGED <<serverVars, handlerVars, mounted, conn, fallback, faults, uses>>
      /\ conn = "open" /\ got < mark /\ got' = got + 1 /\ InvalidateQueries(Queries)
  BY DEF OnEvent
<1>2. /\ QueryTypes' /\ RequestsAreEnabled' /\ cache' = cache /\ failed' = failed
      /\ \A q \in Queries :
           \/ phase'[q] = "sent"
           \/ /\ phase'[q] = phase[q] /\ reply'[q] = reply[q]
              /\ unheard[q] => unheard'[q]
              /\ Enabled(q) => unheard'[q]
  BY <1>t, <1>1, InvalidationKeeps
<1>3. StreamTypes'
  BY <1>t, <1>1 DEF StreamTypes, serverVars, handlerVars
<1>4. StreamNeedsIssue' /\ FallbackOnlyWhileDown'
  BY <1>t, <1>1, <1>2 DEF StreamNeedsIssue, FallbackOnlyWhileDown, handlerVars, Loaded
<1>5. \A q \in Queries : Enabled(q)
  BY <1>t, <1>1 DEF StreamNeedsIssue, Enabled, EnabledWith
<1>6. got' <= rev' /\ rev' \in Nat
  BY <1>3 DEF StreamTypes
<1>7. HandledFramesAreFetched'
  BY <1>2, <1>5, <1>6 DEF HandledFramesAreFetched, Coming
<1> QED
  BY <1>2, <1>3, <1>4, <1>7 DEF PageInv

\* An answer arrives; the first one of the issue starts the rest of the page.
LEMMA ArriveStep ==
  ASSUME PageInv, NEW q \in Queries, Arrive(q)
  PROVE  PageInv'
<1> USE PageAssumption
<1>t. /\ QueryTypes /\ StreamTypes /\ RequestsAreEnabled /\ StreamNeedsIssue
      /\ HandledFramesAreFetched /\ FallbackOnlyWhileDown
  BY DEF PageInv
<1>n. NoData \in Answers
  BY DEF NoData, Answers
<1> DEFINE started == {x \in Queries : mounted /\ ~EnabledWith(cache, x) /\ EnabledWith(cache', x)}
<1>1. /\ phase[q] = "answered" /\ cache' = [cache EXCEPT ![q] = reply[q]]
      /\ phase' = [x \in Queries |-> IF x = q THEN "idle" ELSE IF x \in started THEN "sent" ELSE phase[x]]
      /\ reply' = [reply EXCEPT ![q] = NoData] /\ failed' = [failed EXCEPT ![q] = FALSE]
      /\ conn' = (IF mounted /\ conn = "off" THEN "connecting" ELSE conn)
      /\ UNCHANGED <<serverVars, handlerVars, mounted, got, fallback, unheard, faults, uses>>
  BY DEF Arrive
<1>2. reply[q].rev > 0 /\ EnabledWith(cache, q) /\ cache'[q] = reply[q]
  BY <1>t, <1>1 DEF RequestsAreEnabled, QueryTypes
<1>3. \A x \in Queries \ {q} : cache'[x] = cache[x]
  BY <1>t, <1>1 DEF QueryTypes
<1>4. /\ Loaded(cache, "issue") => Loaded(cache', "issue")
      /\ Loaded(cache', "issue")
      /\ \A x \in Queries : EnabledWith(cache, x) => EnabledWith(cache', x)
  BY <1>2, <1>3 DEF EnabledWith, Loaded
<1>5. QueryTypes'
  BY <1>t, <1>n, <1>1 DEF QueryTypes
<1>6. \A x \in Queries \ {q} : phase'[x] = "sent" \/ phase'[x] = phase[x]
  BY <1>1
<1>7. \A x \in started : x # q
  BY <1>2
<1>8. RequestsAreEnabled'
  <2> SUFFICES ASSUME NEW x \in Queries
               PROVE  /\ phase'[x] # "idle" => EnabledWith(cache', x)
                      /\ phase'[x] = "answered" => reply'[x].rev > 0
    BY DEF RequestsAreEnabled, EnabledWith, Loaded
  <2>1. CASE x = q
    BY <1>1, <2>1
  <2>2. CASE x \in started
    BY <1>1, <1>7, <2>2
  <2>3. CASE x # q /\ x \notin started
    <3>1. phase'[x] = phase[x] /\ reply'[x] = reply[x]
      BY <1>t, <1>1, <2>3 DEF QueryTypes
    <3> QED
      BY <1>t, <1>4, <3>1 DEF RequestsAreEnabled
  <2> QED
    BY <2>1, <2>2, <2>3
<1>9. StreamTypes'
  BY <1>t, <1>1 DEF StreamTypes, serverVars, handlerVars
<1>10. StreamNeedsIssue' /\ FallbackOnlyWhileDown'
  BY <1>t, <1>1, <1>4 DEF StreamNeedsIssue, FallbackOnlyWhileDown, handlerVars, StreamTypes, Loaded
<1>11. HandledFramesAreFetched'
  <2>1. rev' = rev /\ rev \in Nat /\ got <= rev
    BY <1>t, <1>1 DEF StreamTypes, serverVars
  <2>2. Coming(q)' = Coming(q) /\ phase[q] # "idle" /\ phase'[q] = "idle"
    BY <1>t, <1>1, <1>2 DEF Coming, QueryTypes
  <2>3. ASSUME NEW x \in Queries \ {q}
        PROVE  \/ Coming(x)' = rev
               \/ Coming(x)' = Coming(x) /\ phase'[x] = phase[x] /\ failed'[x] = failed[x]
    BY <1>t, <1>1, <1>3, <2>1 DEF Coming, QueryTypes
  <2> QED
    BY <1>t, <1>1, <2>1, <2>2, <2>3 DEF HandledFramesAreFetched
<1> QED
  BY <1>5, <1>8, <1>9, <1>10, <1>11 DEF PageInv

\* Connecting, losing and leaving the stream; opening the page.
LEMMA StreamStep ==
  ASSUME PageInv, \/ ConnectOpens \/ ConnectFails \/ RetryTimer \/ LeavePage
                  \/ \E error \in BOOLEAN : StreamEnds(error)
  PROVE  PageInv'
<1> USE PageAssumption
<1>t. /\ QueryTypes /\ StreamTypes /\ RequestsAreEnabled /\ StreamNeedsIssue
      /\ HandledFramesAreFetched /\ FallbackOnlyWhileDown
  BY DEF PageInv
<1>0. rev \in Nat /\ rev >= 1
  BY <1>t DEF StreamTypes
<1>1. UNCHANGED <<serverVars, queryVars>>
  BY DEF ConnectOpens, ConnectFails, RetryTimer, LeavePage, StreamEnds
<1>2. QueryTypes' /\ RequestsAreEnabled'
  BY <1>t, <1>1, QueriesUntouched
<1>3. got' = 0
  BY <1>t DEF ConnectOpens, ConnectFails, RetryTimer, LeavePage, StreamEnds, HandlerGone, StreamNeedsIssue
<1>4. HandledFramesAreFetched'
  BY <1>0, <1>1, <1>2, <1>3, NothingHandled DEF serverVars
<1>5. CASE ConnectOpens
  <2>1. StreamTypes'
    <3>1. fallback' \in BOOLEAN /\ wake' \in BOOLEAN
      BY <1>5, Zenon DEF ConnectOpens
    <3> QED
      BY <1>t, <1>0, <1>1, <1>5, <3>1 DEF ConnectOpens, StreamTypes, serverVars
  <2>2. StreamNeedsIssue' /\ FallbackOnlyWhileDown'
    BY <1>t, <1>1, <1>5 DEF ConnectOpens, StreamNeedsIssue, FallbackOnlyWhileDown, queryVars, Loaded
  <2> QED
    BY <1>2, <1>4, <2>1, <2>2 DEF PageInv
<1>6. CASE ConnectFails
  <2>1. StreamTypes'
    BY <1>t, <1>1, <1>6 DEF ConnectFails, StreamTypes, serverVars, handlerVars
  <2>2. StreamNeedsIssue' /\ FallbackOnlyWhileDown'
    BY <1>t, <1>1, <1>6 DEF ConnectFails, StreamNeedsIssue, FallbackOnlyWhileDown, queryVars, handlerVars,
                            Loaded, StreamTypes
  <2> QED
    BY <1>2, <1>4, <2>1, <2>2 DEF PageInv
<1>7. CASE RetryTimer
  <2>1. StreamTypes'
    BY <1>t, <1>1, <1>7 DEF RetryTimer, StreamTypes, serverVars, handlerVars
  <2>2. StreamNeedsIssue' /\ FallbackOnlyWhileDown'
    BY <1>t, <1>1, <1>7 DEF RetryTimer, StreamNeedsIssue, FallbackOnlyWhileDown, queryVars, handlerVars, Loaded
  <2> QED
    BY <1>2, <1>4, <2>1, <2>2 DEF PageInv
<1>8. CASE LeavePage
  <2>1. StreamTypes'
    <3>1. fallback' \in BOOLEAN /\ wake' \in BOOLEAN /\ mounted' \in BOOLEAN
      BY <1>8, Zenon DEF LeavePage, HandlerGone
    <3> QED
      BY <1>t, <1>0, <1>1, <1>8, <3>1 DEF LeavePage, HandlerGone, StreamTypes, serverVars
  <2>2. StreamNeedsIssue' /\ FallbackOnlyWhileDown'
    BY <1>8 DEF LeavePage, HandlerGone, StreamNeedsIssue, FallbackOnlyWhileDown
  <2> QED
    BY <1>2, <1>4, <2>1, <2>2 DEF PageInv
<1>9. ASSUME NEW error \in BOOLEAN, StreamEnds(error) PROVE PageInv'
  <2>1. fallback' \in BOOLEAN /\ wake' \in BOOLEAN
    BY <1>9, Zenon DEF StreamEnds, HandlerGone
  <2>2. StreamTypes'
    <3>1. /\ conn' = "waiting" /\ srv' = "none" /\ mark' = 0 /\ got' = 0 /\ faults' = faults + 1
          /\ faults < MaxFaults /\ UNCHANGED <<rev, active, owed, mounted, uses>>
      BY <1>9 DEF StreamEnds, HandlerGone, serverVars
    <3> QED
      BY <1>t, <1>0, <2>1, <3>1 DEF StreamTypes
  <2>3. StreamNeedsIssue' /\ FallbackOnlyWhileDown'
    BY <1>t, <1>1, <1>9 DEF StreamEnds, HandlerGone, StreamNeedsIssue, FallbackOnlyWhileDown, queryVars,
                            Loaded, StreamTypes
  <2> QED
    BY <1>2, <1>4, <2>2, <2>3 DEF PageInv
<1> QED
  BY <1>5, <1>6, <1>7, <1>8, <1>9

\* Opening the page asks for what is not kept.
LEMMA OpenStep ==
  ASSUME PageInv, NEW kept, OpenPage(kept)
  PROVE  PageInv'
<1> USE PageAssumption
<1>t. /\ QueryTypes /\ StreamTypes /\ RequestsAreEnabled /\ StreamNeedsIssue
      /\ HandledFramesAreFetched /\ FallbackOnlyWhileDown
  BY DEF PageInv
<1> DEFINE asked == {q \in Queries \ kept : EnabledWith(cache, q) /\ phase[q] = "idle"}
<1>1. /\ ~mounted /\ mounted' = TRUE /\ uses < MaxUses /\ uses' = uses + 1
      /\ conn' = (IF Loaded(cache, "issue") THEN "connecting" ELSE "off")
      /\ Requested(asked)
      /\ unheard' = [q \in Queries |-> IF q \in asked THEN FALSE ELSE unheard[q]]
      /\ UNCHANGED <<serverVars, handlerVars, got, fallback, cache, failed, faults>>
  BY DEF OpenPage
<1>2. /\ reply' \in [Queries -> Answers]
      /\ phase' \in [Queries -> {"idle", "sent", "answered"}]
      /\ RequestsAreEnabled'
  BY <1>t, <1>1, RequestedKeeps
<1>3. unheard' \in [Queries -> BOOLEAN]
  BY <1>t, <1>1 DEF QueryTypes
<1>4. QueryTypes'
  BY <1>t, <1>1, <1>2, <1>3 DEF QueryTypes
<1>5. uses' \in 0..MaxUses
  BY <1>t, <1>1 DEF StreamTypes
<1>6. StreamTypes'
  BY <1>t, <1>1, <1>5 DEF StreamTypes, serverVars, handlerVars
<1>7. StreamNeedsIssue' /\ FallbackOnlyWhileDown'
  BY <1>t, <1>1 DEF StreamNeedsIssue, FallbackOnlyWhileDown, handlerVars, Loaded
<1>8. got' = 0 /\ rev' \in Nat
  BY <1>t, <1>1, <1>6 DEF StreamNeedsIssue, StreamTypes
<1>9. HandledFramesAreFetched'
  BY <1>4, <1>8, NothingHandled
<1> QED
  BY <1>2, <1>4, <1>6, <1>7, <1>9 DEF PageInv

\* Every step keeps the invariant.
LEMMA PageStep == PageInv /\ [PageNext]_vars => PageInv'
<1> SUFFICES ASSUME PageInv, [PageNext]_vars PROVE PageInv'
  OBVIOUS
<1>1. CASE UNCHANGED vars
  BY <1>1 DEF vars, serverVars, handlerVars, clientVars, queryVars, PageInv, QueryTypes, StreamTypes,
              RequestsAreEnabled, StreamNeedsIssue, HandledFramesAreFetched, FallbackOnlyWhileDown,
              EnabledWith, Loaded, Coming
<1>2. CASE PageNext
  BY <1>2, ServerStep, FlushStep, QueryStep, ArriveStep, RefreshStep, FrameStep, StreamStep, OpenStep
  DEF PageNext
<1> QED
  BY <1>1, <1>2

-----------------------------------------------------------------------------
\* The inductive invariant of the issue page: types, frames behind the
\* watermark behind the table, requests only of enabled queries, a stream
\* only for a loaded issue, and the two properties below.
THEOREM PageInvariant == PageSpec => []PageInv
BY PageStart, PageStep, PTL DEF PageSpec

\* The issue page's state keeps its types, and the stream handler's watermark
\* stays between the frames handled and the rows of the table.
THEOREM PageTypeCorrect == PageSpec => []PageTypeOK
<1>1. PageInv => PageTypeOK
  BY DEF PageInv, QueryTypes, StreamTypes, PageTypeOK
<1> QED
  BY <1>1, PageInvariant, PTL

\* A run_event frame the client has handled is in what the issue, its
\* comments and its runs show or are waiting for.
THEOREM HandledFramesStayFetched == PageSpec => []HandledFramesAreFetched
<1>1. PageInv => HandledFramesAreFetched
  BY DEF PageInv
<1> QED
  BY <1>1, PageInvariant, PTL

\* The fallback poll is on only while the page is shown and its stream down.
THEOREM FallbackStaysHonest == PageSpec => []FallbackOnlyWhileDown
<1>1. PageInv => FallbackOnlyWhileDown
  BY DEF PageInv
<1> QED
  BY <1>1, PageInvariant, PTL
=============================================================================
