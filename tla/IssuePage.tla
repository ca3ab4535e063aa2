------------------------------- MODULE IssuePage -------------------------------
(***************************************************************************)
(* How the issue page keeps up with its issue: the commits that append run *)
(* events, the in-process bus, the server's event stream with its          *)
(* watermark, the client's streamSSE with its reconnects, the query cache, *)
(* the polling that lasts only while the issue looks busy, and the         *)
(* fallback poll while the stream is down.                                 *)
(*                                                                         *)
(* The issue's state is a number, the run events committed so far, and     *)
(* whether its execution status is queued or running.  A query's answer is *)
(* that pair as it was when the server answered.                           *)
(***************************************************************************)
EXTENDS Integers

CONSTANTS
  Queries,     \* the queries the stream refreshes: the issue, its comments, its runs
  MaxEvents,   \* bound: run events committed
  FlushLimit,  \* rows one flush reads (100 in the code)
  MaxFaults,   \* bound: connections refused, streams ended, requests failed
  MaxUses      \* bound: times the page is opened or its refresh button pressed

ASSUME PageAssumption ==
  /\ "issue" \in Queries
  /\ {MaxEvents, FlushLimit} \subseteq Nat \ {0}
  /\ {MaxFaults, MaxUses} \subseteq Nat

VARIABLES
  rev, active,    \* run events committed; execution status queued or running
  owed,           \* a commit whose OnRunEvent call is still to come
  srv,            \* the stream handler: "none", "initial" (before its first flush), "serving"
  wake,           \* its one-slot channel holds a wake-up
  mark,           \* its watermark: the last row it wrote
  mounted,        \* the page is shown
  conn,           \* client stream: "off", "connecting", "open", "waiting"
  got,            \* frames of this connection the client has handled
  fallback,       \* realtimeFallback
  cache,          \* per query, the data shown; rev 0 before the first answer
  phase, reply,   \* per query, its request: "idle", "sent", "answered" with reply
  failed,         \* per query, the last request failed
  unheard,        \* per query, invalidated while its first answer was on its way
  faults, uses

serverVars == <<rev, active, owed>>
handlerVars == <<srv, wake, mark>>
clientVars == <<mounted, conn, got, fallback>>
queryVars == <<cache, phase, reply, failed, unheard>>
vars == <<serverVars, handlerVars, clientVars, queryVars, faults, uses>>

Answers == [rev : Nat, busy : BOOLEAN]
NoData == [rev |-> 0, busy |-> FALSE]
Loaded(c, q) == c[q].rev > 0

PageInit ==
  /\ rev = 1 /\ active \in BOOLEAN /\ owed = FALSE
  /\ srv = "none" /\ wake = FALSE /\ mark = 0
  /\ mounted = FALSE /\ conn = "off" /\ got = 0 /\ fallback = FALSE
  /\ cache = [q \in Queries |-> NoData]
  /\ phase = [q \in Queries |-> "idle"]
  /\ reply = [q \in Queries |-> NoData]
  /\ failed = [q \in Queries |-> FALSE]
  /\ unheard = [q \in Queries |-> FALSE]
  /\ faults = 0 /\ uses = 0

-----------------------------------------------------------------------------
(* The server *)

\* A transaction appends a run event; most of them notify the bus afterwards,
\* creating, updating or rerunning an issue and retrying a chain do not.
AppendRunEvent(notifies, busy) ==
  /\ rev < MaxEvents
  /\ rev' = rev + 1
  /\ active' = busy
  /\ owed' = (owed \/ notifies)
  /\ UNCHANGED <<handlerVars, clientVars, queryVars, faults, uses>>

\* A full channel already holds a wake-up.
OnRunEvent ==
  /\ owed
  /\ owed' = FALSE
  /\ wake' = (srv # "none")
  /\ UNCHANGED <<rev, active, srv, mark, clientVars, queryVars, faults, uses>>

\* At most FlushLimit rows beyond the watermark are written.
ListIssueRunEventsSince == IF mark + FlushLimit < rev THEN mark + FlushLimit ELSE rev

Flush ==
  /\ mark' = ListIssueRunEventsSince
  /\ UNCHANGED <<serverVars, clientVars, queryVars, faults, uses>>

InitialFlush == srv = "initial" /\ srv' = "serving" /\ UNCHANGED wake /\ Flush
WakeFlush == srv = "serving" /\ wake /\ wake' = FALSE /\ UNCHANGED srv /\ Flush
KeepAliveFlush == srv = "serving" /\ mark < rev /\ UNCHANGED <<srv, wake>> /\ Flush

-----------------------------------------------------------------------------
(* The query client *)

\* An enabled query of a shown page: comments and runs wait for the issue.
EnabledWith(c, q) == q = "issue" \/ Loaded(c, "issue")

Enabled(q) == mounted /\ EnabledWith(cache, q)

\* refetchInterval: three seconds while the cached status is queued or running.
Polls == cache["issue"].busy

\* Mutant: an invalidation joins a request that is under way.
RestartedIfIdle(Q) == {q \in Q : Enabled(q) /\ phase[q] = "idle"}

\* Invalidating an enabled query starts a request, and restarts one that is
\* under way unless it is the query's first.
Restarted(Q) == {q \in Q : Enabled(q) /\ (phase[q] = "idle" \/ Loaded(cache, q))}

Requested(R) ==
  /\ phase' = [q \in Queries |-> IF q \in R THEN "sent" ELSE phase[q]]
  /\ reply' = [q \in Queries |-> IF q \in R THEN NoData ELSE reply[q]]

InvalidateQueries(Q) ==
  /\ Requested(Restarted(Q))
  /\ unheard' = [q \in Queries |->
       IF q \in Restarted(Q) THEN FALSE
       ELSE unheard[q] \/ (q \in Q /\ ~Loaded(cache, q) /\ phase[q] = "answered")]
  /\ UNCHANGED <<cache, failed>>

\* The interval's tick, which joins a request that is under way.
PollTick(q) ==
  /\ Enabled(q) /\ Polls /\ phase[q] = "idle"
  /\ Requested({q})
  /\ unheard' = [unheard EXCEPT ![q] = FALSE]
  /\ UNCHANGED <<serverVars, handlerVars, clientVars, cache, failed, faults, uses>>

\* The window gets the focus again: a query older than staleTime is requested.
WindowFocus(q) ==
  /\ Enabled(q) /\ phase[q] = "idle"
  /\ Requested({q})
  /\ unheard' = [unheard EXCEPT ![q] = FALSE]
  /\ UNCHANGED <<serverVars, handlerVars, clientVars, cache, failed, faults, uses>>

\* The refresh button, which is disabled while the page is fetching.
RefreshIssue ==
  /\ mounted /\ \A q \in Queries : phase[q] = "idle"
  /\ uses < MaxUses /\ uses' = uses + 1
  /\ InvalidateQueries(Queries)
  /\ UNCHANGED <<serverVars, handlerVars, clientVars, faults>>

\* The server answers a request with the state of the moment; the status
\* that matters to polling is the issue's.
Answer(q) ==
  /\ phase[q] = "sent"
  /\ phase' = [phase EXCEPT ![q] = "answered"]
  /\ reply' = [reply EXCEPT ![q] = [rev |-> rev, busy |-> active /\ q = "issue"]]
  /\ UNCHANGED <<serverVars, handlerVars, clientVars, cache, failed, unheard, faults, uses>>

\* The first issue gives the page its issue id: the queries that waited for
\* it are requested and the stream is opened.
Arrive(q) ==
  /\ phase[q] = "answered"
  /\ cache' = [cache EXCEPT ![q] = reply[q]]
  /\ LET started == {x \in Queries : mounted /\ ~EnabledWith(cache, x) /\ EnabledWith(cache', x)}
     IN /\ phase' = [x \in Queries |-> IF x = q THEN "idle" ELSE IF x \in started THEN "sent" ELSE phase[x]]
        /\ reply' = [reply EXCEPT ![q] = NoData]
  /\ failed' = [failed EXCEPT ![q] = FALSE]
  /\ conn' = IF mounted /\ conn = "off" THEN "connecting" ELSE conn
  /\ UNCHANGED <<serverVars, handlerVars, mounted, got, fallback, unheard, faults, uses>>

\* A request and its one retry fail; the data stays.
RequestFails(q) ==
  /\ phase[q] # "idle" /\ faults < MaxFaults
  /\ faults' = faults + 1
  /\ phase' = [phase EXCEPT ![q] = "idle"]
  /\ reply' = [reply EXCEPT ![q] = NoData]
  /\ failed' = [failed EXCEPT ![q] = TRUE]
  /\ UNCHANGED <<serverVars, handlerVars, clientVars, cache, unheard, uses>>

-----------------------------------------------------------------------------
(* The client's stream *)

ConnectOpens ==
  /\ conn = "connecting"
  /\ conn' = "open" /\ fallback' = FALSE /\ got' = 0
  /\ srv' = "initial" /\ wake' = FALSE /\ mark' = 0
  /\ UNCHANGED <<serverVars, mounted, queryVars, faults, uses>>

ConnectFails ==
  /\ conn = "connecting" /\ faults < MaxFaults
  /\ faults' = faults + 1
  /\ conn' = "waiting" /\ fallback' = TRUE
  /\ UNCHANGED <<serverVars, handlerVars, mounted, got, queryVars, uses>>

HandlerGone == srv' = "none" /\ wake' = FALSE /\ mark' = 0 /\ got' = 0

\* Mutant: only a broken stream is opened again.
StreamEndsForGood(error) ==
  /\ conn = "open" /\ faults < MaxFaults
  /\ ~error => got = mark
  /\ faults' = faults + 1
  /\ conn' = IF error THEN "waiting" ELSE "off"
  /\ fallback' = (fallback \/ error)
  /\ HandlerGone
  /\ UNCHANGED <<serverVars, mounted, queryVars, uses>>

\* The stream ends without an error (the server stops, or failed to read the
\* rows), once everything written has been read; or it breaks and what was
\* on its way is lost.
StreamEnds(error) ==
  /\ conn = "open" /\ faults < MaxFaults
  /\ ~error => got = mark
  /\ faults' = faults + 1
  /\ conn' = "waiting"
  /\ fallback' = (fallback \/ error)
  /\ HandlerGone
  /\ UNCHANGED <<serverVars, mounted, queryVars, uses>>

RetryTimer ==
  /\ conn = "waiting"
  /\ conn' = "connecting"
  /\ UNCHANGED <<serverVars, handlerVars, mounted, got, fallback, queryVars, faults, uses>>

\* A run_event frame invalidates the issue, its comments and its runs.
OnEvent ==
  /\ conn = "open" /\ got < mark
  /\ got' = got + 1
  /\ InvalidateQueries(Queries)
  /\ UNCHANGED <<serverVars, handlerVars, mounted, conn, fallback, faults, uses>>

PollRealtimeFallback ==
  /\ fallback
  /\ InvalidateQueries(Queries)
  /\ UNCHANGED <<serverVars, handlerVars, clientVars, faults, uses>>

-----------------------------------------------------------------------------
(* Opening and leaving the page *)

\* Data younger than staleTime is kept; the rest is requested again.
OpenPage(kept) ==
  /\ ~mounted /\ uses < MaxUses
  /\ uses' = uses + 1
  /\ mounted' = TRUE
  /\ conn' = IF Loaded(cache, "issue") THEN "connecting" ELSE "off"
  /\ LET asked == {q \in Queries \ kept : EnabledWith(cache, q) /\ phase[q] = "idle"}
     IN /\ Requested(asked)
        /\ unheard' = [q \in Queries |-> IF q \in asked THEN FALSE ELSE unheard[q]]
  /\ UNCHANGED <<serverVars, handlerVars, got, fallback, cache, failed, faults>>

\* The stream is stopped; requests under way still fill the cache.
LeavePage ==
  /\ mounted
  /\ mounted' = FALSE
  /\ conn' = "off" /\ fallback' = FALSE
  /\ HandlerGone
  /\ UNCHANGED <<serverVars, queryVars, faults, uses>>

PageNext ==
  \/ \E notifies, busy \in BOOLEAN : AppendRunEvent(notifies, busy)
  \/ OnRunEvent \/ InitialFlush \/ WakeFlush \/ KeepAliveFlush
  \/ \E q \in Queries : PollTick(q) \/ WindowFocus(q) \/ Answer(q) \/ Arrive(q) \/ RequestFails(q)
  \/ RefreshIssue
  \/ ConnectOpens \/ ConnectFails \/ RetryTimer \/ OnEvent \/ PollRealtimeFallback
  \/ \E error \in BOOLEAN : StreamEnds(error)
  \/ \E kept \in SUBSET {q \in Queries : Loaded(cache, q)} : OpenPage(kept)
  \/ LeavePage

PageSpec == PageInit /\ [][PageNext]_vars

\* Timers fire, the bus is called, the server flushes and answers, and what
\* it sent arrives; nothing obliges events, faults or the user to happen.
PageFairness ==
  /\ WF_vars(OnRunEvent) /\ WF_vars(InitialFlush) /\ WF_vars(KeepAliveFlush)
  /\ WF_vars(ConnectOpens) /\ WF_vars(RetryTimer) /\ WF_vars(OnEvent)
  /\ WF_vars(PollRealtimeFallback)
  /\ \A q \in Queries : WF_vars(PollTick(q)) /\ WF_vars(Answer(q)) /\ WF_vars(Arrive(q))

PageFairSpec == PageSpec /\ PageFairness

-----------------------------------------------------------------------------
(* Properties *)

\* Every variable has its type; the stream handler's watermark is never ahead
\* of the table, nor the client of the frames that were written.
PageTypeOK ==
  /\ rev \in 1..MaxEvents /\ active \in BOOLEAN /\ owed \in BOOLEAN
  /\ wake \in BOOLEAN /\ mounted \in BOOLEAN /\ fallback \in BOOLEAN
  /\ srv \in {"none", "initial", "serving"} /\ conn \in {"off", "connecting", "open", "waiting"}
  /\ mark \in 0..rev /\ got \in 0..mark
  /\ cache \in [Queries -> Answers] /\ reply \in [Queries -> Answers]
  /\ phase \in [Queries -> {"idle", "sent", "answered"}]
  /\ failed \in [Queries -> BOOLEAN] /\ unheard \in [Queries -> BOOLEAN]
  /\ faults \in 0..MaxFaults /\ uses \in 0..MaxUses

\* What a query will show once its request, if any, is through.
Coming(q) == CASE phase[q] = "sent" -> rev
               [] phase[q] = "answered" -> reply[q].rev
               [] phase[q] = "idle" -> cache[q].rev

\* Every frame the client has handled is in the data of the issue, its
\* comments and its runs, or in the answer they are waiting for, whatever
\* polls, refreshes, reconnects and earlier answers it crossed; unless the
\* request failed, or the frame came while the query's first answer, which
\* react-query does not restart, was on its way.
HandledFramesAreFetched ==
  \A q \in Queries : mounted /\ ~unheard[q] /\ ~(failed[q] /\ phase[q] = "idle") => Coming(q) >= got

\* The page announces the three-second fallback only while the stream is
\* down: opening a connection ends it, leaving the page too.
FallbackOnlyWhileDown == fallback => mounted /\ conn \in {"connecting", "waiting"} /\ srv = "none"

\* A page that is behind catches up, although streams break, frames are
\* lost, the bus is not called for every event, a flush stops at its limit
\* and polling ends when the issue looks idle: each connection replays the
\* issue's events.  The exceptions are a request that failed, which the
\* page shows, and the first answer of HandledFramesAreFetched.
PageCatchesUp ==
  \A q \in Queries :
    (mounted /\ cache[q].rev < rev) ~>
      (~mounted \/ cache[q].rev = rev \/ failed[q] \/ failed["issue"] \/ unheard[q])
=============================================================================
