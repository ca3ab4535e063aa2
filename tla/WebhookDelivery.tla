--------------------------- MODULE WebhookDelivery ---------------------------
(***************************************************************************)
(* Webhook subscriptions, their delivery rows, and the dispatcher that     *)
(* posts them (internal/store/webhooks.go, internal/app/webhook_dispatcher) *)
(*                                                                         *)
(* A row is a pending delivery, a delivered one or a dead letter.  Only    *)
(* the order in which rows come due matters of next_attempt_at: due holds  *)
(* the pending rows whose time has come, oldest first, and a pending row   *)
(* that is not in due waits for its backoff.                               *)
(*                                                                         *)
(* The dispatcher is one goroutine.  Between its own reads and writes the  *)
(* HTTP handlers and the run queue's transactions take their steps.        *)
(***************************************************************************)
EXTENDS Naturals, Sequences, FiniteSets, Functions, SequencesExt

CONSTANTS
  Hooks,          \* webhook ids
  Events,         \* lifecycle event types
  Filters,        \* the event filters users give a webhook
  MaxAttempts,    \* WebhookDispatcher.maxAttempts
  MaxDeliveries,  \* bound on the number of delivery rows ever inserted
  MaxLost         \* bound on the stops of the server and the writes that fail

ASSUME WebhookAssumption ==
  /\ IsFiniteSet(Hooks) /\ "none" \notin Hooks
  /\ Filters \subseteq SUBSET Events
  /\ MaxAttempts \in Nat \ {0}
  /\ MaxDeliveries \in Nat
  /\ MaxLost \in Nat

VARIABLES
  hook,    \* the webhook table
  row,     \* the webhook_delivery table, by the order of insertion
  nextId,  \* the next row to insert
  due,     \* pending rows with next_attempt_at <= now, by next_attempt_at
  disp,    \* where the dispatcher is, its row, the attempt count it has read
  posts,   \* per row, the POSTs since it was enqueued or resubmitted
  acks,    \* per row, how many of them were answered with a 2xx
  lost     \* stops and failed writes so far: the outcome of a POST may be lost

vars == <<hook, row, nextId, due, disp, posts, acks, lost>>

Ids == 1..MaxDeliveries

NoHook == [status |-> "none", events |-> {}]

NoRow == [status |-> "none", hook |-> "none", attempt |-> 0]

Off == [at |-> "off", id |-> 0, read |-> 0]

Idle == [Off EXCEPT !.at = "idle"]

Init ==
  /\ hook = [h \in Hooks |-> NoHook]
  /\ row = [d \in Ids |-> NoRow]
  /\ nextId = 1
  /\ due = <<>>
  /\ disp = Idle
  /\ posts = [d \in Ids |-> 0]
  /\ acks = [d \in Ids |-> 0]
  /\ lost = 0

-----------------------------------------------------------------------------
(* The order in which rows come due: next_attempt_at, then created_at.     *)

Earlier(d, e) == \E i, j \in DOMAIN due : i < j /\ due[i] = d /\ due[j] = e

\* What is left of due, in its order, without the rows D.
DueWithout(D) ==
  {s \in SetToSeqs(ToSet(due) \ D) : \A i, j \in DOMAIN s : i < j => Earlier(s[i], s[j])}

OldestFirst(D) == {s \in SetToSeqs(D) : \A i, j \in DOMAIN s : i < j => s[i] < s[j]}

-----------------------------------------------------------------------------
(* Subscriptions.  While the dispatcher is off a request can still be in   *)
(* the drain of srv.Shutdown, so no handler asks where the dispatcher is.   *)

CreateWebhook(h, enabled, events) ==
  /\ hook[h].status = "none"
  /\ hook' = [hook EXCEPT ![h] = [status |-> IF enabled THEN "enabled" ELSE "disabled",
                                  events |-> events]]
  /\ UNCHANGED <<row, nextId, due, disp, posts, acks, lost>>

UpdateWebhook(h, enabled, events) ==
  /\ hook[h].status \in {"enabled", "disabled"}
  /\ hook' = [hook EXCEPT ![h] = [status |-> IF enabled THEN "enabled" ELSE "disabled",
                                  events |-> events]]
  /\ UNCHANGED <<row, nextId, due, disp, posts, acks, lost>>

\* The rows of the webhook go with it (ON DELETE CASCADE).
DeleteWebhook(h) ==
  /\ hook[h].status \in {"enabled", "disabled"}
  /\ hook' = [hook EXCEPT ![h] = [status |-> "deleted", events |-> {}]]
  /\ row' = [d \in Ids |-> IF row[d].hook = h THEN [row[d] EXCEPT !.status = "deleted"]
                                              ELSE row[d]]
  /\ due' \in DueWithout({d \in Ids : row[d].hook = h})
  /\ UNCHANGED <<nextId, disp, posts, acks, lost>>

-----------------------------------------------------------------------------
(* The fan-out of a lifecycle event, inside the transaction that makes it. *)

WebhookEventMatches(filter, event) == filter = {} \/ event \in filter

Subscribers(event) ==
  {h \in Hooks : hook[h].status = "enabled" /\ WebhookEventMatches(hook[h].events, event)}

\* The rows of one fan-out have the same times, so any order between them.
EnqueueWebhookDeliveries(event) ==
  LET last == nextId + Cardinality(Subscribers(event)) - 1
      new == nextId..last
  IN  /\ Subscribers(event) # {}
      /\ last <= MaxDeliveries
      /\ \E to \in Bijection(new, Subscribers(event)) :
           row' = [d \in Ids |-> IF d \in new
                                 THEN [status |-> "pending", hook |-> to[d], attempt |-> 0]
                                 ELSE row[d]]
      /\ nextId' = last + 1
      /\ due' = due \o [k \in 1..Cardinality(new) |-> nextId + k - 1]
      /\ UNCHANGED <<hook, disp, posts, acks, lost>>

-----------------------------------------------------------------------------
(* The dispatcher.                                                         *)

\* NextPendingWebhookDelivery, its first query.
SelectPending ==
  /\ disp = Idle
  /\ due # <<>>
  /\ disp' = [at |-> "selected", id |-> Head(due), read |-> 0]
  /\ UNCHANGED <<hook, row, nextId, due, posts, acks, lost>>

\* Mutant: a tick that finds its webhook disabled gives up.
GetWebhookEnabled ==
  /\ disp.at = "selected"
  /\ disp' = IF hook[row[disp.id].hook].status # "enabled"
             THEN Idle
             ELSE [disp EXCEPT !.at = "posting"]
  /\ UNCHANGED <<hook, row, nextId, due, posts, acks, lost>>

\* Its second query; a webhook that was deleted in between ends the tick.
\* Nothing asks whether the webhook is still enabled.
GetWebhook ==
  /\ disp.at = "selected"
  /\ disp' = IF hook[row[disp.id].hook].status = "deleted"
             THEN Idle
             ELSE [disp EXCEPT !.at = "posting"]
  /\ UNCHANGED <<hook, row, nextId, due, posts, acks, lost>>

\* Mutant: any answer is a success.
AttemptAnyAnswer ==
  /\ disp.at = "posting"
  /\ posts' = [posts EXCEPT ![disp.id] = @ + 1]
  /\ \/ acks' = [acks EXCEPT ![disp.id] = @ + 1]
     \/ acks' = acks
  /\ disp' = [disp EXCEPT !.at = "accepted"]
  /\ UNCHANGED <<hook, row, nextId, due, lost>>

\* The POST and its answer: a 2xx, or any other status, an error or a timeout.
Attempt ==
  /\ disp.at = "posting"
  /\ posts' = [posts EXCEPT ![disp.id] = @ + 1]
  /\ \/ /\ acks' = [acks EXCEPT ![disp.id] = @ + 1]
        /\ disp' = [disp EXCEPT !.at = "accepted"]
     \/ /\ acks' = acks
        /\ disp' = [disp EXCEPT !.at = "refused"]
  /\ UNCHANGED <<hook, row, nextId, due, lost>>

\* ErrState, for a row that is not pending any more, is ignored.
MarkWebhookDeliveryDelivered ==
  /\ disp.at = "accepted"
  /\ IF row[disp.id].status = "pending"
     THEN /\ row' = [row EXCEPT ![disp.id].status = "delivered",
                                ![disp.id].attempt = @ + 1]
          /\ due' \in DueWithout({disp.id})
     ELSE UNCHANGED <<row, due>>
  /\ disp' = Idle
  /\ UNCHANGED <<hook, nextId, posts, acks, lost>>

\* MarkWebhookDeliveryFailure reads the attempt count; no row, no failure.
ReadAttempt ==
  /\ disp.at = "refused"
  /\ disp' = IF row[disp.id].status = "deleted"
             THEN Idle
             ELSE [disp EXCEPT !.at = "failing", !.read = row[disp.id].attempt]
  /\ UNCHANGED <<hook, row, nextId, due, posts, acks, lost>>

\* Mutant: one attempt too many.
TerminalLate(attempt) == attempt > MaxAttempts

Terminal(attempt) == attempt >= MaxAttempts

\* It then ends the row, or leaves it pending until its backoff has passed.
MarkWebhookDeliveryFailure ==
  LET nextAttempt == disp.read + 1
  IN  /\ disp.at = "failing"
      /\ IF row[disp.id].status = "pending"
         THEN /\ row' = [row EXCEPT ![disp.id].attempt = nextAttempt,
                                    ![disp.id].status =
                                      IF Terminal(nextAttempt) THEN "failed" ELSE @]
              /\ due' \in DueWithout({disp.id})
         ELSE UNCHANGED <<row, due>>
      /\ disp' = Idle
      /\ UNCHANGED <<hook, nextId, posts, acks, lost>>

\* A query or an update that fails is logged, and the row stays as it is.
WriteFails ==
  /\ disp.at \in {"accepted", "refused", "failing"}
  /\ lost < MaxLost
  /\ lost' = lost + 1
  /\ disp' = Idle
  /\ UNCHANGED <<hook, row, nextId, due, posts, acks>>

\* next_attempt_at comes: every backoff of the schedule is positive and ends.
BackoffElapses(d) ==
  /\ row[d].status = "pending"
  /\ d \notin ToSet(due)
  /\ due' = Append(due, d)
  /\ UNCHANGED <<hook, row, nextId, disp, posts, acks, lost>>

-----------------------------------------------------------------------------
(* Dead letters sent again by the operator.                                *)

\* Mutant: the attempts of the last submission are kept.
ResetKeepsAttempt(d) == [row[d] EXCEPT !.status = "pending"]

Reset(d) == [row[d] EXCEPT !.status = "pending", !.attempt = 0]

\* Mutant: whatever the row's status is, unless it is pending.
ResubmitSettled(d) ==
  /\ row[d].status \in {"failed", "delivered"}
  /\ row' = [row EXCEPT ![d] = Reset(d)]
  /\ due' = Append(due, d)
  /\ posts' = [posts EXCEPT ![d] = 0]
  /\ acks' = [acks EXCEPT ![d] = 0]
  /\ UNCHANGED <<hook, nextId, disp, lost>>

ResubmitWebhookDelivery(d) ==
  /\ row[d].status = "failed"
  /\ row' = [row EXCEPT ![d] = Reset(d)]
  /\ due' = Append(due, d)
  /\ posts' = [posts EXCEPT ![d] = 0]
  /\ acks' = [acks EXCEPT ![d] = 0]
  /\ UNCHANGED <<hook, nextId, disp, lost>>

ResubmitAllFailedWebhookDeliveries(h) ==
  LET dead == {d \in Ids : row[d].status = "failed" /\ row[d].hook = h}
  IN  /\ dead # {}
      /\ row' = [d \in Ids |-> IF d \in dead THEN Reset(d) ELSE row[d]]
      /\ \E new \in OldestFirst(dead) : due' = due \o new
      /\ posts' = [d \in Ids |-> IF d \in dead THEN 0 ELSE posts[d]]
      /\ acks' = [d \in Ids |-> IF d \in dead THEN 0 ELSE acks[d]]
      /\ UNCHANGED <<hook, nextId, disp, lost>>

-----------------------------------------------------------------------------
(* A stop cancels the context of the tick in flight: the request returns   *)
(* an error, and the write that should record it is refused by the same     *)
(* context.  A crash has the same effect on the tables.                     *)

Stop ==
  /\ disp.at # "off"
  /\ lost < MaxLost
  /\ lost' = lost + 1
  /\ disp' = Off
  /\ UNCHANGED <<hook, row, nextId, due, posts, acks>>

Start ==
  /\ disp.at = "off"
  /\ disp' = Idle
  /\ UNCHANGED <<hook, row, nextId, due, posts, acks, lost>>

-----------------------------------------------------------------------------
Subscriptions ==
  \E h \in Hooks :
    \/ \E enabled \in BOOLEAN, events \in Filters :
         \/ CreateWebhook(h, enabled, events)
         \/ UpdateWebhook(h, enabled, events)
    \/ DeleteWebhook(h)

Tick ==
  \/ SelectPending
  \/ GetWebhook
  \/ Attempt
  \/ MarkWebhookDeliveryDelivered
  \/ ReadAttempt
  \/ MarkWebhookDeliveryFailure

Next ==
  \/ Subscriptions
  \/ \E e \in Events : EnqueueWebhookDeliveries(e)
  \/ Tick
  \/ WriteFails
  \/ \E d \in Ids : BackoffElapses(d)
  \/ \E d \in Ids : ResubmitWebhookDelivery(d)
  \/ \E h \in Hooks : ResubmitAllFailedWebhookDeliveries(h)
  \/ Stop
  \/ Start

Spec == Init /\ [][Next]_vars

\* The ticker keeps ticking, backoffs end, and a stopped server is started
\* again; nothing is assumed of receivers, users, events or faults.
FairSpec ==
  /\ Spec
  /\ WF_vars(Tick)
  /\ \A d \in Ids : WF_vars(BackoffElapses(d))
  /\ WF_vars(Start)

-----------------------------------------------------------------------------
(* Type correctness; due holds pending rows only, none of them twice.      *)
WebhookTypeOK ==
  /\ hook \in [Hooks -> [status : {"none", "enabled", "disabled", "deleted"},
                         events : SUBSET Events]]
  /\ row \in [Ids -> [status : {"none", "pending", "delivered", "failed", "deleted"},
                      hook : Hooks \cup {"none"},
                      attempt : 0..MaxAttempts]]
  /\ nextId \in 1..(MaxDeliveries + 1)
  /\ disp \in [at : {"off", "idle", "selected", "posting", "accepted", "refused", "failing"},
               id : 0..MaxDeliveries,
               read : 0..MaxAttempts]
  /\ posts \in [Ids -> Nat]
  /\ acks \in [Ids -> Nat]
  /\ lost \in 0..MaxLost
  /\ due \in Seq(Ids)
  /\ IsInjective(due)
  /\ \A k \in DOMAIN due : row[due[k]].status = "pending"

(* A delivery becomes a dead letter only after MaxAttempts POSTs since it   *)
(* was last submitted, and no delivery is posted more often than that,      *)
(* except for attempts whose outcome a stop or a refused write lost         *)
(* (MarkWebhookDeliveryFailure, ResubmitWebhookDelivery).                   *)
DeadLetterIsExhausted ==
  \A d \in Ids :
    /\ row[d].status = "failed" => posts[d] >= MaxAttempts
    /\ posts[d] <= MaxAttempts + lost

(* A delivery is recorded as delivered only if its receiver answered a 2xx, *)
(* and, but for lost outcomes, a receiver that did is not sent the delivery *)
(* again and the delivery is not made a dead letter (attempt).              *)
AcknowledgedOnce ==
  \A d \in Ids :
    /\ row[d].status = "delivered" => acks[d] >= 1
    /\ row[d].status = "failed" => acks[d] <= lost
    /\ acks[d] <= 1 + lost

(* A settled delivery stays settled: a delivered row only ever disappears,  *)
(* and a dead letter comes back only with its attempts at zero (the WHERE   *)
(* clauses of the two marks and of the two resubmissions).                  *)
SettledStays ==
  [][\A d \in Ids :
       /\ row[d].status = "delivered" =>
            row'[d] = row[d] \/ row'[d].status = "deleted"
       /\ row[d].status = "failed" /\ row'[d].status = "pending" => row'[d].attempt = 0
       /\ row[d].status = "failed" => row'[d].status # "delivered"]_vars

(* Every delivery is settled in the end, whatever its receiver does and     *)
(* however often the server is stopped: delivered, a dead letter, or gone   *)
(* with its webhook (WebhookDispatcher.loop, one row per tick).             *)
EveryDeliverySettles ==
  \A d \in Ids : row[d].status = "pending" ~> row[d].status # "pending"

=============================================================================
