---------------------------- MODULE WebhookProofs ----------------------------
(***************************************************************************)
(* The safety properties of webhook delivery, proved for every number of   *)
(* webhooks, deliveries, attempts and lost outcomes.                       *)
(***************************************************************************)
EXTENDS WebhookDelivery, FiniteSetTheorems, SequenceTheorems, TLAPS

-----------------------------------------------------------------------------
(* The invariant                                                           *)

\* A POST of d has been answered and the answer is not recorded yet.
InFlight(d) == disp.id = d /\ disp.at \in {"accepted", "refused", "failing"}

\* The dispatcher has picked d and not posted it yet.
Picked(d) == disp.id = d /\ disp.at \in {"selected", "posting"}

\* The dispatcher works on a row that was pending, and only a deletion can change
\* that; the attempt count it has read is the row's.
DispInv ==
  disp.at \notin {"off", "idle"} =>
    /\ disp.id \in Ids
    /\ row[disp.id].status \in {"pending", "deleted"}
    /\ disp.at = "failing" /\ row[disp.id].status = "pending" => disp.read = row[disp.id].attempt

\* A pending row counts one attempt for each POST since its submission, but for the one
\* in flight and for those whose outcome was lost; the 2xx among them are all lost ones.
PendingInv(d) ==
  row[d].status = "pending" =>
    /\ row[d].attempt < MaxAttempts
    /\ IF InFlight(d)
       THEN /\ row[d].attempt + 1 <= posts[d] /\ posts[d] <= row[d].attempt + 1 + lost
            /\ IF disp.at = "accepted" THEN 1 <= acks[d] /\ acks[d] <= 1 + lost
                                       ELSE acks[d] <= lost
       ELSE /\ row[d].attempt <= posts[d] /\ posts[d] <= row[d].attempt + lost
            /\ acks[d] <= lost

\* A row that is not pending, with room for a POST that was picked before a deletion.
SettledInv(d) ==
  /\ row[d].status = "none" => row[d].hook = "none" /\ posts[d] = 0 /\ acks[d] = 0
  /\ row[d].status = "delivered" =>
       1 <= acks[d] /\ acks[d] <= 1 + lost /\ posts[d] <= MaxAttempts + lost
  /\ row[d].status = "failed" =>
       acks[d] <= lost /\ MaxAttempts <= posts[d] /\ posts[d] <= MaxAttempts + lost
  /\ row[d].status = "deleted" =>
       /\ acks[d] <= 1 + lost /\ posts[d] <= MaxAttempts + lost
       /\ Picked(d) => acks[d] <= lost /\ posts[d] + 1 <= MaxAttempts + lost

WebhookInv ==
  /\ WebhookTypeOK
  /\ DispInv
  /\ \A d \in Ids : nextId <= d => row[d].status = "none"
  /\ \A d \in Ids : PendingInv(d) /\ SettledInv(d)

-----------------------------------------------------------------------------
(* Sequences of rows                                                       *)

\* A finite set of rows in any order is a sequence of them without repetition.
LEMMA OrderedRows ==
  ASSUME NEW D \in SUBSET Ids, NEW s \in SetToSeqs(D)
  PROVE  s \in Seq(Ids) /\ IsInjective(s) /\ \A k \in DOMAIN s : s[k] \in D
<1>1. IsFiniteSet(Ids)
  BY FS_Interval, WebhookAssumption DEF Ids
<1>2. Cardinality(D) \in Nat
  BY <1>1, FS_Subset, FS_CardinalityType
<1>3. /\ s \in [1..Cardinality(D) -> D]
      /\ \A i, j \in 1..Cardinality(D) : i # j => s[i] # s[j]
  BY DEF SetToSeqs
<1>. QED
  BY <1>2, <1>3 DEF IsInjective

\* Putting rows behind others keeps a sequence free of repetitions if they share none.
LEMMA RowsBehind ==
  ASSUME NEW s \in Seq(Ids), NEW t \in Seq(Ids), IsInjective(s), IsInjective(t),
         \A i \in DOMAIN s, j \in DOMAIN t : s[i] # t[j]
  PROVE  /\ s \o t \in Seq(Ids) /\ IsInjective(s \o t)
         /\ \A k \in DOMAIN (s \o t) : \/ \E i \in DOMAIN s : (s \o t)[k] = s[i]
                                       \/ \E j \in DOMAIN t : (s \o t)[k] = t[j]
<1>1. /\ s \o t \in Seq(Ids) /\ DOMAIN (s \o t) = 1..(Len(s) + Len(t))
      /\ DOMAIN s = 1..Len(s) /\ DOMAIN t = 1..Len(t) /\ Len(s) \in Nat /\ Len(t) \in Nat
  OBVIOUS
<1>2. \A k \in DOMAIN (s \o t) :
        \/ k \in DOMAIN s /\ (s \o t)[k] = s[k]
        \/ k - Len(s) \in DOMAIN t /\ (s \o t)[k] = t[k - Len(s)] /\ k > Len(s)
  BY <1>1
<1>3. ASSUME NEW a \in DOMAIN (s \o t), NEW b \in DOMAIN (s \o t), (s \o t)[a] = (s \o t)[b]
      PROVE  a = b
  <2>1. CASE a \in DOMAIN s /\ b \in DOMAIN s /\ s[a] = s[b]
    BY <2>1 DEF IsInjective
  <2>2. CASE /\ a - Len(s) \in DOMAIN t /\ b - Len(s) \in DOMAIN t
             /\ t[a - Len(s)] = t[b - Len(s)]
    <3>1. a - Len(s) = b - Len(s)
      BY <2>2 DEF IsInjective
    <3>. QED
      BY <1>1, <3>1
  <2>. QED
    BY <1>2, <1>3, <2>1, <2>2
<1>. QED
  BY <1>1, <1>2, <1>3 DEF IsInjective

\* The part of the type invariant that speaks of the due rows.
DueOK ==
  /\ due \in Seq(Ids) /\ IsInjective(due)
  /\ \A k \in DOMAIN due : row[due[k]].status = "pending"

\* A row leaves due, or stays where it was.
LEMMA LeavingDue ==
  ASSUME DueOK, NEW D, due' \in DueWithout(D)
  PROVE  /\ due' \in Seq(Ids) /\ IsInjective(due')
         /\ \A k \in DOMAIN due' : due'[k] \notin D /\ row[due'[k]].status = "pending"
<1>. PICK s \in SetToSeqs(ToSet(due) \ D) : s = due'
  BY DEF DueWithout
<1>1. ToSet(due) \ D \in SUBSET Ids
  BY DEF DueOK, ToSet
<1>2. s \in Seq(Ids) /\ IsInjective(s) /\ \A k \in DOMAIN s : s[k] \in ToSet(due) \ D
  BY <1>1, OrderedRows
<1>. QED
  BY <1>2 DEF DueOK, ToSet

\* Rows that are not pending come due.
LEMMA ComingDue ==
  ASSUME DueOK, NEW t \in Seq(Ids), IsInjective(t),
         \A k \in DOMAIN t : row[t[k]].status # "pending" \/ t[k] \notin ToSet(due),
         due' = due \o t
  PROVE  /\ due' \in Seq(Ids) /\ IsInjective(due')
         /\ \A k \in DOMAIN due' : \/ row[due'[k]].status = "pending"
                                   \/ \E j \in DOMAIN t : due'[k] = t[j]
<1>1. \A i \in DOMAIN due, j \in DOMAIN t : due[i] # t[j]
  BY DEF DueOK, ToSet
<1>2. /\ due \o t \in Seq(Ids) /\ IsInjective(due \o t)
      /\ \A k \in DOMAIN (due \o t) : \/ \E i \in DOMAIN due : (due \o t)[k] = due[i]
                                      \/ \E j \in DOMAIN t : (due \o t)[k] = t[j]
  BY <1>1, RowsBehind DEF DueOK
<1>. QED
  BY <1>2 DEF DueOK

-----------------------------------------------------------------------------
(* One step                                                                *)

\* The rest of the type invariant: the tables and the dispatcher.
HookType == [status : {"none", "enabled", "disabled", "deleted"}, events : SUBSET Events]

RowType == [status : {"none", "pending", "delivered", "failed", "deleted"},
            hook : Hooks \cup {"none"}, attempt : 0..MaxAttempts]

DispType == [at : {"off", "idle", "selected", "posting", "accepted", "refused", "failing"},
             id : 0..MaxDeliveries, read : 0..MaxAttempts]

TableOK ==
  /\ hook \in [Hooks -> HookType]
  /\ row \in [Ids -> RowType]
  /\ nextId \in 1..(MaxDeliveries + 1)
  /\ disp \in DispType
  /\ posts \in [Ids -> Nat]
  /\ acks \in [Ids -> Nat]
  /\ lost \in 0..MaxLost

\* The type invariant as the tables and the sequence of due rows, apart.
LEMMA TypeParts == WebhookTypeOK <=> TableOK /\ DueOK
  BY DEF WebhookTypeOK, TableOK, DueOK, HookType, RowType, DispType

\* A fan-out fills the next rows, one for each subscriber, and touches no other.
LEMMA FanOut ==
  ASSUME WebhookInv, NEW e \in Events, EnqueueWebhookDeliveries(e)
  PROVE  \E n \in Nat \ {0} :
           /\ nextId + n <= MaxDeliveries + 1 /\ nextId' = nextId + n
           /\ \A d \in Ids : d \in nextId..(nextId + n - 1) =>
                \E h \in Hooks : row'[d] = [status |-> "pending", hook |-> h, attempt |-> 0]
           /\ \A d \in Ids : d \notin nextId..(nextId + n - 1) => row'[d] = row[d]
           /\ row' = [d \in Ids |-> row'[d]]
           /\ due' = due \o [k \in 1..n |-> nextId + k - 1]
<1>. DEFINE n == Cardinality(Subscribers(e))
            new == nextId..(nextId + n - 1)
<1>1. IsFiniteSet(Subscribers(e)) /\ Subscribers(e) # {}
  BY FS_Subset, WebhookAssumption DEF Subscribers, EnqueueWebhookDeliveries
<1>2. n \in Nat /\ n # 0
  BY <1>1, FS_CardinalityType, FS_EmptySet
<1>3. nextId \in Nat /\ nextId \in Int /\ nextId + n - 1 \in Int
  BY <1>2, TypeParts, WebhookAssumption DEF WebhookInv, TableOK
<1>4. Cardinality(new) = n
  <2>1. Cardinality(nextId..(nextId + n - 1)) =
          IF nextId > nextId + n - 1 THEN 0 ELSE (nextId + n - 1) - nextId + 1
    BY <1>3, FS_Interval
  <2>. QED
    BY <1>2, <1>3, <2>1
<1>5. /\ nextId + n - 1 <= MaxDeliveries /\ nextId' = nextId + n - 1 + 1
      /\ due' = due \o [k \in 1..Cardinality(new) |-> nextId + k - 1]
      /\ \E to \in Bijection(new, Subscribers(e)) :
           row' = [d \in Ids |-> IF d \in new
                                 THEN [status |-> "pending", hook |-> to[d], attempt |-> 0]
                                 ELSE row[d]]
  BY DEF EnqueueWebhookDeliveries
<1>6. PICK to \in Bijection(new, Subscribers(e)) :
        row' = [d \in Ids |-> IF d \in new
                              THEN [status |-> "pending", hook |-> to[d], attempt |-> 0]
                              ELSE row[d]]
  BY <1>5
<1>7. \A d \in new : to[d] \in Hooks
  BY <1>6 DEF Bijection, Injection, Subscribers
<1>8. nextId + n <= MaxDeliveries + 1 /\ nextId' = nextId + n
  BY <1>2, <1>3, <1>5, WebhookAssumption
<1>9. due' = due \o [k \in 1..n |-> nextId + k - 1]
  BY <1>4, <1>5
<1>10. \A d \in Ids : d \in new =>
         \E h \in Hooks : row'[d] = [status |-> "pending", hook |-> h, attempt |-> 0]
  BY <1>6, <1>7
<1>11. \A d \in Ids : d \notin new => row'[d] = row[d]
  BY <1>6
<1>12. row' = [d \in Ids |-> row'[d]]
  BY <1>6
<1>. QED
  BY <1>2, <1>8, <1>9, <1>10, <1>11, <1>12

\* Every step keeps the tables and the dispatcher in their types.
LEMMA StepKeepsTables ==
  ASSUME WebhookInv, Next
  PROVE  TableOK'
<1>t. TableOK /\ DueOK /\ MaxAttempts \in Nat \ {0} /\ MaxDeliveries \in Nat /\ MaxLost \in Nat
  BY TypeParts, WebhookAssumption DEF WebhookInv
<1>1. CASE Subscriptions
  <2>1. ASSUME NEW h \in Hooks, NEW enabled \in BOOLEAN, NEW events \in Filters,
               CreateWebhook(h, enabled, events) \/ UpdateWebhook(h, enabled, events)
        PROVE  TableOK'
    BY <1>t, <2>1, WebhookAssumption DEF CreateWebhook, UpdateWebhook, TableOK, HookType
  <2>2. ASSUME NEW h \in Hooks, DeleteWebhook(h)
        PROVE  TableOK'
    BY <1>t, <2>2 DEF DeleteWebhook, TableOK, HookType, RowType
  <2>. QED
    BY <1>1, <2>1, <2>2 DEF Subscriptions
<1>2. ASSUME NEW e \in Events, EnqueueWebhookDeliveries(e)
      PROVE  TableOK'
  <2>1. PICK n \in Nat \ {0} :
           /\ nextId + n <= MaxDeliveries + 1 /\ nextId' = nextId + n
           /\ \A d \in Ids : d \in nextId..(nextId + n - 1) =>
                \E h \in Hooks : row'[d] = [status |-> "pending", hook |-> h, attempt |-> 0]
           /\ \A d \in Ids : d \notin nextId..(nextId + n - 1) => row'[d] = row[d]
           /\ row' = [d \in Ids |-> row'[d]]
    BY <1>2, FanOut
  <2>2. nextId' \in 1..(MaxDeliveries + 1)
    BY <1>t, <2>1 DEF TableOK
  <2>3. ASSUME NEW d \in Ids
        PROVE  row'[d] \in RowType
    BY <1>t, <2>1 DEF TableOK, RowType
  <2>4. row' \in [Ids -> RowType]
    BY <2>1, <2>3
  <2>5. UNCHANGED <<hook, disp, posts, acks, lost>>
    BY <1>2 DEF EnqueueWebhookDeliveries
  <2>. QED
    BY <1>t, <2>2, <2>4, <2>5 DEF TableOK
<1>3. CASE Tick
  <2>1. CASE SelectPending
    <3>1. Head(due) \in Ids
      BY <1>t, <2>1 DEF SelectPending, DueOK
    <3>2. disp' \in DispType
      BY <1>t, <2>1, <3>1 DEF SelectPending, DispType, Ids
    <3>. QED
      BY <1>t, <2>1, <3>2 DEF SelectPending, TableOK
  <2>2. CASE GetWebhook
    BY <1>t, <2>2 DEF GetWebhook, TableOK, DispType, Idle, Off
  <2>3. CASE Attempt
    <3>1. disp' \in DispType
      BY <1>t, <2>3 DEF Attempt, TableOK, DispType
    <3>2. posts' \in [Ids -> Nat]
      <4>1. disp.id \in Ids
        BY <2>3 DEF Attempt, WebhookInv, DispInv
      <4>2. posts[disp.id] + 1 \in Nat
        BY <1>t, <4>1 DEF TableOK
      <4>. QED
        BY <1>t, <2>3, <4>2 DEF Attempt, TableOK
    <3>3. acks' \in [Ids -> Nat]
      BY <1>t, <2>3 DEF Attempt, TableOK
    <3>. QED
      BY <1>t, <2>3, <3>1, <3>2, <3>3 DEF Attempt, TableOK
  <2>4. CASE MarkWebhookDeliveryDelivered
    <3>1. disp.id \in Ids
      BY <2>4 DEF MarkWebhookDeliveryDelivered, WebhookInv, DispInv
    <3>2. row[disp.id].status = "pending" => row[disp.id].attempt + 1 \in 0..MaxAttempts
      BY <1>t, <3>1 DEF WebhookInv, PendingInv, TableOK, RowType
    <3>3. row' \in [Ids -> RowType]
      BY <1>t, <2>4, <3>1, <3>2 DEF MarkWebhookDeliveryDelivered, TableOK, RowType
    <3>4. disp' \in DispType
      BY <1>t, <2>4 DEF MarkWebhookDeliveryDelivered, DispType, Idle, Off
    <3>. QED
      BY <1>t, <2>4, <3>3, <3>4 DEF MarkWebhookDeliveryDelivered, TableOK
  <2>5. CASE ReadAttempt
    <3>1. disp.id \in Ids
      BY <2>5 DEF ReadAttempt, WebhookInv, DispInv
    <3>2. row[disp.id].attempt \in 0..MaxAttempts
      BY <1>t, <3>1 DEF TableOK, RowType
    <3>3. disp' \in DispType
      <4>1. Idle \in DispType
        BY <1>t DEF DispType, Idle, Off
      <4>2. ASSUME NEW x \in DispType, NEW a \in 0..MaxAttempts
            PROVE  [x EXCEPT !.at = "failing", !.read = a] \in DispType
        BY DEF DispType
      <4>. QED
        BY <1>t, <2>5, <3>2, <4>1, <4>2 DEF ReadAttempt, TableOK
    <3>. QED
      BY <1>t, <2>5, <3>3 DEF ReadAttempt, TableOK
  <2>6. CASE MarkWebhookDeliveryFailure
    <3>1. disp.id \in Ids
      BY <2>6 DEF MarkWebhookDeliveryFailure, WebhookInv, DispInv
    <3>2. row[disp.id].status = "pending" => disp.read + 1 \in 0..MaxAttempts
      BY <1>t, <2>6, <3>1 DEF WebhookInv, PendingInv, DispInv, MarkWebhookDeliveryFailure,
                                   TableOK, RowType
    <3>3. row' \in [Ids -> RowType]
      BY <1>t, <2>6, <3>1, <3>2 DEF MarkWebhookDeliveryFailure, TableOK, RowType
    <3>4. disp' \in DispType
      BY <1>t, <2>6 DEF MarkWebhookDeliveryFailure, DispType, Idle, Off
    <3>. QED
      BY <1>t, <2>6, <3>3, <3>4 DEF MarkWebhookDeliveryFailure, TableOK
  <2>. QED
    BY <1>3, <2>1, <2>2, <2>3, <2>4, <2>5, <2>6 DEF Tick
<1>4. CASE WriteFails
  BY <1>t, <1>4 DEF WriteFails, TableOK, DispType, Idle, Off
<1>5. ASSUME NEW d \in Ids, BackoffElapses(d)
      PROVE  TableOK'
  BY <1>t, <1>5 DEF BackoffElapses, TableOK
<1>r. \A d \in Ids : Reset(d) \in RowType
  <2>1. ASSUME NEW x \in RowType PROVE [x EXCEPT !.status = "pending", !.attempt = 0] \in RowType
    <3>1. 0 \in 0..MaxAttempts
      BY <1>t
    <3>2. [x EXCEPT !.status = "pending"] \in RowType
      BY DEF RowType
    <3>. QED
      BY <3>1, <3>2 DEF RowType
  <2>. QED
    BY <1>t, <2>1 DEF TableOK, Reset
<1>6. ASSUME NEW d \in Ids, ResubmitWebhookDelivery(d)
      PROVE  TableOK'
  BY <1>t, <1>r, <1>6 DEF ResubmitWebhookDelivery, TableOK
<1>8. ASSUME NEW h \in Hooks, ResubmitAllFailedWebhookDeliveries(h)
      PROVE  TableOK'
  BY <1>t, <1>r, <1>8 DEF ResubmitAllFailedWebhookDeliveries, TableOK
<1>7. CASE Stop \/ Start
  BY <1>t, <1>7 DEF Stop, Start, TableOK, DispType, Idle, Off
<1>. QED
  BY <1>1, <1>2, <1>3, <1>4, <1>5, <1>6, <1>7, <1>8 DEF Next

\* Every step keeps the due rows pending and without repetition.
LEMMA StepKeepsDue ==
  ASSUME WebhookInv, Next
  PROVE  DueOK'
<1>t. TableOK /\ DueOK /\ MaxDeliveries \in Nat
  BY TypeParts, WebhookAssumption DEF WebhookInv
<1>1. CASE UNCHANGED <<due, row>>
  BY <1>t, <1>1 DEF DueOK
<1>2. ASSUME NEW h \in Hooks, DeleteWebhook(h)
      PROVE  DueOK'
  <2>1. /\ due' \in Seq(Ids) /\ IsInjective(due')
        /\ \A k \in DOMAIN due' : /\ due'[k] \notin {d \in Ids : row[d].hook = h}
                                  /\ row[due'[k]].status = "pending"
    BY <1>t, <1>2, LeavingDue DEF DeleteWebhook
  <2>. QED
    BY <1>t, <1>2, <2>1 DEF DeleteWebhook, DueOK
<1>3. ASSUME NEW e \in Events, EnqueueWebhookDeliveries(e)
      PROVE  DueOK'
  <2>1. PICK n \in Nat \ {0} :
           /\ nextId + n <= MaxDeliveries + 1
           /\ \A d \in Ids : d \in nextId..(nextId + n - 1) =>
                \E h \in Hooks : row'[d] = [status |-> "pending", hook |-> h, attempt |-> 0]
           /\ \A d \in Ids : d \notin nextId..(nextId + n - 1) => row'[d] = row[d]
           /\ due' = due \o [k \in 1..n |-> nextId + k - 1]
    BY <1>3, FanOut
  <2>. DEFINE t == [k \in 1..n |-> nextId + k - 1]
  <2>2. nextId \in Nat /\ nextId >= 1
    BY <1>t DEF TableOK
  <2>3. /\ DOMAIN t = 1..n /\ t \in Seq(Ids) /\ IsInjective(t)
        /\ \A k \in DOMAIN t : t[k] \in nextId..(nextId + n - 1) /\ nextId <= t[k] /\ t[k] \in Ids
    BY <1>t, <2>1, <2>2 DEF IsInjective, Ids
  <2>4. \A k \in DOMAIN t : row[t[k]].status # "pending"
    BY <2>3 DEF WebhookInv
  <2>. HIDE DEF t
  <2>5. /\ due' \in Seq(Ids) /\ IsInjective(due')
        /\ \A k \in DOMAIN due' : \/ row[due'[k]].status = "pending"
                                  \/ \E j \in DOMAIN t : due'[k] = t[j]
    BY <1>t, <2>1, <2>3, <2>4, ComingDue DEF t
  <2>6. ASSUME NEW k \in DOMAIN due'
        PROVE  row'[due'[k]].status = "pending"
    <3>1. due'[k] \in Ids
      BY <2>5
    <3>2. CASE due'[k] \in nextId..(nextId + n - 1)
      <4>1. PICK h \in Hooks :
              row'[due'[k]] = [status |-> "pending", hook |-> h, attempt |-> 0]
        BY <2>1, <3>1, <3>2
      <4>. QED
        BY <4>1
    <3>3. CASE due'[k] \notin nextId..(nextId + n - 1)
      BY <2>1, <2>3, <2>5, <3>1, <3>3
    <3>. QED
      BY <3>2, <3>3
  <2>. QED
    BY <2>5, <2>6 DEF DueOK
<1>4. CASE (MarkWebhookDeliveryDelivered \/ MarkWebhookDeliveryFailure)
           /\ ~UNCHANGED <<due, row>>
  <2>1. /\ due' \in DueWithout({disp.id})
        /\ \A d \in Ids \ {disp.id} : row'[d] = row[d]
    BY <1>t, <1>4 DEF MarkWebhookDeliveryDelivered, MarkWebhookDeliveryFailure, TableOK
  <2>2. /\ due' \in Seq(Ids) /\ IsInjective(due')
        /\ \A k \in DOMAIN due' : due'[k] \notin {disp.id} /\ row[due'[k]].status = "pending"
    BY <1>t, <2>1, LeavingDue
  <2>. QED
    BY <2>1, <2>2 DEF DueOK
<1>5. ASSUME NEW d \in Ids, BackoffElapses(d) \/ ResubmitWebhookDelivery(d)
      PROVE  DueOK'
  <2>1. /\ due' = due \o <<d>>
        /\ row[d].status # "pending" \/ d \notin ToSet(due)
        /\ row'[d].status = "pending" /\ \A c \in Ids \ {d} : row'[c] = row[c]
    <3>1. due' = due \o <<d>>
      <4>1. due' = Append(due, d)
        BY <1>5 DEF BackoffElapses, ResubmitWebhookDelivery
      <4>2. Append(due, d) = due \o <<d>>
        BY <1>t, AppendIsConcat DEF DueOK
      <4>. QED
        BY <4>1, <4>2
    <3>2. row'[d].status = "pending" /\ \A c \in Ids \ {d} : row'[c] = row[c]
      <4>1. Reset(d).status = "pending"
        BY <1>t DEF Reset, TableOK, RowType
      <4>2. CASE BackoffElapses(d)
        BY <4>2 DEF BackoffElapses
      <4>3. CASE ResubmitWebhookDelivery(d)
        BY <1>t, <4>1, <4>3 DEF ResubmitWebhookDelivery, TableOK
      <4>. QED
        BY <1>5, <4>2, <4>3
    <3>. QED
      BY <1>5, <3>1, <3>2 DEF BackoffElapses, ResubmitWebhookDelivery
  <2>2. /\ <<d>> \in Seq(Ids) /\ IsInjective(<<d>>) /\ DOMAIN <<d>> = {1} /\ <<d>>[1] = d
    BY DEF IsInjective
  <2>3. /\ due' \in Seq(Ids) /\ IsInjective(due')
        /\ \A k \in DOMAIN due' : \/ row[due'[k]].status = "pending"
                                  \/ \E j \in DOMAIN <<d>> : due'[k] = <<d>>[j]
    <3>1. PICK t \in Seq(Ids) : t = <<d>>
      BY <2>2
    <3>2. \A k \in DOMAIN t : row[t[k]].status # "pending" \/ t[k] \notin ToSet(due)
      BY <2>1, <2>2, <3>1
    <3>3. IsInjective(t) /\ due' = due \o t
      BY <2>1, <2>2, <3>1
    <3>4. /\ due' \in Seq(Ids) /\ IsInjective(due')
          /\ \A k \in DOMAIN due' : \/ row[due'[k]].status = "pending"
                                    \/ \E j \in DOMAIN t : due'[k] = t[j]
      BY <1>t, <3>2, <3>3, ComingDue
    <3>. QED
      BY <3>1, <3>4
  <2>. QED
    BY <2>1, <2>2, <2>3 DEF DueOK
<1>6. ASSUME NEW h \in Hooks, ResubmitAllFailedWebhookDeliveries(h)
      PROVE  DueOK'
  <2>. DEFINE dead == {d \in Ids : row[d].status = "failed" /\ row[d].hook = h}
  <2>1. PICK t \in SetToSeqs(dead) : due' = due \o t
    BY <1>6 DEF ResubmitAllFailedWebhookDeliveries, OldestFirst
  <2>2. t \in Seq(Ids) /\ IsInjective(t) /\ \A k \in DOMAIN t : t[k] \in dead
    BY OrderedRows
  <2>3. /\ due' \in Seq(Ids) /\ IsInjective(due')
        /\ \A k \in DOMAIN due' : \/ row[due'[k]].status = "pending"
                                  \/ \E j \in DOMAIN t : due'[k] = t[j]
    BY <1>t, <2>1, <2>2, ComingDue
  <2>4. \A d \in Ids : IF d \in dead THEN row'[d].status = "pending" ELSE row'[d] = row[d]
    BY <1>t, <1>6 DEF ResubmitAllFailedWebhookDeliveries, Reset, TableOK, RowType
  <2>5. ASSUME NEW k \in DOMAIN due'
        PROVE  row'[due'[k]].status = "pending"
    BY <2>2, <2>3, <2>4
  <2>. QED
    BY <2>3, <2>5 DEF DueOK
<1>. QED
  BY <1>1, <1>2, <1>3, <1>4, <1>5, <1>6
     DEF Next, Subscriptions, CreateWebhook, UpdateWebhook, Tick, SelectPending, GetWebhook,
         Attempt, ReadAttempt, MarkWebhookDeliveryDelivered, MarkWebhookDeliveryFailure,
         WriteFails, Stop, Start

\* Every step keeps the count of a row and the place of the dispatcher together.
LEMMA StepKeepsRows ==
  ASSUME WebhookInv, Next
  PROVE  /\ DispInv'
         /\ \A d \in Ids : nextId' <= d => row'[d].status = "none"
         /\ \A d \in Ids : PendingInv(d)' /\ SettledInv(d)'
<1>. DEFINE Counted == /\ DispInv
                       /\ \A d \in Ids : nextId <= d => row[d].status = "none"
                       /\ \A d \in Ids : PendingInv(d) /\ SettledInv(d)
<1>. SUFFICES Counted'
  OBVIOUS
<1>t. TableOK /\ DueOK /\ MaxAttempts \in Nat \ {0} /\ MaxDeliveries \in Nat /\ MaxLost \in Nat
  BY TypeParts, WebhookAssumption DEF WebhookInv
<1>u. /\ lost \in Nat /\ nextId \in Nat /\ nextId >= 1
      /\ \A d \in Ids : posts[d] \in Nat /\ acks[d] \in Nat /\ row[d].attempt \in Nat
  BY <1>t DEF TableOK, RowType
<1>c. Counted
  BY DEF WebhookInv
<1>1. ASSUME NEW h \in Hooks, NEW enabled \in BOOLEAN, NEW events \in Filters,
             CreateWebhook(h, enabled, events) \/ UpdateWebhook(h, enabled, events)
      PROVE  Counted'
  BY <1>c, <1>1 DEF CreateWebhook, UpdateWebhook, DispInv, PendingInv, SettledInv, InFlight, Picked
<1>2. ASSUME NEW h \in Hooks, DeleteWebhook(h)
      PROVE  Counted'
  <2>1. UNCHANGED <<nextId, disp, posts, acks, lost>>
    BY <1>2 DEF DeleteWebhook
  <2>2. \A d \in Ids : row[d].status = "none" => row'[d] = row[d]
    <3>1. \A d \in Ids : row[d].status = "none" => row[d].hook = "none"
      BY <1>c DEF SettledInv
    <3>. QED
      BY <1>2, <3>1, WebhookAssumption DEF DeleteWebhook
  <2>3. \A d \in Ids : row'[d] = row[d] \/ row'[d].status = "deleted"
    BY <1>t, <1>2 DEF DeleteWebhook, TableOK, RowType
  <2>4. DispInv' /\ \A d \in Ids : nextId' <= d => row'[d].status = "none"
    BY <1>c, <2>1, <2>2, <2>3 DEF DispInv
  <2>5. ASSUME NEW d \in Ids
        PROVE  PendingInv(d)' /\ SettledInv(d)'
    <3>1. row[d].status \in {"none", "pending", "delivered", "failed", "deleted"}
      BY <1>t DEF TableOK, RowType
    <3>. QED
      BY <1>t, <1>u, <1>c, <2>1, <2>2, <2>3, <3>1
         DEF DispInv, PendingInv, SettledInv, InFlight, Picked
  <2>. QED
    BY <2>4, <2>5
<1>3. ASSUME NEW e \in Events, EnqueueWebhookDeliveries(e)
      PROVE  Counted'
  <2>1. PICK n \in Nat \ {0} :
           /\ nextId + n <= MaxDeliveries + 1 /\ nextId' = nextId + n
           /\ \A d \in Ids : d \in nextId..(nextId + n - 1) =>
                \E h \in Hooks : row'[d] = [status |-> "pending", hook |-> h, attempt |-> 0]
           /\ \A d \in Ids : d \notin nextId..(nextId + n - 1) => row'[d] = row[d]
    BY <1>3, FanOut
  <2>2. UNCHANGED <<disp, posts, acks, lost>>
    BY <1>3 DEF EnqueueWebhookDeliveries
  <2>3. \A d \in Ids : d \in nextId..(nextId + n - 1) =>
          /\ row'[d].status = "pending" /\ row'[d].attempt = 0 /\ posts[d] = 0 /\ acks[d] = 0
          /\ row[d].status = "none" /\ (disp.at \notin {"off", "idle"} => d # disp.id)
    <3>. SUFFICES ASSUME NEW d \in Ids, d \in nextId..(nextId + n - 1)
                  PROVE  /\ row'[d].status = "pending" /\ row'[d].attempt = 0
                         /\ posts[d] = 0 /\ acks[d] = 0 /\ row[d].status = "none"
                         /\ disp.at \notin {"off", "idle"} => d # disp.id
      OBVIOUS
    <3>1. row[d].status = "none"
      BY <1>u, <1>c
    <3>2. PICK h \in Hooks : row'[d] = [status |-> "pending", hook |-> h, attempt |-> 0]
      BY <2>1
    <3>. QED
      BY <1>c, <3>1, <3>2 DEF DispInv, SettledInv
  <2>4. DispInv'
    BY <1>c, <2>1, <2>2, <2>3 DEF DispInv
  <2>5. \A d \in Ids : nextId' <= d => row'[d].status = "none"
    BY <1>u, <1>c, <2>1 DEF Ids
  <2>6. ASSUME NEW d \in Ids PROVE PendingInv(d)' /\ SettledInv(d)'
    <3>1. CASE d \in nextId..(nextId + n - 1)
      BY <1>t, <1>u, <2>2, <2>3, <3>1 DEF PendingInv, SettledInv, InFlight, Picked
    <3>2. CASE d \notin nextId..(nextId + n - 1)
      BY <1>c, <2>1, <2>2, <3>2 DEF PendingInv, SettledInv, InFlight, Picked
    <3>. QED
      BY <3>1, <3>2
  <2>. QED
    BY <2>4, <2>5, <2>6
<1>4. CASE Tick
  <2>1. CASE SelectPending
    <3>1. Head(due) \in Ids /\ row[Head(due)].status = "pending"
      BY <1>t, <2>1 DEF SelectPending, DueOK
    <3>. QED
      BY <1>t, <1>u, <1>c, <2>1, <3>1
         DEF SelectPending, Idle, Off, DispInv, PendingInv, SettledInv, InFlight, Picked
  <2>2. CASE GetWebhook
    BY <1>t, <1>u, <1>c, <2>2
       DEF GetWebhook, TableOK, DispType, Idle, Off, DispInv, PendingInv, SettledInv, InFlight, Picked
  <2>3. CASE Attempt
    BY <1>t, <1>u, <1>c, <2>3
       DEF Attempt, TableOK, DispType, DispInv, PendingInv, SettledInv, InFlight, Picked
  <2>4. CASE MarkWebhookDeliveryDelivered
    BY <1>t, <1>u, <1>c, <2>4
       DEF MarkWebhookDeliveryDelivered, TableOK, RowType, Idle, Off,
           DispInv, PendingInv, SettledInv, InFlight, Picked
  <2>5. CASE ReadAttempt
    BY <1>t, <1>u, <1>c, <2>5
       DEF ReadAttempt, TableOK, DispType, Idle, Off, DispInv, PendingInv, SettledInv, InFlight, Picked
  <2>6. CASE MarkWebhookDeliveryFailure
    <3>1. /\ disp.id \in Ids /\ InFlight(disp.id) /\ disp.at = "failing"
          /\ row[disp.id].status \in {"pending", "deleted"}
          /\ row[disp.id].status = "pending" => disp.read = row[disp.id].attempt
      BY <1>c, <2>6 DEF MarkWebhookDeliveryFailure, DispInv, InFlight
    <3>2. UNCHANGED <<nextId, posts, acks, lost>> /\ disp' = Idle
      BY <2>6 DEF MarkWebhookDeliveryFailure
    <3>3. \A d \in Ids : d # disp.id \/ row[d].status # "pending" => row'[d] = row[d]
      BY <1>t, <2>6 DEF MarkWebhookDeliveryFailure, TableOK
    <3>4. row[disp.id].status = "pending" =>
            /\ row'[disp.id].attempt = row[disp.id].attempt + 1
            /\ IF row[disp.id].attempt + 1 >= MaxAttempts
               THEN row'[disp.id].status = "failed" ELSE row'[disp.id].status = "pending"
      BY <1>t, <2>6, <3>1 DEF MarkWebhookDeliveryFailure, Terminal, TableOK, RowType
    <3>5. DispInv' /\ \A d \in Ids : nextId' <= d => row'[d].status = "none"
      BY <1>c, <3>1, <3>2, <3>3 DEF DispInv, Idle, Off
    <3>6. ASSUME NEW d \in Ids, d = disp.id PROVE PendingInv(d)' /\ SettledInv(d)'
      BY <1>t, <1>u, <1>c, <3>1, <3>2, <3>3, <3>4, <3>6
         DEF PendingInv, SettledInv, InFlight, Picked, Idle, Off
    <3>7. ASSUME NEW d \in Ids, d # disp.id PROVE PendingInv(d)' /\ SettledInv(d)'
      BY <1>u, <1>c, <3>2, <3>3, <3>7 DEF PendingInv, SettledInv, InFlight, Picked, Idle, Off
    <3>. QED
      BY <3>5, <3>6, <3>7
  <2>. QED
    BY <1>4, <2>1, <2>2, <2>3, <2>4, <2>5, <2>6 DEF Tick
<1>5. CASE WriteFails
  BY <1>t, <1>u, <1>c, <1>5
     DEF WriteFails, Idle, Off, DispInv, PendingInv, SettledInv, InFlight, Picked
<1>6. ASSUME NEW d \in Ids, BackoffElapses(d)
      PROVE  Counted'
  BY <1>c, <1>6 DEF BackoffElapses, DispInv, PendingInv, SettledInv, InFlight, Picked
<1>7. ASSUME NEW d \in Ids, ResubmitWebhookDelivery(d)
      PROVE  Counted'
  BY <1>t, <1>u, <1>c, <1>7
     DEF ResubmitWebhookDelivery, Reset, TableOK, RowType,
         DispInv, PendingInv, SettledInv, InFlight, Picked
<1>8. ASSUME NEW h \in Hooks, ResubmitAllFailedWebhookDeliveries(h)
      PROVE  Counted'
  <2>1. UNCHANGED <<nextId, disp, lost>>
    BY <1>8 DEF ResubmitAllFailedWebhookDeliveries
  <2>2. ASSUME NEW d \in Ids
        PROVE  \/ row'[d] = row[d] /\ posts'[d] = posts[d] /\ acks'[d] = acks[d]
               \/ /\ row[d].status = "failed" /\ row'[d].status = "pending"
                  /\ row'[d].attempt = 0 /\ posts'[d] = 0 /\ acks'[d] = 0
    <3>1. Reset(d).status = "pending" /\ Reset(d).attempt = 0
      BY <1>t DEF Reset, TableOK, RowType
    <3>. QED
      BY <1>8, <3>1 DEF ResubmitAllFailedWebhookDeliveries
  <2>3. DispInv' /\ \A d \in Ids : nextId' <= d => row'[d].status = "none"
    BY <1>c, <2>1, <2>2 DEF DispInv
  <2>4. ASSUME NEW d \in Ids PROVE PendingInv(d)' /\ SettledInv(d)'
    BY <1>t, <1>u, <1>c, <2>1, <2>2 DEF DispInv, PendingInv, SettledInv, InFlight, Picked
  <2>. QED
    BY <2>3, <2>4
<1>9. CASE Stop \/ Start
  BY <1>t, <1>u, <1>c, <1>9
     DEF Stop, Start, Idle, Off, DispInv, PendingInv, SettledInv, InFlight, Picked
<1>. QED
  BY <1>1, <1>2, <1>3, <1>4, <1>5, <1>6, <1>7, <1>8, <1>9 DEF Next, Subscriptions

-----------------------------------------------------------------------------
(* The theorems                                                            *)

\* The invariant of webhook delivery: types, the dispatcher's row, and what the attempt
\* count of a row says of its POSTs and their answers.
THEOREM WebhookInvariant == Spec => []WebhookInv
<1>1. Init => WebhookInv
  <2>. SUFFICES ASSUME Init PROVE WebhookInv
    OBVIOUS
  <2>a. MaxAttempts \in Nat \ {0} /\ MaxDeliveries \in Nat /\ MaxLost \in Nat
    BY WebhookAssumption
  <2>1. TableOK
    BY <2>a DEF Init, TableOK, HookType, RowType, DispType, NoHook, NoRow, Idle, Off
  <2>2. DueOK
    BY DEF Init, DueOK, IsInjective
  <2>3. DispInv /\ \A d \in Ids : row[d].status = "none"
    BY DEF Init, DispInv, Idle, Off, NoRow
  <2>4. \A d \in Ids : PendingInv(d) /\ SettledInv(d)
    BY <2>3 DEF Init, NoRow, PendingInv, SettledInv
  <2>. QED
    BY <2>1, <2>2, <2>3, <2>4, TypeParts DEF WebhookInv
<1>2. WebhookInv /\ [Next]_vars => WebhookInv'
  <2>1. ASSUME WebhookInv, Next PROVE WebhookInv'
    <3>1. TableOK' /\ DueOK'
      BY <2>1, StepKeepsTables, StepKeepsDue
    <3>2. WebhookTypeOK'
      BY <3>1 DEF WebhookTypeOK, TableOK, DueOK, HookType, RowType, DispType
    <3>. QED
      BY <2>1, <3>2, StepKeepsRows DEF WebhookInv
  <2>2. ASSUME WebhookInv, UNCHANGED vars PROVE WebhookInv'
    BY <2>2 DEF vars, WebhookInv, WebhookTypeOK, DispInv, PendingInv, SettledInv, InFlight, Picked
  <2>. QED
    BY <2>1, <2>2
<1>. QED
  BY <1>1, <1>2, PTL DEF Spec

\* Type correctness of webhook delivery, and that the rows the dispatcher's query finds
\* are pending and found once (NextPendingWebhookDelivery).
THEOREM WebhookTypeCorrect == Spec => []WebhookTypeOK
<1>1. WebhookInv => WebhookTypeOK
  BY DEF WebhookInv
<1>. QED
  BY <1>1, WebhookInvariant, PTL

\* A dead letter has been posted MaxAttempts times since it was submitted, and no row is
\* posted more often but for lost outcomes (MarkWebhookDeliveryFailure).
THEOREM DeadLettersAreExhausted == Spec => []DeadLetterIsExhausted
<1>1. WebhookInv => DeadLetterIsExhausted
  <2>. SUFFICES ASSUME WebhookInv, NEW d \in Ids
                PROVE  /\ row[d].status = "failed" => posts[d] >= MaxAttempts
                       /\ posts[d] <= MaxAttempts + lost
    BY DEF DeadLetterIsExhausted
  <2>1. /\ MaxAttempts \in Nat /\ lost \in Nat /\ posts[d] \in Nat /\ row[d].attempt \in Nat
        /\ row[d].status \in {"none", "pending", "delivered", "failed", "deleted"}
    BY WebhookAssumption DEF WebhookInv, WebhookTypeOK
  <2>2. PendingInv(d) /\ SettledInv(d)
    BY DEF WebhookInv
  <2>. QED
    BY <2>1, <2>2 DEF PendingInv, SettledInv
<1>. QED
  BY <1>1, WebhookInvariant, PTL

\* A row is marked delivered only after a 2xx, and but for lost outcomes a receiver that
\* answered one is not sent the delivery again (MarkWebhookDeliveryDelivered).
THEOREM AnswersAreCounted == Spec => []AcknowledgedOnce
<1>1. WebhookInv => AcknowledgedOnce
  <2>. SUFFICES ASSUME WebhookInv, NEW d \in Ids
                PROVE  /\ row[d].status = "delivered" => acks[d] >= 1
                       /\ row[d].status = "failed" => acks[d] <= lost
                       /\ acks[d] <= 1 + lost
    BY DEF AcknowledgedOnce
  <2>1. /\ lost \in Nat /\ acks[d] \in Nat
        /\ row[d].status \in {"none", "pending", "delivered", "failed", "deleted"}
    BY DEF WebhookInv, WebhookTypeOK
  <2>2. PendingInv(d) /\ SettledInv(d)
    BY DEF WebhookInv
  <2>. QED
    BY <2>1, <2>2 DEF PendingInv, SettledInv
<1>. QED
  BY <1>1, WebhookInvariant, PTL

\* A settled row stays settled: a delivered one only ever disappears, and a dead letter
\* comes back only by a resubmission, with its attempts at zero.
THEOREM SettledRowsStay == Spec => SettledStays
<1>. DEFINE Stays ==
       \A d \in Ids :
         /\ row[d].status = "delivered" => row'[d] = row[d] \/ row'[d].status = "deleted"
         /\ row[d].status = "failed" /\ row'[d].status = "pending" => row'[d].attempt = 0
         /\ row[d].status = "failed" => row'[d].status # "delivered"
<1>1. ASSUME WebhookInv, [Next]_vars PROVE [Stays]_vars
  <2>. SUFFICES ASSUME Next, NEW d \in Ids
                PROVE  /\ row[d].status = "delivered" => row'[d] = row[d] \/ row'[d].status = "deleted"
                       /\ row[d].status = "failed" /\ row'[d].status = "pending" => row'[d].attempt = 0
                       /\ row[d].status = "failed" => row'[d].status # "delivered"
    BY <1>1 DEF vars
  <2>t. TableOK /\ MaxAttempts \in Nat
    BY <1>1, TypeParts, WebhookAssumption DEF WebhookInv
  <2>1. CASE row'[d] = row[d]
    BY <2>1
  <2>2. ASSUME NEW h \in Hooks, DeleteWebhook(h)
        PROVE  row'[d] = row[d] \/ row'[d].status = "deleted"
    BY <2>t, <2>2 DEF DeleteWebhook, TableOK, RowType
  <2>3. ASSUME NEW e \in Events, EnqueueWebhookDeliveries(e)
        PROVE  row'[d] = row[d] \/ row[d].status = "none"
    <3>1. PICK n \in Nat \ {0} :
            \A c \in Ids : c \notin nextId..(nextId + n - 1) => row'[c] = row[c]
      BY <1>1, <2>3, FanOut
    <3>2. d \in nextId..(nextId + n - 1) => row[d].status = "none"
      BY <1>1, <2>t DEF WebhookInv, TableOK
    <3>. QED
      BY <3>1, <3>2
  <2>4. CASE MarkWebhookDeliveryDelivered \/ MarkWebhookDeliveryFailure
    BY <2>t, <2>4 DEF MarkWebhookDeliveryDelivered, MarkWebhookDeliveryFailure, TableOK
  <2>r. \A c \in Ids : Reset(c).status = "pending" /\ Reset(c).attempt = 0
    BY <2>t DEF Reset, TableOK, RowType
  <2>5. ASSUME NEW c \in Ids, ResubmitWebhookDelivery(c)
        PROVE  row'[d] = row[d] \/ (row[d].status = "failed" /\ row'[d] = Reset(d))
    BY <2>t, <2>5 DEF ResubmitWebhookDelivery, TableOK
  <2>6. ASSUME NEW h \in Hooks, ResubmitAllFailedWebhookDeliveries(h)
        PROVE  row'[d] = row[d] \/ (row[d].status = "failed" /\ row'[d] = Reset(d))
    BY <2>6 DEF ResubmitAllFailedWebhookDeliveries
  <2>. QED
    BY <2>1, <2>2, <2>3, <2>4, <2>r, <2>5, <2>6
       DEF Next, Subscriptions, CreateWebhook, UpdateWebhook, Tick, SelectPending, GetWebhook,
           Attempt, ReadAttempt, WriteFails, BackoffElapses, Stop, Start
<1>2. [][Stays]_vars => SettledStays
  BY DEF SettledStays
<1>. QED
  BY <1>1, <1>2, WebhookInvariant, PTL DEF Spec

=============================================================================
