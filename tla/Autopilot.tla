------------------------------ MODULE Autopilot ------------------------------
(***************************************************************************)
(* Autopilot: the rules in the database, the cron instances that fire      *)
(* them, the HTTP handlers that edit a rule and then reload the scheduler,  *)
(* and the triggers, fired by cron or by a user, that create an issue.      *)
(* (internal/store/autopilot.go, internal/app/autopilot.go,                 *)
(* internal/scheduler/cron.go, internal/httpapi/handlers_autopilot.go)      *)
(*                                                                         *)
(* A reload reads the enabled rules, builds a new cron instance, swaps it   *)
(* in under the mutex, stops the old instance, starts the new one, and      *)
(* writes next_run_at: one statement at a time, and nothing keeps two       *)
(* reloads apart.  Times are abstracted: of next_run_at the model keeps     *)
(* whether it is set, and a snooze is on until it ends.                     *)
(***************************************************************************)
EXTENDS Naturals, FiniteSets

CONSTANTS
  Rules,      \* rule ids
  Specs,      \* cron expressions
  Editors,    \* edit requests that can be in flight at the same time
  Triggers,   \* triggers that can be in flight at the same time
  Threshold,  \* failures in a row after which a rule is disabled
  MaxReloads, \* bound on the reloads after boot
  NoSpec      \* no expression: NULL, or no entry

ASSUME AutopilotAssumption ==
  /\ NoSpec \notin Specs
  /\ Threshold \in Nat \ {0}
  /\ MaxReloads \in Nat

VARIABLES
  rule,     \* the autopilot_rule table
  cron,     \* per cron instance, its entries and whether it was started, stopped
  current,  \* CronScheduler.cron
  built,    \* instances built so far
  editor,   \* per editor, where its request is
  trigger,  \* per trigger, where it is
  clean,    \* no two reloads have overlapped and none was cut short
  paused    \* triggers whose rule was disabled or snoozed ever since they began

vars == <<rule, cron, current, built, editor, trigger, clean, paused>>

Crons == 0..MaxReloads

Exists(r) == rule[r].status \in {"enabled", "disabled"}

NoRule == [status |-> "none", spec |-> NoSpec, snoozed |-> FALSE, fails |-> 0, next |-> FALSE]

RuleRow == [status : {"none", "enabled", "disabled", "deleted"},
            spec : Specs \cup {NoSpec}, snoozed : BOOLEAN,
            fails : 0..Threshold, next : BOOLEAN]

NoEntries == [r \in Rules |-> NoSpec]

\* What an instance has been told to fire, and a reload's list.
Entries == [Rules -> Specs \cup {NoSpec}]

CronRow == [entries : Entries, state : {"new", "running", "stopped"}]

EditorRow == [pc : {"idle", "list", "swap", "stop", "start", "clear", "sync"},
              list : Entries, mine : Crons, old : Crons]

TriggerRow == [pc : {"idle", "get", "reget", "create", "fail"}, rule : Rules \cup {"none"}]

AtRest == [pc |-> "idle", list |-> NoEntries, mine |-> 0, old |-> 0]

NoTrigger == [pc |-> "idle", rule |-> "none"]

\* Mutant: a rule that is snoozed when the list is read is left out.
AwakeRules == [r \in Rules |-> IF rule[r].status = "enabled" /\ ~rule[r].snoozed
                               THEN rule[r].spec ELSE NoSpec]

\* ListEnabledAutopilotRules.
EnabledRules == [r \in Rules |-> IF rule[r].status = "enabled" THEN rule[r].spec ELSE NoSpec]

\* After boot: serve has reloaded once, from a table whose rules have neither failed nor
\* been snoozed yet.
Init ==
  /\ rule \in [Rules -> RuleRow]
  /\ \A r \in Rules :
       /\ rule[r].status # "deleted"
       /\ rule[r].status = "none" <=> rule[r].spec = NoSpec
       /\ rule[r].next <=> rule[r].status = "enabled"
       /\ rule[r].fails = 0 /\ ~rule[r].snoozed
  /\ cron = [c \in Crons |-> IF c = 0 THEN [entries |-> EnabledRules, state |-> "running"]
                                      ELSE [entries |-> NoEntries, state |-> "new"]]
  /\ current = 0
  /\ built = 0
  /\ editor = [e \in Editors |-> AtRest]
  /\ trigger = [t \in Triggers |-> NoTrigger]
  /\ clean = TRUE
  /\ paused = {}

-----------------------------------------------------------------------------
(* The edit of a request.  A request that succeeds goes on to reload.      *)

GoesOn(e) ==
  /\ editor[e].pc = "idle"
  /\ built < MaxReloads
  /\ editor' = [editor EXCEPT ![e].pc = "list"]
  /\ UNCHANGED <<cron, current, built, trigger, clean>>

CreateAutopilotRule(e, r, status, spec, snoozed) ==
  /\ GoesOn(e)
  /\ rule[r].status = "none"
  /\ rule' = [rule EXCEPT ![r] = [NoRule EXCEPT !.status = status, !.spec = spec,
                                                !.snoozed = snoozed]]

\* The failures in a row and next_run_at are left alone.
UpdateAutopilotRule(e, r, status, spec, snoozed) ==
  /\ GoesOn(e)
  /\ Exists(r)
  /\ rule' = [rule EXCEPT ![r] = [@ EXCEPT !.status = status, !.spec = spec,
                                            !.snoozed = snoozed]]

Gone == [NoRule EXCEPT !.status = "deleted"]

DeleteAutopilotRule(e, r) ==
  /\ GoesOn(e)
  /\ Exists(r)
  /\ rule' = [rule EXCEPT ![r] = Gone]

\* A workspace takes its rules with it (ON DELETE CASCADE); nothing reloads.
DeleteWorkspace(r) ==
  /\ Exists(r)
  /\ rule' = [rule EXCEPT ![r] = Gone]
  /\ UNCHANGED <<cron, current, built, editor, trigger, clean>>

SnoozeEnds(r) ==
  /\ rule[r].snoozed
  /\ rule' = [rule EXCEPT ![r].snoozed = FALSE]
  /\ UNCHANGED <<cron, current, built, editor, trigger, clean>>

-----------------------------------------------------------------------------
(* AutopilotRunner.Reload and CronScheduler.Reload.                        *)

Reloading(e) == editor[e].pc \in {"swap", "stop", "start", "clear", "sync"}

\* The list and the new instance built from it, which nobody else can see.
ReloadList(e) ==
  /\ editor[e].pc = "list"
  /\ built < MaxReloads
  /\ built' = built + 1
  /\ cron' = [cron EXCEPT ![built + 1].entries = EnabledRules]
  /\ editor' = [editor EXCEPT ![e] = [pc |-> "swap", list |-> EnabledRules,
                                      mine |-> built + 1, old |-> 0]]
  /\ clean' = (clean /\ ~\E other \in Editors : Reloading(other))
  /\ UNCHANGED <<rule, current, trigger>>

ReloadSwap(e) ==
  /\ editor[e].pc = "swap"
  /\ current' = editor[e].mine
  /\ editor' = [editor EXCEPT ![e] = [@ EXCEPT !.old = current, !.pc = "stop"]]
  /\ UNCHANGED <<rule, cron, built, trigger, clean>>

\* Mutant: s.cron is read again after the mutex is released.
StopCurrent(e) ==
  /\ editor[e].pc = "stop"
  /\ cron' = IF cron[current].state = "running"
             THEN [cron EXCEPT ![current].state = "stopped"]
             ELSE cron
  /\ editor' = [editor EXCEPT ![e] = [@ EXCEPT !.pc = "start", !.old = 0]]
  /\ UNCHANGED <<rule, current, built, trigger, clean>>

\* Stop on an instance that has not been started does nothing.
ReloadStop(e) ==
  /\ editor[e].pc = "stop"
  /\ cron' = IF cron[editor[e].old].state = "running"
             THEN [cron EXCEPT ![editor[e].old].state = "stopped"]
             ELSE cron
  /\ editor' = [editor EXCEPT ![e] = [@ EXCEPT !.pc = "start", !.old = 0]]
  /\ UNCHANGED <<rule, current, built, trigger, clean>>

ReloadStart(e) ==
  /\ editor[e].pc = "start"
  /\ cron' = [cron EXCEPT ![editor[e].mine].state = "running"]
  /\ editor' = [editor EXCEPT ![e] = [@ EXCEPT !.pc = "clear", !.mine = 0]]
  /\ UNCHANGED <<rule, current, built, trigger, clean>>

ClearDisabledAutopilotNextRuns(e) ==
  /\ editor[e].pc = "clear"
  /\ rule' = [r \in Rules |-> IF rule[r].status = "disabled"
                              THEN [rule[r] EXCEPT !.next = FALSE]
                              ELSE rule[r]]
  /\ editor' = [editor EXCEPT ![e].pc = "sync"]
  /\ UNCHANGED <<cron, current, built, trigger, clean>>

\* SetAutopilotNextRun for one rule of the list.  The order is that of
\* created_at, any order here; a rule that is gone ends the reload.
SyncNextRunAt(e, r) ==
  /\ editor[e].pc = "sync"
  /\ editor[e].list[r] # NoSpec
  /\ IF Exists(r)
     THEN /\ rule' = [rule EXCEPT ![r].next = TRUE]
          /\ editor' = [editor EXCEPT ![e].list[r] = NoSpec]
          /\ clean' = clean
     ELSE /\ editor' = [editor EXCEPT ![e] = AtRest]
          /\ clean' = FALSE
          /\ rule' = rule
  /\ UNCHANGED <<cron, current, built, trigger>>

ReloadEnds(e) ==
  /\ editor[e].pc = "sync"
  /\ editor[e].list = NoEntries
  /\ editor' = [editor EXCEPT ![e] = AtRest]
  /\ UNCHANGED <<rule, cron, current, built, trigger, clean>>

\* The client goes away, its context with it: the next query fails, and
\* reloadAutopilot drops the error.
Disconnect(e) ==
  /\ editor[e].pc \in {"list", "clear", "sync"}
  /\ editor' = [editor EXCEPT ![e] = AtRest]
  /\ clean' = FALSE
  /\ UNCHANGED <<rule, cron, current, built, trigger>>

-----------------------------------------------------------------------------
(* A trigger.                                                              *)

TriggerBegins(t, r) ==
  /\ trigger[t].pc = "idle"
  /\ trigger' = [trigger EXCEPT ![t] = [pc |-> "get", rule |-> r]]
  /\ UNCHANGED <<rule, cron, current, built, editor, clean>>

\* An instance that runs fires its entry, whoever the scheduler points to.
CronFires(t, c, r) ==
  /\ cron[c].state = "running"
  /\ cron[c].entries[r] # NoSpec
  /\ TriggerBegins(t, r)

\* POST /api/autopilot/{id}/trigger.
TriggerAutopilot(t, r) ==
  /\ Exists(r)
  /\ TriggerBegins(t, r)

\* Mutant: only the enabled flag is looked at.
RefusesDisabledOnly(r) == rule[r].status # "enabled"

Refuses(r) == rule[r].status # "enabled" \/ rule[r].snoozed

\* TriggerRuleResult reads the rule; a template that cannot be rendered is
\* a failure.
TriggerRuleResult(t) ==
  LET r == trigger[t].rule
  IN  /\ trigger[t].pc = "get"
      /\ \/ /\ Refuses(r)
            /\ trigger' = [trigger EXCEPT ![t] = NoTrigger]
         \/ /\ ~Refuses(r)
            /\ \E pc \in {"reget", "fail"} :
                 trigger' = [trigger EXCEPT ![t].pc = pc]
      /\ UNCHANGED <<rule, cron, current, built, editor, clean>>

\* TriggerAutopilotRuleWithContentResult reads it again.
TriggerWithContent(t) ==
  /\ trigger[t].pc = "reget"
  /\ trigger' = [trigger EXCEPT ![t] =
                   IF Refuses(trigger[t].rule) THEN NoTrigger ELSE [@ EXCEPT !.pc = "create"]]
  /\ UNCHANGED <<rule, cron, current, built, editor, clean>>

\* The transaction commits: issue, run and rule together.  It does not ask
\* again whether the rule is enabled, only whether it is there.  The issue,
\* the run and the rule are then read back, and an error in that (the issue
\* deleted already, for one) is recorded as a failed trigger.
CreateIssueRunAndRecordSuccess(t) ==
  /\ trigger[t].pc = "create"
  /\ Exists(trigger[t].rule)
  /\ rule' = [rule EXCEPT ![trigger[t].rule] = [@ EXCEPT !.fails = 0, !.next = TRUE]]
  /\ \/ trigger' = [trigger EXCEPT ![t] = NoTrigger]
     \/ trigger' = [trigger EXCEPT ![t].pc = "fail"]
  /\ UNCHANGED <<cron, current, built, editor, clean>>

\* No agent, no rule any more, or an error: nothing is left of it.
CreateFails(t) ==
  /\ trigger[t].pc = "create"
  /\ trigger' = [trigger EXCEPT ![t].pc = "fail"]
  /\ UNCHANGED <<rule, cron, current, built, editor, clean>>

\* Mutant: a threshold of five is passed by the sixth failure.
OverThreshold(fails) == fails > Threshold

AtThreshold(fails) == fails >= Threshold

\* The count is kept at Threshold once it is there: nothing but the
\* comparison reads it.
RecordAutopilotTriggerFailure(t) ==
  LET r == trigger[t].rule
      fails == rule[r].fails + 1
  IN  /\ trigger[t].pc = "fail"
      /\ IF Exists(r)
         THEN rule' = [rule EXCEPT ![r] = [@ EXCEPT
                !.fails = IF AtThreshold(fails) THEN Threshold ELSE fails,
                !.status = IF AtThreshold(fails) THEN "disabled" ELSE rule[r].status,
                !.next = rule[r].status = "enabled" /\ ~AtThreshold(fails)]]
         ELSE rule' = rule
      /\ trigger' = [trigger EXCEPT ![t] = NoTrigger]
      /\ UNCHANGED <<cron, current, built, editor, clean>>

\* A read that fails, or a failure that cannot be recorded, because the
\* client of the request has gone or the database refuses.
TriggerCutShort(t) ==
  /\ trigger[t].pc \in {"get", "reget", "fail"}
  /\ trigger' = [trigger EXCEPT ![t] = NoTrigger]
  /\ UNCHANGED <<rule, cron, current, built, editor, clean>>

-----------------------------------------------------------------------------
Edit ==
  \E e \in Editors, r \in Rules :
    \/ \E status \in {"enabled", "disabled"}, spec \in Specs, snoozed \in BOOLEAN :
         \/ CreateAutopilotRule(e, r, status, spec, snoozed)
         \/ UpdateAutopilotRule(e, r, status, spec, snoozed)
    \/ DeleteAutopilotRule(e, r)

Reload ==
  \E e \in Editors :
    \/ ReloadList(e) \/ ReloadSwap(e) \/ ReloadStop(e) \/ ReloadStart(e)
    \/ ClearDisabledAutopilotNextRuns(e)
    \/ \E r \in Rules : SyncNextRunAt(e, r)
    \/ ReloadEnds(e)
    \/ Disconnect(e)

Trigger ==
  \E t \in Triggers :
    \/ \E r \in Rules : TriggerAutopilot(t, r) \/ \E c \in Crons : CronFires(t, c, r)
    \/ TriggerRuleResult(t) \/ TriggerWithContent(t)
    \/ CreateIssueRunAndRecordSuccess(t) \/ CreateFails(t)
    \/ RecordAutopilotTriggerFailure(t) \/ TriggerCutShort(t)

\* History: a trigger stays in paused while its rule is disabled, snoozed
\* or gone.
Remember ==
  paused' = {t \in Triggers :
               /\ trigger'[t].pc # "idle"
               /\ trigger[t].pc = "idle" \/ t \in paused
               /\ \/ rule'[trigger'[t].rule].status # "enabled"
                  \/ rule'[trigger'[t].rule].snoozed}

Next ==
  /\ \/ Edit
     \/ Reload
     \/ Trigger
     \/ \E r \in Rules : DeleteWorkspace(r) \/ SnoozeEnds(r)
  /\ Remember

Spec == Init /\ [][Next]_vars

-----------------------------------------------------------------------------
(* Type correctness.  The scheduler points to an instance that was built,   *)
(* and nothing is written to a rule that is not there.                      *)
AutopilotTypeOK ==
  /\ rule \in [Rules -> RuleRow]
  /\ cron \in [Crons -> CronRow]
  /\ \A r \in Rules : ~Exists(r) => ~rule[r].next /\ rule[r].fails = 0
  /\ current \in 0..built
  /\ built \in Crons
  /\ editor \in [Editors -> EditorRow]
  /\ trigger \in [Triggers -> TriggerRow]
  /\ clean \in BOOLEAN
  /\ paused \subseteq Triggers

(* A trigger that is about to create an issue, whether a user, the current  *)
(* instance or one that a reload left running began it, has seen its rule   *)
(* enabled and not snoozed since then (the two checks of TriggerRuleResult  *)
(* and triggerAutopilotRuleWithContentResult).                              *)
PausedRuleIsQuiet == \A t \in paused : trigger[t].pc # "create"

(* However triggers and edits interleave, only a user can have a rule       *)
(* enabled with Threshold failures in a row (RecordAutopilotTriggerFailure, *)
(* createAutopilotIssueRunAndRecordSuccess).                                *)
FailingRuleIsDisabled ==
  [][\A r \in Rules :
       rule'[r].status = "enabled" /\ rule'[r].fails >= Threshold =>
         \/ rule[r].status = "enabled" /\ rule[r].fails = rule'[r].fails
         \/ \E e \in Editors : editor[e].pc = "idle" /\ editor'[e].pc = "list"]_vars

Quiet == \A e \in Editors : editor[e].pc = "idle"

(* When no request is in flight and every reload ran to its end, alone,     *)
(* every enabled rule has its entry, with its own expression, and a         *)
(* next_run_at (AutopilotRunner.Reload).                                    *)
EnabledRuleIsScheduled ==
  Quiet /\ clean =>
    \A r \in Rules : rule[r].status = "enabled" =>
      /\ cron[current].entries[r] = rule[r].spec
      /\ rule[r].next

(* Under the same conditions the scheduler's instance runs and no other     *)
(* does, so no rule fires twice at a time (CronScheduler.Reload).           *)
OneCronRuns ==
  Quiet /\ clean => {c \in Crons : cron[c].state = "running"} = {current}
=============================================================================
