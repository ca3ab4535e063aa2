---------------------------- MODULE AutopilotProofs ----------------------------
(***************************************************************************)
(* Theorems about Autopilot, for any number of rules, expressions,         *)
(* requests, triggers and reloads.                                         *)
(***************************************************************************)
EXTENDS Autopilot, TLAPS

----------------------------------------------------------------------------
(* Types, with what keeps them: a request holds instances that were built,  *)
(* and a trigger in flight has a rule.                                      *)
NothingOnNoRule == \A r \in Rules : ~Exists(r) => ~rule[r].next /\ rule[r].fails = 0

HoldsBuilt == \A e \in Editors : editor[e].mine <= built /\ editor[e].old <= built

TriggerHasRule == \A t \in Triggers : trigger[t].pc # "idle" => trigger[t].rule \in Rules

TypeInv == AutopilotTypeOK /\ HoldsBuilt /\ TriggerHasRule

(* What the rows of boot look like.                                        *)
LEMMA Constants ==
  /\ 0 \in Crons
  /\ NoEntries \in Entries
  /\ AtRest \in EditorRow
  /\ NoTrigger \in TriggerRow
  /\ NoRule \in RuleRow
  /\ Gone \in RuleRow
<1>1. 0 \in Crons
  BY AutopilotAssumption DEF Crons
<1>2. NoEntries \in Entries
  BY DEF NoEntries, Entries
<1>3. NoRule \in RuleRow
  BY AutopilotAssumption DEF NoRule, RuleRow
<1>4. Gone \in RuleRow
  BY <1>3 DEF Gone, RuleRow
<1> QED
  BY <1>1, <1>2, <1>3, <1>4 DEF AtRest, EditorRow, NoTrigger, TriggerRow

(* The list a reload reads is a list of entries (ListEnabledAutopilotRules). *)
LEMMA ListIsEntries ==
  ASSUME rule \in [Rules -> RuleRow]
  PROVE  EnabledRules \in Entries
  BY DEF EnabledRules, Entries, RuleRow

(* The initial states of boot have their types (NewAutopilotRunner, serve). *)
LEMMA InitTypes == Init => TypeInv
<1> SUFFICES ASSUME Init PROVE TypeInv
  OBVIOUS
<1>1. NothingOnNoRule
  BY DEF Init, RuleRow, Exists, NothingOnNoRule
<1>2. EnabledRules \in Entries
  BY ListIsEntries DEF Init
<1>3. cron \in [Crons -> CronRow]
  BY <1>2, Constants DEF Init, CronRow
<1> QED
  BY <1>1, <1>3, Constants DEF Init, TypeInv, AutopilotTypeOK, HoldsBuilt, TriggerHasRule,
     NothingOnNoRule, AtRest, NoTrigger, Crons

(* A row that is there after the step may hold anything of its type; one   *)
(* that is not holds neither a next run nor failures.                       *)
LEMMA RuleStep ==
  ASSUME TypeInv, NEW r \in Rules, NEW row \in RuleRow,
         rule' = [rule EXCEPT ![r] = row],
         row.status \in {"enabled", "disabled"}
  PROVE  rule' \in [Rules -> RuleRow] /\ NothingOnNoRule'
  BY DEF TypeInv, AutopilotTypeOK, Exists, NothingOnNoRule

(* A rule goes with all it holds (DELETE of the rule or its workspace).     *)
LEMMA GoneStep ==
  ASSUME TypeInv, NEW r \in Rules, rule' = [rule EXCEPT ![r] = Gone]
  PROVE  rule' \in [Rules -> RuleRow] /\ NothingOnNoRule'
<1>1. Gone \in RuleRow /\ ~Gone.next /\ Gone.fails = 0
  BY Constants DEF Gone, NoRule
<1> QED
  BY <1>1 DEF TypeInv, AutopilotTypeOK, Exists, NothingOnNoRule

(* The parts of the invariant put together again.                          *)
LEMMA PartsMakeTypeInv ==
  ASSUME TypeInv,
         rule' \in [Rules -> RuleRow], NothingOnNoRule',
         cron' \in [Crons -> CronRow],
         current' \in 0..built', built' \in Crons,
         editor' \in [Editors -> EditorRow], HoldsBuilt',
         trigger' \in [Triggers -> TriggerRow], TriggerHasRule',
         clean' \in BOOLEAN, paused' \subseteq Triggers
  PROVE  TypeInv'
  BY DEF TypeInv, AutopilotTypeOK, NothingOnNoRule

(* An edit changes one rule and moves one request on.                      *)
LEMMA EditTypes == ASSUME TypeInv, Edit, paused' \subseteq Triggers PROVE TypeInv'
<1>1. PICK e \in Editors, r \in Rules :
        \/ \E status \in {"enabled", "disabled"}, spec \in Specs, snoozed \in BOOLEAN :
             \/ CreateAutopilotRule(e, r, status, spec, snoozed)
             \/ UpdateAutopilotRule(e, r, status, spec, snoozed)
        \/ DeleteAutopilotRule(e, r)
  BY DEF Edit
<1>2. GoesOn(e)
  BY <1>1 DEF CreateAutopilotRule, UpdateAutopilotRule, DeleteAutopilotRule
<1>3. rule' \in [Rules -> RuleRow] /\ NothingOnNoRule'
  <2>1. rule[r] \in RuleRow
    BY DEF TypeInv, AutopilotTypeOK
  <2>2. CASE DeleteAutopilotRule(e, r)
    BY <2>2, GoneStep DEF DeleteAutopilotRule
  <2>3. CASE \E status \in {"enabled", "disabled"}, spec \in Specs, snoozed \in BOOLEAN :
               \/ CreateAutopilotRule(e, r, status, spec, snoozed)
               \/ UpdateAutopilotRule(e, r, status, spec, snoozed)
    <3>1. PICK status \in {"enabled", "disabled"}, spec \in Specs, snoozed \in BOOLEAN :
            \/ CreateAutopilotRule(e, r, status, spec, snoozed)
            \/ UpdateAutopilotRule(e, r, status, spec, snoozed)
      BY <2>3
    <3>2. PICK base \in RuleRow :
            rule' = [rule EXCEPT ![r] = [base EXCEPT !.status = status, !.spec = spec,
                                                     !.snoozed = snoozed]]
      BY <2>1, <3>1, Constants DEF CreateAutopilotRule, UpdateAutopilotRule, TypeInv,
         AutopilotTypeOK
    <3>3. /\ [base EXCEPT !.status = status, !.spec = spec, !.snoozed = snoozed] \in RuleRow
          /\ [base EXCEPT !.status = status, !.spec = spec,
                          !.snoozed = snoozed].status \in {"enabled", "disabled"}
      BY DEF RuleRow
    <3>4. PICK row \in RuleRow : /\ rule' = [rule EXCEPT ![r] = row]
                                 /\ row.status \in {"enabled", "disabled"}
      BY <3>2, <3>3
    <3> QED
      BY <3>4, RuleStep
  <2> QED
    BY <1>1, <2>2, <2>3
<1>4. editor' \in [Editors -> EditorRow] /\ HoldsBuilt'
  <2>1. editor[e] \in EditorRow
    BY DEF TypeInv, AutopilotTypeOK
  <2>2. [editor[e] EXCEPT !.pc = "list"] \in EditorRow
    BY <2>1 DEF EditorRow
  <2> QED
    BY <1>2, <2>1, <2>2 DEF GoesOn, TypeInv, AutopilotTypeOK, HoldsBuilt, EditorRow
<1> QED
  BY <1>2, <1>3, <1>4, PartsMakeTypeInv DEF GoesOn, TypeInv, AutopilotTypeOK, TriggerHasRule

(* Writing the row of one request: it holds instances that were built.     *)
LEMMA EditorStep ==
  ASSUME TypeInv, NEW e \in Editors, NEW row \in EditorRow,
         editor' = [editor EXCEPT ![e] = row],
         built' \in Crons, built <= built', row.mine <= built', row.old <= built'
  PROVE  editor' \in [Editors -> EditorRow] /\ HoldsBuilt'
<1>1. \A x \in Editors : editor'[x] = IF x = e THEN row ELSE editor[x]
  BY DEF TypeInv, AutopilotTypeOK
<1>2. built \in Nat /\ built' \in Nat
  BY AutopilotAssumption DEF TypeInv, AutopilotTypeOK, Crons
<1>3. \A x \in Editors : editor[x].mine \in Nat /\ editor[x].old \in Nat
  BY AutopilotAssumption DEF TypeInv, AutopilotTypeOK, EditorRow, Crons
<1> QED
  BY <1>1, <1>2, <1>3 DEF TypeInv, AutopilotTypeOK, HoldsBuilt

(* The same for a trigger, which keeps its rule until it is done.          *)
LEMMA TriggerStep ==
  ASSUME TypeInv, NEW t \in Triggers, NEW row \in TriggerRow,
         trigger' = [trigger EXCEPT ![t] = row],
         row.pc = "idle" \/ row.rule \in Rules
  PROVE  trigger' \in [Triggers -> TriggerRow] /\ TriggerHasRule'
  BY DEF TypeInv, AutopilotTypeOK, TriggerHasRule

(* A reload keeps the types: it only ever points the scheduler to, stops    *)
(* and starts instances that were built.                                    *)
LEMMA ReloadTypes == ASSUME TypeInv, Reload, paused' \subseteq Triggers PROVE TypeInv'
<1>1. PICK e \in Editors :
        \/ ReloadList(e) \/ ReloadSwap(e) \/ ReloadStop(e) \/ ReloadStart(e)
        \/ ClearDisabledAutopilotNextRuns(e)
        \/ \E r \in Rules : SyncNextRunAt(e, r)
        \/ ReloadEnds(e)
        \/ Disconnect(e)
  BY DEF Reload
<1>2. /\ editor[e] \in EditorRow /\ cron \in [Crons -> CronRow]
      /\ editor[e].mine <= built /\ editor[e].old <= built
      /\ built \in Crons /\ built \in Nat /\ current \in 0..built /\ current \in Crons
      /\ rule \in [Rules -> RuleRow] /\ NothingOnNoRule
      /\ trigger \in [Triggers -> TriggerRow] /\ TriggerHasRule
      /\ editor \in [Editors -> EditorRow] /\ clean \in BOOLEAN
  BY AutopilotAssumption DEF TypeInv, AutopilotTypeOK, HoldsBuilt, NothingOnNoRule, Crons
<1>3. CASE ReloadList(e)
  <2>1. EnabledRules \in Entries
    BY <1>2, ListIsEntries
  <2>2. built' \in Crons /\ built' = built + 1 /\ current' \in 0..built'
    BY <1>2, <1>3, AutopilotAssumption DEF ReloadList, Crons
  <2>3. [pc |-> "swap", list |-> EnabledRules, mine |-> built + 1, old |-> 0] \in EditorRow
    BY <2>1, <2>2, Constants DEF EditorRow
  <2>4. PICK row \in EditorRow : /\ editor' = [editor EXCEPT ![e] = row]
                                 /\ row.mine = built + 1 /\ row.old = 0
    BY <1>3, <2>3 DEF ReloadList
  <2>5. editor' \in [Editors -> EditorRow] /\ HoldsBuilt'
    <3>1. built <= built' /\ row.mine <= built' /\ row.old <= built'
      BY <1>2, <2>2, <2>4
    <3> QED
      BY <2>2, <2>4, <3>1, EditorStep
  <2>6. cron' \in [Crons -> CronRow]
    <3>1. [cron[built + 1] EXCEPT !.entries = EnabledRules] \in CronRow
      BY <1>2, <2>1, <2>2 DEF CronRow
    <3> QED
      BY <1>2, <1>3, <2>2, <3>1 DEF ReloadList
  <2>7. clean' \in BOOLEAN
    BY <1>3 DEF ReloadList
  <2> QED
    BY <1>2, <1>3, <2>2, <2>5, <2>6, <2>7, PartsMakeTypeInv
    DEF ReloadList, NothingOnNoRule, Exists, TriggerHasRule
<1>4. ASSUME NEW row \in EditorRow, editor' = [editor EXCEPT ![e] = row],
             row.mine <= built, row.old <= built, built' = built
      PROVE  editor' \in [Editors -> EditorRow] /\ HoldsBuilt'
  <2>1. built' \in Crons /\ built <= built' /\ row.mine <= built' /\ row.old <= built'
    BY <1>2, <1>4
  <2> QED
    BY <1>4, <2>1, EditorStep
<1>5. CASE ReloadSwap(e)
  <2>1. [editor[e] EXCEPT !.old = current, !.pc = "stop"] \in EditorRow
    BY <1>2 DEF EditorRow
  <2>2. PICK row \in EditorRow : /\ editor' = [editor EXCEPT ![e] = row]
                                 /\ row.mine = editor[e].mine /\ row.old = current
    BY <1>2, <1>5, <2>1 DEF ReloadSwap, EditorRow
  <2>3. row.mine <= built /\ row.old <= built /\ built' = built
    BY <1>2, <1>5, <2>2 DEF ReloadSwap
  <2>4. editor' \in [Editors -> EditorRow] /\ HoldsBuilt'
    BY <1>4, <2>2, <2>3
  <2>5. current' \in 0..built'
    BY <1>2, <1>5 DEF ReloadSwap, EditorRow, Crons
  <2> QED
    BY <1>2, <1>5, <2>4, <2>5, PartsMakeTypeInv
    DEF ReloadSwap, NothingOnNoRule, Exists, TriggerHasRule
<1>6. CASE ReloadStop(e)
  <2>1. [editor[e] EXCEPT !.pc = "start", !.old = 0] \in EditorRow
    BY <1>2, Constants DEF EditorRow
  <2>2. PICK row \in EditorRow : /\ editor' = [editor EXCEPT ![e] = row]
                                 /\ row.mine = editor[e].mine /\ row.old = 0
    BY <1>2, <1>6, <2>1 DEF ReloadStop, EditorRow
  <2>3. row.mine <= built /\ row.old <= built /\ built' = built
    BY <1>2, <1>6, <2>2 DEF ReloadStop
  <2>4. editor' \in [Editors -> EditorRow] /\ HoldsBuilt'
    BY <1>4, <2>2, <2>3
  <2>5. cron' \in [Crons -> CronRow]
    <3>1. editor[e].old \in Crons
      BY <1>2 DEF EditorRow
    <3>2. [cron[editor[e].old] EXCEPT !.state = "stopped"] \in CronRow
      BY <1>2, <3>1 DEF CronRow
    <3> QED
      BY <1>2, <1>6, <3>1, <3>2 DEF ReloadStop
  <2> QED
    BY <1>2, <1>6, <2>4, <2>5, PartsMakeTypeInv
    DEF ReloadStop, NothingOnNoRule, Exists, TriggerHasRule
<1>7. CASE ReloadStart(e)
  <2>1. [editor[e] EXCEPT !.pc = "clear", !.mine = 0] \in EditorRow
    BY <1>2, Constants DEF EditorRow
  <2>2. PICK row \in EditorRow : /\ editor' = [editor EXCEPT ![e] = row]
                                 /\ row.mine = 0 /\ row.old = editor[e].old
    BY <1>2, <1>7, <2>1 DEF ReloadStart, EditorRow
  <2>3. row.mine <= built /\ row.old <= built /\ built' = built
    BY <1>2, <1>7, <2>2 DEF ReloadStart
  <2>4. editor' \in [Editors -> EditorRow] /\ HoldsBuilt'
    BY <1>4, <2>2, <2>3
  <2>5. cron' \in [Crons -> CronRow]
    <3>1. editor[e].mine \in Crons
      BY <1>2 DEF EditorRow
    <3>2. [cron[editor[e].mine] EXCEPT !.state = "running"] \in CronRow
      BY <1>2, <3>1 DEF CronRow
    <3> QED
      BY <1>2, <1>7, <3>1, <3>2 DEF ReloadStart
  <2> QED
    BY <1>2, <1>7, <2>4, <2>5, PartsMakeTypeInv
    DEF ReloadStart, NothingOnNoRule, Exists, TriggerHasRule
<1>8. CASE ClearDisabledAutopilotNextRuns(e)
  <2>1. [editor[e] EXCEPT !.pc = "sync"] \in EditorRow
    BY <1>2 DEF EditorRow
  <2>2. PICK row \in EditorRow : /\ editor' = [editor EXCEPT ![e] = row]
                                 /\ row.mine = editor[e].mine /\ row.old = editor[e].old
    BY <1>2, <1>8, <2>1 DEF ClearDisabledAutopilotNextRuns, EditorRow
  <2>3. editor' \in [Editors -> EditorRow] /\ HoldsBuilt'
    BY <1>2, <1>4, <1>8, <2>2 DEF ClearDisabledAutopilotNextRuns
  <2>4. \A r \in Rules : [rule[r] EXCEPT !.next = FALSE] \in RuleRow
    BY <1>2 DEF RuleRow
  <2>5. rule' \in [Rules -> RuleRow]
    BY <1>2, <1>8, <2>4 DEF ClearDisabledAutopilotNextRuns
  <2>6. \A r \in Rules : rule[r].status # "disabled" => rule'[r] = rule[r]
    BY <1>8 DEF ClearDisabledAutopilotNextRuns
  <2>7. \A r \in Rules : rule[r].status = "disabled" => rule'[r].status = "disabled"
    BY <1>2, <1>8 DEF ClearDisabledAutopilotNextRuns, RuleRow
  <2>8. NothingOnNoRule'
    BY <1>2, <2>6, <2>7 DEF NothingOnNoRule, Exists
  <2> QED
    BY <1>2, <1>8, <2>3, <2>5, <2>8, PartsMakeTypeInv
    DEF ClearDisabledAutopilotNextRuns, TriggerHasRule
<1>9. ASSUME editor' = [editor EXCEPT ![e] = AtRest], built' = built
      PROVE  editor' \in [Editors -> EditorRow] /\ HoldsBuilt'
  <2>1. AtRest.mine <= built /\ AtRest.old <= built
    BY <1>2 DEF AtRest
  <2> QED
    BY <1>4, <1>9, <2>1, Constants
<1>10. CASE \E r \in Rules : SyncNextRunAt(e, r)
  <2>1. PICK r \in Rules : SyncNextRunAt(e, r)
    BY <1>10
  <2>2. CASE Exists(r)
    <3>1. [rule[r] EXCEPT !.next = TRUE] \in RuleRow
      BY <1>2 DEF RuleRow
    <3>2. [rule[r] EXCEPT !.next = TRUE].status = rule[r].status
      BY <1>2 DEF RuleRow
    <3>3. PICK row \in RuleRow : rule' = [rule EXCEPT ![r] = row] /\ row.status = rule[r].status
      BY <2>1, <2>2, <3>1, <3>2 DEF SyncNextRunAt
    <3>4. rule' \in [Rules -> RuleRow] /\ NothingOnNoRule'
      BY <2>2, <3>3, RuleStep DEF Exists
    <3>5. [editor[e].list EXCEPT ![r] = NoSpec] \in Entries
      BY <1>2 DEF EditorRow, Entries
    <3>6. [editor[e] EXCEPT !.list = [editor[e].list EXCEPT ![r] = NoSpec]] \in EditorRow
      BY <1>2, <3>5 DEF EditorRow
    <3>7. PICK x \in EditorRow : /\ editor' = [editor EXCEPT ![e] = x]
                                 /\ x.mine = editor[e].mine /\ x.old = editor[e].old
      BY <1>2, <2>1, <2>2, <3>6 DEF SyncNextRunAt, EditorRow
    <3>8. editor' \in [Editors -> EditorRow] /\ HoldsBuilt'
      BY <1>2, <1>4, <2>1, <3>7 DEF SyncNextRunAt
    <3> QED
      BY <1>2, <2>1, <2>2, <3>4, <3>8, PartsMakeTypeInv DEF SyncNextRunAt, TriggerHasRule
  <2>3. CASE ~Exists(r)
    <3>1. editor' \in [Editors -> EditorRow] /\ HoldsBuilt'
      BY <1>9, <2>1, <2>3 DEF SyncNextRunAt
    <3> QED
      BY <1>2, <2>1, <2>3, <3>1, PartsMakeTypeInv
      DEF SyncNextRunAt, TriggerHasRule, NothingOnNoRule, Exists
  <2> QED
    BY <2>2, <2>3
<1>11. CASE ReloadEnds(e) \/ Disconnect(e)
  <2>1. editor' \in [Editors -> EditorRow] /\ HoldsBuilt'
    BY <1>9, <1>11 DEF ReloadEnds, Disconnect
  <2> QED
    BY <1>2, <1>11, <2>1, PartsMakeTypeInv
    DEF ReloadEnds, Disconnect, TriggerHasRule, NothingOnNoRule, Exists
<1> QED
  BY <1>1, <1>3, <1>5, <1>6, <1>7, <1>8, <1>10, <1>11

(* A trigger keeps the types: a count stays within the threshold, and a     *)
(* rule that is gone is not written.                                        *)
LEMMA TriggerTypes == ASSUME TypeInv, Trigger, paused' \subseteq Triggers PROVE TypeInv'
<1>1. PICK t \in Triggers :
        \/ \E r \in Rules : TriggerAutopilot(t, r) \/ \E c \in Crons : CronFires(t, c, r)
        \/ TriggerRuleResult(t) \/ TriggerWithContent(t)
        \/ CreateIssueRunAndRecordSuccess(t) \/ CreateFails(t)
        \/ RecordAutopilotTriggerFailure(t) \/ TriggerCutShort(t)
  BY DEF Trigger
<1>2. /\ UNCHANGED <<cron, current, built, editor, clean>>
      /\ cron \in [Crons -> CronRow] /\ built \in Crons /\ current \in 0..built
      /\ editor \in [Editors -> EditorRow] /\ HoldsBuilt /\ clean \in BOOLEAN
      /\ rule \in [Rules -> RuleRow] /\ NothingOnNoRule
      /\ trigger[t] \in TriggerRow
      /\ trigger[t].pc # "idle" => trigger[t].rule \in Rules
  BY <1>1 DEF TypeInv, AutopilotTypeOK, NothingOnNoRule, TriggerHasRule, TriggerAutopilot,
     CronFires, TriggerBegins, TriggerRuleResult, TriggerWithContent,
     CreateIssueRunAndRecordSuccess, CreateFails, RecordAutopilotTriggerFailure, TriggerCutShort
<1>3. trigger' \in [Triggers -> TriggerRow] /\ TriggerHasRule'
  <2>1. \A pc \in {"reget", "create", "fail"} :
          /\ [trigger[t] EXCEPT !.pc = pc] \in TriggerRow
          /\ [trigger[t] EXCEPT !.pc = pc].rule = trigger[t].rule
    BY <1>2 DEF TriggerRow
  <2>2. \A r \in Rules : [pc |-> "get", rule |-> r] \in TriggerRow
    BY DEF TriggerRow
  <2>3. NoTrigger \in TriggerRow /\ NoTrigger.pc = "idle"
    BY Constants DEF NoTrigger
  <2>4. PICK row \in TriggerRow : /\ trigger' = [trigger EXCEPT ![t] = row]
                                  /\ row.pc = "idle" \/ row.rule \in Rules
    <3>1. CASE \E r \in Rules : TriggerBegins(t, r)
      BY <2>2, <3>1 DEF TriggerBegins
    <3>2. CASE trigger' = [trigger EXCEPT ![t] = NoTrigger]
      BY <2>3, <3>2
    <3>3. CASE /\ trigger[t].pc # "idle"
               /\ \E pc \in {"reget", "create", "fail"} : trigger' = [trigger EXCEPT ![t].pc = pc]
      BY <1>2, <2>1, <3>3
    <3> QED
      BY <1>1, <3>1, <3>2, <3>3 DEF TriggerAutopilot, CronFires, TriggerRuleResult,
         TriggerWithContent, CreateIssueRunAndRecordSuccess, CreateFails,
         RecordAutopilotTriggerFailure, TriggerCutShort
  <2> QED
    BY <2>4, TriggerStep
<1>4. rule' \in [Rules -> RuleRow] /\ NothingOnNoRule'
  <2>1. CASE CreateIssueRunAndRecordSuccess(t)
    <3> DEFINE r == trigger[t].rule
    <3>1. r \in Rules /\ rule[r] \in RuleRow /\ Exists(r)
      BY <1>2, <2>1 DEF CreateIssueRunAndRecordSuccess
    <3>2. /\ [rule[r] EXCEPT !.fails = 0, !.next = TRUE] \in RuleRow
          /\ [rule[r] EXCEPT !.fails = 0, !.next = TRUE].status = rule[r].status
      <4>1. 0 \in 0..Threshold
        BY AutopilotAssumption
      <4> HIDE DEF r
      <4> QED
        BY <3>1, <4>1 DEF RuleRow
    <3>3. PICK row \in RuleRow : /\ rule' = [rule EXCEPT ![r] = row]
                                 /\ row.status = rule[r].status
      BY <1>2, <2>1, <3>1, <3>2 DEF CreateIssueRunAndRecordSuccess
    <3> QED
      BY <3>1, <3>3, RuleStep DEF Exists
  <2>2. CASE RecordAutopilotTriggerFailure(t) /\ rule' # rule
    <3> DEFINE r == trigger[t].rule
               fails == rule[r].fails + 1
    <3>1. r \in Rules /\ rule[r] \in RuleRow /\ Exists(r)
      BY <1>2, <2>2 DEF RecordAutopilotTriggerFailure
    <3>2. (IF AtThreshold(fails) THEN Threshold ELSE fails) \in 0..Threshold
      BY <3>1, AutopilotAssumption DEF AtThreshold, RuleRow
    <3> DEFINE f == IF AtThreshold(fails) THEN Threshold ELSE fails
               s == IF AtThreshold(fails) THEN "disabled" ELSE rule[r].status
               n == rule[r].status = "enabled" /\ ~AtThreshold(fails)
    <3>3. s \in {"enabled", "disabled"} /\ n \in BOOLEAN
      BY <3>1 DEF Exists
    <3>4. /\ rule' = [rule EXCEPT ![r] = [rule[r] EXCEPT !.fails = f, !.status = s, !.next = n]]
          /\ f \in 0..Threshold
      BY <1>2, <2>2, <3>1, <3>2 DEF RecordAutopilotTriggerFailure
    <3> HIDE DEF f, s, n, r
    <3>5. /\ [rule[r] EXCEPT !.fails = f, !.status = s, !.next = n] \in RuleRow
          /\ [rule[r] EXCEPT !.fails = f, !.status = s, !.next = n].status = s
      BY <3>1, <3>3, <3>4 DEF RuleRow
    <3>6. PICK row \in RuleRow : rule' = [rule EXCEPT ![r] = row] /\ row.status = s
      BY <3>4, <3>5
    <3> QED
      BY <3>1, <3>3, <3>6, RuleStep
  <2>3. CASE rule' = rule
    BY <1>2, <2>3 DEF NothingOnNoRule, Exists
  <2> QED
    BY <1>1, <2>1, <2>2, <2>3 DEF TriggerAutopilot, CronFires, TriggerBegins,
       TriggerRuleResult, TriggerWithContent, CreateFails, TriggerCutShort
<1> QED
  BY <1>2, <1>3, <1>4, PartsMakeTypeInv DEF HoldsBuilt

(* Every step keeps the types.                                             *)
LEMMA StepTypes == TypeInv /\ [Next]_vars => TypeInv'
<1> SUFFICES ASSUME TypeInv, [Next]_vars PROVE TypeInv'
  OBVIOUS
<1>1. CASE Next
  <2>1. paused' \subseteq Triggers
    BY <1>1 DEF Next, Remember
  <2>2. CASE \E r \in Rules : DeleteWorkspace(r) \/ SnoozeEnds(r)
    <3>1. PICK r \in Rules : DeleteWorkspace(r) \/ SnoozeEnds(r)
      BY <2>2
    <3>2. rule[r] \in RuleRow /\ NothingOnNoRule
      BY DEF TypeInv, AutopilotTypeOK, NothingOnNoRule
    <3>3. ASSUME DeleteWorkspace(r) PROVE rule' \in [Rules -> RuleRow] /\ NothingOnNoRule'
      BY <3>3, GoneStep DEF DeleteWorkspace
    <3>4. ASSUME SnoozeEnds(r) PROVE rule' \in [Rules -> RuleRow] /\ NothingOnNoRule'
      <4>1. /\ [rule[r] EXCEPT !.snoozed = FALSE] \in RuleRow
            /\ [rule[r] EXCEPT !.snoozed = FALSE].status = rule[r].status
            /\ [rule[r] EXCEPT !.snoozed = FALSE].fails = rule[r].fails
            /\ [rule[r] EXCEPT !.snoozed = FALSE].next = rule[r].next
        BY <3>2 DEF RuleRow
      <4>2. PICK row \in RuleRow :
              /\ rule' = [rule EXCEPT ![r] = row]
              /\ row.status = rule[r].status
              /\ row.fails = rule[r].fails
              /\ row.next = rule[r].next
        BY <3>4, <4>1 DEF SnoozeEnds
      <4> QED
        BY <4>2 DEF TypeInv, AutopilotTypeOK, NothingOnNoRule, Exists
    <3>5. rule' \in [Rules -> RuleRow] /\ NothingOnNoRule'
      BY <3>1, <3>3, <3>4
    <3> QED
      BY <2>1, <3>1, <3>5, PartsMakeTypeInv
      DEF DeleteWorkspace, SnoozeEnds, TypeInv, AutopilotTypeOK, HoldsBuilt, TriggerHasRule
  <2> QED
    BY <1>1, <2>1, <2>2, EditTypes, ReloadTypes, TriggerTypes DEF Next
<1>2. CASE UNCHANGED vars
  BY <1>2 DEF vars, TypeInv, AutopilotTypeOK, HoldsBuilt, TriggerHasRule, Exists
<1> QED
  BY <1>1, <1>2

(* Every variable keeps its type, and no rule that is not there is written. *)
THEOREM AutopilotTypeCorrect == Spec => []AutopilotTypeOK
<1>1. Spec => []TypeInv
  BY InitTypes, StepTypes, PTL DEF Spec
<1>2. TypeInv => AutopilotTypeOK
  BY DEF TypeInv
<1> QED
  BY <1>1, <1>2, PTL

----------------------------------------------------------------------------
(* A trigger reaches the create only past the second check, and the rule is *)
(* as that check saw it (TriggerRuleResult, TriggerWithContent).            *)
LEMMA StepQuiet == TypeInv /\ PausedRuleIsQuiet /\ [Next]_vars => PausedRuleIsQuiet'
<1> SUFFICES ASSUME TypeInv, PausedRuleIsQuiet, [Next]_vars,
                    NEW t \in paused', trigger'[t].pc = "create"
             PROVE  FALSE
  BY DEF PausedRuleIsQuiet
<1>1. CASE Next
  <2>1. /\ t \in Triggers /\ trigger \in [Triggers -> TriggerRow]
        /\ trigger[t].pc = "idle" \/ t \in paused
        /\ \/ rule'[trigger'[t].rule].status # "enabled"
           \/ rule'[trigger'[t].rule].snoozed
    BY <1>1 DEF Next, Remember, TypeInv, AutopilotTypeOK
  <2>2. trigger[t].pc # "create"
    BY <2>1 DEF PausedRuleIsQuiet
  <2>3. CASE TriggerWithContent(t) /\ ~Refuses(trigger[t].rule)
    BY <2>1, <2>3 DEF TriggerWithContent, Refuses, TriggerRow
  <2>4. CASE trigger' = trigger
    BY <2>2, <2>4
  <2>5. CASE Trigger
    <3>1. PICK u \in Triggers :
            \/ \E r \in Rules : TriggerAutopilot(u, r) \/ \E c \in Crons : CronFires(u, c, r)
            \/ TriggerRuleResult(u) \/ TriggerWithContent(u)
            \/ CreateIssueRunAndRecordSuccess(u) \/ CreateFails(u)
            \/ RecordAutopilotTriggerFailure(u) \/ TriggerCutShort(u)
      BY <2>5 DEF Trigger
    <3>2. CASE TriggerWithContent(u)
      BY <2>1, <2>2, <2>3, <3>2 DEF TriggerWithContent, NoTrigger, TriggerRow
    <3>3. CASE TriggerRuleResult(u)
      BY <2>1, <2>2, <3>3 DEF TriggerRuleResult, NoTrigger, TriggerRow
    <3>4. CASE \E r \in Rules : TriggerBegins(u, r)
      BY <2>1, <2>2, <3>4 DEF TriggerBegins
    <3>5. CASE CreateIssueRunAndRecordSuccess(u) \/ CreateFails(u)
      BY <2>1, <2>2, <3>5 DEF CreateIssueRunAndRecordSuccess, CreateFails, NoTrigger, TriggerRow
    <3>6. CASE RecordAutopilotTriggerFailure(u) \/ TriggerCutShort(u)
      BY <2>1, <2>2, <3>6 DEF RecordAutopilotTriggerFailure, TriggerCutShort, NoTrigger
    <3> QED
      BY <3>1, <3>2, <3>3, <3>4, <3>5, <3>6 DEF TriggerAutopilot, CronFires
  <2> QED
    BY <1>1, <2>4, <2>5 DEF Next, Edit, CreateAutopilotRule, UpdateAutopilotRule,
       DeleteAutopilotRule, GoesOn, Reload, ReloadList, ReloadSwap, ReloadStop, ReloadStart,
       ClearDisabledAutopilotNextRuns, SyncNextRunAt, ReloadEnds, Disconnect,
       DeleteWorkspace, SnoozeEnds
<1>2. CASE UNCHANGED vars
  BY <1>2 DEF vars, PausedRuleIsQuiet
<1> QED
  BY <1>1, <1>2

(* A rule disabled, snoozed or deleted before a trigger begins, and ever    *)
(* since, gets no issue from it, however many reloads race with the trigger *)
(* and whichever cron instance fired it.                                    *)
THEOREM PausedRuleStaysQuiet == Spec => []PausedRuleIsQuiet
<1>1. Init => PausedRuleIsQuiet
  BY DEF Init, PausedRuleIsQuiet
<1>2. Spec => []TypeInv
  BY InitTypes, StepTypes, PTL DEF Spec
<1> QED
  BY <1>1, <1>2, StepQuiet, PTL DEF Spec

----------------------------------------------------------------------------
(* What a step does to the status and the failures of a rule, requests      *)
(* aside: it leaves both alone, or the row comes out with fewer than        *)
(* Threshold failures, or not enabled.                                      *)
LEMMA TriggerFails ==
  ASSUME TypeInv, Trigger, NEW r \in Rules
  PROVE  \/ rule'[r].status = rule[r].status /\ rule'[r].fails = rule[r].fails
         \/ rule'[r].status = "disabled"
         \/ rule'[r].fails < Threshold
<1>1. PICK t \in Triggers :
        \/ CreateIssueRunAndRecordSuccess(t) \/ RecordAutopilotTriggerFailure(t)
        \/ rule' = rule
  BY DEF Trigger, TriggerAutopilot, CronFires, TriggerBegins, TriggerRuleResult,
     TriggerWithContent, CreateFails, TriggerCutShort
<1>2. rule \in [Rules -> RuleRow] /\ rule[r] \in RuleRow
  BY DEF TypeInv, AutopilotTypeOK
<1>3. trigger[t].rule # r => rule'[r] = rule[r]
  BY <1>1, <1>2 DEF CreateIssueRunAndRecordSuccess, RecordAutopilotTriggerFailure
<1>4. CASE CreateIssueRunAndRecordSuccess(t) /\ trigger[t].rule = r
  <2>1. rule'[r].fails = 0
    BY <1>2, <1>4 DEF CreateIssueRunAndRecordSuccess, RuleRow
  <2> QED
    BY <2>1, AutopilotAssumption
<1>5. CASE RecordAutopilotTriggerFailure(t) /\ trigger[t].rule = r /\ Exists(r)
  <2> DEFINE fails == rule[r].fails + 1
  <2>1. CASE AtThreshold(fails)
    <3>1. rule' = [rule EXCEPT ![r] = [rule[r] EXCEPT
                !.fails = Threshold, !.status = "disabled", !.next = FALSE]]
      BY <1>5, <2>1 DEF RecordAutopilotTriggerFailure
    <3>2. rule'[r].status = "disabled"
      BY <1>2, <3>1 DEF RuleRow
    <3> QED
      BY <3>2
  <2>2. CASE ~AtThreshold(fails)
    <3> DEFINE n == rule[r].status = "enabled"
    <3>1. rule' = [rule EXCEPT ![r] = [rule[r] EXCEPT
                !.fails = fails, !.status = rule[r].status, !.next = n]]
      BY <1>5, <2>2 DEF RecordAutopilotTriggerFailure
    <3> HIDE DEF n
    <3>2. rule'[r].fails = fails
      BY <1>2, <3>1 DEF RuleRow
    <3> QED
      BY <1>2, <2>2, <3>2, AutopilotAssumption DEF AtThreshold, RuleRow
  <2> QED
    BY <2>1, <2>2
<1> QED
  BY <1>1, <1>3, <1>4, <1>5 DEF RecordAutopilotTriggerFailure

(* A reload only writes next_run_at: it neither enables nor counts.         *)
LEMMA ReloadFails ==
  ASSUME TypeInv, Reload, NEW r \in Rules
  PROVE  rule'[r].status = rule[r].status /\ rule'[r].fails = rule[r].fails
<1>1. rule \in [Rules -> RuleRow] /\ rule[r] \in RuleRow
  BY DEF TypeInv, AutopilotTypeOK
<1>2. PICK e \in Editors : \/ rule' = rule
                          \/ ClearDisabledAutopilotNextRuns(e)
                          \/ \E q \in Rules : SyncNextRunAt(e, q)
  BY DEF Reload, ReloadList, ReloadSwap, ReloadStop, ReloadStart, ReloadEnds, Disconnect
<1>3. CASE ClearDisabledAutopilotNextRuns(e)
  BY <1>1, <1>3 DEF ClearDisabledAutopilotNextRuns, RuleRow
<1>4. CASE \E q \in Rules : SyncNextRunAt(e, q)
  BY <1>1, <1>4 DEF SyncNextRunAt, RuleRow
<1> QED
  BY <1>2, <1>3, <1>4

(* Concurrent triggers, counts and resets never leave a rule enabled at the *)
(* threshold: only an edit by a user does.                                  *)
THEOREM FailingRuleGetsDisabled == Spec => FailingRuleIsDisabled
<1> DEFINE Allowed ==
      \A r \in Rules :
        rule'[r].status = "enabled" /\ rule'[r].fails >= Threshold =>
          \/ rule[r].status = "enabled" /\ rule[r].fails = rule'[r].fails
          \/ \E e \in Editors : editor[e].pc = "idle" /\ editor'[e].pc = "list"
<1>1. TypeInv /\ [Next]_vars => [Allowed]_vars
  <2> SUFFICES ASSUME TypeInv, Next PROVE Allowed
    OBVIOUS
  <2>1. TypeInv'
    BY StepTypes
  <2>2. \A r \in Rules : rule[r].fails \in Nat /\ rule'[r].fails \in Nat
    BY <2>1, AutopilotAssumption DEF TypeInv, AutopilotTypeOK, RuleRow
  <2>3. CASE Edit
    <3>1. PICK e \in Editors : GoesOn(e)
      BY <2>3 DEF Edit, CreateAutopilotRule, UpdateAutopilotRule, DeleteAutopilotRule
    <3>2. editor[e].pc = "idle" /\ editor'[e].pc = "list"
      BY <3>1 DEF GoesOn, TypeInv, AutopilotTypeOK, EditorRow
    <3> QED
      BY <3>2
  <2>4. CASE Reload
    BY <2>4, ReloadFails
  <2>5. CASE Trigger
    BY <2>2, <2>5, TriggerFails, AutopilotAssumption
  <2>6. CASE \E r \in Rules : DeleteWorkspace(r) \/ SnoozeEnds(r)
    BY <2>6 DEF DeleteWorkspace, SnoozeEnds, Gone, NoRule, TypeInv, AutopilotTypeOK, RuleRow
  <2> QED
    BY <2>3, <2>4, <2>5, <2>6 DEF Next
<1>2. Spec => []TypeInv
  BY InitTypes, StepTypes, PTL DEF Spec
<1> QED
  BY <1>1, <1>2, PTL DEF Spec, FailingRuleIsDisabled

----------------------------------------------------------------------------
(* As long as reloads have kept apart: which instance runs at each step of  *)
(* the one in progress.                                                     *)
OnlyRuns(x) == \A c \in Crons : cron[c].state = "running" <=> c = x

OneReload ==
  /\ \A e, f \in Editors : Reloading(e) /\ Reloading(f) => e = f
  /\ (\A e \in Editors : ~Reloading(e)) => OnlyRuns(current)
  /\ \A e \in Editors :
       /\ editor[e].pc = "swap" => OnlyRuns(current)
       /\ editor[e].pc = "stop" => OnlyRuns(editor[e].old) /\ current = editor[e].mine
       /\ editor[e].pc = "start" => /\ \A c \in Crons : cron[c].state # "running"
                                   /\ current = editor[e].mine
       /\ editor[e].pc \in {"clear", "sync"} => OnlyRuns(current)

ReloadInv == clean => OneReload

(* What each step of a reload does to its own request, and to no other.     *)
LEMMA ReloadMoves ==
  ASSUME TypeInv, NEW e \in Editors
  PROVE  /\ ReloadList(e) => /\ editor[e].pc = "list" /\ editor'[e].pc = "swap"
                             /\ editor'[e].mine = built + 1 /\ editor'[e].list = EnabledRules
         /\ ReloadSwap(e) => /\ editor[e].pc = "swap" /\ editor'[e].pc = "stop"
                             /\ editor'[e].mine = editor[e].mine /\ editor'[e].old = current
                             /\ editor'[e].list = editor[e].list
         /\ ReloadStop(e) => /\ editor[e].pc = "stop" /\ editor'[e].pc = "start"
                             /\ editor'[e].mine = editor[e].mine
                             /\ editor'[e].list = editor[e].list
         /\ ReloadStart(e) => /\ editor[e].pc = "start" /\ editor'[e].pc = "clear"
                              /\ editor'[e].list = editor[e].list
         /\ ClearDisabledAutopilotNextRuns(e) =>
              /\ editor[e].pc = "clear" /\ editor'[e].pc = "sync"
              /\ editor'[e].list = editor[e].list
         /\ ReloadEnds(e) => /\ editor[e].pc = "sync" /\ editor'[e].pc = "idle"
                             /\ editor[e].list = NoEntries
         /\ \A r \in Rules : SyncNextRunAt(e, r) /\ clean' =>
              /\ editor[e].pc = "sync" /\ editor'[e].pc = "sync"
              /\ editor'[e].list = [editor[e].list EXCEPT ![r] = NoSpec]
         /\ (\/ ReloadList(e) \/ ReloadSwap(e) \/ ReloadStop(e) \/ ReloadStart(e)
             \/ ClearDisabledAutopilotNextRuns(e) \/ ReloadEnds(e)
             \/ \E r \in Rules : SyncNextRunAt(e, r))
            => \A x \in Editors : x # e => editor'[x] = editor[x]
<1>1. editor \in [Editors -> EditorRow] /\ editor[e] \in EditorRow
  BY DEF TypeInv, AutopilotTypeOK
<1>2. ReloadList(e) => /\ editor[e].pc = "list" /\ editor'[e].pc = "swap"
                      /\ editor'[e].mine = built + 1 /\ editor'[e].list = EnabledRules
  BY <1>1 DEF ReloadList
<1>3. ReloadSwap(e) => /\ editor[e].pc = "swap" /\ editor'[e].pc = "stop"
                      /\ editor'[e].mine = editor[e].mine /\ editor'[e].old = current
                      /\ editor'[e].list = editor[e].list
  BY <1>1 DEF ReloadSwap, EditorRow
<1>4. ReloadStop(e) => /\ editor[e].pc = "stop" /\ editor'[e].pc = "start"
                      /\ editor'[e].mine = editor[e].mine
                      /\ editor'[e].list = editor[e].list
  BY <1>1 DEF ReloadStop, EditorRow
<1>5. ReloadStart(e) => /\ editor[e].pc = "start" /\ editor'[e].pc = "clear"
                       /\ editor'[e].list = editor[e].list
  BY <1>1 DEF ReloadStart, EditorRow
<1>6. ClearDisabledAutopilotNextRuns(e) =>
        /\ editor[e].pc = "clear" /\ editor'[e].pc = "sync"
        /\ editor'[e].list = editor[e].list
  BY <1>1 DEF ClearDisabledAutopilotNextRuns, EditorRow
<1>7. ReloadEnds(e) => /\ editor[e].pc = "sync" /\ editor'[e].pc = "idle"
                      /\ editor[e].list = NoEntries
  BY <1>1 DEF ReloadEnds, AtRest
<1>8. \A r \in Rules : SyncNextRunAt(e, r) /\ clean' =>
        /\ editor[e].pc = "sync" /\ editor'[e].pc = "sync"
        /\ editor'[e].list = [editor[e].list EXCEPT ![r] = NoSpec]
  BY <1>1 DEF SyncNextRunAt, EditorRow
<1>9. (\/ ReloadList(e) \/ ReloadSwap(e) \/ ReloadStop(e) \/ ReloadStart(e)
       \/ ClearDisabledAutopilotNextRuns(e) \/ ReloadEnds(e)
       \/ \E r \in Rules : SyncNextRunAt(e, r))
      => \A x \in Editors : x # e => editor'[x] = editor[x]
  BY <1>1 DEF ReloadList, ReloadSwap, ReloadStop, ReloadStart, ClearDisabledAutopilotNextRuns,
     ReloadEnds, SyncNextRunAt
<1> QED
  BY <1>2, <1>3, <1>4, <1>5, <1>6, <1>7, <1>8, <1>9

(* The states of the instances: only Stop and Start change one.             *)
LEMMA CronMoves ==
  ASSUME TypeInv, NEW e \in Editors
  PROVE  /\ ReloadList(e) => \A c \in Crons : cron'[c].state = cron[c].state
         /\ ReloadStop(e) => \A c \in Crons :
              cron'[c].state = "running" <=> cron[c].state = "running" /\ c # editor[e].old
         /\ ReloadStart(e) => \A c \in Crons :
              cron'[c].state = "running" <=> cron[c].state = "running" \/ c = editor[e].mine
         /\ ReloadStop(e) \/ ReloadStart(e) =>
              \A c \in Crons : cron'[c].entries = cron[c].entries
         /\ ReloadList(e) => cron'[built + 1].entries = EnabledRules
<1>1. cron \in [Crons -> CronRow] /\ editor[e] \in EditorRow
  BY DEF TypeInv, AutopilotTypeOK
<1>2. editor[e].old \in Crons /\ editor[e].mine \in Crons
  BY <1>1 DEF EditorRow
<1>3. ReloadList(e) => built + 1 \in Crons
  BY AutopilotAssumption DEF ReloadList, TypeInv, AutopilotTypeOK, Crons
<1>4. ReloadList(e) => \A c \in Crons : cron'[c].state = cron[c].state
  BY <1>1, <1>3 DEF ReloadList, CronRow
<1>5. ReloadStop(e) => \A c \in Crons :
        cron'[c].state = "running" <=> cron[c].state = "running" /\ c # editor[e].old
  BY <1>1, <1>2 DEF ReloadStop, CronRow
<1>6. ReloadStart(e) => \A c \in Crons :
        cron'[c].state = "running" <=> cron[c].state = "running" \/ c = editor[e].mine
  BY <1>1, <1>2 DEF ReloadStart, CronRow
<1>7. ReloadStop(e) \/ ReloadStart(e) => \A c \in Crons : cron'[c].entries = cron[c].entries
  BY <1>1, <1>2 DEF ReloadStop, ReloadStart, CronRow
<1>8. ReloadList(e) => cron'[built + 1].entries = EnabledRules
  BY <1>1, <1>3 DEF ReloadList, CronRow
<1> QED
  BY <1>4, <1>5, <1>6, <1>7, <1>8

(* No step makes reloads that have overlapped, or been cut short, clean.    *)
LEMMA CleanOnce == Next /\ clean' => clean
  BY DEF Next, Edit, CreateAutopilotRule, UpdateAutopilotRule, DeleteAutopilotRule, GoesOn,
     Reload, ReloadList, ReloadSwap, ReloadStop, ReloadStart, ClearDisabledAutopilotNextRuns,
     SyncNextRunAt, ReloadEnds, Disconnect, Trigger, TriggerAutopilot, CronFires,
     TriggerBegins, TriggerRuleResult, TriggerWithContent, CreateIssueRunAndRecordSuccess,
     CreateFails, RecordAutopilotTriggerFailure, TriggerCutShort, DeleteWorkspace, SnoozeEnds

(* A reload that no other overlaps hands over from one instance to the next *)
(* (the swap, Stop and Start of CronScheduler.Reload).                      *)
LEMMA StepReload == TypeInv /\ ReloadInv /\ [Next]_vars => ReloadInv'
<1> SUFFICES ASSUME TypeInv, ReloadInv, [Next]_vars, clean' PROVE OneReload'
  BY DEF ReloadInv
<1>1. CASE Next
  <2>1. clean /\ OneReload
    BY <1>1, CleanOnce DEF ReloadInv
  <2>2. CASE UNCHANGED <<cron, current, editor>>
    BY <2>1, <2>2 DEF OneReload, OnlyRuns, Reloading
  <2>3. CASE Edit
    <3>1. PICK e \in Editors : GoesOn(e)
      BY <2>3 DEF Edit, CreateAutopilotRule, UpdateAutopilotRule, DeleteAutopilotRule
    <3>2. /\ editor[e].pc = "idle" /\ editor'[e].pc = "list"
          /\ \A x \in Editors : x # e => editor'[x] = editor[x]
      BY <3>1 DEF GoesOn, TypeInv, AutopilotTypeOK, EditorRow
    <3>3. UNCHANGED <<cron, current>>
      BY <3>1 DEF GoesOn
    <3> QED
      BY <2>1, <3>2, <3>3 DEF OneReload, OnlyRuns, Reloading
  <2>4. CASE Reload
    <3>1. PICK e \in Editors :
            \/ ReloadList(e) \/ ReloadSwap(e) \/ ReloadStop(e) \/ ReloadStart(e)
            \/ ClearDisabledAutopilotNextRuns(e)
            \/ \E r \in Rules : SyncNextRunAt(e, r)
            \/ ReloadEnds(e)
      BY <2>4 DEF Reload, Disconnect
    <3>2. \A x \in Editors : x # e => editor'[x] = editor[x]
      BY <3>1, ReloadMoves
    <3>3. CASE ReloadList(e)
      <4>1. editor[e].pc = "list" /\ editor'[e].pc = "swap"
        BY <3>3, ReloadMoves
      <4>2. \A x \in Editors : ~Reloading(x)
        BY <3>3 DEF ReloadList
      <4>3. current' = current /\ \A c \in Crons : cron'[c].state = cron[c].state
        BY <3>3, CronMoves DEF ReloadList
      <4> QED
        BY <2>1, <3>2, <4>1, <4>2, <4>3 DEF OneReload, OnlyRuns, Reloading
    <3>4. Reloading(e) => \A x \in Editors : x # e => ~Reloading(x)
      BY <2>1 DEF OneReload
    <3>5. CASE ReloadSwap(e)
      <4>1. /\ editor[e].pc = "swap" /\ editor'[e].pc = "stop"
            /\ editor'[e].mine = editor[e].mine /\ editor'[e].old = current
        BY <3>5, ReloadMoves
      <4>2. cron' = cron /\ current' = editor[e].mine
        BY <3>5 DEF ReloadSwap
      <4>3. OnlyRuns(current)
        BY <2>1, <4>1 DEF OneReload
      <4> QED
        BY <3>2, <3>4, <4>1, <4>2, <4>3 DEF OneReload, OnlyRuns, Reloading
    <3>6. CASE ReloadStop(e)
      <4>1. /\ editor[e].pc = "stop" /\ editor'[e].pc = "start"
            /\ editor'[e].mine = editor[e].mine
        BY <3>6, ReloadMoves
      <4>2. OnlyRuns(editor[e].old) /\ current = editor[e].mine /\ current' = current
        BY <2>1, <3>6, <4>1 DEF OneReload, ReloadStop
      <4>3. \A c \in Crons : cron'[c].state # "running"
        BY <3>6, <4>2, CronMoves DEF OnlyRuns
      <4> QED
        BY <3>2, <3>4, <4>1, <4>2, <4>3 DEF OneReload, OnlyRuns, Reloading
    <3>7. CASE ReloadStart(e)
      <4>1. editor[e].pc = "start" /\ editor'[e].pc = "clear"
        BY <3>7, ReloadMoves
      <4>2. /\ \A c \in Crons : cron[c].state # "running"
            /\ current = editor[e].mine /\ current' = current
        BY <2>1, <3>7, <4>1 DEF OneReload, ReloadStart
      <4>3. OnlyRuns(current)'
        BY <3>7, <4>2, CronMoves DEF OnlyRuns
      <4> QED
        BY <3>2, <3>4, <4>1, <4>3 DEF OneReload, Reloading
    <3>8. CASE \/ ClearDisabledAutopilotNextRuns(e)
               \/ \E r \in Rules : SyncNextRunAt(e, r)
               \/ ReloadEnds(e)
      <4>1. editor[e].pc \in {"clear", "sync"} /\ editor'[e].pc \in {"idle", "sync"}
        BY <3>8, ReloadMoves
      <4>2. OnlyRuns(current) /\ UNCHANGED <<cron, current>>
        BY <2>1, <3>8, <4>1
        DEF OneReload, ClearDisabledAutopilotNextRuns, SyncNextRunAt, ReloadEnds
      <4>3. OnlyRuns(current)'
        BY <4>2 DEF OnlyRuns
      <4> QED
        BY <3>2, <3>4, <4>1, <4>3 DEF OneReload, Reloading
    <3> QED
      BY <3>1, <3>3, <3>5, <3>6, <3>7, <3>8
  <2> QED
    BY <1>1, <2>2, <2>3, <2>4 DEF Next, Trigger, TriggerAutopilot, CronFires,
       TriggerBegins, TriggerRuleResult, TriggerWithContent, CreateIssueRunAndRecordSuccess,
       CreateFails, RecordAutopilotTriggerFailure, TriggerCutShort, DeleteWorkspace, SnoozeEnds
<1>2. CASE UNCHANGED vars
  BY <1>2 DEF vars, ReloadInv, OneReload, OnlyRuns, Reloading
<1> QED
  BY <1>1, <1>2

(* After reloads that kept apart, for any number of them, exactly the       *)
(* scheduler's own instance runs.                                           *)
THEOREM OneCronStaysRunning == Spec => []OneCronRuns
<1>1. Init => ReloadInv
  BY Constants DEF Init, ReloadInv, OneReload, OnlyRuns, Reloading, AtRest
<1>2. Spec => []TypeInv
  BY InitTypes, StepTypes, PTL DEF Spec
<1>3. TypeInv /\ ReloadInv => OneCronRuns
  <2> SUFFICES ASSUME TypeInv, OneReload, Quiet
               PROVE  {c \in Crons : cron[c].state = "running"} = {current}
    BY DEF ReloadInv, OneCronRuns
  <2>1. OnlyRuns(current)
    BY DEF OneReload, Quiet, Reloading
  <2>2. current \in Crons
    BY AutopilotAssumption DEF TypeInv, AutopilotTypeOK, Crons
  <2> QED
    BY <2>1, <2>2 DEF OnlyRuns
<1> QED
  BY <1>1, <1>2, <1>3, StepReload, PTL DEF Spec

----------------------------------------------------------------------------
(* Where the entry and the next_run_at of an enabled rule come from, once   *)
(* no edit waits for its reload.                                            *)
Waiting == \E e \in Editors : editor[e].pc = "list"

RulesHaveSpecs == \A r \in Rules : rule[r].status = "enabled" => rule[r].spec # NoSpec

Due(r) ==
  /\ (\A e \in Editors : ~Reloading(e)) => cron[current].entries[r] = rule[r].spec /\ rule[r].next
  /\ \A e \in Editors :
       /\ editor[e].pc = "swap" => cron[editor[e].mine].entries[r] = rule[r].spec
       /\ editor[e].pc \in {"swap", "stop", "start", "clear"} =>
            editor[e].list[r] = rule[r].spec
       /\ editor[e].pc \in {"stop", "start", "clear", "sync"} =>
            cron[current].entries[r] = rule[r].spec
       /\ editor[e].pc = "sync" => rule[r].next \/ editor[e].list[r] # NoSpec

ScheduleInv ==
  /\ RulesHaveSpecs
  /\ clean /\ ~Waiting => \A r \in Rules : rule[r].status = "enabled" => Due(r)

(* Only an edit enables a rule or changes its expression, and an enabled    *)
(* rule that has a next_run_at keeps one.                                   *)
LEMMA EnabledRuleKeeps ==
  ASSUME TypeInv, Next, ~Edit, NEW r \in Rules, rule'[r].status = "enabled"
  PROVE  /\ rule[r].status = "enabled" /\ rule'[r].spec = rule[r].spec
         /\ rule[r].next => rule'[r].next
<1>1. rule \in [Rules -> RuleRow] /\ rule[r] \in RuleRow
  BY DEF TypeInv, AutopilotTypeOK
<1>2. \/ rule' = rule
      \/ \E t \in Triggers : CreateIssueRunAndRecordSuccess(t)
      \/ \E t \in Triggers : RecordAutopilotTriggerFailure(t)
      \/ \E e \in Editors : ClearDisabledAutopilotNextRuns(e)
      \/ \E e \in Editors, q \in Rules : SyncNextRunAt(e, q)
      \/ \E q \in Rules : DeleteWorkspace(q)
      \/ \E q \in Rules : SnoozeEnds(q)
  BY DEF Next, Trigger, TriggerAutopilot, CronFires, TriggerBegins, TriggerRuleResult,
     TriggerWithContent, CreateFails, TriggerCutShort, Reload, ReloadList, ReloadSwap,
     ReloadStop, ReloadStart, ReloadEnds, Disconnect
<1>3. CASE \E t \in Triggers : CreateIssueRunAndRecordSuccess(t)
  <2>1. PICK t \in Triggers : CreateIssueRunAndRecordSuccess(t)
    BY <1>3
  <2> DEFINE q == trigger[t].rule
  <2>2. rule' = [rule EXCEPT ![q] = [rule[q] EXCEPT !.fails = 0, !.next = TRUE]]
    BY <2>1 DEF CreateIssueRunAndRecordSuccess
  <2> HIDE DEF q
  <2>3. CASE q = r
    BY <1>1, <2>2, <2>3 DEF RuleRow
  <2>4. CASE q # r
    BY <1>1, <2>2, <2>4
  <2> QED
    BY <2>3, <2>4
<1>4. CASE \E t \in Triggers : RecordAutopilotTriggerFailure(t)
  <2>1. PICK t \in Triggers : RecordAutopilotTriggerFailure(t)
    BY <1>4
  <2> DEFINE q == trigger[t].rule
             fails == rule[q].fails + 1
  <2>2. CASE q = r /\ Exists(q) /\ AtThreshold(fails)
    <3>1. rule' = [rule EXCEPT ![q] = [rule[q] EXCEPT
                     !.fails = Threshold, !.status = "disabled", !.next = FALSE]]
      BY <2>1, <2>2 DEF RecordAutopilotTriggerFailure
    <3>2. rule'[r].status = "disabled"
      BY <1>1, <2>2, <3>1 DEF RuleRow
    <3> QED
      BY <3>2
  <2>3. CASE q = r /\ Exists(q) /\ ~AtThreshold(fails)
    <3> DEFINE n == rule[r].status = "enabled"
    <3>1. rule' = [rule EXCEPT ![r] = [rule[r] EXCEPT
                     !.fails = fails, !.status = rule[r].status, !.next = n]]
      BY <2>1, <2>3 DEF RecordAutopilotTriggerFailure
    <3> HIDE DEF n
    <3>2. rule'[r].status = rule[r].status /\ rule'[r].spec = rule[r].spec /\ rule'[r].next = n
      BY <1>1, <3>1 DEF RuleRow
    <3> QED
      BY <3>2 DEF n
  <2>4. CASE q # r \/ ~Exists(q)
    BY <1>1, <2>1, <2>4 DEF RecordAutopilotTriggerFailure
  <2> QED
    BY <2>2, <2>3, <2>4
<1>5. CASE \E e \in Editors : ClearDisabledAutopilotNextRuns(e)
  <2>1. rule[r].status = "disabled" => rule'[r].status = "disabled"
    BY <1>1, <1>5 DEF ClearDisabledAutopilotNextRuns, RuleRow
  <2>2. rule[r].status # "disabled" => rule'[r] = rule[r]
    BY <1>1, <1>5 DEF ClearDisabledAutopilotNextRuns
  <2> QED
    BY <2>1, <2>2
<1>6. CASE \E e \in Editors, q \in Rules : SyncNextRunAt(e, q)
  <2>1. PICK q \in Rules : rule' = rule \/ rule' = [rule EXCEPT ![q].next = TRUE]
    BY <1>6 DEF SyncNextRunAt
  <2>2. rule'[r].status = rule[r].status /\ rule'[r].spec = rule[r].spec
    BY <1>1, <2>1 DEF RuleRow
  <2>3. rule'[r].next = rule[r].next \/ rule'[r].next = TRUE
    BY <1>1, <2>1 DEF RuleRow
  <2> QED
    BY <2>2, <2>3
<1>7. CASE \E q \in Rules : DeleteWorkspace(q)
  <2>1. PICK q \in Rules : rule' = [rule EXCEPT ![q] = Gone]
    BY <1>7 DEF DeleteWorkspace
  <2>2. Gone.status = "deleted"
    BY DEF Gone, NoRule
  <2>3. rule'[r] = rule[r]
    BY <1>1, <2>1, <2>2
  <2> QED
    BY <2>3
<1>8. CASE \E q \in Rules : SnoozeEnds(q)
  <2>1. PICK q \in Rules : rule' = [rule EXCEPT ![q].snoozed = FALSE]
    BY <1>8 DEF SnoozeEnds
  <2>2. /\ rule'[r].status = rule[r].status /\ rule'[r].spec = rule[r].spec
        /\ rule'[r].next = rule[r].next
    BY <1>1, <2>1 DEF RuleRow
  <2> QED
    BY <2>2
<1> QED
  BY <1>2, <1>3, <1>4, <1>5, <1>6, <1>7, <1>8

(* A rule that is enabled has an expression: every edit writes one.         *)
LEMMA StepSpecs == ASSUME TypeInv, RulesHaveSpecs, Next PROVE RulesHaveSpecs'
<1>1. CASE Edit
  <2>1. PICK e \in Editors, r \in Rules :
          \/ \E status \in {"enabled", "disabled"}, spec \in Specs, snoozed \in BOOLEAN :
               \/ CreateAutopilotRule(e, r, status, spec, snoozed)
               \/ UpdateAutopilotRule(e, r, status, spec, snoozed)
          \/ DeleteAutopilotRule(e, r)
    BY <1>1 DEF Edit
  <2>2. rule \in [Rules -> RuleRow] /\ rule[r] \in RuleRow
    BY DEF TypeInv, AutopilotTypeOK
  <2>3. \A q \in Rules : q # r => rule'[q] = rule[q]
    BY <2>1, <2>2 DEF CreateAutopilotRule, UpdateAutopilotRule, DeleteAutopilotRule
  <2>4. CASE DeleteAutopilotRule(e, r)
    <3>1. rule'[r].status = "deleted"
      BY <2>2, <2>4 DEF DeleteAutopilotRule, Gone, NoRule
    <3> QED
      BY <2>3, <3>1 DEF RulesHaveSpecs
  <2>5. CASE \E status \in {"enabled", "disabled"}, spec \in Specs, snoozed \in BOOLEAN :
               \/ CreateAutopilotRule(e, r, status, spec, snoozed)
               \/ UpdateAutopilotRule(e, r, status, spec, snoozed)
    <3>1. PICK base \in RuleRow, status \in {"enabled", "disabled"}, spec \in Specs,
               snoozed \in BOOLEAN :
            rule' = [rule EXCEPT ![r] = [base EXCEPT !.status = status, !.spec = spec,
                                                     !.snoozed = snoozed]]
      BY <2>2, <2>5, Constants DEF CreateAutopilotRule, UpdateAutopilotRule
    <3>2. rule'[r].spec = spec
      BY <2>2, <3>1 DEF RuleRow
    <3> QED
      BY <2>3, <3>2, AutopilotAssumption DEF RulesHaveSpecs
  <2> QED
    BY <2>1, <2>4, <2>5
<1>2. CASE ~Edit
  BY <1>2, EnabledRuleKeeps DEF RulesHaveSpecs
<1> QED
  BY <1>1, <1>2

(* An enabled rule stays on its way into the schedule over a step that      *)
(* leaves scheduler and requests alone, or moves one reload on.             *)
LEMMA StepSchedule == TypeInv /\ ReloadInv /\ ScheduleInv /\ [Next]_vars => ScheduleInv'
<1> SUFFICES ASSUME TypeInv, ReloadInv, ScheduleInv, [Next]_vars PROVE ScheduleInv'
  OBVIOUS
<1>1. CASE Next
  <2>1. RulesHaveSpecs'
    BY <1>1, StepSpecs DEF ScheduleInv
  <2> SUFFICES ASSUME clean', ~Waiting', NEW r \in Rules, rule'[r].status = "enabled"
               PROVE  Due(r)'
    BY <2>1 DEF ScheduleInv
  <2>2. ~Edit
    <3>1. ASSUME NEW e \in Editors, GoesOn(e) PROVE editor'[e].pc = "list"
      BY <3>1 DEF GoesOn, TypeInv, AutopilotTypeOK, EditorRow
    <3> QED
      BY <3>1 DEF Edit, CreateAutopilotRule, UpdateAutopilotRule, DeleteAutopilotRule, Waiting
  <2>3. /\ rule[r].status = "enabled" /\ rule'[r].spec = rule[r].spec
        /\ rule[r].next => rule'[r].next
    BY <1>1, <2>2, EnabledRuleKeeps
  <2>4. clean /\ OneReload
    BY <1>1, CleanOnce DEF ReloadInv
  <2>5. CASE UNCHANGED <<cron, current, editor>>
    <3>1. Due(r)
      BY <2>3, <2>4, <2>5 DEF ScheduleInv, Waiting
    <3> QED
      BY <2>3, <2>5, <3>1 DEF Due, Reloading
  <2>6. CASE Reload
    <3>1. PICK e \in Editors :
            \/ ReloadList(e) \/ ReloadSwap(e) \/ ReloadStop(e) \/ ReloadStart(e)
            \/ ClearDisabledAutopilotNextRuns(e)
            \/ \E q \in Rules : SyncNextRunAt(e, q)
            \/ ReloadEnds(e)
      BY <2>6 DEF Reload, Disconnect
    <3>2. \A x \in Editors : x # e => editor'[x] = editor[x]
      BY <3>1, ReloadMoves
    <3>3. CASE ReloadList(e)
      <4>1. /\ editor'[e].pc = "swap" /\ editor'[e].mine = built + 1
            /\ editor'[e].list = EnabledRules /\ cron'[built + 1].entries = EnabledRules
        BY <3>3, ReloadMoves, CronMoves
      <4>2. \A x \in Editors : ~Reloading(x)
        BY <3>3 DEF ReloadList
      <4>3. EnabledRules[r] = rule'[r].spec
        BY <2>3 DEF EnabledRules
      <4> QED
        BY <3>2, <4>1, <4>2, <4>3 DEF Due, Reloading
    <3>4. ASSUME ~ReloadList(e)
          PROVE  /\ Reloading(e) /\ Due(r)
                 /\ \A x \in Editors : x # e => ~Reloading(x) /\ ~Reloading(x)'
      <4>1. editor[e].pc \in {"swap", "stop", "start", "clear", "sync"}
        BY <3>1, <3>4, ReloadMoves
      <4>2. ~Waiting
        BY <3>2, <4>1 DEF Waiting
      <4>3. Due(r)
        BY <2>3, <2>4, <4>2 DEF ScheduleInv
      <4>4. Reloading(e) /\ \A x \in Editors : x # e => ~Reloading(x)
        BY <2>4, <4>1 DEF OneReload, Reloading
      <4> QED
        BY <3>2, <4>3, <4>4 DEF Reloading
    <3>5. CASE ReloadSwap(e)
      <4>1. /\ editor[e].pc = "swap" /\ editor'[e].pc = "stop"
            /\ editor'[e].list = editor[e].list
            /\ current' = editor[e].mine /\ cron' = cron
        BY <3>5, ReloadMoves DEF ReloadSwap
      <4>2. Reloading(e) /\ Due(r) /\ \A x \in Editors : x # e => ~Reloading(x)'
        BY <3>4, <4>1, ReloadMoves
      <4>3. cron'[current'].entries[r] = rule'[r].spec /\ editor'[e].list[r] = rule'[r].spec
        BY <2>3, <4>1, <4>2 DEF Due
      <4> QED
        BY <4>1, <4>2, <4>3 DEF Due, Reloading
    <3>6. CASE ReloadStop(e) \/ ReloadStart(e)
      <4>1. /\ editor[e].pc \in {"stop", "start"} /\ editor'[e].pc \in {"start", "clear"}
            /\ editor'[e].list = editor[e].list /\ current' = current
            /\ \A c \in Crons : cron'[c].entries = cron[c].entries
        BY <3>6, ReloadMoves, CronMoves DEF ReloadStop, ReloadStart
      <4>2. Due(r) /\ \A x \in Editors : x # e => ~Reloading(x)'
        BY <3>4, <4>1, ReloadMoves
      <4>3. current \in Crons
        BY AutopilotAssumption DEF TypeInv, AutopilotTypeOK, Crons
      <4>4. cron'[current'].entries[r] = rule'[r].spec /\ editor'[e].list[r] = rule'[r].spec
        BY <2>3, <4>1, <4>2, <4>3 DEF Due
      <4> QED
        BY <4>1, <4>2, <4>4 DEF Due, Reloading
    <3>7. CASE ClearDisabledAutopilotNextRuns(e)
      <4>1. /\ editor[e].pc = "clear" /\ editor'[e].pc = "sync"
            /\ editor'[e].list = editor[e].list /\ current' = current /\ cron' = cron
        BY <3>7, ReloadMoves DEF ClearDisabledAutopilotNextRuns
      <4>2. Due(r) /\ \A x \in Editors : x # e => ~Reloading(x)'
        BY <3>4, <4>1, ReloadMoves
      <4>3. cron'[current'].entries[r] = rule'[r].spec /\ editor'[e].list[r] # NoSpec
        BY <2>1, <2>3, <4>1, <4>2 DEF Due, RulesHaveSpecs
      <4> QED
        BY <4>1, <4>2, <4>3 DEF Due, Reloading
    <3>8. CASE \E q \in Rules : SyncNextRunAt(e, q)
      <4>1. PICK q \in Rules : SyncNextRunAt(e, q)
        BY <3>8
      <4>2. /\ editor[e].pc = "sync" /\ editor'[e].pc = "sync"
            /\ editor'[e].list = [editor[e].list EXCEPT ![q] = NoSpec]
            /\ current' = current /\ cron' = cron
        BY <4>1, ReloadMoves DEF SyncNextRunAt
      <4>3. Due(r) /\ \A x \in Editors : x # e => ~Reloading(x)'
        BY <3>4, <4>2, ReloadMoves
      <4>4. cron'[current'].entries[r] = rule'[r].spec
        BY <2>3, <4>2, <4>3 DEF Due
      <4>5. rule'[r].next \/ editor'[e].list[r] # NoSpec
        <5>1. CASE q = r
          <6>1. rule' = [rule EXCEPT ![r].next = TRUE]
            BY <2>3, <4>1, <5>1 DEF SyncNextRunAt, Exists
          <6>2. rule'[r].next = TRUE
            BY <6>1 DEF TypeInv, AutopilotTypeOK, RuleRow
          <6> QED
            BY <6>2
        <5>2. CASE q # r
          <6>1. editor[e].list \in Entries
            BY DEF TypeInv, AutopilotTypeOK, EditorRow
          <6>2. editor'[e].list[r] = editor[e].list[r]
            BY <4>2, <5>2, <6>1 DEF Entries
          <6> QED
            BY <2>3, <4>2, <4>3, <6>2 DEF Due
        <5> QED
          BY <5>1, <5>2
      <4> QED
        BY <4>2, <4>3, <4>4, <4>5 DEF Due, Reloading
    <3>9. CASE ReloadEnds(e)
      <4>1. /\ editor[e].pc = "sync" /\ editor'[e].pc = "idle"
            /\ editor[e].list = NoEntries /\ current' = current /\ cron' = cron
        BY <3>9, ReloadMoves DEF ReloadEnds
      <4>2. Due(r) /\ \A x \in Editors : x # e => ~Reloading(x)'
        BY <3>4, <4>1, ReloadMoves
      <4>3. cron'[current'].entries[r] = rule'[r].spec
        BY <2>3, <4>1, <4>2 DEF Due
      <4>4. rule'[r].next
        BY <2>3, <4>1, <4>2 DEF Due, NoEntries
      <4> QED
        BY <4>1, <4>2, <4>3, <4>4 DEF Due, Reloading
    <3> QED
      BY <3>1, <3>3, <3>5, <3>6, <3>7, <3>8, <3>9
  <2> QED
    BY <1>1, <2>2, <2>5, <2>6 DEF Next, Trigger, TriggerAutopilot, CronFires,
       TriggerBegins, TriggerRuleResult, TriggerWithContent, CreateIssueRunAndRecordSuccess,
       CreateFails, RecordAutopilotTriggerFailure, TriggerCutShort, DeleteWorkspace, SnoozeEnds
<1>2. CASE UNCHANGED vars
  BY <1>2 DEF vars, ScheduleInv, RulesHaveSpecs, Waiting, Due, Reloading
<1> QED
  BY <1>1, <1>2

(* Once the last edit's reload has ended, alone, every enabled rule is in   *)
(* the running instance under its own expression and has a next_run_at.     *)
THEOREM EnabledRuleStaysScheduled == Spec => []EnabledRuleIsScheduled
<1>1. Init => ReloadInv
  BY Constants DEF Init, ReloadInv, OneReload, OnlyRuns, Reloading, AtRest
<1>2. Init => ScheduleInv
  <2> SUFFICES ASSUME Init PROVE ScheduleInv
    OBVIOUS
  <2>1. RulesHaveSpecs
    BY DEF Init, RulesHaveSpecs
  <2>2. \A e \in Editors : editor[e].pc = "idle"
    BY DEF Init, AtRest
  <2>3. cron[current].entries = EnabledRules
    BY Constants DEF Init
  <2>4. \A r \in Rules : rule[r].status = "enabled" =>
          cron[current].entries[r] = rule[r].spec /\ rule[r].next
    BY <2>3 DEF Init, EnabledRules
  <2> QED
    BY <2>1, <2>2, <2>4 DEF ScheduleInv, Due, Reloading
<1>3. Spec => []TypeInv
  BY InitTypes, StepTypes, PTL DEF Spec
<1>4. ScheduleInv => EnabledRuleIsScheduled
  BY DEF ScheduleInv, EnabledRuleIsScheduled, Quiet, Waiting, Due, Reloading
<1>5. Spec => []ReloadInv
  BY <1>1, <1>3, StepReload, PTL DEF Spec
<1> QED
  BY <1>2, <1>3, <1>4, <1>5, StepSchedule, PTL DEF Spec
=============================================================================
