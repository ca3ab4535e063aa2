------------------------------ MODULE AgentEditor ------------------------------
(***************************************************************************)
(* The settings form of the agent page.  The form is seeded from the       *)
(* agent's query by an effect, is marked dirty by the first edit, is sent  *)
(* as a whole record, and stays mounted when the route changes to another  *)
(* agent.  Another tab saves the same agents meanwhile.                    *)
(*                                                                         *)
(* A record is a number, a new one for each edit, with the agent whose     *)
(* record it was made from.                                                *)
(***************************************************************************)
EXTENDS Integers

CONSTANTS
  Agents,    \* agents of the workspace
  NoAgent,   \* no agent: the form before its first record
  MaxEdits   \* bound: edits, in this form and elsewhere

ASSUME EditorAssumption == NoAgent \notin Agents /\ MaxEdits \in Nat

VARIABLES
  shown,          \* the route's agent
  server,         \* per agent, the stored record
  cached,         \* per agent, the record in the query cache
  query, answer,  \* per agent, the query's request: "idle", "sent", "answered" with answer
  form, owner,    \* the form's record; loadedAgentID
  dirty,
  save,           \* the update request: "none", "sent", "applied", "refused"
  target, sent,   \* the agent it goes to and the record it carries
  edits

editorVars == <<shown, server, cached, query, answer, form, owner, dirty, save, target, sent, edits>>

Record(a, n) == [of |-> a, n |-> n]
NoRecord == Record(NoAgent, 0)
Records == [of : Agents \cup {NoAgent}, n : 0..MaxEdits]

EditorInit(agents) ==
  /\ shown \in agents
  /\ server = [a \in Agents |-> Record(a, 0)]
  /\ cached = [a \in Agents |-> NoRecord]
  /\ query = [a \in Agents |-> IF a = shown THEN "sent" ELSE "idle"]
  /\ answer = [a \in Agents |-> NoRecord]
  /\ form = NoRecord /\ owner = NoAgent /\ dirty = FALSE
  /\ save = "none" /\ target = NoAgent /\ sent = NoRecord
  /\ edits = 0

\* Mutant: the effect keeps edits made for another agent.
SyncFormIfClean(f, d) ==
  IF cached'[shown'] = NoRecord \/ d
  THEN form' = f /\ dirty' = d /\ UNCHANGED owner
  ELSE form' = cached'[shown'] /\ dirty' = FALSE /\ owner' = shown'

\* The effect that follows each change of the query's record or of dirty:
\* unless it is being edited for this agent, the form takes the record.
SyncForm(f, d) ==
  IF cached'[shown'] = NoRecord \/ (owner = shown' /\ d)
  THEN form' = f /\ dirty' = d /\ UNCHANGED owner
  ELSE form' = cached'[shown'] /\ dirty' = FALSE /\ owner' = shown'

UpdateForm ==
  /\ edits < MaxEdits
  /\ edits' = edits + 1
  /\ UNCHANGED <<shown, server, cached, query, answer, save, target, sent>>
  /\ SyncForm(Record(form.of, edits + 1), TRUE)

\* Mutant: the save button does not wait for the agent's record.
SubmitUnloaded ==
  /\ save = "none"
  /\ save' = "sent" /\ target' = shown /\ sent' = form
  /\ UNCHANGED <<shown, server, cached, query, answer, form, owner, dirty, edits>>

\* The save button, disabled until the agent is loaded and while a save is
\* under way.
Submit ==
  /\ cached[shown] # NoRecord /\ save = "none"
  /\ save' = "sent" /\ target' = shown /\ sent' = form
  /\ UNCHANGED <<shown, server, cached, query, answer, form, owner, dirty, edits>>

\* The server stores the whole record, or refuses it.
PutAgent ==
  /\ save = "sent"
  /\ \/ save' = "applied" /\ server' = [server EXCEPT ![target] = sent]
     \/ save' = "refused" /\ UNCHANGED server
  /\ UNCHANGED <<shown, cached, query, answer, form, owner, dirty, target, sent, edits>>

\* Invalidating a query restarts it, unless its first answer is on its way.
Refetched(a) ==
  IF cached[a] # NoRecord \/ query[a] = "idle" THEN [query EXCEPT ![a] = "sent"] ELSE query

SaveDone == save' = "none" /\ target' = NoAgent /\ sent' = NoRecord

\* onSuccess: the handler of the last render runs, so it is the agent shown
\* by now that is no longer dirty and is fetched again.
UpdateSucceeds ==
  /\ save = "applied"
  /\ SaveDone
  /\ query' = Refetched(shown)
  /\ UNCHANGED <<shown, server, cached, answer, edits>>
  /\ SyncForm(form, FALSE)

\* A refusal, or the loss of the answer.
UpdateFails ==
  /\ save \in {"applied", "refused"}
  /\ SaveDone
  /\ UNCHANGED <<shown, server, cached, query, answer, form, owner, dirty, edits>>

\* Another tab saves an agent.
OtherTabSaves(a) ==
  /\ edits < MaxEdits
  /\ edits' = edits + 1
  /\ server' = [server EXCEPT ![a] = Record(a, edits + 1)]
  /\ UNCHANGED <<shown, cached, query, answer, form, owner, dirty, save, target, sent>>

\* The window gets the focus again.
Refetch ==
  /\ query[shown] = "idle"
  /\ query' = [query EXCEPT ![shown] = "sent"]
  /\ UNCHANGED <<shown, server, cached, answer, form, owner, dirty, save, target, sent, edits>>

AnswerAgent(a) ==
  /\ query[a] = "sent"
  /\ query' = [query EXCEPT ![a] = "answered"]
  /\ answer' = [answer EXCEPT ![a] = server[a]]
  /\ UNCHANGED <<shown, server, cached, form, owner, dirty, save, target, sent, edits>>

\* Mutant: an answer for the agent shown fills the form, edited or not.
ArrivesOverEdits(a) ==
  /\ query[a] = "answered"
  /\ query' = [query EXCEPT ![a] = "idle"]
  /\ answer' = [answer EXCEPT ![a] = NoRecord]
  /\ cached' = [cached EXCEPT ![a] = answer[a]]
  /\ UNCHANGED <<shown, server, save, target, sent, edits>>
  /\ SyncForm(form, dirty /\ a # shown)

AgentArrives(a) ==
  /\ query[a] = "answered"
  /\ query' = [query EXCEPT ![a] = "idle"]
  /\ answer' = [answer EXCEPT ![a] = NoRecord]
  /\ cached' = [cached EXCEPT ![a] = answer[a]]
  /\ UNCHANGED <<shown, server, save, target, sent, edits>>
  /\ SyncForm(form, dirty)

\* The route changes to another agent; its record is fetched unless it is in
\* the cache and fresh.
ShowAgent(a, fresh) ==
  /\ a # shown
  /\ shown' = a
  /\ fresh => cached[a] # NoRecord
  /\ query' = IF fresh \/ query[a] # "idle" THEN query ELSE [query EXCEPT ![a] = "sent"]
  /\ UNCHANGED <<server, cached, answer, save, target, sent, edits>>
  /\ SyncForm(form, dirty)

EditorNext ==
  \/ UpdateForm \/ Submit \/ PutAgent \/ UpdateSucceeds \/ UpdateFails \/ Refetch
  \/ \E a \in Agents : OtherTabSaves(a) \/ AnswerAgent(a) \/ AgentArrives(a)
  \/ \E a \in Agents, fresh \in BOOLEAN : ShowAgent(a, fresh)

EditorSpec == EditorInit(Agents) /\ [][EditorNext]_editorVars

-----------------------------------------------------------------------------
(* Properties *)

\* The form's state, the query cache and the update request have their types;
\* loadedAgentID is an agent or nothing.
EditorTypeOK ==
  /\ shown \in Agents /\ owner \in Agents \cup {NoAgent} /\ target \in Agents \cup {NoAgent}
  /\ server \in [Agents -> Records] /\ cached \in [Agents -> Records] /\ answer \in [Agents -> Records]
  /\ query \in [Agents -> {"idle", "sent", "answered"}]
  /\ form \in Records /\ sent \in Records /\ dirty \in BOOLEAN
  /\ save \in {"none", "sent", "applied", "refused"} /\ edits \in 0..MaxEdits

\* An agent is only ever overwritten with a record made from its own: what
\* was seeded or typed for one agent is not saved to another, although the
\* form stays mounted and its fields stay enabled while the route changes
\* and the next agent is loading.
SavedToItsAgent == \A a \in Agents : server[a].of = a

\* A loaded agent's form belongs to that agent, and shows the cached record
\* unless it has been edited.
FormShowsItsAgent ==
  cached[shown] # NoRecord => owner = shown /\ form.of = shown /\ (~dirty => form = cached[shown])

\* Unsaved edits of the agent on screen are replaced by nothing but further
\* edits and the end of a save: no fetch, whatever other tabs stored,
\* overwrites them.
EditsAreKept ==
  [][dirty /\ owner = shown /\ shown' = shown /\ form' # form => edits' # edits \/ save' # save]_editorVars
=============================================================================
