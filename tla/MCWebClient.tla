------------------------------ MODULE MCWebClient ------------------------------
(***************************************************************************)
(* The parts of the web client that share no state, side by side: each     *)
(* behaviour takes the steps of one part from all of its initial states    *)
(* while the others rest in one of theirs.                                 *)
(***************************************************************************)
EXTENDS PageSession, AgentEditor, IssueConsole, LogStream, BoardFilters, TLC

VARIABLE part

webVars == <<part, sessionVars, editorVars, consoleVars, logVars, boardVars>>

Symmetry == Permutations(Staff)

\* One line or more, plain, empty, or with carriage returns at its end or inside.
LogChunks ==
  {<< <<"t">> >>, << <<>> >>, << <<"t">>, <<"t">> >>,
   << <<"C", "C">> >>, << <<"t", "C">>, <<"t">> >>, << <<"t", "C", "t">>, <<>>, <<"t">> >>}

Some(S) == CHOOSE x \in S : TRUE

WebInit ==
  /\ part \in {"session", "editor", "console", "log", "board"}
  /\ SessionInit(IF part = "session" THEN Operations ELSE {UploadAttachment})
  /\ EditorInit(IF part = "editor" THEN Agents ELSE {Some(Agents)})
  /\ ConsoleInit(Staff)
  /\ LogInit
  /\ BoardInit(IF part = "board" THEN Urls ELSE {[NoParams EXCEPT !.status = "open"]})

WebNext ==
  /\ UNCHANGED part
  /\ \/ part = "session" /\ SessionNext /\ UNCHANGED <<editorVars, consoleVars, logVars, boardVars>>
     \/ part = "editor" /\ EditorNext /\ UNCHANGED <<sessionVars, consoleVars, logVars, boardVars>>
     \/ part = "console" /\ ConsoleNext /\ UNCHANGED <<sessionVars, editorVars, logVars, boardVars>>
     \/ part = "log" /\ LogNext /\ UNCHANGED <<sessionVars, editorVars, consoleVars, boardVars>>
     \/ part = "board" /\ BoardNext /\ UNCHANGED <<sessionVars, editorVars, consoleVars, logVars>>

WebSpec == WebInit /\ [][WebNext]_webVars
=============================================================================
