------------------------------- MODULE LogStream -------------------------------
(***************************************************************************)
(* A run's log on its way to the log panel: the server writes it in        *)
(* event-stream frames, the network cuts the bytes anywhere, the client's  *)
(* parser puts frames together from a buffer, and the panel collects them. *)
(*                                                                         *)
(* A byte is one of: "E" the text of a chunk's event line, "F" that of the *)
(* final one, "D" a data line's prefix, "K" a comment line, "t" text, "C"  *)
(* carriage return, "N" newline.  Log text may hold carriage returns, as   *)
(* progress bars and Windows line ends do.                                 *)
(***************************************************************************)
EXTENDS Integers, Sequences

CONSTANTS
  Chunks,     \* what a flush may find in the log: its lines, over {"t", "C"}
  MaxBytes    \* bound: bytes of the stream before its final frame

ASSUME LogAssumption ==
  /\ \A c \in Chunks : c \in Seq(Seq({"t", "C"})) /\ c # <<>>
  /\ MaxBytes \in Nat

VARIABLES
  handler,        \* streamRunLog: "open", "done" (final frame written), "gone"
  stream,         \* the bytes it has written
  written, text,  \* history: log lines written; what the panel should show of them
  pos, buffer,    \* bytes the client has read; the parser's buffer
  panel,          \* lines shown, and whether the panel is live
  split,          \* a read has ended between a carriage return and its newline
  ended           \* the response: "no", "closed" (the buffer was flushed), "broken"

serverVars == <<handler, stream, written, text>>
clientVars == <<pos, buffer, panel, split, ended>>
logVars == <<serverVars, clientVars>>

-----------------------------------------------------------------------------
(* The panel *)

NoPanel == [lines |-> <<>>, state |-> "live"]

\* The panel is one text: a newline goes between what is there and what
\* comes, unless there is nothing yet or an empty line at the end.
Joined(lines, data) ==
  IF lines # <<>> /\ lines[Len(lines)] = <<>> THEN SubSeq(lines, 1, Len(lines) - 1) \o data
  ELSE lines \o data

OnEvent(p, frame) ==
  CASE frame.name = "chunk" -> [p EXCEPT !.lines = Joined(@, frame.data)]
    [] frame.name = "done"  -> [p EXCEPT !.state = "done"]
    [] OTHER -> p

-----------------------------------------------------------------------------
(* The parser *)

\* CR LF and CR become LF.
Normalized(s) ==
  LET norm[k \in 0..Len(s)] ==
        IF k = 0 THEN <<>>
        ELSE IF s[k] = "N" /\ k > 1 /\ s[k - 1] = "C" THEN norm[k - 1]
        ELSE Append(norm[k - 1], IF s[k] = "C" THEN "N" ELSE s[k])
  IN  norm[Len(s)]

\* Mutant: a later data line replaces an earlier one.
EndLineReplaces(f) ==
  [name |-> IF f.line = <<>> THEN f.name
            ELSE CASE f.line[1] = "E" -> "chunk" [] f.line[1] = "F" -> "done" [] OTHER -> f.name,
   data |-> IF f.line # <<>> /\ f.line[1] = "D" THEN <<Tail(f.line)>> ELSE f.data,
   line |-> <<>>]

\* An event line names the frame, data lines are its data; empty lines,
\* comments and lines with no known prefix are ignored.
EndLine(f) ==
  [name |-> IF f.line = <<>> THEN f.name
            ELSE CASE f.line[1] = "E" -> "chunk" [] f.line[1] = "F" -> "done" [] OTHER -> f.name,
   data |-> IF f.line # <<>> /\ f.line[1] = "D" THEN Append(f.data, Tail(f.line)) ELSE f.data,
   line |-> <<>>]

FrameByte(f, b) == IF b = "N" THEN EndLine(f) ELSE [f EXCEPT !.line = Append(@, b)]

\* The block line by line; a frame without data is no event.
DispatchSSEBlock(block, p) ==
  LET read[k \in 0..Len(block)] ==
        IF k = 0 THEN [name |-> "message", data |-> <<>>, line |-> <<>>]
        ELSE FrameByte(read[k - 1], block[k])
      frame == EndLine(read[Len(block)])
  IN  IF frame.data = <<>> THEN p ELSE OnEvent(p, frame)

\* A second newline in a row ends the block.
ScanByte(d, b) ==
  IF b = "N" /\ d.rest # <<>> /\ d.rest[Len(d.rest)] = "N"
  THEN [rest |-> <<>>, panel |-> DispatchSSEBlock(SubSeq(d.rest, 1, Len(d.rest) - 1), d.panel)]
  ELSE [d EXCEPT !.rest = Append(@, b)]

\* Mutant: what follows the last whole frame is dropped.
DrainForgets(s, p) ==
  LET n == Normalized(s)
      scan[k \in 0..Len(n)] ==
        IF k = 0 THEN [rest |-> <<>>, panel |-> p] ELSE ScanByte(scan[k - 1], n[k])
  IN  [scan[Len(n)] EXCEPT !.rest = <<>>]

\* Whole frames are dispatched, the rest is kept.
DrainSSEBuffer(s, p) ==
  LET n == Normalized(s)
      scan[k \in 0..Len(n)] ==
        IF k = 0 THEN [rest |-> <<>>, panel |-> p] ELSE ScanByte(scan[k - 1], n[k])
  IN  scan[Len(n)]

-----------------------------------------------------------------------------
(* The server *)

CommentFrame == <<"K", "N", "N">>
DoneFrame == <<"F", "N", "D", "t", "N", "N">>

\* The lines of a chunk, each with its prefix and its newline.
DataLines(c) ==
  LET body[k \in 0..Len(c)] == IF k = 0 THEN <<>> ELSE body[k - 1] \o (<<"D">> \o c[k] \o <<"N">>)
  IN  body[Len(c)]

ChunkFrame(c) == <<"E", "N">> \o DataLines(c) \o <<"N">>

LogInit ==
  /\ handler = "open" /\ stream = CommentFrame /\ written = 0 /\ text = <<>>
  /\ pos = 0 /\ buffer = <<>> /\ panel = NoPanel /\ split = FALSE /\ ended = "no"

Write(frame) == handler = "open" /\ stream' = stream \o frame /\ UNCHANGED clientVars

\* flushChunk has found the lines c in the log.
FlushChunk(c) ==
  /\ Write(ChunkFrame(c)) /\ Len(stream') <= MaxBytes
  /\ written' = written + Len(c) /\ text' = Joined(text, c)
  /\ UNCHANGED handler

KeepAlive == Write(CommentFrame) /\ Len(stream') <= MaxBytes /\ UNCHANGED <<handler, written, text>>

\* The run has ended: the final frame.  The last flush, if it found anything,
\* reached the client by itself and is a FlushChunk before.
Finish == Write(DoneFrame) /\ handler' = "done" /\ UNCHANGED <<written, text>>

\* The server stops or cannot read the log: the handler returns.
Leave == handler = "open" /\ handler' = "gone" /\ UNCHANGED <<stream, written, text, clientVars>>

-----------------------------------------------------------------------------
(* The client *)

\* One read gives the next n bytes.
ReadBytes(n) ==
  /\ ended = "no" /\ panel.state = "live" /\ pos + n <= Len(stream)
  /\ LET drained == DrainSSEBuffer(buffer \o SubSeq(stream, pos + 1, pos + n), panel)
     IN buffer' = drained.rest /\ panel' = drained.panel
  /\ pos' = pos + n
  /\ split' = (split \/ (pos' < Len(stream) /\ stream[pos'] = "C" /\ stream[pos' + 1] = "N"))
  /\ UNCHANGED <<serverVars, ended>>

\* The handler has returned and everything is read; what is left in the
\* buffer is dispatched.
CloseStream ==
  /\ ended = "no" /\ handler # "open" /\ pos = Len(stream)
  /\ ended' = "closed"
  /\ panel' = DispatchSSEBlock(buffer, panel)
  /\ buffer' = <<>>
  /\ UNCHANGED <<serverVars, pos, split>>

\* The connection breaks; the buffer is dropped and the panel shows the end.
BreakStream ==
  /\ ended = "no"
  /\ ended' = "broken" /\ panel' = [panel EXCEPT !.state = "done"] /\ buffer' = <<>>
  /\ UNCHANGED <<serverVars, pos, split>>

LogNext ==
  \/ \E c \in Chunks : FlushChunk(c)
  \/ KeepAlive \/ Finish \/ Leave
  \/ \E n \in 1..Len(stream) : ReadBytes(n)
  \/ CloseStream \/ BreakStream

LogSpec == LogInit /\ [][LogNext]_logVars

-----------------------------------------------------------------------------
(* Properties *)

\* What the network does with the bytes does not matter: the panel has what
\* it would have after one single read of everything read so far, unless a
\* read ended inside a CR LF.  Then the newline counts as a second one and
\* ends the frame, and its other lines come without their event name.
CutsDoNotMatter ==
  ~split => LET once == DrainSSEBuffer(SubSeq(stream, 1, pos), NoPanel)
            IN  /\ panel.lines = once.panel.lines
                /\ ended = "no" => buffer = once.rest /\ panel = once.panel

\* The panel shows the log that was sent.  Whatever it holds and wherever it
\* is cut, no line is shown twice: the panel has as many lines as were
\* written at most, and the text as it was written when there are no carriage
\* returns.  The final frame is heard, so that the panel shows that the log
\* has ended, and unless the connection breaks not before everything was read.
LogArrives ==
  /\ Len(panel.lines) <= written
  /\ pos = Len(stream) /\ (\A i \in DOMAIN stream : stream[i] # "C") => panel.lines = text
  /\ pos = Len(stream) /\ handler = "done" => panel.state = "done"
  /\ panel.state = "done" => ended = "broken" \/ (handler = "done" /\ pos = Len(stream))
=============================================================================
