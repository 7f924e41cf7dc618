---------------------------- MODULE OutputQueue ----------------------------
(***************************************************************************)
(* COutputQueue of the D-Star repeater: one transmission waiting to be     *)
(* written to the modem.  A queue is a record of its header (waiting or    *)
(* not), its frames and the count that is compared with the run: the       *)
(* number of frames to hold back before the transmission starts.  A frame  *)
(* is "voice" or "end".  The count is kept up to the run only.             *)
(***************************************************************************)
EXTENDS Naturals, Sequences

CONSTANT Space        \* the frames a queue has room for

Frames == {"voice", "end"}

Least(a, b) == IF a < b THEN a ELSE b

Queues(run) == [header : BOOLEAN, frames : Seq(Frames), count : 0..run]

\* reset(): the header, the frames and the count go
Clear == [header |-> FALSE, frames |-> <<>>, count |-> 0]

\* what every transmitXHeader does to its queue: reset() and setHeader()
Fresh == [Clear EXCEPT !.header = TRUE]

\* addData(): nothing is added to a full queue; an end releases the run
AddEnd(q, run) ==
  IF Len(q.frames) >= Space THEN q
  ELSE [q EXCEPT !.frames = Append(@, "end"), !.count = run]

\* n calls of addData() with voice
AddVoice(q, run, n) ==
  LET room == IF Len(q.frames) >= Space THEN 0 ELSE Space - Len(q.frames)
      added == Least(n, room)
  IN [q EXCEPT !.frames = @ \o [i \in 1..added |-> "voice"],
               !.count = Least(@ + added, run)]

HeaderReady(q, run) == q.header /\ q.count >= run
DataReady(q, run) == ~q.header /\ q.count >= run
IsEmpty(q) == ~q.header /\ q.frames = <<>>

\* getHeader() and getData()
TakeHeader(q) == [q EXCEPT !.header = FALSE]
TakeFrame(q) == [q EXCEPT !.frames = Tail(@)]
=============================================================================
