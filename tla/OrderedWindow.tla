--------------------------- MODULE OrderedWindow ---------------------------
(***************************************************************************)
(* The reorder window of one stream: packages/frame-protocol/              *)
(* ordered-window.js, class OrderedDedupWindow.                            *)
(*                                                                         *)
(* A window is a record:                                                   *)
(*   expected  the next sequence number to hand to the consumer            *)
(*   buffer    sequence number -> type of the frame waiting there          *)
(*   gapTimer  whether the gap timer is armed                              *)
(* Every frame costs one unit of memory.  The window's own byte counter is *)
(* left out: it never exceeds the counter of its stream, which is tested   *)
(* against the same limit in the same guard (Overflows, parameter room).   *)
(* A failed window is not a state: its session fails in the same call.     *)
(***************************************************************************)
EXTENDS Integers, FiniteSets

CONSTANTS MaxSeq,      \* last legal sequence number (0xffffff0f)
          MaxFrames,   \* frames a window or a flow queue may hold (512)
          MaxGap       \* how far ahead of expected a frame may be (4096)

ASSUME WindowAssumption == /\ MaxSeq \in Nat \ {0}
                           /\ MaxFrames \in Nat \ {0}
                           /\ MaxGap \in Nat \ {0}

NoFrame == "none"
StartTypes == {"HEADERS", "UPGRADE"}
OrderedTypes == StartTypes \cup {"DATA", "FIN"}
SeqNos == 1..MaxSeq

Window == [ expected : 1..(MaxSeq + 1),
            buffer   : [SeqNos -> OrderedTypes \cup {NoFrame}],
            gapTimer : BOOLEAN ]

NewWindow == [ expected |-> 1,
               buffer   |-> [n \in SeqNos |-> NoFrame],
               gapTimer |-> FALSE ]

Buffered(w) == {n \in SeqNos : w.buffer[n] # NoFrame}

----------------------------------------------------------------------------
(* The outcomes of accept(seq, item); they exclude one another.            *)

OutOfBounds(seq) == seq \notin SeqNos

IsDuplicate(w, seq) ==
  /\ seq \in SeqNos
  /\ seq < w.expected \/ seq \in Buffered(w)

(* Mutant: any later frame is handed over at once.                         *)
IsNextOrLater(w, seq) ==
  /\ seq \in SeqNos
  /\ seq >= w.expected
  /\ ~IsDuplicate(w, seq)

IsNext(w, seq) ==
  /\ seq \in SeqNos
  /\ seq = w.expected
  /\ ~IsDuplicate(w, seq)

IsAhead(w, seq) ==
  /\ seq \in SeqNos
  /\ seq > w.expected
  /\ ~IsDuplicate(w, seq)

Overflows(w, seq, room) ==
  \/ seq - w.expected > MaxGap
  \/ Cardinality(Buffered(w)) >= MaxFrames
  \/ ~room

(* The effects: the next frame is handed over, or a later one is kept and  *)
(* the gap timer armed unless it is already running.                       *)
Advance(w) == [w EXCEPT !.expected = @ + 1]

(* Mutant: the gap timer is never armed.                                   *)
KeepUntimed(w, seq, type) == [w EXCEPT !.buffer[seq] = type]

Keep(w, seq, type) == [w EXCEPT !.buffer[seq] = type, !.gapTimer = TRUE]

(* takeNext(): the timer runs until the buffer is empty, not until the gap *)
(* that armed it is filled.                                                *)
CanTake(w) == w.expected \in Buffered(w)

(* Mutant: the timer outlives the gap.                                     *)
TakeKeepingTimer(w) ==
  [w EXCEPT !.buffer[w.expected] = NoFrame, !.expected = @ + 1]

Take(w) ==
  LET rest == [w EXCEPT !.buffer[w.expected] = NoFrame, !.expected = @ + 1]
  IN  [rest EXCEPT !.gapTimer = @ /\ Buffered(rest) # {}]
============================================================================
