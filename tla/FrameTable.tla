----------------------------- MODULE FrameTable -----------------------------
(***************************************************************************)
(* What the cyclical send task promises its Java callers, with no thread,  *)
(* no slot and no half-done store in sight: a table of frames, at most one *)
(* per CAN identifier, that add, adopt, remove and clear change in one     *)
(* atomic step each.  CyclicSendTask implements it when one thread alone   *)
(* changes the table.                                                      *)
(***************************************************************************)
EXTENDS Integers

CONSTANTS
  Frame,     \* the frames the table may hold
  Capacity   \* how many frames may be added between two clears

VARIABLES
  frames,    \* the frames being sent cyclically
  added      \* frames added since the last clear; removing gives nothing back

tableVars == <<frames, added>>

IdsOf(fs) == {f.canid : f \in fs}

Init == frames = {} /\ added = 0

(* An identifier is taken at most once, and the room is counted in frames   *)
(* ever added, not in frames present.                                       *)
Add(f) ==
  /\ f.canid # 0
  /\ f.canid \notin IdsOf(frames)
  /\ added < Capacity
  /\ frames' = frames \cup {f}
  /\ added' = added + 1

(* The identifier 0 means no frame: one that carries it takes up room, and  *)
(* is never among the frames sent.                                          *)
AddNoFrame(f) ==
  /\ f.canid = 0
  /\ added < Capacity
  /\ added' = added + 1
  /\ UNCHANGED frames

Remove(f) == frames' = frames \ {f} /\ UNCHANGED added

(* New data under an old identifier; everything else stays as it was added. *)
Adopt(f, g) ==
  /\ [g EXCEPT !.lo = f.lo, !.hi = f.hi] = f
  /\ frames' = (frames \ {f}) \cup {g}
  /\ UNCHANGED added

Clear == frames' = {} /\ added' = 0

Next ==
  /\ tableVars' # tableVars
  /\ \/ \E f \in Frame : Add(f) \/ AddNoFrame(f)
     \/ \E f \in frames : Remove(f)
     \/ \E f \in frames, g \in Frame : Adopt(f, g)
     \/ Clear

Spec == Init /\ [][Next]_tableVars
=============================================================================
