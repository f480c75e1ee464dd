---------------------------- MODULE Subscription ----------------------------
(***************************************************************************)
(* What the user of a stream handler of LNUnit.LND relies on: from the     *)
(* moment the stream is open until it is over, the messages of LND are     *)
(* taken one at a time, each one is dealt with before the next is taken,   *)
(* and nothing is taken or dealt with before or after.  A message is lost  *)
(* only while nobody has asked to hear of any.                             *)
(***************************************************************************)
EXTENDS Naturals

VARIABLES
  phase,   \* "new", "open" or "over"
  heard,   \* somebody is to be told of the messages
  taken,   \* messages taken off the stream
  done,    \* messages dealt with: answered, or handed to the callback
  lost     \* messages dropped

vars == <<phase, heard, taken, done, lost>>

Init == phase = "new" /\ heard = FALSE /\ taken = 0 /\ done = 0 /\ lost = 0

Hear == heard' = TRUE /\ UNCHANGED <<phase, taken, done, lost>>

Open == phase = "new" /\ phase' = "open" /\ UNCHANGED <<heard, taken, done, lost>>

Take == /\ phase = "open" /\ taken = done + lost
        /\ taken' = taken + 1
        /\ UNCHANGED <<phase, heard, done, lost>>

Finish == /\ phase = "open" /\ heard /\ done + lost < taken
          /\ done' = done + 1
          /\ UNCHANGED <<phase, heard, taken, lost>>

Lose == /\ phase = "open" /\ ~heard /\ done + lost < taken
        /\ lost' = lost + 1
        /\ UNCHANGED <<phase, heard, taken, done>>

Close == phase # "over" /\ phase' = "over" /\ UNCHANGED <<heard, taken, done, lost>>

Next == Hear \/ Open \/ Take \/ Finish \/ Lose \/ Close

Spec == Init /\ [][Next]_vars
=============================================================================
