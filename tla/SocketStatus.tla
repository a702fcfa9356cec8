---------------------------- MODULE SocketStatus ----------------------------
(***************************************************************************)
(* What the socket thread of a port promises to tell the rest of the       *)
(* program with CPortSetting::setStatus, whatever the network does: it     *)
(* goes through Processing to Connected or not, through Disconnected to    *)
(* another attempt, and says Stopped once, as the last thing it does.      *)
(***************************************************************************)
VARIABLES told,    \* the status it has stored last
          ended    \* the thread has returned

vars == <<told, ended>>

Status == {"Stopped", "Disconnected", "Processing", "Connected"}

\* A socket that cannot be created takes Processing straight to Stopped.
Follows == [Stopped      |-> {"Processing"},
            Processing   |-> {"Connected", "Disconnected", "Stopped"},
            Connected    |-> {"Disconnected"},
            Disconnected |-> {"Processing", "Stopped"}]

Init == told = "Stopped" /\ ended = FALSE

Tell(s) ==
  /\ ~ended
  /\ s \in Follows[told]
  /\ told' = s
  /\ ended' = (s = "Stopped")

\* A thread that cannot even start Winsock returns without a word.
GiveUp ==
  /\ ~ended
  /\ told = "Stopped"
  /\ ended' = TRUE
  /\ UNCHANGED told

Next == GiveUp \/ \E s \in Status : Tell(s)

Spec == Init /\ [][Next]_vars
=============================================================================
