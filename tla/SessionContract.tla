-------------------------- MODULE SessionContract --------------------------
(***************************************************************************)
(* What a server session promises its application, without goroutines,     *)
(* buffers, transports or timers: packets are queued while the session is  *)
(* opening or open, a graceful close queues the close packet last, queued  *)
(* packets go out in order and once each, and the session ends for good.   *)
(***************************************************************************)
EXTENDS Naturals, Sequences

CONSTANT Packets

VARIABLES
  phase,     \* "opening", "open", "closing" or "closed"
  accepted,  \* the packets queued so far
  handed     \* the packets that have gone out so far

contractVars == <<phase, accepted, handed>>

Live == phase \in {"opening", "open"}

Init ==
  /\ phase = "opening"
  /\ accepted = <<>>
  /\ handed = <<>>

Open ==
  /\ phase = "opening"
  /\ phase' = "open"
  /\ UNCHANGED <<accepted, handed>>

Accept(packet) ==
  /\ Live
  /\ accepted' = Append(accepted, packet)
  /\ UNCHANGED <<phase, handed>>

BeginClose ==
  /\ Live
  /\ phase' = "closing"
  /\ accepted' = Append(accepted, "close")
  /\ UNCHANGED handed

\* The next packets in the queue go out, possibly while the session is ending.
HandOver(n) ==
  /\ handed' = handed \o SubSeq(accepted, Len(handed) + 1, n)
  /\ UNCHANGED <<phase, accepted>>

End ==
  /\ phase # "closed"
  /\ phase' = "closed"
  /\ UNCHANGED <<accepted, handed>>

Next ==
  \/ Open \/ BeginClose \/ End
  \/ \E packet \in Packets : Accept(packet)
  \/ \E n \in Len(handed) + 1 .. Len(accepted) : HandOver(n)

Spec == Init /\ [][Next]_contractVars
=============================================================================
