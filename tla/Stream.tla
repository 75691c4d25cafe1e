------------------------------- MODULE Stream -------------------------------
(***************************************************************************)
(* What a subscribed WebSocket client is promised: the pushes of its       *)
(* session, each once and in order, until it is told of a gap; then a new  *)
(* stream starts.                                                          *)
(***************************************************************************)
EXTENDS Naturals, Sequences

VARIABLES
  sent,  \* pushes of the client's session
  got,   \* pushes the client has been handed since the last gap
  gaps   \* how often it was told of a gap

Init == sent = <<>> /\ got = <<>> /\ gaps = 0

Push ==
  /\ Len(sent') = Len(sent) + 1 /\ SubSeq(sent', 1, Len(sent)) = sent
  /\ UNCHANGED <<got, gaps>>

Receive ==
  /\ Len(got) < Len(sent)
  /\ got' = Append(got, sent[Len(got) + 1])
  /\ UNCHANGED <<sent, gaps>>

Gap == gaps' = gaps + 1 /\ sent' = <<>> /\ got' = <<>>

Next == Push \/ Receive \/ Gap
Spec == Init /\ [][Next]_<<sent, got, gaps>>
=============================================================================
