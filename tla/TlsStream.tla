----------------------------- MODULE TlsStream -----------------------------
(***************************************************************************)
(* What an application may expect of the receiving side of a TLS           *)
(* connection (src/rust-cpython/overlay/Lib/rtls): the bytes the peer      *)
(* sent, in order and once, and then one word on how the stream ended:     *)
(* "closed", the empty result of a clean end, or "truncated", an exception *)
(* for an end without close_notify.  An application that asked for it gets *)
(* the empty result of every end, and so cannot tell them apart.           *)
(***************************************************************************)
EXTENDS Naturals, Sequences

VARIABLES sent,     \* bytes in the records the peer has sent
          bye,      \* it has sent close_notify
          cut,      \* its end of the connection is closed
          ragged,   \* ends without close_notify are presented as clean ones
          got,      \* what the application was given
          told      \* what it was told of the end

vars == <<sent, bye, cut, ragged, got, told>>

Init ==
  /\ sent = 0
  /\ bye = FALSE
  /\ cut = FALSE
  /\ ragged \in BOOLEAN
  /\ got = <<>>
  /\ told = "open"

Send ==
  /\ ~bye /\ ~cut
  /\ sent' \in Nat /\ sent' >= sent
  /\ bye' \in BOOLEAN
  /\ UNCHANGED <<cut, ragged, got, told>>

Cut ==
  /\ cut' = TRUE
  /\ UNCHANGED <<sent, bye, ragged, got, told>>

\* The next bytes, however many.
Deliver ==
  /\ told = "open"
  /\ \E n \in Len(got)..sent : got' = [i \in 1..n |-> i]
  /\ UNCHANGED <<sent, bye, cut, ragged, told>>

Close ==
  /\ told = "open"
  /\ bye \/ (ragged /\ cut)
  /\ Len(got) = sent
  /\ told' = "closed"
  /\ UNCHANGED <<sent, bye, cut, ragged, got>>

\* The connection ended without close_notify; what arrived before was delivered.
Truncate ==
  /\ told = "open"
  /\ cut /\ ~bye
  /\ Len(got) = sent
  /\ told' = "truncated"
  /\ UNCHANGED <<sent, bye, cut, ragged, got>>

Next == Send \/ Cut \/ Deliver \/ Close \/ Truncate

Spec == Init /\ [][Next]_vars
=============================================================================
