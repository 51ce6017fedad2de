--------------------------- MODULE PeriodBarrier ---------------------------
(***************************************************************************)
(* What the termination of a hard synchronisation period promises          *)
(* (TerminationAlgorithm::terminate in synchro/hard/api/client_server.h):  *)
(* a barrier that opens only when every process is inside and no request   *)
(* is pending anywhere, and that everybody leaves before it closes again.  *)
(* No token, no message, no colour.                                        *)
(***************************************************************************)
CONSTANT Proc

VARIABLES phase,    \* period each process is in, by its parity
          inside,   \* processes waiting at the barrier
          busy,     \* processes with a request not received yet
          released  \* processes that may leave the barrier

bvars == <<phase, inside, busy, released>>

Init ==
  /\ phase = [p \in Proc |-> "EVEN"]
  /\ inside = {}
  /\ busy = {}
  /\ released = {}

Flip(e) == IF e = "EVEN" THEN "ODD" ELSE "EVEN"

\* p's tasks post requests...
Post(p) ==
  /\ p \notin inside
  /\ p \notin busy
  /\ busy' = busy \cup {p}
  /\ UNCHANGED <<phase, inside, released>>

\* ...which are received later.
Received(p) ==
  /\ p \in busy
  /\ busy' = busy \ {p}
  /\ UNCHANGED <<phase, inside, released>>

\* p posts on behalf of q, which still works and may have other requests
\* pending: only so can a process inside the barrier become busy again.
Forward(p, q) ==
  /\ q \in busy \ inside
  /\ p \notin released
  /\ busy' \in {busy \cup {p}, (busy \ {q}) \cup {p}}
  /\ UNCHANGED <<phase, inside, released>>

Enter(p) ==
  /\ p \notin inside
  /\ p \notin busy
  /\ inside' = inside \cup {p}
  /\ UNCHANGED <<phase, busy, released>>

\* p finds the period over: it goes on and releases the others.
Conclude(p) ==
  /\ inside = Proc
  /\ busy = {}
  /\ released = {}
  /\ \A q \in Proc : phase[q] = phase[p]
  /\ phase' = [phase EXCEPT ![p] = Flip(@)]
  /\ inside' = inside \ {p}
  /\ released' = Proc \ {p}
  /\ UNCHANGED busy

Leave(p) ==
  /\ p \in released
  /\ p \in inside
  /\ phase' = [phase EXCEPT ![p] = Flip(@)]
  /\ inside' = inside \ {p}
  /\ released' = released \ {p}
  /\ UNCHANGED busy

Next ==
  \E p \in Proc :
    \/ Post(p) \/ Received(p) \/ Enter(p) \/ Conclude(p) \/ Leave(p)
    \/ \E q \in Proc : Forward(p, q)

Spec == Init /\ [][Next]_bvars
=============================================================================
