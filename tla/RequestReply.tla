---------------------------- MODULE RequestReply ----------------------------
(***************************************************************************)
(* What a REQ socket promises its application: requests are numbered, a    *)
(* new request replaces the one before, and a reply that is handed over    *)
(* answers the latest request, which is answered at most once.             *)
(***************************************************************************)
EXTENDS Naturals

CONSTANT Request    \* the numbers requests may have

VARIABLES
  asked,    \* number of requests made
  pending,  \* the latest one waits for its reply
  replied   \* replied[m]: how many replies to m have been handed over

abs == <<asked, pending, replied>>

AbsInit == asked = 0 /\ pending = FALSE /\ replied = [m \in Request |-> 0]

Ask ==
  /\ asked + 1 \in Request
  /\ asked' = asked + 1
  /\ pending' = TRUE
  /\ UNCHANGED replied

Answer ==
  /\ pending
  /\ replied[asked] = 0
  /\ replied' = [replied EXCEPT ![asked] = 1]
  /\ pending' = FALSE
  /\ UNCHANGED asked

AbsNext == Ask \/ Answer

AbsSpec == AbsInit /\ [][AbsNext]_abs

=============================================================================
