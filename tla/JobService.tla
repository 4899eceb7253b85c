----------------------------- MODULE JobService -----------------------------
(***************************************************************************)
(* What the L2 request path promises to the code that uses it              *)
(* (net/l2_pinger.rs, app/l2_tab.rs), with the GUI's manager task, the IPC *)
(* connection and the helper process all left out: a request is asked      *)
(* once; some time later it is answered, once and for good, either with    *)
(* the outcome of the very job it asked for or with a local failure.       *)
(***************************************************************************)
CONSTANT Requests   \* one element per call of a request function

VARIABLES
  asked,     \* the requests handed to the manager's job channel
  verdict    \* what each request's oneshot receiver got

vars == <<asked, verdict>>

Verdicts == {"own", "failed"}

Outstanding == {r \in asked : verdict[r] = "none"}

Init ==
  /\ asked = {}
  /\ verdict = [r \in Requests |-> "none"]

Ask(r) ==
  /\ r \notin asked
  /\ asked' = asked \cup {r}
  /\ UNCHANGED verdict

(* Several callers may be answered at once: deactivating L2, or losing the *)
(* helper, fails every request that is waiting.                            *)
Answer(S, v) ==
  /\ S # {}
  /\ S \subseteq Outstanding
  /\ verdict' = [r \in Requests |-> IF r \in S THEN v[r] ELSE verdict[r]]
  /\ UNCHANGED asked

Next ==
  \/ \E r \in Requests : Ask(r)
  \/ \E S \in SUBSET Outstanding : \E v \in [S -> Verdicts] : Answer(S, v)

Spec == Init /\ [][Next]_vars
=============================================================================
