----------------------------- MODULE L2Lifecycle ----------------------------
(***************************************************************************)
(* How an L2 session begins and how a helper process ends: start_session   *)
(* and L2Session::shutdown of the manager task (net/l2_manager.rs), the    *)
(* endpoint (net/l2_ipc.rs), and the helper from its launch to its exit    *)
(* (net/l2_helper.rs, with the threads of net/l2_engine.rs and             *)
(* net/dhcp_sniffer.rs).  Every start launches one more helper, and a      *)
(* helper of an earlier start may still be there; the endpoint's name is   *)
(* the same for all of them.                                               *)
(*                                                                         *)
(* What passes between a session and its helper once both are up is        *)
(* L2Relay's.  A definition named Faulty... is a plausible mistake in the  *)
(* one after it; nothing uses it but the runs that show a property notices *)
(* it.                                                                     *)
(***************************************************************************)
EXTENDS Naturals, Sequences

CONSTANTS
  Modes,      \* how helpers may be started, of {"child", "root", "none"}
  MaxStarts   \* bound: how often L2 mode is activated

(* "child": spawned by the GUI under its own user; "root": by pkexec, so   *)
(* that the GUI can wait for it but not kill it; "none": by ShellExecuteW, *)
(* which leaves no handle.                                                 *)
ASSUME ModeAssumption == Modes \subseteq {"child", "root", "none"}
ASSUME StartAssumption == MaxStarts \in Nat

Helpers == 1..MaxStarts
NoHelper == 0

VARIABLES
  mode,     \* given by the readiness probe and the platform
  mgr,      \* where the manager task is
  status,   \* SharedL2Status
  banner,   \* DhcpState::sniffer_error: "unknown", "ok" or "error"
  starts,   \* the helper launched last, whose child handle the manager has
  bound,    \* the endpoint exists
  peer,     \* the helper that has connected to it and was not yet accepted
  conn,     \* the helper at the other end of the manager's stream
  inbox,    \* status messages in that stream, or in peer's
  at,       \* where each helper is
  sniffer,  \* each helper's sniffer thread: "none", "on" or "off"
  outcome,  \* what that thread reported when it started
  told      \* helpers that were sent Shutdown

mgrVars == <<mgr, status, banner>>
helperVars == <<at, sniffer, outcome>>
vars == <<mode, mgrVars, starts, bound, peer, conn, inbox, helperVars, told>>

-----------------------------------------------------------------------------
Init ==
  /\ mode \in Modes
  /\ mgr = "select" /\ status = "Inactive" /\ banner = "unknown"
  /\ starts = 0 /\ bound = FALSE
  /\ peer = NoHelper /\ conn = NoHelper /\ inbox = <<>>
  /\ at = [h \in Helpers |-> "unborn"]
  /\ sniffer = [h \in Helpers |-> "none"]
  /\ outcome = [h \in Helpers |-> "unknown"]
  /\ told = {}

Exited == {"exited", "nowhere"}   \* "nowhere": it found no endpoint
Gone == Exited \cup {"ending"}    \* its end of the connection is closed
Session == conn # NoHelper /\ mgr # "handshake"
Held(h) == h \in {peer, conn}     \* the manager's end is open

-----------------------------------------------------------------------------
(* start_session                                                           *)

Launch ==
  /\ mgr = "select" /\ ~Session
  /\ starts < MaxStarts
  /\ starts' = starts + 1
  /\ at' = [at EXCEPT ![starts + 1] = "launching"]
  /\ mgr' = "spawned" /\ status' = "Starting"
  /\ UNCHANGED <<mode, banner, bound, peer, conn, inbox, sniffer, outcome, told>>

(* The first poll of listen_and_accept, after the spawn, makes the         *)
(* endpoint.                                                               *)
Bind ==
  /\ mgr = "spawned"
  /\ mgr' = "waiting" /\ bound' = TRUE
  /\ UNCHANGED <<mode, status, banner, starts, peer, conn, inbox, helperVars, told>>

(* Err, from any point on: listener and stream are dropped, and the child  *)
(* handle with them, which does not end the child.                         *)
GiveUp ==
  /\ mgr' = "select" /\ status' = "Failed"
  /\ bound' = FALSE /\ peer' = NoHelper /\ conn' = NoHelper /\ inbox' = <<>>
  /\ UNCHANGED <<mode, starts, helperVars, told>>

LaunchFails ==
  /\ mgr = "select" /\ ~Session
  /\ starts < MaxStarts
  /\ GiveUp /\ UNCHANGED banner

BindFails == mgr = "spawned" /\ GiveUp /\ UNCHANGED banner

(* Faulty: the child's exit is not raced against the connection. *)
FaultyChildExited ==
  /\ mgr = "handshake" /\ mode # "none"
  /\ at[starts] \in Exited
  /\ GiveUp /\ UNCHANGED banner

ChildExited ==
  /\ mgr \in {"spawned", "waiting"} /\ mode # "none"
  /\ at[starts] \in Exited
  /\ GiveUp /\ UNCHANGED banner

(* Without a child handle, the wait for the connection has a limit.        *)
AcceptTimesOut == mgr = "waiting" /\ mode = "none" /\ GiveUp /\ UNCHANGED banner

Accept ==
  /\ mgr = "waiting" /\ peer # NoHelper
  /\ mgr' = "handshake"
  /\ conn' = peer /\ peer' = NoHelper /\ bound' = FALSE
  /\ UNCHANGED <<mode, status, banner, starts, inbox, helperVars, told>>

Receives(m) == mgr = "handshake" /\ inbox # <<>> /\ Head(inbox) = m

(* Faulty: the first message is taken for the status, whatever it is. *)
FaultyHearSniffer ==
  /\ mgr = "handshake" /\ inbox # <<>>
  /\ banner' = Head(inbox)
  /\ inbox' = Tail(inbox)
  /\ UNCHANGED <<mode, mgr, status, starts, bound, peer, conn, helperVars, told>>

HearSniffer ==
  /\ mgr = "handshake" /\ inbox # <<>> /\ Head(inbox) \in {"ok", "error"}
  /\ banner' = Head(inbox)
  /\ inbox' = Tail(inbox)
  /\ UNCHANGED <<mode, mgr, status, starts, bound, peer, conn, helperVars, told>>

HearReady ==
  /\ Receives("ready")
  /\ inbox' = Tail(inbox)
  /\ mgr' = "select" /\ status' = "Active"
  /\ UNCHANGED <<mode, banner, starts, bound, peer, conn, helperVars, told>>

HearFailed == Receives("failed") /\ GiveUp /\ UNCHANGED banner

(* The stream ended first, or the 120 s are over.                          *)
HandshakeFails == mgr = "handshake" /\ GiveUp /\ UNCHANGED banner

-----------------------------------------------------------------------------
(* The end of a session                                                    *)

(* The reader task found the stream at its end.                            *)
HelperLost ==
  /\ mgr = "select" /\ Session /\ at[conn] \in Gone
  /\ GiveUp /\ UNCHANGED banner

(* Shutdown is sent; the write comes through (see L2Relay for when not).   *)
Deactivate ==
  /\ mgr = "select" /\ Session
  /\ told' = told \cup {conn}
  /\ mgr' = "reaping"
  /\ UNCHANGED <<mode, status, banner, starts, bound, peer, conn, inbox, helperVars>>

(* Without a session it only clears the status.                            *)
DeactivateNothing ==
  /\ mgr = "select" /\ ~Session
  /\ status' = "Inactive"
  /\ UNCHANGED <<mode, mgr, banner, starts, bound, peer, conn, inbox, helperVars, told>>

(* The child ended within 3 s or is killed, if the GUI may; then the       *)
(* stream is dropped.                                                      *)
Reap ==
  /\ mgr = "reaping"
  /\ mgr' = "select" /\ status' = "Inactive"
  /\ conn' = NoHelper /\ inbox' = <<>>
  /\ IF mode = "child"
       THEN /\ at' = [at EXCEPT ![starts] = IF @ \in Exited THEN @ ELSE "exited"]
            /\ sniffer' = [sniffer EXCEPT ![starts] = "off"]
       ELSE UNCHANGED <<at, sniffer>>
  /\ UNCHANGED <<mode, banner, starts, bound, peer, outcome, told>>

-----------------------------------------------------------------------------
(* Helper h                                                                *)

Go(h, to) == at' = [at EXCEPT ![h] = to]
Others == <<mode, mgrVars, starts, bound, conn, told>>

(* The prompt is declined, or the program cannot be run.                   *)
Decline(h) ==
  /\ at[h] = "launching"
  /\ Go(h, "exited")
  /\ UNCHANGED <<Others, peer, inbox, sniffer, outcome>>

(* The first to connect is accepted; one behind it finds, sooner or later, *)
(* that nobody holds the other end.                                        *)
Connect(h) ==
  /\ at[h] = "launching" /\ bound
  /\ peer' = IF peer = NoHelper THEN h ELSE peer
  /\ Go(h, "connected")
  /\ UNCHANGED <<Others, inbox, sniffer, outcome>>

(* Nothing listens, or the one pipe there is, is taken.                    *)
ConnectFails(h) ==
  /\ at[h] = "launching"
  /\ ~bound \/ peer # NoHelper
  /\ Go(h, "nowhere")
  /\ UNCHANGED <<Others, peer, inbox, sniffer, outcome>>

(* A status message, which is lost on a stream the manager has dropped.    *)
Send(h, m) == inbox' = IF Held(h) THEN Append(inbox, m) ELSE inbox

(* No interface, or no capture handle; main returns and no thread is left. *)
EngineFails(h) ==
  /\ at[h] = "connected"
  /\ Send(h, "failed")
  /\ Go(h, "exited")
  /\ UNCHANGED <<Others, peer, sniffer, outcome>>

EngineOpens(h) ==
  /\ at[h] = "connected"
  /\ Go(h, "open")
  /\ UNCHANGED <<Others, peer, inbox, sniffer, outcome>>

(* Faulty: Ready is sent as soon as the engine is up. *)
FaultySnifferStarts(h, o) ==
  /\ at[h] = "open"
  /\ sniffer' = [sniffer EXCEPT ![h] = IF o = "ok" THEN "on" ELSE "off"]
  /\ outcome' = [outcome EXCEPT ![h] = o]
  /\ Send(h, "ready")
  /\ Go(h, "announcing")
  /\ UNCHANGED <<Others, peer>>

(* The sniffer opens its own handle, or does not; either is reported.      *)
SnifferStarts(h, o) ==
  /\ at[h] = "open"
  /\ sniffer' = [sniffer EXCEPT ![h] = IF o = "ok" THEN "on" ELSE "off"]
  /\ outcome' = [outcome EXCEPT ![h] = o]
  /\ Send(h, o)
  /\ Go(h, IF Held(h) THEN "announcing" ELSE "ending")
  /\ UNCHANGED <<Others, peer>>

Announce(h) ==
  /\ at[h] = "announcing"
  /\ Send(h, "ready")
  /\ Go(h, IF Held(h) THEN "serving" ELSE "ending")
  /\ UNCHANGED <<Others, peer, sniffer, outcome>>

(* Faulty: the helper waits for Shutdown and takes no notice of an EOF. *)
FaultyStopServing(h) ==
  /\ at[h] = "serving" /\ h \in told
  /\ Go(h, "ending")
  /\ UNCHANGED <<Others, peer, inbox, sniffer, outcome>>

(* Shutdown or the end of the stream was read: run_l2_helper returns.      *)
StopServing(h) ==
  /\ at[h] = "serving"
  /\ h \in told \/ ~Held(h)
  /\ Go(h, "ending")
  /\ UNCHANGED <<Others, peer, inbox, sniffer, outcome>>

(* The sniffer looks at whether anyone listens when it has a DHCP message. *)
SnifferEnds(h) ==
  /\ at[h] = "ending" /\ sniffer[h] = "on"
  /\ sniffer' = [sniffer EXCEPT ![h] = "off"]
  /\ UNCHANGED <<Others, peer, inbox, at, outcome>>

(* main has returned; the runtime waits for the threads it started.        *)
Exit(h) ==
  /\ at[h] = "ending" /\ sniffer[h] # "on"
  /\ Go(h, "exited")
  /\ UNCHANGED <<Others, peer, inbox, sniffer, outcome>>

Crash(h) ==
  /\ at[h] \notin {"unborn", "launching"} \cup Exited
  /\ Go(h, "exited")
  /\ sniffer' = [sniffer EXCEPT ![h] = "off"]
  /\ UNCHANGED <<Others, peer, inbox, outcome>>

-----------------------------------------------------------------------------
ManagerStep ==
  \/ Bind \/ BindFails \/ ChildExited \/ AcceptTimesOut \/ Accept
  \/ HearSniffer \/ HearReady \/ HearFailed \/ HandshakeFails
  \/ HelperLost \/ Reap

(* What a helper does of its own accord once somebody answered the prompt. *)
HelperStep(h) ==
  \/ Connect(h) \/ ConnectFails(h)
  \/ EngineFails(h) \/ EngineOpens(h)
  \/ \E o \in {"ok", "error"} : SnifferStarts(h, o)
  \/ Announce(h) \/ StopServing(h) \/ Exit(h)

Next ==
  \/ Launch \/ LaunchFails \/ Deactivate \/ DeactivateNothing
  \/ ManagerStep
  \/ \E h \in Helpers : Decline(h) \/ HelperStep(h) \/ SnifferEnds(h) \/ Crash(h)

Spec == Init /\ [][Next]_vars

(* pkexec asks for a password before it runs the helper. *)
Prompting(h) == mode = "root" /\ at[h] = "launching"

(* The manager task and every helper are scheduled; a prompt need not ever *)
(* be answered.                                                            *)
Fairness ==
  /\ WF_vars(ManagerStep)
  /\ \A h \in Helpers : WF_vars(HelperStep(h) /\ ~Prompting(h))
FairSpec == Spec /\ Fairness

(* The same on a network that always sees another DHCP message.            *)
BusyFairSpec == FairSpec /\ \A h \in Helpers : WF_vars(SnifferEnds(h))

-----------------------------------------------------------------------------
(* The type invariant.                                                     *)
TypeOK ==
  /\ mode \in Modes
  /\ mgr \in {"select", "spawned", "waiting", "handshake", "reaping"}
  /\ status \in {"Inactive", "Starting", "Active", "Failed"}
  /\ banner \in {"unknown", "ok", "error"}
  /\ starts \in Nat /\ starts <= MaxStarts
  /\ bound \in BOOLEAN
  /\ {peer, conn} \subseteq Helpers \cup {NoHelper}
  /\ inbox \in Seq({"ok", "error", "ready", "failed"})
  /\ at \in [Helpers -> {"unborn", "launching", "connected", "open", "announcing",
                         "serving", "ending"} \cup Exited]
  /\ sniffer \in [Helpers -> {"none", "on", "off"}]
  /\ outcome \in [Helpers -> {"unknown", "ok", "error"}]
  /\ told \subseteq Helpers

(* L2 mode is shown as Active only over a connection to a helper that has  *)
(* been through all of its startup (it may since have ended); no other     *)
(* outcome of a start, and no helper of another start that connects in its *)
(* place, gets there.  And l2_manager.rs:441-444: the sniffer's status     *)
(* comes first "so the DHCP tab's error banner is already populated by the *)
(* moment L2 mode reports Active".  It is, and with the outcome of this    *)
(* very helper.                                                            *)
ActiveIsServed ==
  status = "Active" =>
    /\ conn # NoHelper /\ at[conn] \in {"serving"} \cup Gone
    /\ banner = outcome[conn]

(* Under FairSpec, l2_manager.rs:407-408: "so "Starting..." never hangs    *)
(* forever", whatever becomes of the helper and of those of other starts - *)
(* with one exception: a prompt of pkexec that nobody answers is waited    *)
(* for without a limit, and without heed to commands.                      *)
StartSettles == status = "Starting" ~> (status # "Starting" \/ Prompting(starts))

(* A helper the manager has let go, or told to shut down, comes to an end: *)
(* no elevated process is left behind with its capture handles open (one   *)
(* whose prompt nobody answers has not begun).                             *)
LetGo(h) == at[h] # "unborn" /\ (~Held(h) \/ h \in told)
StraysEnd ==
  \A h \in Helpers :
    (LetGo(h) /\ mgr = "select") ~> (at[h] \in Exited \/ ~LetGo(h) \/ Prompting(h))

-----------------------------------------------------------------------------
(* What the comments say and the code does not do                          *)

(* l2_ipc.rs, on Shutdown: "please exit gracefully".  Under FairSpec, a    *)
(* helper that was told to, exits.                                         *)
ToldHelperExits == \A h \in Helpers : h \in told ~> at[h] \in Exited
=============================================================================
