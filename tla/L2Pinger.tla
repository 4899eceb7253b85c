------------------------------ MODULE L2Pinger ------------------------------
(***************************************************************************)
(* The L2 pinger (net/l2_pinger.rs) with the buttons of its rows           *)
(* (app/l2_tab.rs): a dispatcher that keeps one loop per pairing of source *)
(* and target, and the loops, each of whose rounds checks the source for   *)
(* duplicates, pings the target and sleeps.  A round's two requests go to  *)
(* the L2 manager, which answers each of them at most once (JobService):   *)
(* it may never answer one, since L2Relay may end up in a circular wait    *)
(* (L2Relay!Clogged).                                                      *)
(*                                                                         *)
(* Consecutive updates of one row, with no await and no look at the flag   *)
(* between them, are one step.  A definition named Faulty... is a          *)
(* plausible mistake in the one after it; nothing uses it but the runs     *)
(* that show a property notices it.                                        *)
(***************************************************************************)
EXTENDS Naturals, Sequences

CONSTANTS
  Pairs,      \* (source, target) pairings
  Methods,    \* L2PingMethod
  CmdCap,     \* capacity of the L2PingerCommand channel (main.rs)
  MaxClicks,  \* bound: commands the user gives
  MaxRounds   \* bound: rounds by one loop

ASSUME BoundAssumption ==
  /\ CmdCap \in Nat \ {0}
  /\ {MaxClicks, MaxRounds} \subseteq Nat

VARIABLES
  clicks,   \* commands given so far
  cmds,     \* the command channel
  worker,   \* where the dispatcher is in the handling of a command
  handles,  \* the loop whose TargetHandle each pairing has, or NoLoop
  loops,    \* every loop spawned so far, by the number of its spawn
  rows      \* L2PingerState

uiVars == <<clicks, cmds>>
vars == <<uiVars, worker, handles, loops, rows>>

-----------------------------------------------------------------------------
NoLoop == 0
NoRow  == [running |-> FALSE]

Command(kind, p, m) == [kind |-> kind, pair |-> p, method |-> m]
Idle == [at |-> "recv"]
Joining(c, old) == [at |-> "joining", cmd |-> c, old |-> old]

(* L2PingEntry; macs says whether duplicate_macs lists any.                *)
NewRow(m) == [running |-> TRUE, method |-> m, phase |-> "Idle", macs |-> FALSE, last |-> "none"]
HasRow(p) == rows[p] # NoRow

(* Every update of a row that is gone does nothing.                        *)
Update(p, new) == rows' = IF HasRow(p) THEN [rows EXCEPT ![p] = new] ELSE rows

(* Loops: "top" before the test of the flag, "asking" and "pinging" while  *)
(* a request is at the manager, "landing" once an answer may be shown.     *)
NewLoop(c) == [pair |-> c.pair, method |-> c.method, at |-> "top",
               told |-> "no", got |-> "none", done |-> 0]
Alive(g) == loops[g].at # "ended"
Stopped(g) == loops[g].told # "no"
Move(g, at) == loops' = [loops EXCEPT ![g].at = at]

Tell(g, what) == IF g = NoLoop THEN loops ELSE [loops EXCEPT ![g].told = what]

(* Faulty: the task was given a flag of its own. *)
FaultyFlagSeen(g) == FALSE
FlagSeen(g) == Stopped(g)

-----------------------------------------------------------------------------
Init ==
  /\ clicks = 0 /\ cmds = <<>>
  /\ worker = Idle
  /\ handles = [p \in Pairs |-> NoLoop]
  /\ loops = <<>>
  /\ rows = [p \in Pairs |-> NoRow]

-----------------------------------------------------------------------------
(* The UI                                                                  *)

(* Faulty: an unbounded channel. *)
FaultyGive(c) ==
  /\ clicks < MaxClicks
  /\ clicks' = clicks + 1
  /\ cmds' = Append(cmds, c)
  /\ UNCHANGED <<worker, handles, loops, rows>>

(* A command for a full channel is dropped.                                *)
Give(c) ==
  /\ clicks < MaxClicks
  /\ clicks' = clicks + 1
  /\ cmds' = IF Len(cmds) = CmdCap THEN cmds ELSE Append(cmds, c)
  /\ UNCHANGED <<worker, handles, loops, rows>>

Submit(p, m) == Give(Command("Start", p, m))

Toggle(p) ==
  /\ HasRow(p)
  /\ Give(Command(IF rows[p].running THEN "Stop" ELSE "Start", p, rows[p].method))

Delete(p) == HasRow(p) /\ Give(Command("Delete", p, rows[p].method))

-----------------------------------------------------------------------------
(* The dispatcher                                                          *)

Takes(kind) == worker = Idle /\ cmds # <<>> /\ Head(cmds).kind = kind

(* Faulty: the old loop is left running when its pairing is started again. *)
FaultyReplace(c) ==
  /\ worker' = Joining(c, NoLoop)
  /\ UNCHANGED <<handles, loops>>

Replace(c) ==
  /\ worker' = Joining(c, handles[c.pair])
  /\ handles' = [handles EXCEPT ![c.pair] = NoLoop]
  /\ loops' = Tell(handles[c.pair], "abort")

TakeStartOrDelete ==
  /\ Takes("Start") \/ Takes("Delete")
  /\ Replace(Head(cmds))
  /\ cmds' = Tail(cmds)
  /\ UNCHANGED <<clicks, rows>>

(* Faulty: the aborted loop is not awaited. *)
FaultyJoined(kind) == worker # Idle /\ worker.cmd.kind = kind

Joined(kind) ==
  /\ worker # Idle /\ worker.cmd.kind = kind
  /\ worker.old # NoLoop => ~Alive(worker.old)

(* ensure_target leaves a row that exists as it is.                        *)
StartLoop ==
  /\ Joined("Start")
  /\ LET c == worker.cmd IN
       /\ rows' = [rows EXCEPT ![c.pair] =
                     IF HasRow(c.pair) THEN [@ EXCEPT !.running = TRUE] ELSE NewRow(c.method)]
       /\ loops' = Append(loops, NewLoop(c))
       /\ handles' = [handles EXCEPT ![c.pair] = Len(loops) + 1]
  /\ worker' = Idle
  /\ UNCHANGED uiVars

RemoveRow ==
  /\ Joined("Delete")
  /\ rows' = [rows EXCEPT ![worker.cmd.pair] = NoRow]
  /\ worker' = Idle
  /\ UNCHANGED <<uiVars, handles, loops>>

Stop ==
  /\ Takes("Stop")
  /\ LET p == Head(cmds).pair IN
       /\ loops' = Tell(handles[p], "stop")
       /\ handles' = [handles EXCEPT ![p] = NoLoop]
       /\ Update(p, [rows[p] EXCEPT !.running = FALSE])
  /\ cmds' = Tail(cmds)
  /\ UNCHANGED <<clicks, worker>>

-----------------------------------------------------------------------------
(* Loop g; its row is the row of its pairing, whoever made it              *)

RowOf(g) == rows[loops[g].pair]
Show(g, new) == Update(loops[g].pair, new)

(* A round begins by asking the manager about the source.                  *)
BeginRound(g) ==
  /\ loops[g].at = "top"
  /\ IF FlagSeen(g)
       THEN Move(g, "ended") /\ UNCHANGED rows
       ELSE /\ loops[g].done < MaxRounds
            /\ loops' = [loops EXCEPT ![g].at = "asking", ![g].done = @ + 1]
            /\ Show(g, [RowOf(g) EXCEPT !.phase = "CheckingDuplicate"])
  /\ UNCHANGED <<uiVars, worker, handles>>

(* An answer of the manager's, looked at unless the flag is up by now.     *)
Answered(g, at, got) ==
  /\ loops[g].at = at
  /\ loops' = [loops EXCEPT ![g].at = IF FlagSeen(g) THEN "ended" ELSE "landing",
                            ![g].got = IF FlagSeen(g) THEN "none" ELSE got]
  /\ UNCHANGED <<uiVars, worker, handles, rows>>

Land(g, got, at, new) ==
  /\ loops[g].at = "landing" /\ loops[g].got = got
  /\ loops' = [loops EXCEPT ![g].at = at, ![g].got = "none"]
  /\ Show(g, new)
  /\ UNCHANGED <<uiVars, worker, handles>>

(* The source is taken: the round ends without a ping.                     *)
Duplicate(g) ==
  Land(g, "duplicate", "resting",
       [RowOf(g) EXCEPT !.macs = TRUE, !.phase = "Duplicate", !.last = "error"])

(* The source is clear, or the check inconclusive.                         *)
Ping(g) ==
  \/ Land(g, "clear", "pinging", [RowOf(g) EXCEPT !.macs = FALSE, !.phase = "InFlight"])
  \/ Land(g, "unknown", "pinging", [RowOf(g) EXCEPT !.phase = "InFlight"])

Pinged(g) ==
  \/ Land(g, "reply", "sleeping", [RowOf(g) EXCEPT !.phase = "Success", !.last = "success"])
  \/ Land(g, "nothing", "sleeping", [RowOf(g) EXCEPT !.phase = "Failed", !.last = "error"])

(* The sleep ends, early if the flag is up; after a ping, though not after *)
(* a duplicate, the phase goes back to Idle either way.                    *)
WakeUp(g) ==
  /\ loops[g].at \in {"sleeping", "resting"}
  /\ Move(g, "top")
  /\ IF loops[g].at = "sleeping" THEN Show(g, [RowOf(g) EXCEPT !.phase = "Idle"])
     ELSE UNCHANGED rows
  /\ UNCHANGED <<uiVars, worker, handles>>

(* abort() takes effect at an await, or before the task first runs.        *)
Cancelled(g) ==
  /\ loops[g].told = "abort"
  /\ \/ loops[g].at \in {"asking", "pinging", "sleeping", "resting"}
     \/ loops[g].at = "top" /\ loops[g].done = 0
  /\ Move(g, "ended")
  /\ UNCHANGED <<uiVars, worker, handles, rows>>

-----------------------------------------------------------------------------
Dispatch == TakeStartOrDelete \/ StartLoop \/ RemoveRow \/ Stop

OwnStep(g) ==
  \/ BeginRound(g)
  \/ Duplicate(g) \/ Ping(g) \/ Pinged(g)
  \/ WakeUp(g) \/ Cancelled(g)

ManagerAnswers(g) ==
  \/ \E o \in {"clear", "duplicate", "unknown"} : Answered(g, "asking", o)
  \/ \E o \in {"reply", "nothing"} : Answered(g, "pinging", o)

LoopStep(g) == OwnStep(g) \/ ManagerAnswers(g)

Next ==
  \/ \E p \in Pairs : \/ \E m \in Methods : Submit(p, m)
                      \/ Toggle(p) \/ Delete(p)
  \/ Dispatch
  \/ \E g \in DOMAIN loops : LoopStep(g)

Spec == Init /\ [][Next]_vars

(* The dispatcher and every task are scheduled.  The manager owes nothing. *)
Fairness ==
  /\ WF_vars(Dispatch)
  /\ \A g \in 1..MaxClicks : WF_vars(g \in DOMAIN loops /\ OwnStep(g))

FairSpec == Spec /\ Fairness

-----------------------------------------------------------------------------
Cmd == [kind : {"Start", "Stop", "Delete"}, pair : Pairs, method : Methods]
Loop == [pair : Pairs, method : Methods,
         at : {"top", "asking", "pinging", "landing", "sleeping", "resting", "ended"},
         told : {"no", "stop", "abort"},
         got : {"none", "clear", "duplicate", "unknown", "reply", "nothing"}, done : Nat]
Row == [running : BOOLEAN, method : Methods, macs : BOOLEAN,
        phase : {"Idle", "CheckingDuplicate", "Duplicate", "InFlight", "Success", "Failed"},
        last : {"none", "success", "error"}]

(* The type invariant; handles and joins name loops that were spawned, for *)
(* the pairing they are about.                                             *)
TypeOK ==
  /\ clicks \in Nat
  /\ cmds \in Seq(Cmd) /\ Len(cmds) <= CmdCap
  /\ loops \in Seq(Loop)
  /\ worker \in {Idle} \cup [at : {"joining"}, cmd : Cmd, old : Nat]
  /\ worker # Idle /\ worker.old # NoLoop =>
       worker.old \in DOMAIN loops /\ loops[worker.old].pair = worker.cmd.pair
  /\ handles \in [Pairs -> Nat]
  /\ \A p \in Pairs : handles[p] # NoLoop =>
       handles[p] \in DOMAIN loops /\ loops[handles[p]].pair = p
  /\ rows \in [Pairs -> Row \cup {NoRow}]

-----------------------------------------------------------------------------
Runs(p) == \E g \in DOMAIN loops : loops[g].pair = p /\ Alive(g) /\ ~Stopped(g)

(* Between two commands a row runs exactly while its pairing has a loop    *)
(* that nobody told to stop, and that loop is the one its handle controls: *)
(* whatever the loops that Stop let go still do, they neither revive a row *)
(* nor stop it.                                                            *)
RunningIsTrue ==
  /\ \A g \in DOMAIN loops : Alive(g) /\ ~Stopped(g) => handles[loops[g].pair] = g
  /\ \A p \in Pairs :
       (worker = Idle \/ worker.cmd.pair # p) => (rows[p].running <=> Runs(p))

(* l2_pinger.rs:59-60 on L2Phase: "One round's current phase for a         *)
(* pairing".  Unless Stop let one of its loops go, the phase a row shows   *)
(* is that of its loop's round, whatever rounds restarts cut short.        *)
NeverLetGo(p) == \A g \in DOMAIN loops : loops[g].pair = p => loops[g].told # "stop"
PhaseShown(g) == IF HasRow(loops[g].pair) THEN RowOf(g).phase ELSE "no row"
PhaseIsTrue ==
  \A g \in DOMAIN loops : NeverLetGo(loops[g].pair) =>
    /\ loops[g].at = "asking" => PhaseShown(g) = "CheckingDuplicate"
    /\ loops[g].at = "pinging" => PhaseShown(g) = "InFlight"
    /\ loops[g].at = "sleeping" => PhaseShown(g) \in {"Success", "Failed"}
    /\ loops[g].at = "resting" => PhaseShown(g) = "Duplicate" /\ RowOf(g).macs

(* Under FairSpec, a loop that a restart or a deletion aborted ends,       *)
(* whichever of its phases it is in and whether or not the manager answers *)
(* it; so the dispatcher, which awaits it, comes back to its commands.  A  *)
(* loop that Stop let go ends too, unless the manager never answers it:    *)
(* that wait has no limit, and the flag is not looked at in it.            *)
StaysAtManager(g) == <>[](g \in DOMAIN loops /\ loops[g].at \in {"asking", "pinging"})
Told(g, what) == g \in DOMAIN loops /\ loops[g].told = what
Over(g) == g \in DOMAIN loops /\ ~Alive(g)
StoppedLoopsEnd ==
  /\ \A g \in 1..MaxClicks :
       /\ Told(g, "abort") ~> Over(g)
       /\ StaysAtManager(g) \/ (Told(g, "stop") ~> Over(g))
  /\ worker # Idle ~> worker = Idle
=============================================================================
