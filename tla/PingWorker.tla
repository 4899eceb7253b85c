----------------------------- MODULE PingWorker -----------------------------
(***************************************************************************)
(* The ping worker (net/mod.rs) and the table of rows it keeps for the UI  *)
(* (state.rs): a dispatcher that starts, stops and deletes one continuous  *)
(* ping loop per target, the loops themselves, which are tokio tasks on    *)
(* other threads, and the UI, which reads the table and sends commands.    *)
(*                                                                         *)
(* A loop can be cancelled only where it awaits (while it pings or         *)
(* sleeps); everything it does between two awaits it finishes first.       *)
(* What a ping finds is not told apart: a sample is named by its loop.     *)
(*                                                                         *)
(* A definition named Faulty... is a plausible mistake in the one after    *)
(* it; nothing uses it but the runs that show a property notices it.       *)
(***************************************************************************)
EXTENDS Naturals, Sequences

CONSTANTS
  Targets,     \* addresses
  NoIcmp,      \* those of them for which there is no ICMP socket (IPv6)
  Methods,     \* ping methods, "icmp" among them
  Counts,      \* values of the Count field; 0 stands for the empty field
  Kinds,       \* bound: what the user does, of {"start", "toggle", "delete"}
  CmdCap,      \* capacity of the WorkerCommand channel (main.rs)
  HistoryLen,  \* HISTORY_LEN
  MaxClicks,   \* bound: commands the user gives
  MaxRounds    \* bound: pings by one loop

ASSUME TargetAssumption == NoIcmp \subseteq Targets /\ "icmp" \in Methods
ASSUME BoundAssumption ==
  /\ Counts \subseteq Nat
  /\ {CmdCap, HistoryLen} \subseteq Nat \ {0}
  /\ {MaxClicks, MaxRounds} \subseteq Nat

VARIABLES
  clicks,   \* commands given so far
  cmds,     \* the command channel
  worker,   \* where the dispatcher is in the handling of a command
  handles,  \* the loop whose TargetHandle each target has, or NoLoop
  loops,    \* every loop spawned so far, by the number of its spawn
  rows      \* SharedState

uiVars == <<clicks, cmds>>
vars == <<uiVars, worker, handles, loops, rows>>

-----------------------------------------------------------------------------
NoLoop == 0
NoRow  == [running |-> FALSE]

(* A command, and the dispatcher handling one. *)
Command(kind, t, m, n) == [kind |-> kind, target |-> t, method |-> m, count |-> n]
Idle == [at |-> "recv"]
Handling(at, c, old) == [at |-> at, cmd |-> c, old |-> old]

(* PingEntry: the history holds, per sample, the loop it came from and     *)
(* whether that loop had been told to stop when the sample was recorded.   *)
NewRow(m, n) == [running |-> TRUE, method |-> m, count |-> n, history |-> <<>>]
HasRow(t) == rows[t] # NoRow

(* Loops: at is "top" before the loop's test, so also when it was spawned  *)
(* and while it sleeps; told is what the dispatcher did to end it.         *)
NewLoop(c) == [target |-> c.target, method |-> c.method, count |-> c.count,
               at |-> "top", told |-> "no", done |-> 0]
Alive(g) == loops[g].at # "ended"
Stopped(g) == loops[g].told # "no"

(* Faulty: the task was given a flag of its own. *)
FaultyFlagSeen(g) == FALSE
FlagSeen(g) == Stopped(g)

Move(g, at) == loops' = [loops EXCEPT ![g].at = at]

Tell(g, what) == IF g = NoLoop THEN loops ELSE [loops EXCEPT ![g].told = what]

(* Faulty: the oldest sample is never dropped. *)
FaultyRecorded(t, sample) ==
  LET row == IF HasRow(t) THEN rows[t] ELSE NewRow("icmp", 0)
  IN [rows EXCEPT ![t] = [row EXCEPT !.history = Append(@, sample)]]

(* record_result: a row that is gone is inserted afresh, with the default  *)
(* method; the oldest sample makes room.                                   *)
Recorded(t, sample) ==
  LET row == IF HasRow(t) THEN rows[t] ELSE NewRow("icmp", 0)
      kept == IF Len(row.history) = HistoryLen THEN Tail(row.history) ELSE row.history
  IN [rows EXCEPT ![t] = [row EXCEPT !.history = Append(kept, sample)]]

SetRunning(table, t, r) ==
  IF table[t] = NoRow THEN table ELSE [table EXCEPT ![t].running = r]

-----------------------------------------------------------------------------
Init ==
  /\ clicks = 0 /\ cmds = <<>>
  /\ worker = Idle
  /\ handles = [t \in Targets |-> NoLoop]
  /\ loops = <<>>
  /\ rows = [t \in Targets |-> NoRow]

-----------------------------------------------------------------------------
(* The UI, one frame at a time; a command for a full channel is dropped.   *)

Give(c) ==
  /\ clicks < MaxClicks
  /\ clicks' = clicks + 1
  /\ cmds' = IF Len(cmds) = CmdCap THEN cmds ELSE Append(cmds, c)
  /\ UNCHANGED <<worker, handles, loops, rows>>

(* The form starts any target with the method and count selected in it.    *)
Submit(t, m, n) == "start" \in Kinds /\ Give(Command("Start", t, m, n))

(* The button of a row that runs stops it; otherwise it resumes it with    *)
(* the row's own method and count.                                         *)
Toggle(t) ==
  /\ "toggle" \in Kinds
  /\ HasRow(t)
  /\ Give(Command(IF rows[t].running THEN "Stop" ELSE "Start",
                  t, rows[t].method, rows[t].count))

Delete(t) ==
  /\ "delete" \in Kinds
  /\ HasRow(t)
  /\ Give(Command("Delete", t, rows[t].method, rows[t].count))

-----------------------------------------------------------------------------
(* The dispatcher                                                          *)

Takes(kind) == worker = Idle /\ cmds # <<>> /\ Head(cmds).kind = kind

(* Faulty: the old loop is left running when its target is started again.  *)
FaultyReplace(c) ==
  /\ worker' = Handling("joining", c, NoLoop)
  /\ UNCHANGED <<handles, loops>>

(* The target's loop, if it has one, is told to stop and aborted.          *)
Replace(c) ==
  /\ worker' = Handling("joining", c, handles[c.target])
  /\ handles' = [handles EXCEPT ![c.target] = NoLoop]
  /\ loops' = Tell(handles[c.target], "abort")

(* Start and Delete both take the handle out first.                        *)
TakeStartOrDelete ==
  /\ Takes("Start") \/ Takes("Delete")
  /\ Replace(Head(cmds))
  /\ cmds' = Tail(cmds)
  /\ UNCHANGED <<clicks, rows>>

(* Faulty: the aborted loop is not awaited. *)
FaultyJoined(kind) == worker.at = "joining" /\ worker.cmd.kind = kind

(* old.task.await returned, or there was no old loop.                      *)
Joined(kind) ==
  /\ worker.at = "joining" /\ worker.cmd.kind = kind
  /\ worker.old # NoLoop => ~Alive(worker.old)

(* ensure_target leaves the method and count of a row that exists alone.   *)
EnsureRow ==
  /\ Joined("Start")
  /\ LET c == worker.cmd IN
       rows' = IF HasRow(c.target)
                 THEN SetRunning(rows, c.target, TRUE)
                 ELSE [rows EXCEPT ![c.target] = NewRow(c.method, c.count)]
  /\ worker' = Handling("opening", worker.cmd, NoLoop)
  /\ UNCHANGED <<uiVars, handles, loops>>

NoBackend == worker.cmd.method = "icmp" /\ worker.cmd.target \in NoIcmp

BackendFails ==
  /\ worker.at = "opening" /\ NoBackend
  /\ LET t == worker.cmd.target IN
       rows' = SetRunning(Recorded(t, [by |-> NoLoop, late |-> FALSE]), t, FALSE)
  /\ worker' = Idle
  /\ UNCHANGED <<uiVars, handles, loops>>

Spawn ==
  /\ worker.at = "opening" /\ ~NoBackend
  /\ loops' = Append(loops, NewLoop(worker.cmd))
  /\ handles' = [handles EXCEPT ![worker.cmd.target] = Len(loops) + 1]
  /\ worker' = Idle
  /\ UNCHANGED <<uiVars, rows>>

RemoveRow ==
  /\ Joined("Delete")
  /\ rows' = [rows EXCEPT ![worker.cmd.target] = NoRow]
  /\ worker' = Idle
  /\ UNCHANGED <<uiVars, handles, loops>>

(* Stop raises the flag and lets the loop go, without waiting for it.      *)
Stop ==
  /\ Takes("Stop")
  /\ LET t == Head(cmds).target IN
       /\ loops' = Tell(handles[t], "stop")
       /\ handles' = [handles EXCEPT ![t] = NoLoop]
       /\ rows' = SetRunning(rows, t, FALSE)
  /\ cmds' = Tail(cmds)
  /\ UNCHANGED <<clicks, worker>>

-----------------------------------------------------------------------------
(* Loop g                                                                  *)

(* The loop's test, from its spawn or from its sleep.                      *)
Wake(g) ==
  /\ loops[g].at = "top"
  /\ IF FlagSeen(g) THEN Move(g, "ended")
     ELSE loops[g].done < MaxRounds /\ Move(g, "pinging")
  /\ UNCHANGED <<uiVars, worker, handles, rows>>

(* ping_once returned, with anything, and the flag is read once more.      *)
PingReturns(g) ==
  /\ loops[g].at = "pinging"
  /\ Move(g, IF FlagSeen(g) THEN "ended" ELSE "returned")
  /\ UNCHANGED <<uiVars, worker, handles, rows>>

Record(g) ==
  /\ loops[g].at = "returned"
  /\ LET l == loops[g] IN
       /\ rows' = Recorded(l.target, [by |-> g, late |-> Stopped(g)])
       /\ loops' = [loops EXCEPT ![g].done = @ + 1,
                      ![g].at = IF l.count # 0 /\ l.done + 1 >= l.count
                                  THEN "finishing" ELSE "top"]
  /\ UNCHANGED <<uiVars, worker, handles>>

(* Faulty: the row is left running when its count has run out. *)
FaultyFinish(g) ==
  /\ loops[g].at = "finishing"
  /\ Move(g, "ended")
  /\ UNCHANGED <<uiVars, worker, handles, rows>>

Finish(g) ==
  /\ loops[g].at = "finishing"
  /\ rows' = SetRunning(rows, loops[g].target, FALSE)
  /\ Move(g, "ended")
  /\ UNCHANGED <<uiVars, worker, handles>>

(* abort() takes effect at an await.                                       *)
Cancelled(g) ==
  /\ loops[g].told = "abort"
  /\ loops[g].at \in {"top", "pinging"}
  /\ Move(g, "ended")
  /\ UNCHANGED <<uiVars, worker, handles, rows>>

-----------------------------------------------------------------------------
Dispatch ==
  \/ TakeStartOrDelete \/ EnsureRow \/ BackendFails \/ Spawn \/ RemoveRow \/ Stop

LoopStep(g) ==
  Wake(g) \/ PingReturns(g) \/ Record(g) \/ Finish(g) \/ Cancelled(g)

Next ==
  \/ \E t \in Targets :
       \/ \E m \in Methods, n \in Counts : Submit(t, m, n)
       \/ Toggle(t) \/ Delete(t)
  \/ Dispatch
  \/ \E g \in DOMAIN loops : LoopStep(g)

Spec == Init /\ [][Next]_vars

(* The dispatcher and every spawned task are scheduled, and every backend  *)
(* returns (each has a timeout).  At most MaxClicks loops are spawned.     *)
Fairness ==
  /\ WF_vars(Dispatch)
  /\ \A g \in 1..MaxClicks : WF_vars(g \in DOMAIN loops /\ LoopStep(g))

FairSpec == Spec /\ Fairness

-----------------------------------------------------------------------------
Cmd == [kind : {"Start", "Stop", "Delete"}, target : Targets, method : Methods, count : Counts \cup {0}]
Loop == [target : Targets, method : Methods, count : Counts \cup {0},
         at : {"top", "pinging", "returned", "finishing", "ended"},
         told : {"no", "stop", "abort"}, done : Nat]
Row == [running : BOOLEAN, method : Methods, count : Counts \cup {0},
        history : Seq([by : Nat, late : BOOLEAN])]

(* The type invariant; handles and joins name loops that were spawned, for *)
(* the target they are about, and no history outgrows HISTORY_LEN.         *)
TypeOK ==
  /\ clicks \in Nat
  /\ cmds \in Seq(Cmd) /\ Len(cmds) <= CmdCap
  /\ loops \in Seq(Loop)
  /\ worker \in {Idle} \cup [at : {"joining", "opening"}, cmd : Cmd, old : Nat]
  /\ worker # Idle /\ worker.old # NoLoop =>
       worker.old \in DOMAIN loops /\ loops[worker.old].target = worker.cmd.target
  /\ handles \in [Targets -> Nat]
  /\ \A t \in Targets : handles[t] # NoLoop =>
       handles[t] \in DOMAIN loops /\ loops[handles[t]].target = t
  /\ rows \in [Targets -> Row \cup {NoRow}]
  /\ \A t \in Targets : HasRow(t) => Len(rows[t].history) <= HistoryLen

-----------------------------------------------------------------------------
(* A loop nobody has told to stop is the one its target's handle controls: *)
(* no sequence of commands leaves a loop running that no later Stop or     *)
(* Delete can reach, and no target has two loops that both go on.          *)
NoOrphan ==
  \A g \in DOMAIN loops : Alive(g) /\ ~Stopped(g) => handles[loops[g].target] = g

(* Stop lets a loop go without waiting for it; the two properties below    *)
(* hold of a target as long as that has not happened to it.                *)
NeverLetGo(t) == \A g \in DOMAIN loops : loops[g].target = t => loops[g].told # "stop"

(* state.rs:77 on PingEntry.running: "Whether the continuous ping loop for *)
(* this target is currently active".  So it is between two commands, and   *)
(* the button the row shows is the one that does something.                *)
Settled(t) == worker = Idle \/ worker.cmd.target # t
Runs(t) == \E g \in DOMAIN loops : loops[g].target = t /\ Alive(g) /\ ~Stopped(g)
RunningIsTrue == \A t \in Targets : Settled(t) => (rows[t].running <=> Runs(t))

(* The same, for targets none of whose loops was let go: a count that runs *)
(* out, a restart that fails or a Delete in the middle of a ping all leave *)
(* a row that tells the truth.                                             *)
RunningIsTrueUnlessLetGo ==
  \A t \in Targets : Settled(t) /\ NeverLetGo(t) => (rows[t].running <=> Runs(t))

(* "Don't record a straggling result": the flag is read before the row is  *)
(* locked, so a sample of a loop that was told to stop may slip through,   *)
(* but one at most per loop.  And net/mod.rs:77-82: a restart awaits the   *)
(* old loop, since otherwise "a straggling in-flight ping from the old     *)
(* generation can race the new one to call `record_result`, landing a      *)
(* stale sample out of order": the history of a target none of whose loops *)
(* was let go lists the samples loop by loop.                              *)
SamplesInOrder ==
  \A t \in Targets : HasRow(t) =>
    \A i, j \in DOMAIN rows[t].history :
      LET a == rows[t].history[i]  b == rows[t].history[j] IN
        i < j =>
          /\ ~(a.late /\ b.late /\ a.by = b.by)
          /\ NeverLetGo(t) /\ b.by # NoLoop => a.by <= b.by

(* Under FairSpec, a loop that was told to stop ends, and so the           *)
(* dispatcher, which waits for the one it aborted with no limit, always    *)
(* gets back to its channel.                                               *)
StoppedLoopsEnd ==
  /\ \A g \in 1..MaxClicks : (g \in DOMAIN loops /\ Stopped(g)) ~> (g \in DOMAIN loops /\ ~Alive(g))
  /\ worker # Idle ~> worker = Idle
=============================================================================
