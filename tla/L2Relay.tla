------------------------------ MODULE L2Relay -------------------------------
(***************************************************************************)
(* The path of an L2 request through the program: the callers' job         *)
(* channel, the GUI's manager task (net/l2_manager.rs), the IPC connection *)
(* with the reader task that drains it (net/l2_ipc.rs, l2_manager.rs), and *)
(* the helper process with its main loop, its engine thread and the task   *)
(* it spawns per request (net/l2_helper.rs, net/l2_engine.rs).  Channels   *)
(* and socket buffers are bounded and every await that can block does.     *)
(*                                                                         *)
(* How a session starts and how a helper process ends are detailed in      *)
(* L2Lifecycle; here start_session either delivers a ready helper or       *)
(* fails.  A definition named Faulty... is a plausible mistake in the one  *)
(* after it; nothing uses it but the runs that show a property notices it. *)
(***************************************************************************)
EXTENDS Naturals, Sequences

CONSTANTS
  Requests,    \* one element per call of a request function
  Checks,      \* those of them that are CheckDuplicate requests
  NoRequest,   \* "no request", distinct from them all
  JobCap,      \* capacity of the L2JobRequest channel (main.rs)
  CommandCap,  \* capacity of the L2Command channel (main.rs)
  WireCap,     \* messages each direction of the connection buffers
  EventCap,    \* capacity of the reader task's channel
  QueueCap,    \* capacity of the engine's job queue
  MaxClicks,   \* bound: clicks on the L2 checkbox
  MaxDhcp,     \* bound: DHCP messages the sniffer captures
  Faults       \* bound: which faults may happen, of {"crash", "engine"}

ASSUME RequestAssumption == NoRequest \notin Requests /\ Checks \subseteq Requests
ASSUME CapAssumption ==
  /\ {JobCap, CommandCap, WireCap, EventCap, QueueCap} \subseteq Nat \ {0}
  /\ MaxClicks \in Nat /\ MaxDhcp \in Nat

VARIABLES
  asked,      \* requests sent into the job channel so far
  answer,     \* what each request's oneshot receiver got
  jobQ,       \* the job channel: requests not yet taken by the manager
  cmdQ,       \* the command channel
  clicks,     \* clicks so far
  status,     \* SharedL2Status
  mgr,        \* what the manager task is doing
  writing,    \* the request message the manager is writing
  session,    \* session.is_some()
  listening,  \* helper_rx.is_some()
  pending,    \* the reply handle waiting under each request id
  nextId,
  reader,     \* the reader task
  events,     \* its channel into the manager
  toHelper, toGui,   \* the two directions of the connection
  helper,     \* what the helper's main loop is doing
  held,       \* the message that loop has read and not yet disposed of
  jobs,       \* the engine's queue
  engine,     \* the job the engine thread is working on
  engineUp,   \* the engine thread is alive
  replies,    \* spawned tasks that hold a result and want the writer
  sniffed,    \* DHCP messages captured so far
  recorded    \* the GUI's DHCP log

callVars   == <<asked, answer>>
uiVars     == <<cmdQ, clicks>>
mgrVars    == <<status, mgr, writing, session, listening, pending, nextId>>
readVars   == <<reader, events>>
engineVars == <<jobs, engine, engineUp, replies>>
helperVars == <<helper, held, engineVars>>
dhcpVars   == <<sniffed, recorded>>
vars == <<callVars, jobQ, uiVars, mgrVars, readVars, toHelper, toGui,
          helperVars, dhcpVars>>

-----------------------------------------------------------------------------
(* Data                                                                    *)

None == [tag |-> "none"]
Own(r)      == [tag |-> "outcome", of |-> r]  \* the engine's outcome for r's job
Failed  == [tag |-> "failed", of |-> "error"]    \* by either process, whyever
Dropped == [tag |-> "failed", of |-> "dropped"]  \* the oneshot's sender is gone

NoJob == [id |-> 0, req |-> NoRequest]
Shutdown == NoJob    \* the only message to the helper that carries no request

(* The wire tag of the request, hence of the reply the helper builds and   *)
(* of the PendingReply slot: the three pings share one slot variant.       *)
SlotOf(r) == IF r \in Checks THEN "Duplicate" ELSE "Ping"

Response(j, out) == [tag |-> SlotOf(j.req), id |-> j.id, out |-> out]
DhcpEvent(n)     == [tag |-> "Dhcp", id |-> n, out |-> None]

(* Faulty: the slot is filled after next_id was advanced, under the new id. *)
FaultyInsert(f, k, v) ==
  [x \in DOMAIN f \cup {k + 1} |-> IF x = k + 1 THEN v ELSE f[x]]
Insert(f, k, v) == [x \in DOMAIN f \cup {k} |-> IF x = k THEN v ELSE f[x]]

(* Faulty: get(&id) for remove(&id). *)
FaultyRemove(f, k) == f
Remove(f, k) == [x \in DOMAIN f \ {k} |-> f[x]]

Waiting == {pending[i] : i \in DOMAIN pending}

(* Faulty: the pending replies are not drained. *)
FaultyFailAll == UNCHANGED <<answer, pending>>

(* pending.drain(), failing each reply. *)
FailAll ==
  /\ answer' = [r \in Requests |-> IF r \in Waiting THEN Failed ELSE answer[r]]
  /\ pending' = <<>>

Reply(r, out) == answer' = [answer EXCEPT ![r] = out]

-----------------------------------------------------------------------------
Init ==
  /\ asked = {} /\ answer = [r \in Requests |-> None]
  /\ jobQ = <<>> /\ cmdQ = <<>> /\ clicks = 0
  /\ status = "Inactive" /\ mgr = "select" /\ writing = NoJob
  /\ session = FALSE /\ listening = FALSE /\ pending = <<>> /\ nextId = 1
  /\ reader = "none" /\ events = <<>> /\ toHelper = <<>> /\ toGui = <<>>
  /\ helper = "none" /\ held = NoJob
  /\ jobs = <<>> /\ engine = NoJob /\ engineUp = FALSE /\ replies = {}
  /\ sniffed = 0 /\ recorded = <<>>

-----------------------------------------------------------------------------
(* Callers and the UI                                                      *)

(* job_tx.send(..).await: waits for room in the channel.                   *)
Submit(r) ==
  /\ r \notin asked
  /\ Len(jobQ) < JobCap
  /\ asked' = asked \cup {r}
  /\ jobQ' = Append(jobQ, r)
  /\ UNCHANGED <<answer, uiVars, mgrVars, readVars, toHelper, toGui, helperVars, dhcpVars>>

(* A click on the checkbox; try_send drops the command when the channel is *)
(* full.  The label, and so the command, follow the status of this frame.  *)
Click ==
  /\ clicks < MaxClicks
  /\ status # "Starting"
  /\ clicks' = clicks + 1
  /\ cmdQ' = IF Len(cmdQ) = CommandCap THEN cmdQ
             ELSE Append(cmdQ, IF status = "Active" THEN "Deactivate" ELSE "Activate")
  /\ UNCHANGED <<callVars, jobQ, mgrVars, readVars, toHelper, toGui, helperVars, dhcpVars>>

-----------------------------------------------------------------------------
(* The manager task: one iteration of its select loop at a time            *)

TakeCommand(c) ==
  /\ mgr = "select"
  /\ cmdQ # <<>> /\ Head(cmdQ) = c
  /\ cmdQ' = Tail(cmdQ)

Activate ==
  /\ TakeCommand("Activate")
  /\ IF session
       THEN UNCHANGED <<status, mgr>>
       ELSE status' = "Starting" /\ mgr' = "starting"
  /\ UNCHANGED <<callVars, jobQ, clicks, writing, session, listening, pending, nextId,
                 readVars, toHelper, toGui, helperVars, dhcpVars>>

(* start_session returned Ok: a new connection to a new helper that has    *)
(* reported Ready, with a fresh reader task.                               *)
StartOk ==
  /\ mgr = "starting"
  /\ mgr' = "select" /\ status' = "Active"
  /\ session' = TRUE /\ listening' = TRUE
  /\ reader' = "reading" /\ events' = <<>> /\ toHelper' = <<>> /\ toGui' = <<>>
  /\ helper' = "reading" /\ held' = NoJob
  /\ jobs' = <<>> /\ engine' = NoJob /\ engineUp' = TRUE /\ replies' = {}
  /\ UNCHANGED <<callVars, jobQ, uiVars, writing, pending, nextId, dhcpVars>>

StartFail ==
  /\ mgr = "starting"
  /\ mgr' = "select" /\ status' = "Failed"
  /\ UNCHANGED <<callVars, jobQ, uiVars, writing, session, listening, pending, nextId,
                 readVars, toHelper, toGui, helperVars, dhcpVars>>

(* The connection and everything behind it, gone from the GUI's side.      *)
Disconnected ==
  /\ reader' = "none" /\ events' = <<>> /\ toHelper' = <<>> /\ toGui' = <<>>
  /\ helper' = "none" /\ held' = NoJob
  /\ jobs' = <<>> /\ engine' = NoJob /\ engineUp' = FALSE /\ replies' = {}

(* Deactivate: the session is taken, then shutdown() sends Shutdown, stops *)
(* the reader and reaps the child before anything else is updated.         *)
Deactivate ==
  /\ TakeCommand("Deactivate")
  /\ IF session
       THEN /\ mgr' = "stopping" /\ session' = FALSE
            /\ UNCHANGED <<answer, status, listening, pending>>
       ELSE /\ listening' = FALSE /\ status' = "Inactive"
            /\ FailAll
            /\ UNCHANGED <<mgr, session>>
  /\ UNCHANGED <<asked, jobQ, clicks, writing, nextId, readVars, toHelper, toGui,
                 helperVars, dhcpVars>>

SendShutdown ==
  /\ mgr = "stopping"
  /\ \/ helper = "exited" /\ UNCHANGED toHelper
     \/ helper # "exited" /\ Len(toHelper) < WireCap /\ toHelper' = Append(toHelper, Shutdown)
  /\ mgr' = "reaping" /\ reader' = "ended"
  /\ UNCHANGED <<callVars, jobQ, uiVars, status, writing, session, listening, pending, nextId,
                 events, toGui, helperVars, dhcpVars>>

(* The child has exited, was killed after 3 s, or there was none to wait   *)
(* for.                                                                    *)
FinishDeactivate ==
  /\ mgr = "reaping"
  /\ mgr' = "select" /\ listening' = FALSE /\ status' = "Inactive"
  /\ FailAll
  /\ Disconnected
  /\ UNCHANGED <<asked, jobQ, uiVars, writing, session, nextId, dhcpVars>>

TakeJob ==
  /\ mgr = "select"
  /\ jobQ # <<>>
  /\ jobQ' = Tail(jobQ)
  /\ IF session
       THEN /\ mgr' = "writing"
            /\ writing' = [id |-> nextId, req |-> Head(jobQ)]
            /\ nextId' = nextId + 1
            /\ UNCHANGED answer
       ELSE /\ Reply(Head(jobQ), Failed)
            /\ UNCHANGED <<mgr, writing, nextId>>
  /\ UNCHANGED <<asked, uiVars, status, session, listening, pending,
                 readVars, toHelper, toGui, helperVars, dhcpVars>>

(* send_message(..).await: waits for room on the connection.               *)
WriteRequest ==
  /\ mgr = "writing"
  /\ helper # "exited"
  /\ Len(toHelper) < WireCap
  /\ toHelper' = Append(toHelper, writing)
  /\ pending' = Insert(pending, writing.id, writing.req)
  /\ mgr' = "select" /\ writing' = NoJob
  /\ UNCHANGED <<callVars, jobQ, uiVars, status, session, listening, nextId,
                 readVars, toGui, helperVars, dhcpVars>>

WriteFails ==
  /\ mgr = "writing"
  /\ helper = "exited"
  /\ Reply(writing.req, Failed)
  /\ mgr' = "select" /\ writing' = NoJob
  /\ UNCHANGED <<asked, jobQ, uiVars, status, session, listening, pending, nextId,
                 readVars, toHelper, toGui, helperVars, dhcpVars>>

(* A reply resolves the slot under its id.  A slot of the other variant is *)
(* removed all the same, and its sender dropped.                           *)
TakeReply ==
  /\ mgr = "select" /\ listening
  /\ events # <<>> /\ Head(events).tag # "Dhcp"
  /\ events' = Tail(events)
  /\ LET m == Head(events) IN
       IF m.id \in DOMAIN pending
         THEN /\ Reply(pending[m.id],
                       IF m.tag = SlotOf(pending[m.id]) THEN m.out ELSE Dropped)
              /\ pending' = Remove(pending, m.id)
         ELSE UNCHANGED <<answer, pending>>
  /\ UNCHANGED <<asked, jobQ, uiVars, status, mgr, writing, session, listening, nextId,
                 reader, toHelper, toGui, helperVars, dhcpVars>>

TakeDhcp ==
  /\ mgr = "select" /\ listening
  /\ events # <<>> /\ Head(events).tag = "Dhcp"
  /\ events' = Tail(events)
  /\ recorded' = Append(recorded, Head(events).id)
  /\ UNCHANGED <<callVars, jobQ, uiVars, mgrVars, reader, toHelper, toGui, helperVars, sniffed>>

(* recv() gave None: the reader ended and its channel is drained.          *)
HelperGone ==
  /\ mgr = "select" /\ listening
  /\ events = <<>> /\ reader = "ended"
  /\ session' = FALSE /\ listening' = FALSE /\ status' = "Failed"
  /\ FailAll
  /\ Disconnected
  /\ UNCHANGED <<asked, jobQ, uiVars, mgr, writing, nextId, dhcpVars>>

-----------------------------------------------------------------------------
(* The reader task                                                         *)

ReaderForwards ==
  /\ reader = "reading"
  /\ toGui # <<>> /\ Len(events) < EventCap
  /\ events' = Append(events, Head(toGui))
  /\ toGui' = Tail(toGui)
  /\ UNCHANGED <<callVars, jobQ, uiVars, mgrVars, reader, toHelper, helperVars, dhcpVars>>

(* Faulty: Ok(None) from recv_message is taken for an empty read. *)
FaultyReaderEnds ==
  /\ reader = "reading"
  /\ toGui = <<>> /\ helper = "exited"
  /\ UNCHANGED vars

ReaderEnds ==
  /\ reader = "reading"
  /\ toGui = <<>> /\ helper = "exited"
  /\ reader' = "ended"
  /\ UNCHANGED <<callVars, jobQ, uiVars, mgrVars, events, toHelper, toGui, helperVars, dhcpVars>>

-----------------------------------------------------------------------------
(* The helper                                                              *)

(* The process ends: its tasks, its engine and its end of the connection   *)
(* with it.  What it had written stays readable.                           *)
HelperStops ==
  /\ helper' = "exited" /\ held' = NoJob
  /\ jobs' = <<>> /\ engine' = NoJob /\ engineUp' = FALSE /\ replies' = {}

HelperReads ==
  /\ helper = "reading"
  /\ toHelper # <<>>
  /\ toHelper' = Tail(toHelper)
  /\ IF Head(toHelper) = Shutdown
       THEN HelperStops
       ELSE helper' = "queueing" /\ held' = Head(toHelper) /\ UNCHANGED engineVars
  /\ UNCHANGED <<callVars, jobQ, uiVars, mgrVars, readVars, toGui, dhcpVars>>

(* Faulty: an unbounded job channel. *)
FaultyHelperQueues ==
  /\ helper = "queueing" /\ engineUp
  /\ jobs' = Append(jobs, held)
  /\ helper' = "reading" /\ held' = NoJob
  /\ UNCHANGED <<callVars, jobQ, uiVars, mgrVars, readVars, toHelper, toGui,
                 engine, engineUp, replies, dhcpVars>>

(* job_tx.send(job).await, then the spawned task that awaits the result;   *)
(* that task is the job itself until the engine has answered it.           *)
HelperQueues ==
  /\ helper = "queueing"
  /\ engineUp /\ Len(jobs) < QueueCap
  /\ jobs' = Append(jobs, held)
  /\ helper' = "reading" /\ held' = NoJob
  /\ UNCHANGED <<callVars, jobQ, uiVars, mgrVars, readVars, toHelper, toGui,
                 engine, engineUp, replies, dhcpVars>>

(* The engine thread is gone: the main loop writes the failure itself.     *)
HelperRefuses ==
  /\ helper = "queueing"
  /\ ~engineUp /\ Len(toGui) < WireCap
  /\ toGui' = Append(toGui, Response(held, Failed))
  /\ helper' = "reading" /\ held' = NoJob
  /\ UNCHANGED <<callVars, jobQ, uiVars, mgrVars, readVars, toHelper, engineVars, dhcpVars>>

(* The select loop takes a captured DHCP message and, before it does       *)
(* anything else, awaits the write that relays it.                         *)
HelperTakesDhcp ==
  /\ helper = "reading"
  /\ sniffed < MaxDhcp
  /\ sniffed' = sniffed + 1
  /\ helper' = "relaying"
  /\ UNCHANGED <<callVars, jobQ, uiVars, mgrVars, readVars, toHelper, toGui,
                 held, engineVars, recorded>>

(* Faulty: the message is relayed from a spawned task, as the replies are. *)
FaultyHelperRelaysDhcp ==
  /\ helper = "relaying"
  /\ replies' = replies \cup {DhcpEvent(sniffed)}
  /\ helper' = "reading"
  /\ UNCHANGED <<callVars, jobQ, uiVars, mgrVars, readVars, toHelper, toGui,
                 held, jobs, engine, engineUp, dhcpVars>>

HelperRelaysDhcp ==
  /\ helper = "relaying"
  /\ Len(toGui) < WireCap
  /\ toGui' = Append(toGui, DhcpEvent(sniffed))
  /\ helper' = "reading"
  /\ UNCHANGED <<callVars, jobQ, uiVars, mgrVars, readVars, toHelper,
                 held, engineVars, dhcpVars>>

(* A spawned task gets the writer and sends its reply.                     *)
TaskReplies(m) ==
  /\ m \in replies
  /\ Len(toGui) < WireCap
  /\ toGui' = Append(toGui, m)
  /\ replies' = replies \ {m}
  /\ UNCHANGED <<callVars, jobQ, uiVars, mgrVars, readVars, toHelper,
                 helper, held, jobs, engine, engineUp, dhcpVars>>

EngineStarts ==
  /\ engineUp /\ engine = NoJob /\ jobs # <<>>
  /\ engine' = Head(jobs)
  /\ jobs' = Tail(jobs)
  /\ UNCHANGED <<callVars, jobQ, uiVars, mgrVars, readVars, toHelper, toGui,
                 helper, held, engineUp, replies, dhcpVars>>

(* The engine sends the outcome on the job's oneshot, which never blocks.  *)
EngineFinishes ==
  /\ engine # NoJob
  /\ replies' = replies \cup {Response(engine, Own(engine.req))}
  /\ engine' = NoJob
  /\ UNCHANGED <<callVars, jobQ, uiVars, mgrVars, readVars, toHelper, toGui,
                 helper, held, jobs, engineUp, dhcpVars>>

(* The engine thread ends by a panic: every job it had is dropped, and     *)
(* each waiting task turns that into an error reply.                       *)
EngineDies ==
  /\ "engine" \in Faults
  /\ engineUp
  /\ LET dropped == {jobs[i] : i \in DOMAIN jobs} \cup ({engine} \ {NoJob}) IN
       replies' = replies \cup {Response(j, Failed) : j \in dropped}
  /\ engineUp' = FALSE /\ engine' = NoJob /\ jobs' = <<>>
  /\ UNCHANGED <<callVars, jobQ, uiVars, mgrVars, readVars, toHelper, toGui,
                 helper, held, dhcpVars>>

HelperCrashes ==
  /\ "crash" \in Faults
  /\ helper \notin {"none", "exited"}
  /\ HelperStops
  /\ UNCHANGED <<callVars, jobQ, uiVars, mgrVars, readVars, toHelper, toGui, dhcpVars>>

-----------------------------------------------------------------------------
ManagerStep ==
  \/ Activate \/ StartOk \/ StartFail
  \/ Deactivate \/ SendShutdown \/ FinishDeactivate
  \/ TakeJob \/ WriteRequest \/ WriteFails
  \/ TakeReply \/ TakeDhcp \/ HelperGone

HelperStep ==
  \/ HelperReads \/ HelperQueues \/ HelperRefuses
  \/ HelperTakesDhcp \/ HelperRelaysDhcp

EngineStep == EngineStarts \/ EngineFinishes

Next ==
  \/ \E r \in Requests : Submit(r)
  \/ Click
  \/ ManagerStep
  \/ ReaderForwards \/ ReaderEnds
  \/ HelperStep
  \/ \E m \in replies : TaskReplies(m)
  \/ EngineStep \/ EngineDies
  \/ HelperCrashes

Spec == Init /\ [][Next]_vars

(* The tokio tasks and the engine thread keep running, select! polls its   *)
(* branches in random order, and start_session and the wait for the child  *)
(* end.  Callers, the user and the faults owe nothing.  A manager step     *)
(* needs strong fairness where another branch may win the select! again    *)
(* and again.                                                              *)
Fairness ==
  /\ WF_vars(ManagerStep)
  /\ SF_vars(Activate \/ Deactivate)
  /\ SF_vars(TakeJob)
  /\ SF_vars(TakeReply \/ TakeDhcp \/ HelperGone)
  /\ WF_vars(ReaderForwards \/ ReaderEnds)
  /\ WF_vars(HelperReads \/ HelperQueues \/ HelperRefuses \/ HelperRelaysDhcp)
  /\ WF_vars(\E m \in replies : TaskReplies(m))
  /\ WF_vars(EngineStep)

FairSpec == Spec /\ Fairness

-----------------------------------------------------------------------------
(* Types                                                                   *)

Outcomes == {Own(r) : r \in Requests} \cup {Failed, Dropped}
Job == [id : Nat, req : Requests]
ReplyMsg == [tag : {"Ping", "Duplicate"}, id : Nat, out : Outcomes]
Event == ReplyMsg \cup [tag : {"Dhcp"}, id : Nat, out : {None}]

CallTypes ==
  /\ asked \subseteq Requests
  /\ answer \in [Requests -> Outcomes \cup {None}]
  /\ jobQ \in Seq(Requests) /\ Len(jobQ) <= JobCap
  /\ cmdQ \in Seq({"Activate", "Deactivate"}) /\ Len(cmdQ) <= CommandCap
  /\ clicks \in Nat

ManagerTypes ==
  /\ status \in {"Inactive", "Starting", "Active", "Failed"}
  /\ mgr \in {"select", "starting", "writing", "stopping", "reaping"}
  /\ writing \in Job \cup {NoJob}
  /\ mgr = "writing" <=> writing \in Job
  /\ session \in BOOLEAN /\ listening \in BOOLEAN
  /\ DOMAIN pending \subseteq Nat /\ Waiting \subseteq Requests
  /\ nextId \in Nat \ {0}

WireTypes ==
  /\ reader \in {"none", "reading", "ended"}
  /\ events \in Seq(Event) /\ Len(events) <= EventCap
  /\ toGui \in Seq(Event) /\ Len(toGui) <= WireCap
  /\ toHelper \in Seq(Job \cup {Shutdown}) /\ Len(toHelper) <= WireCap

HelperTypes ==
  /\ helper \in {"none", "reading", "queueing", "relaying", "exited"}
  /\ held \in Job \cup {NoJob}
  /\ helper = "queueing" <=> held \in Job
  /\ jobs \in Seq(Job) /\ Len(jobs) <= QueueCap
  /\ engine \in Job \cup {NoJob}
  /\ engineUp \in BOOLEAN
  /\ replies \subseteq ReplyMsg

DhcpTypes == sniffed \in Nat /\ recorded \in Seq(Nat)

(* The type invariant; every channel and buffer keeps to its capacity.     *)
TypeOK == CallTypes /\ ManagerTypes /\ WireTypes /\ HelperTypes /\ DhcpTypes

-----------------------------------------------------------------------------
(* Safety                                                                  *)

(* Between two iterations of the manager's loop, its four pieces of state  *)
(* agree: session and helper_rx are both set or both not (the loop unwraps *)
(* helper_rx on the strength of it), the status the UI shows is Active     *)
(* exactly then, and no reply handle waits for a helper that is not there. *)
SessionConsistent ==
  /\ mgr = "select" => /\ session <=> listening
                       /\ session <=> status = "Active"
  /\ DOMAIN pending # {} => listening

(* Where the oneshot sender of a request is: in the job channel, with the  *)
(* manager while it writes the request, or among the pending replies.      *)
Queued  == {jobQ[i] : i \in DOMAIN jobQ}
Written == {writing.req} \ {NoRequest}
Answered == {r \in Requests : answer[r] # None}

(* A reply handle is in exactly one place until it is used: no path of the *)
(* manager (failed start, failed write, lost helper, deactivation in the   *)
(* middle of a write) forgets a caller, answers it twice, or keeps it      *)
(* under two ids.                                                          *)
HandleInOnePlace ==
  /\ asked = Queued \cup Written \cup Waiting \cup Answered
  /\ Queued \cap (Written \cup Waiting \cup Answered) = {}
  /\ Written \cap (Waiting \cup Answered) = {}
  /\ Waiting \cap Answered = {}
  /\ \A i, j \in DOMAIN jobQ : jobQ[i] = jobQ[j] => i = j
  /\ \A i, j \in DOMAIN pending : pending[i] = pending[j] => i = j

(* The GUI's DHCP log lists captured messages in capture order, none twice *)
(* and none out of turn, although they share the writer with the replies   *)
(* of spawned tasks and the connection may be replaced in between.         *)
DhcpInOrder ==
  \A i, j \in DOMAIN recorded : i < j => recorded[i] < recorded[j]

(* The whole path implements the service its callers see: each request is  *)
(* answered at most once, by the outcome of its own job or by a local      *)
(* failure, never by the reply to another request, of this session or of   *)
(* one before it, and never by a dropped sender.                           *)
VerdictOf(r) ==
  CASE answer[r] = None   -> "none"
    [] answer[r] = Own(r) -> "own"
    [] answer[r] = Failed -> "failed"
    [] OTHER -> "wrong"

Service == INSTANCE JobService WITH verdict <- [r \in Requests |-> VerdictOf(r)]

ImplementsJobService == Service!Spec

-----------------------------------------------------------------------------
(* Liveness, under FairSpec                                                *)

(* A circular wait over full buffers: the manager waits to write to the    *)
(* helper, whose main loop waits to write to the reader, who waits for the *)
(* manager to take an event.  Only the end of the helper ends it.          *)
Clogged ==
  /\ mgr \in {"writing", "stopping"}
  /\ Len(toHelper) = WireCap
  /\ helper = "relaying" \/ (helper = "queueing" /\ ~engineUp)
  /\ Len(toGui) = WireCap
  /\ Len(events) = EventCap

(* Every caller gets an answer, whatever happens to the helper, its engine *)
(* or the session - unless the manager ends up in the circular wait.       *)
AnsweredUnlessClogged ==
  <>[]Clogged \/ \A r \in Requests : r \in asked ~> answer[r] # None

(* A deactivation that the manager has begun, and the end of a helper that *)
(* was not told to, at whatever point of a message, take the UI out of the *)
(* Active L2 mode - with the same exception.                               *)
EndsUnlessClogged ==
  \/ <>[]Clogged
  \/ (mgr = "stopping" \/ (helper = "exited" /\ mgr = "select")) ~> status # "Active"

(* l2_manager.rs:231-233 on the child of a session: "Either way, shutdown  *)
(* goes through the IPC message first; this is only a best-effort backstop *)
(* if that doesn't work".  So a deactivation that the manager has begun,   *)
(* or the end of a helper that was not told to, takes the UI out of the    *)
(* Active L2 mode.  The backstop comes after a write that may never end.   *)
SessionEnds ==
  (mgr = "stopping" \/ (helper = "exited" /\ mgr = "select")) ~> status # "Active"
=============================================================================
