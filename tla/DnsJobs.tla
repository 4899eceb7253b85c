------------------------------ MODULE DnsJobs ------------------------------
(***************************************************************************)
(* Names on their way to an address: dns_worker (net/dns.rs) and the three *)
(* who ask it.  These are the Ping tab's target box, the Ping tab's list   *)
(* loader, which resolves a file line by line (app/ping_tab.rs), and the   *)
(* DNS tab's Query panel (app/dns_tab.rs).  Each polls for its answer in   *)
(* the frames of its own tab, so nothing arrives while the user looks      *)
(* elsewhere.                                                              *)
(*                                                                         *)
(* A request has a number: that of its oneshot channel.  A name that       *)
(* resolves is one ping target.  Which DNS servers are asked is not told   *)
(* apart, nor which of them answer; that the input is shown in red, and    *)
(* the messages beside it, are left out.  The ping worker may find no room *)
(* in its channel for any command (PingWorker models what it does with     *)
(* them).                                                                  *)
(*                                                                         *)
(* A definition named Faulty... is a plausible mistake in the one after    *)
(* it; nothing uses it but the runs that show a property notices it.       *)
(***************************************************************************)
EXTENDS Naturals, Sequences

CONSTANTS
  Names,        \* hostnames
  Typed,        \* those the user types into the target box
  Literals,     \* addresses
  Files,        \* what a .ips file may list: its hostnames in order, and its addresses
  Methods,      \* what the method, port, size and count fields may say
  ListMethod,   \* the method a list is pinged by, whatever the fields say
  Capacity,     \* of the worker's command channel
  MaxClicks     \* bound on what is asked for: names, files, queries

ASSUME NameAssumption == Typed \subseteq Names
ASSUME LineAssumption == Files \subseteq [names : Seq(Names), ips : SUBSET Literals]
ASSUME MethodAssumption == ListMethod \in Methods /\ "none" \notin Methods
ASSUME BoundAssumption == Capacity \in Nat \ {0} /\ MaxClicks \in Nat

VARIABLES
  tab,      \* the tab on the screen: "ping" or another ("dns")
  method,   \* the fields beside the target box
  box,      \* dns_resolve_rx, dns_resolve_target, dns_resolve_pending
  load,     \* ping_list_load_state
  errors,   \* ping_list_errors
  panel,    \* dns_query_rx or dns_trace_rx, and the results of either kind
  chan,     \* commands to the worker
  serving,  \* the request the worker resolves
  tasks,    \* the queries and traces under way
  worker,   \* whether dns_worker runs
  reply,    \* what each request's oneshot holds
  clicks,   \* how often the user asked for something
  opened,   \* how many of these were files
  \* for the properties alone:
  asked,    \* each request's kind, and the name and method of a lookup
  pings     \* the pings started, with the request that each came from

ui   == <<tab, method, box, load, errors, panel>>
work == <<chan, serving, tasks, worker, reply>>
vars == <<ui, work, clicks, opened, asked, pings>>

-----------------------------------------------------------------------------
NoId   == 0
NoText == "none"
Elements(s) == {s[i] : i \in DOMAIN s}

NoBox  == [rx |-> NoId, target |-> NoText, pending |-> NoText]
NoLoad == [on |-> FALSE, file |-> {}, queue |-> <<>>, flight |-> NoId, name |-> NoText,
           resolved |-> {}, failed |-> {}]

(* A ping target, with its label and how to ping it; the request that      *)
(* found it, if one did, and the list it is from, if it is.                *)
Ping(id, list, name, how) == [id |-> id, list |-> list, name |-> name, method |-> how]

Init ==
  /\ tab = "ping" /\ method \in Methods
  /\ box = NoBox /\ load = NoLoad /\ errors = {}
  /\ panel = [rx |-> NoId, query |-> NoId, trace |-> NoId]
  /\ chan = <<>> /\ serving = NoId /\ tasks = {} /\ worker = TRUE /\ reply = <<>>
  /\ clicks = 0 /\ opened = 0 /\ asked = <<>> /\ pings = {}

(* A request with a oneshot of its own, for which try_send finds room.     *)
Fresh == Len(asked) + 1
Room  == worker /\ Len(chan) < Capacity
Ask(kind, name, how) ==
  /\ Room
  /\ asked' = Append(asked, [kind |-> kind, name |-> name, method |-> how])
  /\ reply' = Append(reply, "empty")
  /\ chan' = Append(chan, Fresh)
  /\ UNCHANGED <<serving, tasks, worker>>

(* try_recv finds an answer, or that none will come. *)

(* Faulty: a oneshot without its sender is still waited for.               *)
FaultyAnswered(id) == id # NoId /\ reply[id] \in {"ok", "err"}
Answered(id) == id # NoId /\ reply[id] # "empty"

-----------------------------------------------------------------------------
(* The user, who may look at another tab at any time.                      *)

Show == tab' \in {"ping", "dns"} \ {tab} /\ UNCHANGED <<method, box, load, errors, panel, work, clicks, opened, asked, pings>>

Edit ==
  /\ tab = "ping" /\ method' \in Methods \ {method}
  /\ UNCHANGED <<tab, box, load, errors, panel, work, clicks, opened, asked, pings>>

(* A hostname in the target box; without room it turns red, no more.       *)
Submit(name) ==
  /\ tab = "ping" /\ box.rx = NoId /\ clicks < MaxClicks
  /\ Ask("resolve", name, method)
  /\ box' = [rx |-> Fresh, target |-> name, pending |-> method]
  /\ clicks' = clicks + 1
  /\ UNCHANGED <<tab, method, load, errors, panel, opened, pings>>

(* A list replaces one that is still being loaded. *)
Open(file) ==
  /\ tab = "ping" /\ clicks < MaxClicks
  /\ clicks' = clicks + 1 /\ opened' = opened + 1
  /\ load' = [NoLoad EXCEPT !.on = TRUE, !.file = Elements(file.names) \union file.ips,
                !.queue = file.names,
                !.resolved = {Ping(NoId, opened + 1, ip, ListMethod) : ip \in file.ips}]
  /\ UNCHANGED <<tab, method, box, errors, panel, work, asked, pings>>

Dismiss ==
  /\ tab = "ping" /\ errors # {} /\ errors' = {}
  /\ UNCHANGED <<tab, method, box, load, panel, work, clicks, opened, asked, pings>>

(* Faulty: the last results stay until there are new ones.                 *)
FaultyCleared(kind) == panel
Cleared(kind) == [panel EXCEPT ![kind] = NoId]

SubmitQuery(kind) ==
  /\ tab = "dns" /\ panel.rx = NoId /\ clicks < MaxClicks
  /\ Ask(kind, NoText, NoText)
  /\ panel' = [Cleared(kind) EXCEPT !.rx = Fresh]
  /\ clicks' = clicks + 1
  /\ UNCHANGED <<tab, method, box, load, errors, opened, pings>>

-----------------------------------------------------------------------------
(* The polls, in a frame of their tab.                                     *)

(* Faulty: the box is pinged as the fields say now. *)
FaultyChosen == method
Chosen == box.pending

PollBox ==
  /\ tab = "ping" /\ Answered(box.rx)
  /\ box' = [box EXCEPT !.rx = NoId, !.pending = NoText]
  /\ \/ pings' = pings
     \/ reply[box.rx] = "ok" /\ pings' = pings \union {Ping(box.rx, 0, box.target, Chosen)}
  /\ UNCHANGED <<tab, method, load, errors, panel, work, clicks, opened, asked>>

(* Step 1 of poll_ping_list_load: the lookup that has its answer.          *)
Heard ==
  IF load.flight = NoId THEN load
  ELSE IF reply[load.flight] = "ok"
       THEN [load EXCEPT !.flight = NoId, !.resolved = @ \union {Ping(load.flight, opened, load.name, ListMethod)}]
       ELSE [load EXCEPT !.flight = NoId, !.failed = @ \union {load.name}]

(* Faulty: a name that the worker has no room for is dropped.              *)
FaultySkipped(l) == l
Skipped(l) == [l EXCEPT !.failed = @ \union {Head(l.queue)}]

(* Step 2: the next lookup. *)
LookUp(l) ==
  \/ /\ Ask("resolve", Head(l.queue), ListMethod)
     /\ load' = [l EXCEPT !.queue = Tail(@), !.flight = Fresh, !.name = Head(l.queue)]
  \/ /\ ~Room /\ load' = [Skipped(l) EXCEPT !.queue = Tail(@)]
     /\ UNCHANGED <<work, asked>>

(* Step 3: all at once, those apart that the ping worker has no room for.  *)
Finish(l) ==
  /\ \E lost \in SUBSET l.resolved :
       /\ pings' = pings \union (l.resolved \ lost)
       /\ LET told == l.failed \union {p.name : p \in lost}
          IN  errors' = IF told = {} THEN errors ELSE told
  /\ load' = NoLoad
  /\ UNCHANGED <<work, asked>>

PollLoad ==
  /\ tab = "ping" /\ load.on /\ (load.flight = NoId \/ Answered(load.flight))
  /\ IF Heard.queue # <<>>
     THEN LookUp(Heard) /\ UNCHANGED <<errors, pings>>
     ELSE Finish(Heard)
  /\ UNCHANGED <<tab, method, box, panel, clicks, opened>>

PollPanel ==
  /\ tab = "dns" /\ Answered(panel.rx)
  /\ LET kind == asked[panel.rx].kind
     IN  panel' = IF reply[panel.rx] = "ok" THEN [panel EXCEPT !.rx = NoId, ![kind] = panel.rx]
                                            ELSE [panel EXCEPT !.rx = NoId]
  /\ UNCHANGED <<tab, method, box, load, errors, work, clicks, opened, asked, pings>>

-----------------------------------------------------------------------------
(* dns_worker resolves one name at a time, and leaves queries and traces   *)
(* to tasks.                                                               *)

Take ==
  /\ worker /\ serving = NoId /\ chan # <<>>
  /\ chan' = Tail(chan)
  /\ LET id == Head(chan)
     IN  IF asked[id].kind = "resolve"
         THEN serving' = id /\ UNCHANGED tasks
         ELSE tasks' = tasks \union {id} /\ UNCHANGED serving
  /\ UNCHANGED <<ui, worker, reply, clicks, opened, asked, pings>>

Resolved ==
  /\ worker /\ serving # NoId /\ serving' = NoId
  /\ \E outcome \in {"ok", "err"} : reply' = [reply EXCEPT ![serving] = outcome]
  /\ UNCHANGED <<ui, chan, tasks, worker, clicks, opened, asked, pings>>

TaskEnds ==
  /\ \E id \in tasks, outcome \in {"ok", "closed"} :
       tasks' = tasks \ {id} /\ reply' = [reply EXCEPT ![id] = outcome]
  /\ UNCHANGED <<ui, chan, serving, worker, clicks, opened, asked, pings>>

(* Faulty: the channel, and the oneshots in it, outlive the worker.        *)
FaultyLet == {serving}
Let == {serving} \union Elements(chan)

(* A panic in the resolver: the worker ends, and what waits there with it. *)
WorkerDies ==
  /\ worker /\ serving # NoId /\ worker' = FALSE
  /\ reply' = [id \in DOMAIN reply |-> IF id \in Let THEN "closed" ELSE reply[id]]
  /\ serving' = NoId /\ chan' = <<>>
  /\ UNCHANGED <<ui, tasks, clicks, opened, asked, pings>>

Next ==
  \/ Show \/ Edit \/ Dismiss
  \/ \E name \in Typed : Submit(name)
  \/ \E file \in Files : Open(file)
  \/ \E kind \in {"query", "trace"} : SubmitQuery(kind)
  \/ PollBox \/ PollLoad \/ PollPanel
  \/ Take \/ Resolved \/ TaskEnds \/ WorkerDies

(* Whatever the user does, a tab on the screen is drawn four times a       *)
(* second; every lookup, query and trace has its timeouts.                 *)
Spec     == Init /\ [][Next]_vars
FairSpec ==
  /\ Spec
  /\ WF_vars(PollBox) /\ WF_vars(PollLoad) /\ WF_vars(PollPanel)
  /\ WF_vars(Take) /\ WF_vars(Resolved) /\ WF_vars(TaskEnds)

-----------------------------------------------------------------------------
Requests == DOMAIN asked

(* Every variable is of its type; a request is in one place of the worker, *)
(* or has its reply.                                                       *)
TypeOK ==
  /\ tab \in {"ping", "dns"} /\ method \in Methods /\ worker \in BOOLEAN
  /\ DOMAIN reply = Requests
  /\ \A id \in Requests :
       /\ asked[id].kind \in {"resolve", "query", "trace"}
       /\ asked[id].name \in Names \union {NoText} /\ asked[id].method \in Methods \union {NoText}
       /\ reply[id] \in {"empty", "ok", "err", "closed"}
       /\ reply[id] = "empty" <=> id = serving \/ id \in tasks \union Elements(chan)
  /\ Len(chan) <= Capacity /\ Elements(chan) \intersect (tasks \union {serving}) = {}
  /\ serving \notin tasks /\ tasks \subseteq Requests
  /\ box.target \in Names \union {NoText} /\ box.pending \in Methods \union {NoText}
  /\ box.rx = NoId <=> box.pending = NoText
  /\ load.queue \in Seq(Names) /\ load.failed \union errors \subseteq Names \union Literals
  /\ {box.rx, load.flight, panel.rx} \ {NoId} \subseteq Requests
  /\ pings \subseteq [id : Requests \union {NoId}, list : 0 .. opened, name : Names \union Literals, method : Methods]

(* What comes back is used for what was asked: a ping has the label and    *)
(* the settings of the request that found its address, even if the fields  *)
(* changed meanwhile or a list was loaded at the same time, and the panel  *)
(* shows nothing but the answer to its last request of a kind              *)
(* (submit_ping_target, poll_dns_resolution, submit_dns_query).            *)
AnswersFit ==
  /\ \A p \in pings : p.id # NoId =>
       reply[p.id] = "ok" /\ asked[p.id] = [kind |-> "resolve", name |-> p.name, method |-> p.method]
  /\ \A kind \in {"query", "trace"} : panel[kind] # NoId =>
       /\ asked[panel[kind]].kind = kind
       /\ \A id \in Requests : id > panel[kind] => asked[id].kind # kind

(* No line of a list is lost on its way: as long as the list is loaded     *)
(* each is queued, looked up, resolved or failed, and then it is pinged or *)
(* the error window names it: also those whose lookup failed, those that   *)
(* found the worker gone or its channel full, and those that the ping      *)
(* worker had no room for (poll_ping_list_load).  The one exception is     *)
(* that the user opens a list meanwhile, which takes the place of this one *)
(* without a word (load_ping_targets).                                     *)
Under(l) ==
  Elements(l.queue) \union {p.name : p \in l.resolved} \union l.failed
    \union (IF l.flight = NoId THEN {} ELSE {l.name})
Outcome(list) == errors \union {p.name : p \in {q \in pings : q.list = list}}
NoLineLost ==
  [][load.on /\ opened' = opened =>
       load.file \subseteq (IF load'.on THEN Under(load)' ELSE Outcome(opened)')]_vars

(* On the tab that asked, and if the user stays there, every lookup, list, *)
(* query and trace ends, though the worker or a task may die, and though   *)
(* lookups wait for each other (dns_worker, the three polls).              *)
EndsIfShown ==
  /\ <>[](tab = "ping") => <>[](box.rx = NoId /\ ~load.on)
  /\ <>[](tab = "dns") => <>[](panel.rx = NoId)
=============================================================================
