------------------------------ MODULE L2Engine ------------------------------
(***************************************************************************)
(* The engine of the helper process (net/l2_engine.rs), with what it needs *)
(* of net/l2_frame.rs: one thread that owns one capture handle and does    *)
(* one job at a time (echo, timestamp and ARP/NDP pings, duplicate checks) *)
(* by sending a frame and reading whatever the handle has captured, until  *)
(* a frame matches or the job's timeout has passed.  What is captured and  *)
(* not read stays for the next job to read.                                *)
(*                                                                         *)
(* The network is external.  It is a set of frames on their way in each    *)
(* direction, late and out of order; a frame that is lost is one that      *)
(* nobody ever hears.  A calm network loses nothing and is faster than     *)
(* every timeout: it is there to say what the engine achieves when nothing *)
(* is in its way.                                                          *)
(*                                                                         *)
(* Frames are records of what the engine can tell apart.  serial says, of  *)
(* an answer, which job's request it answers; the engine cannot see it.    *)
(*                                                                         *)
(* A definition named Faulty... is a plausible mistake in the one after    *)
(* it; nothing uses it but the runs that show a property notices it.       *)
(***************************************************************************)
EXTENDS Naturals, FiniteSets

CONSTANTS
  V4, V6,       \* addresses, by family
  Own,          \* those of this machine (ctx.ipv4, ctx.ipv6)
  OnLink,       \* those for which is_on_link or is_on_link_v6 holds
  Gateways,     \* ctx.gateway and ctx.ipv6_gateway, where there is one
  Sources,      \* bound: addresses jobs are sent from
  Targets,      \* bound: addresses they ping
  Candidates,   \* bound: addresses they check
  MACs, Us,     \* MAC addresses of stations; ctx.mac
  NoMac,        \* None
  Untagged,     \* the VLAN of a job or frame without a tag
  Vlans,        \* bound: VLANs of jobs, as numbers, and Untagged
  VlanSpace,    \* 2^12, the width of a tag's VLAN id
  IdentSpace,   \* 2^16, the width of next_identifier
  Stations,     \* who has which address on which VLAN at first
  MaxJobs,      \* bound: jobs
  MaxEvents     \* bound: what the network does of its own accord

Addr == V4 \cup V6

ASSUME AddressAssumption ==
  /\ V4 \cap V6 = {}
  /\ Own \cup OnLink \cup Gateways \cup Sources \cup Targets \cup Candidates \subseteq Addr
  /\ \A g, h \in Gateways : (g \in V4 <=> h \in V4) => g = h
ASSUME MacAssumption == Us \notin MACs /\ NoMac \notin MACs \cup {Us}
ASSUME WidthAssumption ==
  /\ IdentSpace \in Nat \ {0, 1} /\ VlanSpace \in Nat \ {0}
  /\ MaxJobs \in Nat /\ MaxEvents \in Nat
  /\ Untagged \in Vlans /\ Vlans \ {Untagged} \subseteq Nat
ASSUME StationAssumption ==
  Stations \subseteq ({Untagged} \cup (0 .. VlanSpace - 1)) \X Addr \X MACs

VARIABLES
  phase,      \* where the thread is in its job
  job,        \* the job it does or has last done
  serial,     \* jobs taken so far
  next,       \* next_identifier
  cache,      \* neighbor_cache: a MAC or NoMac for every address
  seen,       \* the distinct MACs that a duplicate check has read
  outcome,    \* what the last job came to, and by which frame
  sent,       \* frames of ours on their way
  captured,   \* frames on their way to the handle, or in its buffer
  owed,       \* replies whose sender does not yet know where to send them
  holds,      \* who has which address now
  held,       \* who ever had
  events,     \* bound: events so far
  calm        \* is the network calm?

engine   == <<phase, job, serial, next, cache, seen, outcome>>
stations == <<owed, holds, held>>
vars == <<engine, sent, captured, stations, events, calm>>

-----------------------------------------------------------------------------
SameFamily(a, b) == a \in V4 <=> b \in V4

(* The tag that is sent: 12 bits of the VLAN that was asked for. *)
OnWire(v) == IF v = Untagged THEN v ELSE v % VlanSpace

(* Faulty: the counter does not wrap. *)
FaultyBump(i) == i + 1
Bump(i) == IF i + 1 = IdentSpace THEN 0 ELSE i + 1

(* Frames sent.  A neighbour solicitation leaves with the checksum it was  *)
(* initialised with, zero, and also names its sender when its source is    *)
(* the unspecified address: no IPv6 station accepts it.                    *)
Query(v, ip) == [kind |-> "query", vlan |-> OnWire(v), ip |-> ip,
                 valid |-> ip \in V4, serial |-> serial]
Echo(mac) == [kind |-> job.kind, vlan |-> OnWire(job.vlan), to |-> mac, src |-> job.source,
              dst |-> job.target, ident |-> job.ident, serial |-> serial]
Claim(ip, to) == [kind |-> "claim", vlan |-> OnWire(job.vlan), ip |-> ip, to |-> to]

(* Frames captured: an ARP reply or neighbour advertisement, the latter    *)
(* with or without a MAC; an ARP request or solicitation; an answer to an  *)
(* echo or timestamp request.                                              *)
Here(v, ip, mac, n) == [kind |-> "here", vlan |-> v, ip |-> ip, mac |-> mac, serial |-> n]
Who(v, ip, mac)     == [kind |-> "who", vlan |-> v, ip |-> ip, mac |-> mac]
Reply(f) == [kind |-> "reply", to |-> f.kind, vlan |-> f.vlan, src |-> f.dst, dst |-> f.src,
             ident |-> f.ident, serial |-> f.serial]

Echoes == {"ping", "timestamp"}
NoJob  == [kind |-> "none"]
None   == [result |-> "none"]

(* Where a ping goes first: its target, or the gateway of its family. *)
Hops == IF job.target \in OnLink THEN {job.target}
        ELSE {g \in Gateways : SameFamily(g, job.target)}
Hop  == CHOOSE h \in Hops : TRUE

-----------------------------------------------------------------------------
Init ==
  /\ phase = "idle" /\ job = NoJob /\ serial = 0 /\ next = 1
  /\ cache = [ip \in Addr |-> NoMac]
  /\ seen = {} /\ outcome = None
  /\ sent = {} /\ captured = {} /\ owed = {}
  /\ holds = Stations
  /\ held = Stations \cup ({Untagged} \X Own \X {Us})
  /\ events = 0
  /\ calm \in BOOLEAN

(* engine_loop: the next job.  Only the two ICMP pings are given an        *)
(* identifier; the other two jobs have no use for the field, nor a check   *)
(* for that of the source.                                                 *)
Take(kind, s, t, v) ==
  /\ phase = "idle" /\ serial < MaxJobs
  /\ phase' = "start"
  /\ job' = [kind |-> kind, source |-> s, target |-> t, vlan |-> v, ident |-> next]
  /\ serial' = serial + 1
  /\ next' = IF kind \in Echoes THEN Bump(next) ELSE next
  /\ seen' = {} /\ outcome' = None
  /\ UNCHANGED <<cache, sent, captured, stations, events, calm>>

Finish(result) ==
  /\ phase' = "idle" /\ outcome' = result
  /\ UNCHANGED <<job, serial, next, cache, seen, stations, events, calm>>

(* do_ping, do_timestamp_ping, do_arp_ping: what needs no frame to fail.   *)
Refused ==
  \/ job.kind # "check" /\ ~SameFamily(job.source, job.target)
  \/ job.kind = "timestamp" /\ job.target \in V6
  \/ job.kind \in Echoes /\ Hops = {}

(* resolve_mac_v6 without an IPv6 address to ask from. *)
NobodyToAsk == job.target \in V6 /\ Own \cap V6 = {}

(* resolve_mac: is the MAC in the cache?  It is looked up by address only. *)
Cached == cache[Hop]

AsksHop    == ~Refused /\ job.kind \in Echoes /\ Cached = NoMac /\ ~NobodyToAsk
AsksTarget == ~Refused /\ job.kind \in {"arp", "check"}

Refuse ==
  /\ phase = "start"
  /\ \/ Refused
     \/ ~Refused /\ job.kind \in Echoes /\ Cached = NoMac /\ NobodyToAsk
  /\ Finish([result |-> "Error"])
  /\ UNCHANGED <<sent, captured>>

(* sendpacket fails, for a query or an echo. *)
SendFails ==
  /\ \/ phase = "send"
     \/ phase = "start" /\ (AsksHop \/ AsksTarget)
  /\ ~calm
  /\ Finish([result |-> "Error"])
  /\ UNCHANGED <<sent, captured>>

UseCache ==
  /\ phase = "start" /\ ~Refused /\ job.kind \in Echoes /\ Cached # NoMac
  /\ phase' = "send"
  /\ UNCHANGED <<job, serial, next, cache, seen, outcome, sent, captured, stations, events, calm>>

(* resolve_mac_v4, resolve_mac_v6: the request. *)
AskForHop ==
  /\ phase = "start" /\ AsksHop
  /\ phase' = "resolve"
  /\ sent' = sent \cup {Query(job.vlan, Hop)}
  /\ UNCHANGED <<job, serial, next, cache, seen, outcome, captured, stations, events, calm>>

(* do_arp_ping_v4 and _v6, do_duplicate_check_v4 and _v6: the request. *)
AskForTarget ==
  /\ phase = "start" /\ AsksTarget
  /\ phase' = "wait"
  /\ sent' = sent \cup {Query(job.vlan, job.target)}
  /\ UNCHANGED <<job, serial, next, cache, seen, outcome, captured, stations, events, calm>>

SendEcho ==
  /\ phase = "send"
  /\ phase' = "wait"
  /\ sent' = sent \cup {Echo(Cached)}
  /\ UNCHANGED <<job, serial, next, cache, seen, outcome, captured, stations, events, calm>>

-----------------------------------------------------------------------------
(* The frames that matter to the job.  parse_link has untagged the frame:  *)
(* its VLAN is compared with the number that was asked for.                *)
Shows(f, ip) == f.kind = "here" /\ f.vlan = job.vlan /\ f.ip = ip

ShowsHop(f) == Shows(f, Hop) /\ f.mac # NoMac

(* Faulty: the VLAN of an answer is not looked at. *)
FaultyShowsClaimant(f) == f.kind = "here" /\ f.ip = job.target /\ f.mac # NoMac
ShowsClaimant(f) == Shows(f, job.target) /\ f.mac # NoMac

(* Faulty: the identifier of a reply is not looked at. *)
FaultyAnswers(f) ==
  /\ f.kind = "reply" /\ f.to = job.kind /\ f.vlan = job.vlan
  /\ f.src = job.target /\ f.dst = job.source
Answers(f) ==
  /\ f.kind = "reply" /\ f.to = job.kind /\ f.vlan = job.vlan
  /\ f.src = job.target /\ f.dst = job.source
  /\ f.ident = job.ident

AsksForSource(f) ==
  f.kind = "who" /\ f.vlan = job.vlan /\ f.ip = job.source /\ f.mac # NoMac

Resolving == phase = "resolve"
Pinging   == phase = "wait" /\ job.kind \in Echoes
Arping    == phase = "wait" /\ job.kind = "arp"
Checking  == phase = "wait" /\ job.kind = "check"

(* next_packet. *)
Reads(f) == f \in captured /\ captured' = captured \ {f}

ReadHop(f) ==
  /\ Resolving /\ ShowsHop(f) /\ Reads(f)
  /\ cache' = [cache EXCEPT ![Hop] = f.mac]
  /\ phase' = "send"
  /\ UNCHANGED <<job, serial, next, seen, outcome, sent, stations, events, calm>>

ReadReply(f) ==
  /\ Pinging /\ Answers(f) /\ Reads(f)
  /\ Finish([result |-> "Success", by |-> f.serial])
  /\ UNCHANGED sent

(* Somebody asks for the address that the ping claims to come from: the    *)
(* engine answers for it (build_arp_reply, build_neighbor_advertisement).  *)
ReadRequest(f) ==
  /\ Pinging /\ AsksForSource(f) /\ Reads(f)
  /\ sent' = sent \cup {Claim(f.ip, f.mac)}
  /\ UNCHANGED <<engine, stations, events, calm>>

ReadNeighbour(f) ==
  /\ Arping /\ Shows(f, job.target) /\ Reads(f)
  /\ Finish([result |-> "Success", by |-> f.serial])
  /\ UNCHANGED sent

(* Faulty: the first answer is the last one. *)
FaultyCollect(f) == IF seen = {} THEN {f.mac} ELSE seen
Collect(f) == seen \cup {f.mac}

ReadClaimant(f) ==
  /\ Checking /\ ShowsClaimant(f) /\ Reads(f)
  /\ seen' = Collect(f)
  /\ UNCHANGED <<phase, job, serial, next, cache, outcome, sent, stations, events, calm>>

ReadOther(f) ==
  /\ phase \in {"resolve", "wait"} /\ Reads(f)
  /\ ~(Resolving /\ ShowsHop(f))
  /\ ~(Pinging /\ (Answers(f) \/ AsksForSource(f)))
  /\ ~(Arping /\ Shows(f, job.target))
  /\ ~(Checking /\ ShowsClaimant(f))
  /\ UNCHANGED <<engine, sent, stations, events, calm>>

(* The deadline of read_until or of a loop like it.  A calm network has    *)
(* delivered everything by then.                                           *)
Verdict ==
  IF Resolving THEN [result |-> "Error"]
  ELSE IF ~Checking THEN [result |-> "Timeout"]
  ELSE IF seen = {} THEN [result |-> "Clear"]
  ELSE [result |-> "Duplicate", macs |-> seen]

Deadline ==
  /\ phase \in {"resolve", "wait"}
  /\ calm => sent = {} /\ captured = {}
  /\ Finish(Verdict)
  /\ UNCHANGED <<sent, captured>>

-----------------------------------------------------------------------------
(* The stations (external).  They answer a valid query for an address of   *)
(* theirs, and a ping that reaches them, directly or as the gateway of a   *)
(* target elsewhere: at once, or after asking who has the ping's source.   *)
HearQuery(f) ==
  /\ f.kind = "query"
  /\ LET S == {m \in MACs : f.valid /\ <<f.vlan, f.ip, m>> \in holds}
     IN  captured' = captured \cup {Here(f.vlan, f.ip, m, f.serial) : m \in S}
  /\ UNCHANGED owed

Reaches(f) ==
  \/ <<f.vlan, f.dst, f.to>> \in holds
  \/ /\ f.dst \notin OnLink
     /\ \E g \in Gateways : SameFamily(g, f.dst) /\ <<f.vlan, g, f.to>> \in holds

HearEcho(f) ==
  /\ f.kind \in Echoes
  /\ \/ Reaches(f) /\ captured' = captured \cup {Reply(f)} /\ UNCHANGED owed
     \/ /\ Reaches(f) /\ f.src \in OnLink
        /\ captured' = captured \cup {Who(f.vlan, f.src, f.to)}
        /\ owed' = owed \cup {[frame |-> Reply(f), by |-> f.to]}
     \/ ~Reaches(f) /\ UNCHANGED <<captured, owed>>

HearClaim(f) ==
  /\ f.kind = "claim"
  /\ LET released == {r \in owed : r.by = f.to /\ r.frame.vlan = f.vlan /\ r.frame.dst = f.ip}
     IN  /\ owed' = owed \ released
         /\ captured' = captured \cup {r.frame : r \in released}

Hear ==
  \E f \in sent :
    /\ HearQuery(f) \/ HearEcho(f) \/ HearClaim(f)
    /\ sent' = sent \ {f}
    /\ UNCHANGED <<engine, holds, held, events, calm>>

(* The operating system answers for this machine's addresses, and others   *)
(* for theirs, so that the reply goes to them.                             *)
OwnerAnswers ==
  \E r \in owed :
    /\ \/ /\ r.frame.dst \in Own /\ r.frame.vlan = Untagged
          /\ captured' = captured \cup {r.frame, Here(Untagged, r.frame.dst, Us, 0)}
       \/ /\ \E m \in MACs : <<r.frame.vlan, r.frame.dst, m>> \in holds
          /\ UNCHANGED captured
    /\ owed' = owed \ {r}
    /\ UNCHANGED <<engine, sent, holds, held, events, calm>>

(* What else the handle, being promiscuous, captures: stations that tell   *)
(* or ask others who they are, and this machine answering them; and what   *)
(* reaches this machine's own addresses: replies to its other pings, which *)
(* are numbered from 1 as well (net/mod.rs), and, as do_ping_v4 does not   *)
(* look at the protocol, datagrams whose first bytes read like a reply.    *)
Overheard ==
  {Here(s[1], s[2], s[3], 0) : s \in holds}
  \cup {Here(s[1], s[2], NoMac, 0) : s \in {h \in holds : h[2] \in V6}}
  \cup {Here(Untagged, o, Us, 0) : o \in Own}
  \cup {Who(s[1], ip, s[3]) : s \in holds, ip \in Sources}
  \cup {Who(s[1], ip, NoMac) : s \in holds, ip \in Sources \cap V6}
  \cup {[kind |-> "reply", to |-> k, vlan |-> Untagged, src |-> t, dst |-> o, ident |-> i, serial |-> 0] :
          k \in Echoes, t \in Targets \cap V4, o \in Own \cap Sources \cap V4, i \in 0 .. IdentSpace - 1}
  \cup {[kind |-> "reply", to |-> "ping", vlan |-> Untagged, src |-> t, dst |-> o, ident |-> i, serial |-> 0] :
          t \in Targets \cap V6, o \in Own \cap Sources \cap V6, i \in 0 .. IdentSpace - 1}

Overhear ==
  /\ events < MaxEvents /\ events' = events + 1
  /\ \E f \in Overheard : captured' = captured \cup {f}
  /\ UNCHANGED <<engine, sent, stations, calm>>

(* A station gives its address to another, or takes one that is checked. *)
Move ==
  /\ ~calm /\ events < MaxEvents /\ events' = events + 1
  /\ \E m \in MACs :
       \/ \E s \in holds : holds' = (holds \ {s}) \cup {<<s[1], s[2], m>>}
       \/ \E v \in Vlans, ip \in Candidates : holds' = holds \cup {<<OnWire(v), ip, m>>}
  /\ held' = held \cup holds'
  /\ UNCHANGED <<engine, sent, captured, owed, calm>>

-----------------------------------------------------------------------------
Work ==
  \/ Refuse \/ SendFails \/ UseCache \/ AskForHop \/ AskForTarget \/ SendEcho \/ Deadline
  \/ \E f \in captured :
       ReadHop(f) \/ ReadReply(f) \/ ReadRequest(f) \/ ReadNeighbour(f) \/ ReadClaimant(f) \/ ReadOther(f)

Next ==
  \/ \E v \in Vlans :
       \/ \E kind \in Echoes \cup {"arp"}, s \in Sources, t \in Targets : Take(kind, s, t, v)
       \/ \E c \in Candidates : Take("check", c, c, v)
  \/ Work
  \/ Hear \/ OwnerAnswers \/ Overhear \/ Move

Spec == Init /\ [][Next]_vars

-----------------------------------------------------------------------------
(* Every variable is of its type; an identifier has 16 bits. *)
TypeOK ==
  /\ phase \in {"idle", "start", "resolve", "send", "wait"}
  /\ job = NoJob \/ /\ job.kind \in Echoes \cup {"arp", "check"}
                     /\ {job.source, job.target} \subseteq Addr
                     /\ job.vlan \in Vlans /\ job.ident \in 0 .. IdentSpace - 1
  /\ phase # "idle" => job # NoJob /\ outcome = None
  /\ serial \in 0 .. MaxJobs /\ next \in 0 .. IdentSpace - 1
  /\ cache \in [Addr -> MACs \cup {Us, NoMac}]
  /\ seen \subseteq MACs \cup {Us}
  /\ outcome.result \in {"none", "Success", "Timeout", "Error", "Clear", "Duplicate"}
  /\ \A f \in sent : f.kind \in Echoes \cup {"query", "claim"}
  /\ \A f \in captured : f.kind \in {"here", "who", "reply"}
  /\ \A r \in owed : r.by \in MACs /\ r.frame.kind = "reply"
  /\ holds \subseteq held
  /\ events \in 0 .. MaxEvents /\ calm \in BOOLEAN

(* A ping that succeeded was answered: the reply is one to its own request *)
(* and to no earlier one, whatever is late, as long as fewer jobs than     *)
(* identifiers are remembered by the network (do_ping_v4, do_ping_v6,      *)
(* do_timestamp_ping).                                                     *)
EchoSuccessIsReal ==
  job.kind \in Echoes /\ outcome.result = "Success" => outcome.by = serial

(* The same, for a source that is not an address of this machine itself:   *)
(* what else arrives for one of those is told apart by nothing.            *)
EchoSuccessIsRealUnlessOwn == job.kind \in Echoes /\ job.source \notin Own => EchoSuccessIsReal

(* Whom the engine believes to have an address did have it: the MAC that a *)
(* ping is sent to, on some VLAN (the cache does not say which), and those *)
(* that a duplicate check reports, on the VLAN it was made for.            *)
OnlyHoldersBelieved ==
  /\ \A ip \in Addr : cache[ip] # NoMac => \E h \in held : h[2] = ip /\ h[3] = cache[ip]
  /\ outcome.result = "Duplicate" => \A m \in outcome.macs : <<job.vlan, job.target, m>> \in held

(* On a calm network, and for addresses of one family that neither two     *)
(* VLANs share nor a station and this machine, a job finds what is there:  *)
(* a ping from an address of this network that nobody has, to a target     *)
(* that a station has or a gateway routes to, succeeds, though nobody but  *)
(* the engine answers for its source; and a check reports every station    *)
(* that has the address.  So it does on a VLAN that has 12 bits: a greater *)
(* number is cut to 12 when the question leaves and not when the answer is *)
(* looked at, so nothing is found there.                                   *)
Fits(v) == OnWire(v) = v
Has(v, ip) == {m \in MACs : <<v, ip, m>> \in holds}
Route(ip)  == IF ip \in OnLink THEN {ip} ELSE {g \in Gateways : SameFamily(g, ip)}
Shared(ip) == \E v, w \in {h[1] : h \in held} : v # w /\ \E m, n \in MACs \cup {Us} :
                <<v, ip, m>> \in held /\ <<w, ip, n>> \in held
CanPing ==
  /\ job.source \in OnLink /\ SameFamily(job.source, job.target)
  /\ \A v \in Vlans : Has(v, job.source) = {}
  /\ job.kind \in Echoes =>
       \E ip \in Route(job.target) : Has(OnWire(job.vlan), ip) # {} /\ ~Shared(ip) /\ ip \notin Own
  /\ job.kind = "arp" => Has(OnWire(job.vlan), job.target) # {}
CalmPing(F) ==
  calm /\ outcome # None /\ job.kind # "check" /\ job.target \in F /\ Fits(job.vlan) /\ CanPing
    => outcome.result = "Success"
CalmCheck(F) ==
  LET there == Has(OnWire(job.vlan), job.target) IN
    calm /\ outcome # None /\ job.kind = "check" /\ job.target \in F /\ Fits(job.vlan)
      /\ there # {} => outcome.result = "Duplicate" /\ there \subseteq outcome.macs

(* IPv4: every ping and every check finds what is there (do_ping_v4,       *)
(* do_timestamp_ping, do_arp_ping_v4, do_duplicate_check_v4).              *)
CalmFindsV4 == CalmPing(V4) /\ CalmCheck(V4)

(* l2_engine.rs:14-16: "before claiming an address as ours, we check       *)
(* whether anyone else already answers for it".  In IPv6 the code asks     *)
(* those who have it nothing that they accept (do_duplicate_check_v6).     *)
CheckFindsV6 == CalmCheck(V6)
=============================================================================
