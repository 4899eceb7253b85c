------------------------------ MODULE DnsTrace ------------------------------
(***************************************************************************)
(* dig's +trace (net/dns_query.rs): one task asks the root servers for a   *)
(* name, follows the delegation that the first of them to respond hands    *)
(* back, and so on, until a server gives an answer or an error, or there   *)
(* is nothing left to follow.                                              *)
(*                                                                         *)
(* The servers are external.  What each of them says of the name, and what *)
(* the user's resolvers (fallback_servers) say of a name server's address, *)
(* is chosen at the start and then fixed: the models cover every world of  *)
(* a size, with delegations that lead nowhere or in circles.  Some servers *)
(* may be down; on a flaky network any exchange may fail.                  *)
(*                                                                         *)
(* An exchange is one step by UDP, and one more by TCP when the reply was  *)
(* cut short.  A definition named Faulty... is a plausible mistake in the  *)
(* one after it; nothing uses it but the runs that show a property notices *)
(* it.                                                                     *)
(***************************************************************************)
EXTENDS Naturals, Sequences

CONSTANTS
  Servers,     \* addresses of name servers
  NsNames,     \* their names
  Roots,       \* ROOT_HINTS, in order
  Fallback,    \* fallback_servers, in order
  Replies,     \* what a server may say of the name that is traced
  Books,       \* what the fallback servers may know: a sequence of A records for each name
  MaxHops      \* MAX_TRACE_HOPS

ASSUME ServerAssumption ==
  Roots \in Seq(Servers) /\ Roots # <<>> /\ Fallback \in Seq(Servers)
ASSUME ReplyAssumption ==
  \A r \in Replies :
    /\ r.final \in BOOLEAN
    /\ r.ns \in Seq(NsNames)
    /\ r.glue \in Seq([name : NsNames, addr : Servers])
ASSUME BookAssumption == Books \subseteq [NsNames -> Seq(Servers)]
ASSUME HopAssumption == MaxHops \in Nat \ {0}

VARIABLES
  at,          \* "hop": asking for the name; "glue": asking for an address; "done"
  via,         \* "udp" or "tcp"
  todo,        \* servers still to ask, the first of them now
  candidates,  \* all the servers of this delegation
  hops,        \* the servers that responded so far
  note,        \* why the trace stopped, if not for a hop of its own
  world, book, down, flaky

external == <<world, book, down, flaky>>
vars == <<at, via, todo, candidates, hops, note, external>>

-----------------------------------------------------------------------------
Elements(s) == {s[i] : i \in DOMAIN s}

(* Glue records of the additional section are those for the name servers   *)
(* that the authority section names, of either family.                     *)

(* Faulty: any address of the additional section will do. *)
FaultyGlueFor(r) == r.glue
GlueFor(r) ==
  LET kept[i \in 0 .. Len(r.glue)] ==   \* of the first i records; SelectSeq has no proof rules
        IF i = 0 THEN <<>>
        ELSE IF r.glue[i].name \in Elements(r.ns) THEN Append(kept[i - 1], r.glue[i])
        ELSE kept[i - 1]
  IN  kept[Len(r.glue)]
Glue(r)    == [i \in DOMAIN GlueFor(r) |-> GlueFor(r)[i].addr]

Init ==
  /\ at = "hop" /\ via = "udp"
  /\ todo = Roots /\ candidates = Roots
  /\ hops = <<>> /\ note = "none"
  /\ world \in [Servers -> Replies] /\ book \in Books
  /\ flaky \in BOOLEAN /\ down \in SUBSET Servers
  /\ flaky => down = {}

Stop(why) == at' = "done" /\ note' = why /\ UNCHANGED <<todo, candidates>>

(* Faulty: one hop more than there may be. *)
FaultyFull(h) == Len(h) > MaxHops
Full(h) == Len(h) >= MaxHops

(* The top of the loop, with the servers of the next delegation. *)
Follow(cs, h) ==
  IF Full(h) THEN Stop("hops")
  ELSE at' = "hop" /\ todo' = cs /\ candidates' = cs /\ note' = note

(* send_query_to_server fails: no reply in time, none that parses, or one  *)
(* to another query.                                                       *)
MayFail == flaky \/ Head(todo) \in down

(* Faulty: a server that failed by TCP is asked once more by UDP. *)
FaultyRemaining == IF via = "tcp" THEN todo ELSE Tail(todo)
Remaining == Tail(todo)

(* The next candidate or fallback server, if there is one. *)

(* Faulty: no server but the first is asked. *)
FaultyNextServer(why) == Stop(why)
NextServer(why) ==
  IF Remaining = <<>> THEN Stop(why)
  ELSE todo' = Remaining /\ UNCHANGED <<at, note, candidates>>

WhyNot == IF at = "hop" THEN "unresponsive" ELSE "address"

Fails ==
  /\ at # "done" /\ MayFail
  /\ via' = "udp"
  /\ NextServer(WhyNot)
  /\ UNCHANGED <<hops, external>>

Truncated ==
  /\ at # "done" /\ Head(todo) \notin down /\ via = "udp"
  /\ via' = "tcp"
  /\ UNCHANGED <<at, todo, candidates, hops, note, external>>

(* resolve_ns_glue: only the first name server's address is asked for, and *)
(* without anybody to ask the trace ends.                                  *)
AskForAddress ==
  IF Fallback = <<>> THEN Stop("address")
  ELSE at' = "glue" /\ todo' = Fallback /\ UNCHANGED <<candidates, note>>

(* query_first_responsive returns, and the loop decides. *)
Responds ==
  /\ at = "hop" /\ Head(todo) \notin down
  /\ via' = "udp"
  /\ hops' = Append(hops, Head(todo))
  /\ LET r == world[Head(todo)]
     IN  \/ r.final /\ Stop("none")
         \/ ~r.final /\ r.ns = <<>> /\ Stop("no NS")
         \/ ~r.final /\ r.ns # <<>> /\ Glue(r) # <<>> /\ Follow(Glue(r), hops')
         \/ ~r.final /\ r.ns # <<>> /\ Glue(r) = <<>> /\ AskForAddress
  /\ UNCHANGED external

Last == world[hops[Len(hops)]]

(* A fallback server says what it knows, or, on a flaky network, nothing.  *)
Resolves ==
  /\ at = "glue" /\ Head(todo) \notin down
  /\ via' = "udp"
  /\ LET ips == book[Last.ns[1]]
     IN  \/ ips # <<>> /\ Follow(ips, hops)
         \/ ips = <<>> /\ NextServer("address")
  /\ UNCHANGED <<hops, external>>

Next == Fails \/ Truncated \/ Responds \/ Resolves

Spec     == Init /\ [][Next]_vars
FairSpec == Spec /\ WF_vars(Next)

-----------------------------------------------------------------------------
Notes == {"none", "hops", "unresponsive", "no NS", "address"}

(* Every variable is of its type, and hops are counted. *)
TypeOK ==
  /\ at \in {"hop", "glue", "done"} /\ via \in {"udp", "tcp"}
  /\ todo \in Seq(Servers) /\ todo # <<>>
  /\ candidates \in Seq(Servers) /\ candidates # <<>>
  /\ hops \in Seq(Servers) /\ Len(hops) <= MaxHops
  /\ note \in Notes
  /\ world \in [Servers -> Replies] /\ book \in Books
  /\ down \subseteq Servers /\ flaky \in BOOLEAN

(* Whom a reply delegates to: the glue it has for the servers it names,    *)
(* or, if it has none, what a resolver knows of the first of them.         *)
Delegates(r) ==
  IF r.final \/ r.ns = <<>> THEN {}
  ELSE LET named == {g \in Elements(r.glue) : g.name \in Elements(r.ns)}
       IN  IF named # {} THEN {g.addr : g \in named} ELSE Elements(book[r.ns[1]])

(* A trace says why it stopped: nothing when the last hop is the answer,   *)
(* that there were too many hops when there were, and that nobody responds *)
(* or has an address only when that is so, if the network is not to blame. *)
NoteIsTrue ==
  at = "done" =>
    /\ (note = "none" \/ note = "no NS") <=> hops # <<>> /\ (Last.final \/ Last.ns = <<>>)
    /\ note = "none" => Last.final
    /\ note = "hops" => Len(hops) = MaxHops
    /\ note = "unresponsive" /\ ~flaky => Elements(candidates) \subseteq down
    /\ note = "address" /\ ~flaky => Delegates(Last) = {} \/ Elements(Fallback) \subseteq down

(* A name that can be traced is: if, from every server that is up, the     *)
(* delegations lead to servers of which one at least is up, and to an      *)
(* answer in less than MaxHops steps, then on a network that is not flaky  *)
(* the trace ends with an answer (trace, query_first_responsive).          *)
Up(S) == S \ down
Answering[n \in 0 .. MaxHops - 1] ==
  {s \in Up(Servers) :
     \/ world[s].final
     \/ /\ n > 0
        /\ LET D == Up(Delegates(world[s]))
           IN  D # {} /\ D \subseteq Answering[n - 1]}
Traceable ==
  /\ ~flaky /\ Up(Elements(Fallback)) # {}
  /\ Up(Elements(Roots)) # {}
  /\ Up(Elements(Roots)) \subseteq Answering[MaxHops - 1]
FindsAnswer == at = "done" /\ Traceable => note = "none" /\ Last.final

(* Every trace ends, whatever the servers say and however they fail, each  *)
(* exchange having its timeout (QUERY_TIMEOUT, TRACE_HOP_TIMEOUT).         *)
Terminates == <>(at = "done")
=============================================================================
