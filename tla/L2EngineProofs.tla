--------------------------- MODULE L2EngineProofs ---------------------------
(***************************************************************************)
(* Theorems about L2Engine, for any addresses, stations, widths and        *)
(* numbers of jobs: whom the engine believes, which reply it takes for     *)
(* that to its own request, its types, and what it finds on a calm         *)
(* network.                                                                *)
(***************************************************************************)
EXTENDS L2Engine, TLAPS

LEMMA EngineStutter == vars' = vars =>
    /\ UNCHANGED <<phase, job, serial, next, cache, seen, outcome>>
    /\ UNCHANGED <<sent, captured, owed, holds, held>>
  BY DEF vars, engine, stations

-----------------------------------------------------------------------------
(* What is captured about an address is true of some time, and so is what  *)
(* the engine has made of it.                                              *)
Truthful(f) == f.kind = "here" /\ f.mac # NoMac => <<f.vlan, f.ip, f.mac>> \in held
BelieveInv ==
  /\ holds \subseteq held
  /\ \A s \in holds : s = <<s[1], s[2], s[3]>>
  /\ \A o \in Own : <<Untagged, o, Us>> \in held
  /\ \A f \in captured : Truthful(f)
  /\ DOMAIN cache = Addr
  /\ job.kind = "check" => \A m \in seen : <<job.vlan, job.target, m>> \in held
  /\ OnlyHoldersBelieved

(* What a station owes is a reply to a ping. *)
OnlyRepliesOwed == \A r \in owed : r.frame.kind = "reply"

LEMMA BelieveInit == Init => BelieveInv
<1> SUFFICES ASSUME Init PROVE BelieveInv
  OBVIOUS
<1>1. Stations \subseteq held /\ holds = Stations /\ \A o \in Own : <<Untagged, o, Us>> \in held
  BY DEF Init
<1>2. \A s \in holds : s = <<s[1], s[2], s[3]>>
  BY <1>1, StationAssumption
<1>3. DOMAIN cache = Addr /\ \A ip \in Addr : cache[ip] = NoMac
  BY DEF Init
<1>4. captured = {} /\ job.kind = "none" /\ outcome.result = "none"
  BY DEF Init, NoJob, None
<1> QED
  BY <1>1, <1>2, <1>3, <1>4 DEF BelieveInv, OnlyHoldersBelieved

(* A step that leaves what is believed alone, and captures only the truth. *)
LEMMA BelieveQuiet ==
  ASSUME BelieveInv, UNCHANGED <<job, cache, seen, outcome, holds, held>>,
         \A f \in captured' : Truthful(f)
  PROVE  BelieveInv'
  BY DEF BelieveInv, OnlyHoldersBelieved, Truthful

(* A step that ends a job, reading at most. *)
LEMMA BelieveFinish ==
  ASSUME BelieveInv, UNCHANGED <<job, cache, seen, holds, held>>, captured' \subseteq captured,
         outcome'.result = "Duplicate" =>
           \A m \in outcome'.macs : <<job.vlan, job.target, m>> \in held
  PROVE  BelieveInv'
  BY DEF BelieveInv, OnlyHoldersBelieved, Truthful

LEMMA BelieveTake ==
  ASSUME BelieveInv, NEW kind, NEW s, NEW t, NEW v, Take(kind, s, t, v)
  PROVE  BelieveInv'
<1>1. /\ UNCHANGED <<cache, captured, holds, held>>
      /\ seen' = {} /\ outcome'.result = "none"
  BY DEF Take, None, stations
<1> QED
  BY <1>1 DEF BelieveInv, OnlyHoldersBelieved, Truthful

(* The steps of a job that read nothing. *)
LEMMA BelieveWork ==
  ASSUME BelieveInv,
         Refuse \/ SendFails \/ UseCache \/ AskForHop \/ AskForTarget \/ SendEcho \/ Deadline
  PROVE  BelieveInv'
<1>1. CASE Refuse \/ SendFails
  <2>1. UNCHANGED <<job, cache, seen, holds, held, captured>> /\ outcome'.result = "Error"
    BY <1>1 DEF Refuse, SendFails, Finish, stations
  <2> QED
    BY <2>1, BelieveFinish
<1>2. CASE UseCache \/ AskForHop \/ AskForTarget \/ SendEcho
  <2>1. UNCHANGED <<job, cache, seen, outcome, holds, held, captured>>
    BY <1>2 DEF UseCache, AskForHop, AskForTarget, SendEcho, stations
  <2> QED
    BY <2>1, BelieveQuiet DEF BelieveInv
<1>3. CASE Deadline
  <2>1. UNCHANGED <<job, cache, seen, holds, held, captured>> /\ outcome' = Verdict
    BY <1>3 DEF Deadline, Finish, stations
  <2>2. Verdict.result = "Duplicate" => Checking /\ Verdict.macs = seen
    BY DEF Verdict
  <2> QED
    BY <2>1, <2>2, BelieveFinish DEF Checking, BelieveInv
<1> QED
  BY <1>1, <1>2, <1>3

(* The steps that read a frame. *)
LEMMA BelieveRead ==
  ASSUME BelieveInv, NEW f \in captured,
         ReadHop(f) \/ ReadReply(f) \/ ReadRequest(f) \/ ReadNeighbour(f) \/ ReadClaimant(f) \/ ReadOther(f)
  PROVE  BelieveInv'
<1>0. Truthful(f)
  BY DEF BelieveInv
<1>1. CASE ReadHop(f)
  <2>1. /\ UNCHANGED <<job, seen, outcome, holds, held>> /\ captured' \subseteq captured
        /\ cache' = [cache EXCEPT ![Hop] = f.mac]
        /\ f.kind = "here" /\ f.ip = Hop /\ f.mac # NoMac
    BY <1>1 DEF ReadHop, ShowsHop, Shows, Reads, stations
  <2>2. DOMAIN cache' = Addr
    BY <2>1 DEF BelieveInv
  <2>3. \A ip \in Addr : cache'[ip] # NoMac => \E h \in held : h[2] = ip /\ h[3] = cache'[ip]
    <3> SUFFICES ASSUME NEW ip \in Addr, cache'[ip] # NoMac
                 PROVE  \E h \in held : h[2] = ip /\ h[3] = cache'[ip]
      OBVIOUS
    <3>1. CASE ip = Hop
      <4>1. cache'[ip] = f.mac
        BY <3>1, <2>1 DEF BelieveInv
      <4>2. <<f.vlan, f.ip, f.mac>> \in held
        BY <1>0, <2>1 DEF Truthful
      <4> QED
        BY <4>1, <4>2, <3>1, <2>1
    <3>2. CASE ip # Hop
      BY <3>2, <2>1 DEF BelieveInv, OnlyHoldersBelieved
    <3> QED
      BY <3>1, <3>2
  <2> QED
    BY <2>1, <2>2, <2>3 DEF BelieveInv, OnlyHoldersBelieved, Truthful
<1>2. CASE ReadReply(f) \/ ReadNeighbour(f)
  <2>1. /\ UNCHANGED <<job, cache, seen, holds, held>> /\ captured' \subseteq captured
        /\ outcome'.result = "Success"
    BY <1>2 DEF ReadReply, ReadNeighbour, Finish, Reads, stations
  <2> QED
    BY <2>1, BelieveFinish
<1>3. CASE ReadRequest(f) \/ ReadOther(f)
  <2>1. UNCHANGED <<job, cache, seen, outcome, holds, held>> /\ captured' \subseteq captured
    BY <1>3 DEF ReadRequest, ReadOther, Reads, engine, stations
  <2> QED
    BY <2>1, BelieveQuiet DEF BelieveInv
<1>4. CASE ReadClaimant(f)
  <2>1. /\ UNCHANGED <<job, cache, outcome, holds, held>> /\ captured' \subseteq captured
        /\ seen' = seen \cup {f.mac}
        /\ f.kind = "here" /\ f.vlan = job.vlan /\ f.ip = job.target /\ f.mac # NoMac
    BY <1>4 DEF ReadClaimant, ShowsClaimant, Shows, Collect, Reads, stations
  <2>2. <<job.vlan, job.target, f.mac>> \in held
    BY <2>1, <1>0 DEF Truthful
  <2> QED
    BY <2>1, <2>2 DEF BelieveInv, OnlyHoldersBelieved, Truthful
<1> QED
  BY <1>1, <1>2, <1>3, <1>4

(* The network: stations answer for what they have. *)
LEMMA BelieveHear == BelieveInv /\ OnlyRepliesOwed /\ Hear => BelieveInv'
<1> SUFFICES ASSUME BelieveInv, OnlyRepliesOwed, NEW f \in sent,
                    HearQuery(f) \/ HearEcho(f) \/ HearClaim(f),
                    UNCHANGED <<engine, holds, held, events, calm>>
             PROVE  BelieveInv'
  BY DEF Hear
<1>0. UNCHANGED <<job, cache, seen, outcome, holds, held>>
  BY DEF engine
<1>1. CASE HearQuery(f)
  <2> SUFFICES ASSUME NEW g \in captured' PROVE Truthful(g)
    BY <1>0, BelieveQuiet
  <2>1. g \in captured \/ \E m : <<f.vlan, f.ip, m>> \in holds /\ g = Here(f.vlan, f.ip, m, f.serial)
    BY <1>1 DEF HearQuery
  <2>2. ASSUME NEW m, <<f.vlan, f.ip, m>> \in holds, g = Here(f.vlan, f.ip, m, f.serial)
        PROVE  Truthful(g)
    <3>1. g.vlan = f.vlan /\ g.ip = f.ip /\ g.mac = m
      BY <2>2 DEF Here
    <3> QED
      BY <2>2, <3>1 DEF Truthful, BelieveInv
  <2> QED
    BY <2>1, <2>2 DEF BelieveInv
<1>2. CASE HearEcho(f)
  <2>1. \A g \in captured' : g \in captured \/ g.kind # "here"
    BY <1>2 DEF HearEcho, Reply, Who
  <2> QED
    BY <2>1, <1>0, BelieveQuiet DEF BelieveInv, Truthful
<1>3. CASE HearClaim(f)
  <2>1. \A g \in captured' : g \in captured \/ \E r \in owed : g = r.frame
    BY <1>3 DEF HearClaim
  <2> QED
    BY <2>1, <1>0, BelieveQuiet DEF BelieveInv, OnlyRepliesOwed, Truthful
<1> QED
  BY <1>1, <1>2, <1>3

LEMMA BelieveOthers ==
  ASSUME BelieveInv, OnlyRepliesOwed, OwnerAnswers \/ Overhear \/ Move
  PROVE  BelieveInv'
<1>1. CASE OwnerAnswers
  <2>1. UNCHANGED <<job, cache, seen, outcome, holds, held>>
    BY <1>1 DEF OwnerAnswers, engine
  <2>2. ASSUME NEW g \in captured' PROVE Truthful(g)
    <3>1. PICK r \in owed :
            \/ captured' = captured
            \/ /\ r.frame.dst \in Own
               /\ captured' = captured \cup {r.frame, Here(Untagged, r.frame.dst, Us, 0)}
      BY <1>1 DEF OwnerAnswers
    <3>2. CASE g \in captured \/ g = r.frame
      BY <3>2 DEF BelieveInv, OnlyRepliesOwed, Truthful
    <3>3. CASE r.frame.dst \in Own /\ g = Here(Untagged, r.frame.dst, Us, 0)
      <4>1. g.vlan = Untagged /\ g.ip = r.frame.dst /\ g.mac = Us
        BY <3>3 DEF Here
      <4> QED
        BY <3>3, <4>1 DEF BelieveInv, Truthful
    <3> QED
      BY <3>1, <3>2, <3>3, <2>2
  <2> QED
    BY <2>1, <2>2, BelieveQuiet
<1>2. CASE Overhear
  <2>1. UNCHANGED <<job, cache, seen, outcome, holds, held>>
    BY <1>2 DEF Overhear, engine, stations
  <2>2. ASSUME NEW g \in Overheard PROVE Truthful(g)
    <3>1. CASE \E s \in holds : g = Here(s[1], s[2], s[3], 0)
      <4>1. PICK s \in holds : g = Here(s[1], s[2], s[3], 0)
        BY <3>1
      <4>2. g.vlan = s[1] /\ g.ip = s[2] /\ g.mac = s[3]
        BY <4>1 DEF Here
      <4>3. <<s[1], s[2], s[3]>> \in held
        BY DEF BelieveInv
      <4> QED
        BY <4>2, <4>3 DEF Truthful
    <3>2. CASE \E o \in Own : g = Here(Untagged, o, Us, 0)
      BY <3>2 DEF Here, Truthful, BelieveInv
    <3>3. CASE g.kind # "here" \/ g.mac = NoMac
      BY <3>3 DEF Truthful
    <3>4. \/ \E s \in holds : g = Here(s[1], s[2], s[3], 0)
          \/ \E o \in Own : g = Here(Untagged, o, Us, 0)
          \/ g.kind # "here" \/ g.mac = NoMac
      BY <2>2 DEF Overheard, Here, Who
    <3> QED
      BY <3>1, <3>2, <3>3, <3>4
  <2>3. \A g \in captured' : g \in captured \/ g \in Overheard
    BY <1>2 DEF Overhear
  <2> QED
    BY <2>1, <2>2, <2>3, BelieveQuiet DEF BelieveInv
<1>3. CASE Move
  <2>1. /\ UNCHANGED <<job, cache, seen, outcome, captured>>
        /\ held' = held \cup holds'
    BY <1>3 DEF Move, engine
  <2>2. \A s \in holds' : s = <<s[1], s[2], s[3]>>
    <3> SUFFICES ASSUME NEW s \in holds' PROVE s = <<s[1], s[2], s[3]>>
      OBVIOUS
    <3>1. s \in holds \/ \E a, b, c : s = <<a, b, c>>
      BY <1>3 DEF Move
    <3> QED
      BY <3>1 DEF BelieveInv
  <2> QED
    BY <2>1, <2>2 DEF BelieveInv, OnlyHoldersBelieved, Truthful
<1> QED
  BY <1>1, <1>2, <1>3

LEMMA RepliesOwed == Spec => []OnlyRepliesOwed
<1>1. Init => OnlyRepliesOwed
  BY DEF Init, OnlyRepliesOwed
<1>2. OnlyRepliesOwed /\ [Next]_vars => OnlyRepliesOwed'
  <2> SUFFICES ASSUME OnlyRepliesOwed, [Next]_vars, NEW r \in owed' PROVE r.frame.kind = "reply"
    BY DEF OnlyRepliesOwed
  <2>1. r \in owed \/ \E f, m : r = [frame |-> Reply(f), by |-> m]
    <3>1. CASE owed' = owed
      BY <3>1
    <3>2. CASE \E f \in sent : HearEcho(f)
      BY <3>2 DEF HearEcho
    <3>3. CASE \E f \in sent : HearClaim(f)
      BY <3>3 DEF HearClaim
    <3>4. CASE OwnerAnswers
      BY <3>4 DEF OwnerAnswers
    <3>5. \/ owed' = owed \/ (\E f \in sent : HearEcho(f)) \/ (\E f \in sent : HearClaim(f)) \/ OwnerAnswers
      <4>1. CASE Work
        BY <4>1 DEF Work, Refuse, SendFails, UseCache, AskForHop, AskForTarget, SendEcho, Deadline,
             ReadHop, ReadReply, ReadRequest, ReadNeighbour, ReadClaimant, ReadOther, Finish, stations
      <4>2. CASE Hear \/ OwnerAnswers
        BY <4>2 DEF Hear, HearQuery
      <4>3. CASE Overhear \/ Move
        BY <4>3 DEF Overhear, Move, stations
      <4>4. CASE UNCHANGED vars
        BY <4>4 DEF vars, stations
      <4>5. ASSUME NEW kind, NEW s, NEW t, NEW v, Take(kind, s, t, v) PROVE owed' = owed
        BY <4>5 DEF Take, stations
      <4> QED
        BY <4>1, <4>2, <4>3, <4>4, <4>5 DEF Next
    <3> QED
      BY <3>1, <3>2, <3>3, <3>4, <3>5
  <2> QED
    BY <2>1 DEF OnlyRepliesOwed, Reply
<1> QED
  BY <1>1, <1>2, PTL DEF Spec

LEMMA BelieveNext == ASSUME BelieveInv, OnlyRepliesOwed, [Next]_vars PROVE BelieveInv'
<1>1. CASE Work
  BY <1>1, BelieveWork, BelieveRead DEF Work
<1>2. CASE Hear \/ OwnerAnswers \/ Overhear \/ Move
  BY <1>2, BelieveHear, BelieveOthers
<1>3. CASE UNCHANGED vars
  BY <1>3, EngineStutter, BelieveQuiet DEF BelieveInv
<1> QED
  BY <1>1, <1>2, <1>3, BelieveTake DEF Next

LEMMA BelieveAlways == Spec => []BelieveInv
<1>1. BelieveInv /\ OnlyRepliesOwed /\ [Next]_vars => BelieveInv'
  BY BelieveNext
<1> QED
  BY BelieveInit, RepliesOwed, <1>1, PTL DEF Spec

(* The MAC that a ping goes to did answer for its hop on some VLAN, and    *)
(* every MAC that a duplicate check reports did have the address on the    *)
(* VLAN that was checked, whatever is late, overheard or from another VLAN *)
(* (resolve_mac, do_duplicate_check).                                      *)
THEOREM Believed == Spec => []OnlyHoldersBelieved
<1>1. BelieveInv => OnlyHoldersBelieved
  BY DEF BelieveInv
<1> QED
  BY BelieveAlways, <1>1, PTL

-----------------------------------------------------------------------------
(* The number of a request, or of the reply to it, tells it from every     *)
(* later one as long as the identifiers do not come round.                 *)
Numbered(f) ==
  /\ f.serial \in 1 .. serial /\ f.ident \in Nat
  /\ f.serial = serial => job.kind \in Echoes /\ f.ident = job.ident
  /\ f.serial < serial /\ job.kind \in Echoes => f.ident < job.ident
  /\ next # 0 => f.ident < next

FreshIdents ==
  /\ serial \in 0 .. MaxJobs /\ next \in Nat /\ next <= serial + 1
  /\ next = 0 => serial = MaxJobs
  /\ job.kind \in Echoes => job.ident \in Nat /\ (next # 0 => job.ident < next)
  /\ phase # "idle" => serial > 0
  /\ phase \in {"send", "resolve"} => job.kind \in Echoes

NumberInv ==
  /\ FreshIdents
  /\ \A f \in sent : f.kind \in Echoes => Numbered(f)
  /\ \A f \in captured : f.kind = "reply" /\ f.dst \notin Own => Numbered(f)
  /\ \A r \in owed : Numbered(r.frame)
  /\ EchoSuccessIsRealUnlessOwn

(* A step within a job or outside it, which numbers nothing. *)
LEMMA NumberQuiet ==
  ASSUME NumberInv, UNCHANGED <<job, serial, next>>,
         phase' # "idle" => phase # "idle",
         phase' \in {"send", "resolve"} => job.kind \in Echoes,
         \A f \in sent' : f \in sent \/ (f.kind \in Echoes => Numbered(f)),
         \A f \in captured' : f \in captured \/ (f.kind = "reply" /\ f.dst \notin Own => Numbered(f)),
         \A r \in owed' : r \in owed \/ Numbered(r.frame),
         EchoSuccessIsRealUnlessOwn'
  PROVE  NumberInv'
<1>1. FreshIdents'
  BY DEF NumberInv, FreshIdents
<1>2. \A f : Numbered(f) => Numbered(f)'
  BY DEF Numbered
<1> QED
  BY <1>1, <1>2 DEF NumberInv

LEMMA NumberTake ==
  ASSUME NumberInv, MaxJobs < IdentSpace, NEW kind, NEW s, NEW t, NEW v, Take(kind, s, t, v)
  PROVE  NumberInv'
<1>1. /\ serial < MaxJobs /\ serial' = serial + 1 /\ phase' = "start"
      /\ job'.kind = kind /\ job'.ident = next /\ outcome'.result = "none"
      /\ next' = IF kind \in Echoes THEN Bump(next) ELSE next
      /\ UNCHANGED <<sent, captured, owed>>
  BY DEF Take, None, stations
<1>2. /\ serial \in Nat /\ MaxJobs \in Nat /\ next \in Nat /\ IdentSpace \in Nat
      /\ next # 0 /\ next <= serial + 1
  BY <1>1, WidthAssumption DEF NumberInv, FreshIdents
<1>3. /\ next' \in Nat /\ next' <= serial' + 1
      /\ next' = 0 => serial' = MaxJobs
      /\ next' # 0 => next' >= next
      /\ kind \in Echoes /\ next' # 0 => next' = next + 1
  BY <1>1, <1>2 DEF Bump
<1>4. serial' \in 0 .. MaxJobs /\ serial' > 0
  BY <1>1, <1>2
<1>5. FreshIdents'
  BY <1>1, <1>2, <1>3, <1>4 DEF FreshIdents
<1>6. ASSUME NEW f, Numbered(f) PROVE Numbered(f)'
  <2>1. f.serial \in 1 .. serial /\ f.ident \in Nat /\ f.ident < next
    BY <1>2, <1>6 DEF Numbered
  <2>2. f.serial \in 1 .. serial' /\ f.serial # serial'
    BY <2>1, <1>1, <1>2
  <2>3. next' # 0 => f.ident < next'
    BY <2>1, <1>2, <1>3
  <2> QED
    BY <2>1, <2>2, <2>3, <1>1 DEF Numbered
<1>7. EchoSuccessIsRealUnlessOwn'
  BY <1>1 DEF EchoSuccessIsRealUnlessOwn, EchoSuccessIsReal
<1> QED
  BY <1>1, <1>5, <1>6, <1>7 DEF NumberInv

LEMMA NumberWork ==
  ASSUME NumberInv,
         Refuse \/ SendFails \/ UseCache \/ AskForHop \/ AskForTarget \/ SendEcho \/ Deadline
  PROVE  NumberInv'
<1>1. CASE Refuse \/ SendFails \/ Deadline
  <2>1. /\ UNCHANGED <<job, serial, next, sent, captured, owed>> /\ phase' = "idle"
        /\ outcome'.result # "Success"
    BY <1>1 DEF Refuse, SendFails, Deadline, Verdict, Finish, stations
  <2> QED
    BY <2>1, NumberQuiet DEF EchoSuccessIsRealUnlessOwn, EchoSuccessIsReal
<1>2. CASE UseCache \/ AskForHop \/ AskForTarget
  <2>1. /\ UNCHANGED <<job, serial, next, outcome, captured, owed>> /\ phase = "start"
        /\ phase' \in {"send", "resolve"} => job.kind \in Echoes
        /\ \A f \in sent' : f \in sent \/ f.kind = "query"
    BY <1>2 DEF UseCache, AskForHop, AskForTarget, AsksHop, Query, stations
  <2> QED
    BY <2>1, NumberQuiet DEF NumberInv, EchoSuccessIsRealUnlessOwn, EchoSuccessIsReal, Echoes
<1>3. CASE SendEcho
  <2>1. /\ UNCHANGED <<job, serial, next, outcome, captured, owed>> /\ phase = "send" /\ phase' = "wait"
        /\ \A f \in sent' : f \in sent \/ (f.serial = serial /\ f.ident = job.ident)
    BY <1>3 DEF SendEcho, Echo, stations
  <2>2. \A f : f.serial = serial /\ f.ident = job.ident => Numbered(f)
    BY <2>1 DEF NumberInv, FreshIdents, Numbered
  <2> QED
    BY <2>1, <2>2, NumberQuiet DEF NumberInv, EchoSuccessIsRealUnlessOwn, EchoSuccessIsReal
<1> QED
  BY <1>1, <1>2, <1>3

LEMMA NumberRead ==
  ASSUME NumberInv, NEW f \in captured,
         ReadHop(f) \/ ReadReply(f) \/ ReadRequest(f) \/ ReadNeighbour(f) \/ ReadClaimant(f) \/ ReadOther(f)
  PROVE  NumberInv'
<1>1. CASE ReadReply(f)
  <2>1. /\ UNCHANGED <<job, serial, next, sent, owed>> /\ phase' = "idle" /\ captured' \subseteq captured
        /\ outcome' = [result |-> "Success", by |-> f.serial]
        /\ job.kind \in Echoes /\ f.kind = "reply" /\ f.dst = job.source /\ f.ident = job.ident
    BY <1>1 DEF ReadReply, Pinging, Answers, Reads, Finish, stations
  <2>2. job.source \notin Own => f.serial = serial
    <3> SUFFICES ASSUME job.source \notin Own PROVE f.serial = serial
      OBVIOUS
    <3>1. Numbered(f) /\ FreshIdents
      BY <2>1 DEF NumberInv
    <3> QED
      BY <3>1, <2>1 DEF Numbered, FreshIdents
  <2> QED
    BY <2>1, <2>2, NumberQuiet DEF EchoSuccessIsRealUnlessOwn, EchoSuccessIsReal
<1>2. CASE ReadNeighbour(f)
  <2>1. /\ UNCHANGED <<job, serial, next, sent, owed>> /\ phase' = "idle" /\ captured' \subseteq captured
        /\ job.kind \notin Echoes
    BY <1>2 DEF ReadNeighbour, Arping, Echoes, Reads, Finish, stations
  <2> QED
    BY <2>1, NumberQuiet DEF EchoSuccessIsRealUnlessOwn, EchoSuccessIsReal
<1>3. CASE ReadHop(f) \/ ReadClaimant(f) \/ ReadOther(f) \/ ReadRequest(f)
  <2>1. /\ UNCHANGED <<job, serial, next, outcome, owed>> /\ captured' \subseteq captured
        /\ phase' = phase \/ (phase = "resolve" /\ phase' = "send")
        /\ \A g \in sent' : g \in sent \/ g.kind = "claim"
    BY <1>3 DEF ReadHop, ReadClaimant, ReadOther, ReadRequest, Resolving, Claim, Reads, engine, stations
  <2> QED
    BY <2>1, NumberQuiet DEF NumberInv, FreshIdents, EchoSuccessIsRealUnlessOwn, EchoSuccessIsReal, Echoes
<1> QED
  BY <1>1, <1>2, <1>3

LEMMA NumberHear == NumberInv /\ Hear => NumberInv'
<1> SUFFICES ASSUME NumberInv, NEW f \in sent,
                    HearQuery(f) \/ HearEcho(f) \/ HearClaim(f),
                    sent' = sent \ {f}, UNCHANGED <<engine, holds, held, events, calm>>
             PROVE  NumberInv'
  BY DEF Hear
<1>0. /\ UNCHANGED <<phase, job, serial, next, outcome>>
      /\ \A g \in sent' : g \in sent
      /\ EchoSuccessIsRealUnlessOwn'
      /\ phase' \in {"send", "resolve"} => job.kind \in Echoes
  BY DEF engine, NumberInv, FreshIdents, EchoSuccessIsRealUnlessOwn, EchoSuccessIsReal
<1>1. CASE HearQuery(f)
  <2>1. \A g \in captured' : g \in captured \/ \E m : g = Here(f.vlan, f.ip, m, f.serial)
    BY <1>1 DEF HearQuery
  <2>2. \A g \in captured' : g \in captured \/ g.kind = "here"
    BY <2>1 DEF Here
  <2>3. owed' = owed
    BY <1>1 DEF HearQuery
  <2> QED
    BY <2>2, <2>3, <1>0, NumberQuiet
<1>2. CASE HearEcho(f)
  <2>1. Numbered(Reply(f))
    BY <1>2 DEF HearEcho, Reply, Numbered, NumberInv
  <2>2. /\ \A g \in captured' : g \in captured \/ g = Reply(f) \/ g.kind = "who"
        /\ \A r \in owed' : r \in owed \/ r.frame = Reply(f)
    BY <1>2 DEF HearEcho, Who
  <2> QED
    BY <2>1, <2>2, <1>0, NumberQuiet
<1>3. CASE HearClaim(f)
  <2>1. /\ \A g \in captured' : g \in captured \/ \E r \in owed : g = r.frame
        /\ owed' \subseteq owed
    BY <1>3 DEF HearClaim
  <2>2. \A r \in owed : Numbered(r.frame)
    BY DEF NumberInv
  <2> QED
    BY <2>1, <2>2, <1>0, NumberQuiet
<1> QED
  BY <1>1, <1>2, <1>3

LEMMA NumberOthers ==
  ASSUME NumberInv, OwnerAnswers \/ Overhear \/ Move
  PROVE  NumberInv'
<1>0. /\ UNCHANGED <<phase, job, serial, next, outcome, sent>>
      /\ EchoSuccessIsRealUnlessOwn'
      /\ phase' \in {"send", "resolve"} => job.kind \in Echoes
  BY DEF OwnerAnswers, Overhear, Move, engine, NumberInv, FreshIdents,
         EchoSuccessIsRealUnlessOwn, EchoSuccessIsReal
<1>1. owed' \subseteq owed
  BY DEF OwnerAnswers, Overhear, Move, stations
<1>2. ASSUME NEW g \in captured' PROVE g \in captured \/ g.kind # "reply" \/ g.dst \in Own
  <2>1. CASE OwnerAnswers
    BY <2>1, <1>2 DEF OwnerAnswers, Here
  <2>2. CASE Overhear
    <3>1. g \in captured \/ g \in Overheard
      BY <2>2, <1>2 DEF Overhear
    <3>2. g \in Overheard => g.kind # "reply" \/ g.dst \in Own
      BY DEF Overheard, Here, Who
    <3> QED
      BY <3>1, <3>2
  <2>3. CASE Move
    BY <2>3, <1>2 DEF Move
  <2> QED
    BY <2>1, <2>2, <2>3
<1> QED
  BY <1>0, <1>1, <1>2, NumberQuiet

(* A ping or timestamp that succeeded, from an address that the machine    *)
(* does not use itself, was answered by a reply to its own request, late   *)
(* replies to earlier ones notwithstanding, while there are fewer jobs     *)
(* than identifiers (do_ping_v4, do_ping_v6, do_timestamp_ping).           *)
THEOREM RepliesAreOwn ==
  ASSUME MaxJobs < IdentSpace
  PROVE  Spec => []EchoSuccessIsRealUnlessOwn
<1>1. Init => NumberInv
  BY WidthAssumption DEF Init, NumberInv, FreshIdents, NoJob, None, Echoes,
       EchoSuccessIsRealUnlessOwn, EchoSuccessIsReal
<1>2. NumberInv /\ [Next]_vars => NumberInv'
  <2> SUFFICES ASSUME NumberInv, [Next]_vars PROVE NumberInv'
    OBVIOUS
  <2>1. CASE Work
    BY <2>1, NumberWork, NumberRead DEF Work
  <2>2. CASE Hear \/ OwnerAnswers \/ Overhear \/ Move
    BY <2>2, NumberHear, NumberOthers
  <2>3. CASE UNCHANGED vars
    BY <2>3, EngineStutter, NumberQuiet DEF NumberInv, FreshIdents,
         EchoSuccessIsRealUnlessOwn, EchoSuccessIsReal
  <2>4. ASSUME NEW kind, NEW s, NEW t, NEW v, Take(kind, s, t, v) PROVE NumberInv'
    BY <2>4, NumberTake
  <2> QED
    BY <2>1, <2>2, <2>3, <2>4 DEF Next
<1>3. NumberInv => EchoSuccessIsRealUnlessOwn
  BY DEF NumberInv
<1> QED
  BY <1>1, <1>2, <1>3, PTL DEF Spec

-----------------------------------------------------------------------------
(* Types                                                                   *)

CountTypes ==
  /\ serial \in 0 .. MaxJobs /\ next \in 0 .. IdentSpace - 1 /\ events \in 0 .. MaxEvents
  /\ job # NoJob => job.ident \in 0 .. IdentSpace - 1

(* Only the two ICMP pings resolve a hop and send an echo to it. *)
JobTypes ==
  /\ phase \in {"idle", "start", "resolve", "send", "wait"}
  /\ job # NoJob =>
       /\ job.kind \in Echoes \cup {"arp", "check"}
       /\ {job.source, job.target} \subseteq Addr
       /\ job.vlan \in Vlans
  /\ phase # "idle" => job # NoJob /\ outcome = None
  /\ phase \in {"resolve", "send"} => job.kind \in Echoes
  /\ job = NoJob => outcome = None
  /\ outcome.result \in {"none", "Success", "Timeout", "Error", "Clear", "Duplicate"}

BeliefTypes ==
  /\ cache \in [Addr -> MACs \cup {Us, NoMac}]
  /\ seen \subseteq MACs \cup {Us}

(* What stations have and say of it is a MAC of theirs. *)
Spoken(f) ==
  /\ f.kind \in {"here", "who", "reply"}
  /\ f.kind = "here" => f.mac \in MACs \cup {Us, NoMac}
FrameTypes ==
  /\ \A f \in sent : f.kind \in Echoes \cup {"query", "claim"}
  /\ \A f \in captured : Spoken(f)
  /\ \A r \in owed : r.by \in MACs /\ r.frame.kind = "reply"
  /\ holds \subseteq held
  /\ \A s \in holds : s = <<s[1], s[2], s[3]>> /\ s[3] \in MACs
  /\ calm \in BOOLEAN

TypeInv == CountTypes /\ JobTypes /\ BeliefTypes /\ FrameTypes

LEMMA TypeInvIs == TypeInv => TypeOK
BY DEF TypeInv, CountTypes, JobTypes, BeliefTypes, FrameTypes, TypeOK, Spoken

LEMMA TypeInit == ASSUME Init PROVE TypeInv
<1>1. CountTypes
  <2>1. job = NoJob /\ serial = 0 /\ next = 1 /\ events = 0
    BY DEF Init
  <2> QED BY <2>1, WidthAssumption DEF CountTypes
<1>2. JobTypes
  BY DEF Init, JobTypes, None
<1>3. BeliefTypes
  BY DEF Init, BeliefTypes
<1>4. FrameTypes
  <2>1. sent = {} /\ captured = {} /\ owed = {} /\ holds = Stations /\ calm \in BOOLEAN
        /\ holds \subseteq held
    BY DEF Init
  <2>2. \A s \in Stations : s = <<s[1], s[2], s[3]>> /\ s[3] \in MACs
    BY StationAssumption
  <2> QED BY <2>1, <2>2 DEF FrameTypes
<1> QED BY <1>1, <1>2, <1>3, <1>4 DEF TypeInv

LEMMA TypeTake ==
  ASSUME TypeInv, NEW kind \in Echoes \cup {"arp", "check"}, NEW s \in Addr, NEW t \in Addr,
         NEW v \in Vlans, Take(kind, s, t, v)
  PROVE  TypeInv'
<1>1. /\ serial < MaxJobs /\ serial' = serial + 1 /\ events' = events
      /\ job' = [kind |-> kind, source |-> s, target |-> t, vlan |-> v, ident |-> next]
      /\ next' = IF kind \in Echoes THEN Bump(next) ELSE next
  BY DEF Take, stations
<1>2. /\ phase' = "start" /\ outcome' = None /\ cache' = cache /\ seen' = {}
      /\ UNCHANGED <<sent, captured, owed, holds, held, calm>>
  BY DEF Take, stations
<1>3. job'.kind = kind /\ job'.source = s /\ job'.target = t /\ job'.vlan = v /\ job'.ident = next
  BY <1>1
<1>4. job' # NoJob
  BY <1>3 DEF NoJob, Echoes
<1>5. CountTypes'
  <2>1. Bump(next) \in 0 .. IdentSpace - 1
    BY WidthAssumption DEF TypeInv, CountTypes, Bump
  <2> QED BY <1>1, <1>3, <2>1, WidthAssumption DEF TypeInv, CountTypes
<1>6. JobTypes'
  BY <1>2, <1>3, <1>4 DEF JobTypes, None
<1>7. BeliefTypes' /\ FrameTypes'
  BY <1>2 DEF TypeInv, BeliefTypes, FrameTypes, Spoken
<1> QED BY <1>5, <1>6, <1>7 DEF TypeInv

(* A step of the thread that goes on with its job, and takes no other. *)
LEMMA TypeGoesOn ==
  ASSUME TypeInv, UNCHANGED <<job, serial, next, events, owed, holds, held, calm>>,
         JobTypes', BeliefTypes',
         \A f \in sent' : f \in sent \/ f.kind \in Echoes \cup {"query", "claim"},
         captured' \subseteq captured
  PROVE  TypeInv'
<1>1. CountTypes'
  BY DEF TypeInv, CountTypes
<1>2. FrameTypes'
  BY DEF TypeInv, FrameTypes, Spoken
<1> QED BY <1>1, <1>2 DEF TypeInv

LEMMA TypeWork ==
  ASSUME TypeInv,
         Refuse \/ SendFails \/ UseCache \/ AskForHop \/ AskForTarget \/ SendEcho \/ Deadline
  PROVE  TypeInv'
<1>0. JobTypes /\ BeliefTypes
  BY DEF TypeInv
<1>1. CASE Refuse \/ SendFails \/ Deadline
  <2>1. /\ UNCHANGED <<job, serial, next, events, owed, holds, held, calm, cache, seen, sent, captured>>
        /\ phase # "idle" /\ phase' = "idle"
        /\ outcome'.result \in {"Timeout", "Error", "Clear", "Duplicate"}
    BY <1>1 DEF Refuse, SendFails, Deadline, Finish, Verdict, stations
  <2>2. JobTypes'
    BY <1>0, <2>1 DEF JobTypes
  <2>3. BeliefTypes'
    BY <1>0, <2>1 DEF BeliefTypes
  <2> QED BY <2>1, <2>2, <2>3, TypeGoesOn
<1>2. CASE UseCache \/ AskForHop
  <2>1. /\ UNCHANGED <<job, serial, next, events, owed, holds, held, calm, cache, seen, outcome, captured>>
        /\ phase = "start" /\ phase' \in {"send", "resolve"} /\ job.kind \in Echoes
        /\ \A f \in sent' : f \in sent \/ f.kind = "query"
    BY <1>2 DEF UseCache, AskForHop, AsksHop, Query, stations
  <2>2. JobTypes'
    BY <1>0, <2>1 DEF JobTypes
  <2>3. BeliefTypes'
    BY <1>0, <2>1 DEF BeliefTypes
  <2> QED BY <2>1, <2>2, <2>3, TypeGoesOn
<1>3. CASE AskForTarget
  <2>1. /\ UNCHANGED <<job, serial, next, events, owed, holds, held, calm, cache, seen, outcome, captured>>
        /\ phase = "start" /\ phase' = "wait"
        /\ \A f \in sent' : f \in sent \/ f.kind = "query"
    BY <1>3 DEF AskForTarget, Query, stations
  <2>2. JobTypes'
    BY <1>0, <2>1 DEF JobTypes
  <2>3. BeliefTypes'
    BY <1>0, <2>1 DEF BeliefTypes
  <2> QED BY <2>1, <2>2, <2>3, TypeGoesOn
<1>4. CASE SendEcho
  <2>1. /\ UNCHANGED <<job, serial, next, events, owed, holds, held, calm, cache, seen, outcome, captured>>
        /\ phase = "send" /\ phase' = "wait"
        /\ \A f \in sent' : f \in sent \/ f.kind = job.kind
    BY <1>4 DEF SendEcho, Echo, stations
  <2>2. JobTypes'
    BY <1>0, <2>1 DEF JobTypes
  <2>3. BeliefTypes'
    BY <1>0, <2>1 DEF BeliefTypes
  <2>4. job.kind \in Echoes
    BY <1>0, <2>1 DEF JobTypes
  <2> QED BY <2>1, <2>2, <2>3, <2>4, TypeGoesOn
<1> QED BY <1>1, <1>2, <1>3, <1>4

LEMMA TypeRead ==
  ASSUME TypeInv, NEW f \in captured,
         ReadHop(f) \/ ReadReply(f) \/ ReadRequest(f) \/ ReadNeighbour(f) \/ ReadClaimant(f) \/ ReadOther(f)
  PROVE  TypeInv'
<1>0. JobTypes /\ BeliefTypes /\ Spoken(f)
  BY DEF TypeInv, FrameTypes
<1>1. CASE ReadHop(f)
  <2>1. /\ UNCHANGED <<job, serial, next, events, owed, holds, held, calm, seen, outcome, sent>>
        /\ captured' \subseteq captured
        /\ phase = "resolve" /\ phase' = "send" /\ cache' = [cache EXCEPT ![Hop] = f.mac]
        /\ f.kind = "here"
    BY <1>1 DEF ReadHop, Resolving, ShowsHop, Shows, Reads, stations
  <2>2. JobTypes'
    BY <1>0, <2>1 DEF JobTypes
  <2>3. BeliefTypes'
    BY <1>0, <2>1 DEF BeliefTypes, Spoken
  <2> QED BY <2>1, <2>2, <2>3, TypeGoesOn
<1>2. CASE ReadReply(f) \/ ReadNeighbour(f)
  <2>1. /\ UNCHANGED <<job, serial, next, events, owed, holds, held, calm, cache, seen, sent>>
        /\ captured' \subseteq captured
        /\ phase # "idle" /\ phase' = "idle" /\ outcome'.result = "Success"
    BY <1>2 DEF ReadReply, ReadNeighbour, Pinging, Arping, Finish, Reads, stations
  <2>2. JobTypes'
    BY <1>0, <2>1 DEF JobTypes
  <2>3. BeliefTypes'
    BY <1>0, <2>1 DEF BeliefTypes
  <2> QED BY <2>1, <2>2, <2>3, TypeGoesOn
<1>3. CASE ReadRequest(f) \/ ReadOther(f)
  <2>1. /\ UNCHANGED <<phase, job, serial, next, events, owed, holds, held, calm, cache, seen, outcome>>
        /\ captured' \subseteq captured
        /\ \A g \in sent' : g \in sent \/ g.kind = "claim"
    BY <1>3 DEF ReadRequest, ReadOther, Claim, Reads, engine, stations
  <2>2. JobTypes'
    BY <1>0, <2>1 DEF JobTypes
  <2>3. BeliefTypes'
    BY <1>0, <2>1 DEF BeliefTypes
  <2> QED BY <2>1, <2>2, <2>3, TypeGoesOn
<1>4. CASE ReadClaimant(f)
  <2>1. /\ UNCHANGED <<phase, job, serial, next, events, owed, holds, held, calm, cache, outcome, sent>>
        /\ captured' \subseteq captured
        /\ seen' = seen \cup {f.mac} /\ f.kind = "here" /\ f.mac # NoMac
    BY <1>4 DEF ReadClaimant, ShowsClaimant, Shows, Collect, Reads, stations
  <2>2. JobTypes'
    BY <1>0, <2>1 DEF JobTypes
  <2>3. BeliefTypes'
    BY <1>0, <2>1 DEF BeliefTypes, Spoken
  <2> QED BY <2>1, <2>2, <2>3, TypeGoesOn
<1> QED BY <1>1, <1>2, <1>3, <1>4

(* What the network does. *)
LEMMA TypeOutside ==
  ASSUME TypeInv, UNCHANGED engine, events' \in 0 .. MaxEvents, FrameTypes'
  PROVE  TypeInv'
<1>1. CountTypes'
  BY DEF TypeInv, CountTypes, engine
<1>2. JobTypes'
  BY DEF TypeInv, JobTypes, engine
<1>3. BeliefTypes'
  BY DEF TypeInv, BeliefTypes, engine
<1> QED BY <1>1, <1>2, <1>3 DEF TypeInv

LEMMA TypeHear == ASSUME TypeInv, Hear PROVE TypeInv'
<1>1. PICK f \in sent : /\ HearQuery(f) \/ HearEcho(f) \/ HearClaim(f)
                        /\ sent' = sent \ {f}
                        /\ UNCHANGED <<engine, holds, held, events, calm>>
  BY DEF Hear
<1>2. FrameTypes
  BY DEF TypeInv
<1>3. ASSUME \A g \in captured' : Spoken(g),
             \A r \in owed' : r.by \in MACs /\ r.frame.kind = "reply"
      PROVE  TypeInv'
  <2>1. FrameTypes'
    BY <1>1, <1>2, <1>3 DEF FrameTypes, Spoken
  <2>2. UNCHANGED engine /\ events' \in 0 .. MaxEvents
    BY <1>1 DEF TypeInv, CountTypes
  <2> QED BY <2>1, <2>2, TypeOutside
<1>4. CASE HearQuery(f)
  <2>1. ASSUME NEW g \in captured' PROVE Spoken(g)
    <3>1. g \in captured \/ \E m \in MACs : g = Here(f.vlan, f.ip, m, f.serial)
      BY <1>4 DEF HearQuery
    <3> QED BY <1>2, <3>1 DEF FrameTypes, Spoken, Here
  <2>2. owed' = owed
    BY <1>4 DEF HearQuery
  <2> QED BY <1>2, <1>3, <2>1, <2>2 DEF FrameTypes
<1>5. CASE HearEcho(f)
  <2>1. Reaches(f) => f.to \in MACs
    <3>1. Reaches(f) => \E s \in holds : s[3] = f.to
      BY DEF Reaches
    <3> QED BY <1>2, <3>1 DEF FrameTypes
  <2>2. Reply(f).kind = "reply" /\ Who(f.vlan, f.src, f.to).kind = "who"
    BY DEF Reply, Who
  <2>3. ASSUME NEW g \in captured' PROVE Spoken(g)
    <3>1. g \in captured \/ g = Reply(f) \/ g = Who(f.vlan, f.src, f.to)
      BY <1>5 DEF HearEcho
    <3>2. Spoken(Reply(f)) /\ Spoken(Who(f.vlan, f.src, f.to))
      BY <2>2 DEF Spoken
    <3> QED BY <1>2, <3>1, <3>2 DEF FrameTypes
  <2>4. ASSUME NEW r \in owed' PROVE r.by \in MACs /\ r.frame.kind = "reply"
    <3>1. r \in owed \/ (Reaches(f) /\ r = [frame |-> Reply(f), by |-> f.to])
      BY <1>5 DEF HearEcho
    <3> QED BY <1>2, <2>1, <2>2, <3>1 DEF FrameTypes
  <2> QED BY <1>3, <2>3, <2>4
<1>6. CASE HearClaim(f)
  <2>1. /\ \A g \in captured' : g \in captured \/ \E r \in owed : g = r.frame
        /\ owed' \subseteq owed
    BY <1>6 DEF HearClaim
  <2>2. \A g \in captured' : Spoken(g)
    BY <1>2, <2>1 DEF FrameTypes, Spoken
  <2>3. \A r \in owed' : r.by \in MACs /\ r.frame.kind = "reply"
    BY <1>2, <2>1 DEF FrameTypes
  <2> QED BY <1>3, <2>2, <2>3
<1> QED BY <1>1, <1>4, <1>5, <1>6

LEMMA TypeOthers ==
  ASSUME TypeInv, OwnerAnswers \/ Overhear \/ Move
  PROVE  TypeInv'
<1>1. UNCHANGED engine /\ calm' = calm /\ sent' = sent /\ FrameTypes
  BY DEF OwnerAnswers, Overhear, Move, TypeInv
<1>2. events' \in 0 .. MaxEvents
  BY WidthAssumption DEF OwnerAnswers, Overhear, Move, TypeInv, CountTypes
<1>3. CASE OwnerAnswers
  <2>1. UNCHANGED <<holds, held>> /\ owed' \subseteq owed
    BY <1>3 DEF OwnerAnswers
  <2>2. ASSUME NEW g \in captured' PROVE Spoken(g)
    <3>1. \/ g \in captured
          \/ \E r \in owed : g = r.frame
          \/ \E ip : g = Here(Untagged, ip, Us, 0)
      BY <1>3 DEF OwnerAnswers
    <3> QED BY <1>1, <3>1 DEF FrameTypes, Spoken, Here
  <2>3. FrameTypes'
    BY <1>1, <2>1, <2>2 DEF FrameTypes, Spoken
  <2> QED BY <1>1, <1>2, <2>3, TypeOutside
<1>4. CASE Overhear
  <2>1. UNCHANGED <<holds, held, owed>>
    BY <1>4 DEF Overhear, stations
  <2>2. ASSUME NEW g \in captured' PROVE Spoken(g)
    <3>1. g \in captured \/ g \in Overheard
      BY <1>4 DEF Overhear
    <3>2. g \in Overheard =>
            \/ g.kind \in {"who", "reply"}
            \/ g.kind = "here" /\ (g.mac \in {NoMac, Us} \/ \E s \in holds : g.mac = s[3])
      BY DEF Overheard, Here, Who
    <3> QED BY <1>1, <3>1, <3>2 DEF FrameTypes, Spoken
  <2>3. FrameTypes'
    BY <1>1, <2>1, <2>2 DEF FrameTypes, Spoken
  <2> QED BY <1>1, <1>2, <2>3, TypeOutside
<1>5. CASE Move
  <2>1. UNCHANGED <<captured, owed>> /\ held' = held \cup holds'
    BY <1>5 DEF Move
  <2>2. ASSUME NEW s \in holds' PROVE s = <<s[1], s[2], s[3]>> /\ s[3] \in MACs
    <3>1. s \in holds \/ \E a, b : \E m \in MACs : s = <<a, b, m>>
      BY <1>5 DEF Move
    <3> QED BY <1>1, <3>1 DEF FrameTypes
  <2>3. FrameTypes'
    BY <1>1, <2>1, <2>2 DEF FrameTypes, Spoken
  <2> QED BY <1>1, <1>2, <2>3, TypeOutside
<1> QED BY <1>3, <1>4, <1>5

LEMMA TypeNext == ASSUME TypeInv, [Next]_vars PROVE TypeInv'
<1>1. ASSUME NEW kind, NEW s, NEW t, NEW v \in Vlans, Take(kind, s, t, v),
             \/ kind \in Echoes \cup {"arp"} /\ s \in Sources /\ t \in Targets
             \/ kind = "check" /\ s \in Candidates /\ t \in Candidates
      PROVE  TypeInv'
  <2>1. kind \in Echoes \cup {"arp", "check"} /\ s \in Addr /\ t \in Addr
    BY <1>1, AddressAssumption
  <2> QED BY <1>1, <2>1, TypeTake
<1>2. CASE Work
  BY <1>2, TypeWork, TypeRead DEF Work
<1>3. CASE UNCHANGED vars
  <2>1. FrameTypes' /\ UNCHANGED engine /\ events' \in 0 .. MaxEvents
    BY <1>3 DEF vars, stations, TypeInv, FrameTypes, Spoken, CountTypes
  <2> QED BY <2>1, TypeOutside
<1> QED BY <1>1, <1>2, <1>3, TypeHear, TypeOthers DEF Next

LEMMA TypeAlways == Spec => []TypeInv
<1>1. Init => TypeInv
  BY TypeInit
<1>2. TypeInv /\ [Next]_vars => TypeInv'
  BY TypeNext
<1> QED BY <1>1, <1>2, PTL DEF Spec

(* Every variable of the engine and its network has its type: identifiers  *)
(* have 16 bits, and what is believed and read of a station is a MAC       *)
(* (L2Context, engine_loop).                                               *)
THEOREM TypeCorrect == Spec => []TypeOK
  BY TypeAlways, TypeInvIs, PTL

-----------------------------------------------------------------------------
(* What is found on a calm network                                         *)

(* Stations stay what they were. *)
CalmWorld == calm => \A h \in held : h \in holds \/ h[2] \in Own

(* The jobs of which CalmFindsV4 speaks. *)
Calmly    == calm /\ Fits(job.vlan) /\ job.target \in V4
GoodPing  == job.kind \in Echoes /\ Calmly /\ CanPing
GoodArp   == job.kind = "arp" /\ Calmly /\ CanPing
GoodCheck == job.kind = "check" /\ Calmly /\ Has(job.vlan, job.target) # {}

(* A question is on its way, or an answer to it.  The answer to a ping may *)
(* wait for its sender to learn who has the source of the ping: then the   *)
(* question for that is on its way, or the engine's claim to have it.      *)
Asked(ip)   == Query(job.vlan, ip) \in sent
WillResolve == Asked(Hop) \/ \E f \in captured : ShowsHop(f)
WillReply(m) ==
  \/ Echo(m) \in sent /\ Reaches(Echo(m))
  \/ Reply(Echo(m)) \in captured
  \/ /\ [frame |-> Reply(Echo(m)), by |-> m] \in owed
     /\ Who(job.vlan, job.source, m) \in captured \/ Claim(job.source, m) \in sent
WillShow == Asked(job.target) \/ \E f \in captured : Shows(f, job.target)
WillSee(m) == m \in seen \/ \E f \in captured : ShowsClaimant(f) /\ f.mac = m

PingGoesOn ==
  /\ phase = "resolve" => WillResolve
  /\ phase = "send" => <<job.vlan, Hop, Cached>> \in holds
  /\ phase = "wait" => \E m \in MACs : WillReply(m)
  /\ phase = "idle" => outcome.result = "Success"
ArpGoesOn ==
  /\ phase = "wait" => WillShow
  /\ phase = "idle" => outcome.result = "Success"
CheckGoesOn ==
  /\ phase = "wait" => Asked(job.target) \/ \A m \in Has(job.vlan, job.target) : WillSee(m)
  /\ phase = "idle" => outcome.result = "Duplicate" /\ Has(job.vlan, job.target) \subseteq outcome.macs

GoesOn ==
  /\ GoodPing => PingGoesOn
  /\ GoodArp => ArpGoesOn
  /\ GoodCheck => CheckGoesOn

CalmInv == TypeInv /\ BelieveInv /\ CalmWorld /\ GoesOn

LEMMA CalmFinds == CalmInv => CalmFindsV4
<1> SUFFICES ASSUME CalmInv PROVE CalmFindsV4
  OBVIOUS
<1>1. JobTypes /\ GoesOn
  BY DEF CalmInv, TypeInv
<1>2. outcome # None => phase = "idle" /\ job # NoJob
  BY <1>1 DEF JobTypes
<1>3. CalmPing(V4)
  <2>1. SUFFICES ASSUME calm, outcome # None, job.kind # "check", job.target \in V4, Fits(job.vlan), CanPing
                 PROVE  outcome.result = "Success"
    BY DEF CalmPing
  <2>2. job.kind \in Echoes \/ job.kind = "arp"
    BY <1>1, <1>2, <2>1 DEF JobTypes
  <2> QED BY <1>1, <1>2, <2>1, <2>2 DEF GoesOn, GoodPing, GoodArp, Calmly, PingGoesOn, ArpGoesOn
<1>4. CalmCheck(V4)
  <2>1. SUFFICES ASSUME calm, outcome # None, job.kind = "check", job.target \in V4, Fits(job.vlan),
                        Has(OnWire(job.vlan), job.target) # {}
                 PROVE  /\ outcome.result = "Duplicate"
                        /\ Has(OnWire(job.vlan), job.target) \subseteq outcome.macs
    BY Zenon DEF CalmCheck
  <2>2. OnWire(job.vlan) = job.vlan
    BY <2>1 DEF Fits
  <2> QED BY <1>1, <1>2, <2>1, <2>2 DEF GoesOn, GoodCheck, Calmly, CheckGoesOn
<1> QED BY <1>3, <1>4 DEF CalmFindsV4

LEMMA CalmInit == ASSUME Init PROVE CalmInv
<1>1. TypeInv /\ BelieveInv
  BY TypeInit, BelieveInit
<1>2. CalmWorld
  BY DEF Init, CalmWorld
<1>3. job.kind = "none"
  BY DEF Init, NoJob
<1>4. GoesOn
  BY <1>3 DEF GoesOn, GoodPing, GoodArp, GoodCheck, Echoes
<1> QED BY <1>1, <1>2, <1>4 DEF CalmInv

-----------------------------------------------------------------------------
(* The way of a ping                                                       *)

(* The hop of a ping that can be sent is one that a station has, on no     *)
(* other VLAN.                                                             *)
LEMMA HopIs ==
  ASSUME GoodPing
  PROVE  /\ Hops = {Hop} /\ Hop \in V4 /\ Hop \notin Own /\ ~Shared(Hop)
         /\ Has(job.vlan, Hop) # {}
         /\ \/ job.target \in OnLink /\ Hop = job.target
            \/ job.target \notin OnLink /\ Hop \in Gateways /\ SameFamily(Hop, job.target)
<1>1. /\ job.kind \in Echoes /\ job.target \in V4 /\ CanPing /\ OnWire(job.vlan) = job.vlan
  BY DEF GoodPing, Calmly, Fits
<1>2. PICK ip \in Route(job.target) : Has(job.vlan, ip) # {} /\ ~Shared(ip) /\ ip \notin Own
  BY <1>1 DEF CanPing
<1>3. Hops = Route(job.target)
  BY DEF Hops, Route
<1>4. Hops = {ip}
  BY <1>2, <1>3, AddressAssumption DEF Hops, SameFamily
<1>5. Hop = ip
  BY <1>4 DEF Hop
<1>6. \/ job.target \in OnLink /\ ip = job.target
      \/ job.target \notin OnLink /\ ip \in Gateways /\ SameFamily(ip, job.target)
  BY <1>2 DEF Route
<1>7. ip \in V4
  BY <1>1, <1>6 DEF SameFamily
<1> QED BY <1>2, <1>4, <1>5, <1>6, <1>7

LEMMA NotRefused ==
  ASSUME Calmly, GoodPing \/ GoodArp \/ GoodCheck
  PROVE  ~Refused /\ ~NobodyToAsk
<1>1. job.target \in V4 /\ job.target \notin V6
  BY AddressAssumption DEF Calmly
<1>2. ~NobodyToAsk
  BY <1>1 DEF NobodyToAsk
<1>3. GoodPing => Hops # {}
  BY HopIs
<1>4. ~Refused
  BY <1>1, <1>3 DEF Refused, GoodPing, GoodArp, GoodCheck, CanPing, Echoes
<1> QED BY <1>2, <1>4

(* Whoever is believed to be the hop is. *)
LEMMA HopBelieved ==
  ASSUME TypeInv, BelieveInv, CalmWorld, GoodPing, NEW v, NEW m,
         <<v, Hop, m>> \in held
  PROVE  v = job.vlan /\ <<job.vlan, Hop, m>> \in holds
<1>1. calm /\ Hop \notin Own /\ ~Shared(Hop)
  BY HopIs DEF GoodPing, Calmly
<1>2. <<v, Hop, m>> \in holds
  <2>1. <<v, Hop, m>>[2] = Hop
    OBVIOUS
  <2> QED BY <1>1, <2>1 DEF CalmWorld
<1>3. PICK n \in MACs : <<job.vlan, Hop, n>> \in holds
  BY HopIs DEF Has
<1>4. holds \subseteq held
  BY DEF BelieveInv
<1>5. m \in MACs
  <2>1. \A s \in holds : s[3] \in MACs
    BY DEF TypeInv, FrameTypes
  <2> QED BY <1>2, <2>1
<1>6. v = job.vlan
  <2>1. <<v, Hop, m>>[1] = v /\ <<job.vlan, Hop, n>>[1] = job.vlan
    OBVIOUS
  <2>2. v \in {h[1] : h \in held} /\ job.vlan \in {h[1] : h \in held}
    BY <1>2, <1>3, <1>4, <2>1
  <2> QED BY <1>1, <1>2, <1>3, <1>4, <1>5, <2>2, Zenon DEF Shared
<1> QED BY <1>2, <1>6

(* The fields of the frames that a ping waits for. *)
LEMMA FramesAre ==
  ASSUME Calmly, NEW m
  PROVE  LET e == Echo(m) IN
         /\ e.kind = job.kind /\ e.vlan = job.vlan /\ e.to = m
         /\ e.src = job.source /\ e.dst = job.target /\ e.ident = job.ident
         /\ Reply(e).kind = "reply" /\ Reply(e).to = job.kind /\ Reply(e).vlan = job.vlan
         /\ Reply(e).src = job.target /\ Reply(e).dst = job.source /\ Reply(e).ident = job.ident
         /\ Who(job.vlan, job.source, m).kind = "who" /\ Who(job.vlan, job.source, m).vlan = job.vlan
         /\ Who(job.vlan, job.source, m).ip = job.source /\ Who(job.vlan, job.source, m).mac = m
         /\ Claim(job.source, m).kind = "claim" /\ Claim(job.source, m).vlan = job.vlan
         /\ Claim(job.source, m).ip = job.source /\ Claim(job.source, m).to = m
<1>1. OnWire(job.vlan) = job.vlan
  BY DEF Calmly, Fits
<1> QED BY <1>1 DEF Echo, Reply, Who, Claim

(* While a job lasts and no station moves, what it asks for stays. *)
LEMMA JobStays ==
  ASSUME UNCHANGED <<job, serial, holds, held, calm>>
  PROVE  /\ GoodPing' = GoodPing /\ GoodArp' = GoodArp /\ GoodCheck' = GoodCheck
         /\ Hop' = Hop /\ CalmWorld' = CalmWorld
         /\ \A v, ip : Query(v, ip)' = Query(v, ip)
         /\ \A m : Echo(m)' = Echo(m) /\ Claim(job.source, m)' = Claim(job.source, m)
         /\ \A f : Reaches(f)' = Reaches(f)
         /\ Has(job.vlan, job.target)' = Has(job.vlan, job.target)
<1>1. Hop' = Hop
  BY DEF Hop, Hops
<1>2. CanPing' = CanPing
  BY DEF CanPing, Has, Shared, Route
<1>3. Calmly' = Calmly /\ Has(job.vlan, job.target)' = Has(job.vlan, job.target)
  BY DEF Calmly, Fits, Has
<1>4. GoodPing' = GoodPing /\ GoodArp' = GoodArp /\ GoodCheck' = GoodCheck
  BY <1>2, <1>3 DEF GoodPing, GoodArp, GoodCheck
<1>5. CalmWorld' = CalmWorld
  BY DEF CalmWorld
<1>6. /\ \A v, ip : Query(v, ip)' = Query(v, ip)
      /\ \A m : Echo(m)' = Echo(m) /\ Claim(job.source, m)' = Claim(job.source, m)
      /\ \A f : Reaches(f)' = Reaches(f)
  BY DEF Query, Echo, Claim, Reaches
<1> QED BY <1>1, <1>3, <1>4, <1>5, <1>6

LEMMA FrameMatters ==
  ASSUME UNCHANGED job, Hop' = Hop
  PROVE  \A f : /\ ShowsHop(f)' = ShowsHop(f) /\ Shows(f, job.target)' = Shows(f, job.target)
                /\ ShowsClaimant(f)' = ShowsClaimant(f)
BY DEF ShowsHop, Shows, ShowsClaimant

(* The thread itself: what it does with a job that reads nothing. *)
LEMMA PingWork ==
  ASSUME CalmInv, GoodPing,
         Refuse \/ SendFails \/ UseCache \/ AskForHop \/ AskForTarget \/ SendEcho \/ Deadline
  PROVE  PingGoesOn'
<1>1. /\ TypeInv /\ BelieveInv /\ CalmWorld /\ PingGoesOn /\ JobTypes
      /\ calm /\ job.kind \in Echoes /\ Calmly
  BY DEF CalmInv, GoesOn, GoodPing, Calmly, TypeInv
<1>2. ~Refused /\ ~NobodyToAsk
  BY <1>1, NotRefused
<1>3. job.kind # "arp" /\ job.kind # "check"
  BY <1>1 DEF Echoes
<1>4. ~Refuse /\ ~SendFails /\ ~AskForTarget
  BY <1>1, <1>2, <1>3 DEF Refuse, SendFails, AskForTarget, AsksTarget
<1>5. CASE UseCache
  <2>1. /\ phase' = "send" /\ Cached # NoMac /\ UNCHANGED <<job, serial, cache, holds, held, calm>>
    BY <1>5 DEF UseCache, stations
  <2>2. Hop' = Hop /\ Hop \in Addr
    BY <2>1, JobStays, HopIs DEF Addr
  <2>3. PICK h \in held : h[2] = Hop /\ h[3] = Cached
    BY <1>1, <2>1, <2>2 DEF BelieveInv, OnlyHoldersBelieved, Cached
  <2>4. h \in holds
    BY <1>1, <2>3, HopIs DEF CalmWorld
  <2>5. h = <<h[1], h[2], h[3]>>
    BY <1>1, <2>4 DEF TypeInv, FrameTypes
  <2>6. <<h[1], Hop, Cached>> \in held
    BY <2>3, <2>5
  <2>7. <<job.vlan, Hop, Cached>> \in holds
    BY <1>1, <2>6, HopBelieved
  <2> QED BY <2>1, <2>2, <2>7 DEF PingGoesOn, Cached
<1>6. CASE AskForHop
  <2>1. /\ phase' = "resolve" /\ sent' = sent \cup {Query(job.vlan, Hop)}
        /\ UNCHANGED <<job, serial, cache, holds, held, calm>>
    BY <1>6 DEF AskForHop, stations
  <2>2. Hop' = Hop /\ Query(job.vlan, Hop)' = Query(job.vlan, Hop)
    BY <2>1, JobStays DEF Query
  <2> QED BY <2>1, <2>2 DEF PingGoesOn, WillResolve, Asked
<1>7. CASE SendEcho
  <2>1. /\ phase = "send" /\ phase' = "wait" /\ sent' = sent \cup {Echo(Cached)}
        /\ UNCHANGED <<job, serial, cache, holds, held, calm>>
    BY <1>7 DEF SendEcho, stations
  <2>2. PICK m : m = Cached
    OBVIOUS
  <2>3. <<job.vlan, Hop, m>> \in holds
    BY <1>1, <2>1, <2>2 DEF PingGoesOn
  <2>4. m \in MACs
    <3>1. \A s \in holds : s[3] \in MACs
      BY <1>1 DEF TypeInv, FrameTypes
    <3> QED BY <2>3, <3>1
  <2>5. Reaches(Echo(m))
    <3>1. Echo(m).vlan = job.vlan /\ Echo(m).dst = job.target /\ Echo(m).to = m
      BY <1>1, FramesAre
    <3> QED BY <2>3, <3>1, HopIs DEF Reaches
  <2>6. Echo(m)' = Echo(m) /\ Reaches(Echo(m))' = Reaches(Echo(m))
    BY <2>1 DEF Reaches, Echo
  <2>7. WillReply(m)'
    BY <2>1, <2>2, <2>5, <2>6 DEF WillReply
  <2> QED BY <2>1, <2>4, <2>7 DEF PingGoesOn
<1>8. CASE Deadline
  <2>1. phase \in {"resolve", "wait"} /\ sent = {} /\ captured = {}
    BY <1>1, <1>8 DEF Deadline
  <2>2. phase # "resolve"
    BY <1>1, <2>1 DEF PingGoesOn, WillResolve, Asked
  <2>3. phase # "wait"
    BY <1>1, <2>1 DEF PingGoesOn, WillReply
  <2> QED BY <2>1, <2>2, <2>3
<1> QED BY <1>4, <1>5, <1>6, <1>7, <1>8

(* What it reads. *)
LEMMA PingRead ==
  ASSUME CalmInv, GoodPing, NEW f \in captured,
         ReadHop(f) \/ ReadReply(f) \/ ReadRequest(f) \/ ReadNeighbour(f) \/ ReadClaimant(f) \/ ReadOther(f)
  PROVE  PingGoesOn'
<1>1. /\ TypeInv /\ BelieveInv /\ CalmWorld /\ PingGoesOn
      /\ calm /\ job.kind \in Echoes /\ Calmly
  BY DEF CalmInv, GoesOn, GoodPing, Calmly
<1>2. job.kind # "arp" /\ job.kind # "check"
  BY <1>1 DEF Echoes
<1>3. ~ReadNeighbour(f) /\ ~ReadClaimant(f)
  BY <1>2 DEF ReadNeighbour, ReadClaimant, Arping, Checking
<1>4. UNCHANGED <<job, serial, holds, held, calm>>
  BY DEF ReadHop, ReadReply, ReadRequest, ReadNeighbour, ReadClaimant, ReadOther, Finish, engine, stations
<1>5. Hop' = Hop
  BY <1>4, JobStays
<1>6. CASE ReadHop(f)
  <2>1. /\ phase' = "send" /\ cache' = [cache EXCEPT ![Hop] = f.mac]
        /\ f.kind = "here" /\ f.vlan = job.vlan /\ f.ip = Hop /\ f.mac # NoMac
    BY <1>6 DEF ReadHop, ShowsHop, Shows
  <2>2. <<job.vlan, Hop, f.mac>> \in held
    BY <1>1, <2>1 DEF BelieveInv, Truthful
  <2>3. <<job.vlan, Hop, f.mac>> \in holds
    BY <1>1, <2>2, HopBelieved
  <2>4. cache'[Hop] = f.mac
    <3>1. Hop \in Addr /\ DOMAIN cache = Addr
      BY <1>1, HopIs DEF BelieveInv, Addr
    <3> QED BY <2>1, <3>1
  <2> QED BY <1>4, <1>5, <2>1, <2>3, <2>4 DEF PingGoesOn, Cached
<1>7. CASE ReadReply(f)
  <2>1. phase' = "idle" /\ outcome'.result = "Success"
    BY <1>7 DEF ReadReply, Finish
  <2> QED BY <2>1 DEF PingGoesOn
<1>8. ASSUME phase' = phase, phase = "wait", sent \subseteq sent', owed' = owed, captured' = captured \ {f},
             ~Answers(f), AsksForSource(f) => Claim(f.ip, f.mac) \in sent'
      PROVE  PingGoesOn'
  <2>1. PICK m \in MACs : WillReply(m)
    BY <1>1, <1>8 DEF PingGoesOn
  <2>2. PICK e, r, w, c : /\ e = Echo(m) /\ r = Reply(e)
                          /\ w = Who(job.vlan, job.source, m) /\ c = Claim(job.source, m)
    OBVIOUS
  <2>3. e' = e /\ Echo(m)' = e /\ Reaches(e)' = Reaches(e) /\ Claim(job.source, m)' = c
        /\ Reply(Echo(m))' = r /\ Who(job.vlan, job.source, m)' = w
    BY <1>4, <2>2, JobStays DEF Reaches, Reply, Who
  <2>4. r # f
    <3>1. Answers(r)
      BY <1>1, <2>2, FramesAre DEF Answers
    <3> QED BY <1>8, <3>1
  <2>5. w = f => c \in sent'
    <3>1. w.kind = "who" /\ w.vlan = job.vlan /\ w.ip = job.source /\ w.mac = m /\ m # NoMac
      BY <1>1, <2>2, FramesAre, MacAssumption
    <3>2. w = f => AsksForSource(f)
      BY <3>1 DEF AsksForSource
    <3> QED BY <1>8, <2>2, <3>1, <3>2
  <2>6. WillReply(m)'
    BY <1>8, <2>1, <2>2, <2>3, <2>4, <2>5 DEF WillReply
  <2> QED BY <1>8, <2>6 DEF PingGoesOn
<1>9. CASE ReadRequest(f)
  <2>1. /\ phase = "wait" /\ phase' = phase /\ owed' = owed /\ captured' = captured \ {f}
        /\ sent' = sent \cup {Claim(f.ip, f.mac)} /\ AsksForSource(f)
    BY <1>9 DEF ReadRequest, Pinging, Reads, engine, stations
  <2>2. ~Answers(f)
    BY <2>1 DEF AsksForSource, Answers
  <2> QED BY <1>8, <2>1, <2>2
<1>10. CASE ReadOther(f)
  <2>1. /\ phase \in {"resolve", "wait"} /\ phase' = phase /\ owed' = owed /\ sent' = sent
        /\ captured' = captured \ {f}
        /\ ~(Resolving /\ ShowsHop(f)) /\ ~(Pinging /\ (Answers(f) \/ AsksForSource(f)))
    BY <1>10 DEF ReadOther, Reads, engine, stations
  <2>2. CASE phase = "wait"
    <3>1. ~Answers(f) /\ ~AsksForSource(f)
      BY <1>1, <2>1, <2>2 DEF Pinging
    <3> QED BY <1>8, <2>1, <2>2, <3>1
  <2>3. CASE phase = "resolve"
    <3>1. ~ShowsHop(f) /\ WillResolve
      BY <1>1, <2>1, <2>3 DEF Resolving, PingGoesOn
    <3>2. Asked(Hop)' = Asked(Hop)
      BY <1>4, <1>5, <2>1, JobStays DEF Asked, Query
    <3>3. \A g : ShowsHop(g)' = ShowsHop(g)
      BY <1>4, <1>5, FrameMatters
    <3>4. WillResolve'
      <4>1. CASE Asked(Hop)
        BY <3>2, <4>1 DEF WillResolve
      <4>2. CASE \E g \in captured : ShowsHop(g)
        BY <2>1, <3>1, <3>3, <4>2 DEF WillResolve
      <4> QED BY <3>1, <4>1, <4>2 DEF WillResolve
    <3> QED BY <2>1, <2>3, <3>4 DEF PingGoesOn
  <2> QED BY <2>1, <2>2, <2>3
<1> QED BY <1>3, <1>6, <1>7, <1>9, <1>10

(* What the network does with a ping that is on its way. *)
LEMMA PingOutside ==
  ASSUME CalmInv, GoodPing, Hear \/ OwnerAnswers \/ Overhear
  PROVE  PingGoesOn'
<1>1. /\ TypeInv /\ PingGoesOn /\ JobTypes /\ calm /\ job.kind \in Echoes /\ Calmly
  BY DEF CalmInv, GoesOn, GoodPing, Calmly, TypeInv
<1>2. UNCHANGED <<phase, job, serial, cache, seen, outcome, holds, held, calm>>
  BY DEF Hear, OwnerAnswers, Overhear, engine, stations
<1>3. captured \subseteq captured'
  BY DEF Hear, HearQuery, HearEcho, HearClaim, OwnerAnswers, Overhear
<1>4. Hop' = Hop /\ Query(job.vlan, Hop)' = Query(job.vlan, Hop)
  BY <1>2, JobStays DEF Query
<1>5. CASE phase = "resolve"
  <2>1. \A g : ShowsHop(g)' = ShowsHop(g)
    BY <1>2, <1>4, FrameMatters
  <2>2. CASE \E g \in captured : ShowsHop(g)
    BY <1>2, <1>3, <1>5, <2>1, <2>2 DEF PingGoesOn, WillResolve
  <2>3. CASE Query(job.vlan, Hop) \in sent'
    BY <1>2, <1>4, <1>5, <2>3 DEF PingGoesOn, WillResolve, Asked
  <2>4. CASE Asked(Hop) /\ Query(job.vlan, Hop) \notin sent'
    <3>1. PICK q : q = Query(job.vlan, Hop)
      OBVIOUS
    <3>2. q \in sent /\ q \notin sent'
      BY <2>4, <3>1 DEF Asked
    <3>3. HearQuery(q) \/ HearEcho(q) \/ HearClaim(q)
      BY <3>2 DEF Hear, OwnerAnswers, Overhear
    <3>4. q.kind = "query" /\ q.vlan = job.vlan /\ q.ip = Hop /\ q.valid
      BY <1>1, <3>1, HopIs DEF Query, Calmly, Fits
    <3>5. HearQuery(q)
      BY <3>3, <3>4 DEF HearEcho, HearClaim, Echoes
    <3>6. PICK m \in MACs : <<job.vlan, Hop, m>> \in holds
      BY HopIs DEF Has
    <3>7. Here(q.vlan, q.ip, m, q.serial) \in captured'
      BY <3>4, <3>5, <3>6 DEF HearQuery
    <3>8. ShowsHop(Here(q.vlan, q.ip, m, q.serial))
      BY <3>4, <3>6, MacAssumption DEF ShowsHop, Shows, Here
    <3> QED BY <1>2, <1>5, <2>1, <3>7, <3>8 DEF PingGoesOn, WillResolve
  <2> QED BY <1>1, <1>5, <2>2, <2>3, <2>4 DEF PingGoesOn, WillResolve
<1>6. CASE phase = "wait"
  <2>1. PICK m \in MACs : WillReply(m)
    BY <1>1, <1>6 DEF PingGoesOn
  <2>2. PICK e, r, w, c, o : /\ e = Echo(m) /\ r = Reply(e)
                             /\ w = Who(job.vlan, job.source, m) /\ c = Claim(job.source, m)
                             /\ o = [frame |-> r, by |-> m]
    OBVIOUS
  <2>3. /\ Echo(m)' = e /\ Reaches(e)' = Reaches(e) /\ Claim(job.source, m)' = c
        /\ Reply(Echo(m))' = r /\ Who(job.vlan, job.source, m)' = w
    BY <1>2, <2>2, JobStays DEF Reaches, Reply, Who
  <2>4. /\ e.kind \in Echoes /\ e.vlan = job.vlan /\ e.to = m /\ e.src = job.source
        /\ r.vlan = job.vlan /\ r.dst = job.source
        /\ c.kind = "claim" /\ c.vlan = job.vlan /\ c.ip = job.source /\ c.to = m
        /\ o.frame = r /\ o.by = m
    <3>1. o.frame = r /\ o.by = m
      BY <2>2
    <3> QED BY <1>1, <2>2, <3>1, FramesAre
  <2>5. Who(e.vlan, e.src, e.to) = w /\ [frame |-> Reply(e), by |-> e.to] = o
    BY <2>2, <2>4
  <2>6. WillReply(m) <=> \/ e \in sent /\ Reaches(e)
                         \/ r \in captured
                         \/ o \in owed /\ (w \in captured \/ c \in sent)
    BY <2>2 DEF WillReply
  <2>7. WillReply(m)' <=> \/ e \in sent' /\ Reaches(e)
                          \/ r \in captured'
                          \/ o \in owed' /\ (w \in captured' \/ c \in sent')
    BY <2>2, <2>3 DEF WillReply
  <2>8. CASE Hear
    <3>1. PICK f \in sent : (HearQuery(f) \/ HearEcho(f) \/ HearClaim(f)) /\ sent' = sent \ {f}
      BY <2>8 DEF Hear
    <3>2. CASE HearQuery(f)
      <4>1. owed' = owed /\ f.kind = "query"
        BY <3>2 DEF HearQuery
      <4>2. f # e /\ f # c
        BY <2>4, <4>1 DEF Echoes
      <4> QED BY <1>2, <1>3, <1>6, <2>1, <2>6, <2>7, <3>1, <4>1, <4>2 DEF PingGoesOn
    <3>3. CASE HearEcho(f)
      <4>1. owed \subseteq owed' /\ f # c
        BY <2>4, <3>3 DEF HearEcho, Echoes
      <4>2. f = e /\ Reaches(e) => r \in captured' \/ (o \in owed' /\ w \in captured')
        BY <2>2, <2>5, <3>3 DEF HearEcho
      <4> QED BY <1>2, <1>3, <1>6, <2>1, <2>6, <2>7, <3>1, <4>1, <4>2 DEF PingGoesOn
    <3>4. CASE HearClaim(f)
      <4>1. f.kind = "claim" /\ f # e
        BY <2>4, <3>4 DEF HearClaim, Echoes
      <4>2. \A x \in owed : x \in owed' \/ x.frame \in captured'
        BY <3>4 DEF HearClaim
      <4>3. f = c /\ o \in owed => o.frame \in captured'
        BY <2>4, <3>4 DEF HearClaim
      <4> QED BY <1>2, <1>3, <1>6, <2>1, <2>4, <2>6, <2>7, <3>1, <4>1, <4>2, <4>3 DEF PingGoesOn
    <3> QED BY <3>1, <3>2, <3>3, <3>4
  <2>9. CASE OwnerAnswers
    <3>1. PICK x \in owed :
            /\ sent' = sent /\ owed' = owed \ {x}
            /\ \/ x.frame \in captured'
               \/ \E n \in MACs : <<x.frame.vlan, x.frame.dst, n>> \in holds
      BY <2>9 DEF OwnerAnswers
    <3>2. ~\E n \in MACs : <<job.vlan, job.source, n>> \in holds
      <4>1. job.vlan \in Vlans
        BY <1>1 DEF JobTypes, NoJob, Echoes
      <4> QED BY <4>1 DEF GoodPing, CanPing, Has
    <3>3. o = x => r \in captured'
      BY <2>4, <3>1, <3>2
    <3> QED BY <1>2, <1>3, <1>6, <2>1, <2>6, <2>7, <3>1, <3>3 DEF PingGoesOn
  <2>10. CASE Overhear
    <3>1. sent' = sent /\ owed' = owed
      BY <2>10 DEF Overhear, stations
    <3> QED BY <1>2, <1>3, <1>6, <2>1, <2>6, <2>7, <3>1 DEF PingGoesOn
  <2> QED BY <2>8, <2>9, <2>10
<1>7. CASE phase \notin {"resolve", "wait"}
  BY <1>1, <1>2, <1>4, <1>7 DEF PingGoesOn, Cached
<1> QED BY <1>5, <1>6, <1>7

-----------------------------------------------------------------------------
(* The way of an ARP ping and of a duplicate check                         *)

(* A question that is on its way stays, or is answered by whoever has the  *)
(* address, and what is captured stays.                                    *)
LEMMA QuestionOutside ==
  ASSUME TypeInv, Calmly, Hear \/ OwnerAnswers \/ Overhear, Asked(job.target)
  PROVE  \/ Asked(job.target)'
         \/ \A m \in Has(job.vlan, job.target) :
              Here(job.vlan, job.target, m, serial) \in captured'
<1>1. UNCHANGED <<job, serial, holds, held, calm>>
  BY DEF Hear, OwnerAnswers, Overhear, engine, stations
<1>2. PICK q : q = Query(job.vlan, job.target)
  OBVIOUS
<1>3. q \in sent /\ Query(job.vlan, job.target)' = q
  BY <1>1, <1>2 DEF Asked, Query
<1>4. q.kind = "query" /\ q.vlan = job.vlan /\ q.ip = job.target /\ q.valid /\ q.serial = serial
  BY <1>2 DEF Query, Calmly, Fits
<1>5. CASE q \in sent'
  BY <1>3, <1>5 DEF Asked
<1>6. CASE q \notin sent'
  <2>1. HearQuery(q) \/ HearEcho(q) \/ HearClaim(q)
    BY <1>3, <1>6 DEF Hear, OwnerAnswers, Overhear
  <2>2. HearQuery(q)
    BY <1>4, <2>1 DEF HearEcho, HearClaim, Echoes
  <2>3. \A m \in MACs : <<job.vlan, job.target, m>> \in holds
                        => Here(job.vlan, job.target, m, serial) \in captured'
    BY <1>4, <2>2 DEF HearQuery
  <2> QED BY <2>3 DEF Has
<1> QED BY <1>5, <1>6

LEMMA HereShows ==
  ASSUME NEW m \in MACs, NEW n
  PROVE  LET h == Here(job.vlan, job.target, m, n) IN
         Shows(h, job.target) /\ ShowsClaimant(h) /\ h.mac = m
BY MacAssumption DEF Shows, ShowsClaimant, Here

LEMMA ArpWork ==
  ASSUME CalmInv, GoodArp,
         \/ Refuse \/ SendFails \/ UseCache \/ AskForHop \/ AskForTarget \/ SendEcho \/ Deadline
         \/ \E f \in captured : ReadHop(f) \/ ReadReply(f) \/ ReadRequest(f) \/ ReadNeighbour(f)
                                \/ ReadClaimant(f) \/ ReadOther(f)
  PROVE  ArpGoesOn'
<1>1. /\ ArpGoesOn /\ JobTypes /\ calm /\ job.kind = "arp" /\ job.kind \notin Echoes /\ Calmly
  BY DEF CalmInv, GoesOn, GoodArp, Calmly, TypeInv, Echoes
<1>2. ~Refused /\ ~NobodyToAsk /\ phase \notin {"resolve", "send"}
  BY <1>1, NotRefused DEF JobTypes
<1>3. /\ ~Refuse /\ ~SendFails /\ ~UseCache /\ ~AskForHop /\ ~SendEcho
      /\ \A f : ~ReadHop(f) /\ ~ReadReply(f) /\ ~ReadRequest(f) /\ ~ReadClaimant(f)
  BY <1>1, <1>2 DEF Refuse, SendFails, UseCache, AskForHop, AsksHop, SendEcho,
       ReadHop, ReadReply, ReadRequest, ReadClaimant, Resolving, Pinging, Checking
<1>4. CASE AskForTarget
  <2>1. /\ phase' = "wait" /\ sent' = sent \cup {Query(job.vlan, job.target)}
        /\ Query(job.vlan, job.target)' = Query(job.vlan, job.target)
    BY <1>4 DEF AskForTarget, Query
  <2> QED BY <1>4, <2>1 DEF ArpGoesOn, WillShow, Asked, AskForTarget
<1>5. CASE Deadline
  <2>1. phase \in {"resolve", "wait"} /\ sent = {} /\ captured = {}
    BY <1>1, <1>5 DEF Deadline
  <2> QED BY <1>1, <1>2, <2>1 DEF ArpGoesOn, WillShow, Asked
<1>6. ASSUME NEW f \in captured, ReadNeighbour(f) PROVE ArpGoesOn'
  <2>1. phase' = "idle" /\ outcome'.result = "Success"
    BY <1>6 DEF ReadNeighbour, Finish
  <2> QED BY <2>1 DEF ArpGoesOn
<1>7. ASSUME NEW f \in captured, ReadOther(f) PROVE ArpGoesOn'
  <2>1. /\ phase = "wait" /\ phase' = phase /\ sent' = sent /\ captured' = captured \ {f}
        /\ ~Shows(f, job.target) /\ UNCHANGED <<job, serial>>
    BY <1>1, <1>2, <1>7 DEF ReadOther, Arping, Reads, engine
  <2>2. \A g : Shows(g, job.target)' = Shows(g, job.target)
    BY <2>1 DEF Shows
  <2>3. Asked(job.target)' = Asked(job.target)
    BY <2>1 DEF Asked, Query
  <2> QED BY <1>1, <2>1, <2>2, <2>3 DEF ArpGoesOn, WillShow
<1> QED BY <1>3, <1>4, <1>5, <1>6, <1>7

LEMMA ArpOutside ==
  ASSUME CalmInv, GoodArp, Hear \/ OwnerAnswers \/ Overhear
  PROVE  ArpGoesOn'
<1>1. /\ TypeInv /\ ArpGoesOn /\ Calmly
  BY DEF CalmInv, GoesOn, GoodArp
<1>2. UNCHANGED <<phase, job, serial, outcome, holds, held, calm>>
  BY DEF Hear, OwnerAnswers, Overhear, engine, stations
<1>3. captured \subseteq captured'
  BY DEF Hear, HearQuery, HearEcho, HearClaim, OwnerAnswers, Overhear
<1>4. \A g : Shows(g, job.target)' = Shows(g, job.target)
  BY <1>2 DEF Shows
<1>5. CASE phase = "wait"
  <2>1. CASE \E f \in captured : Shows(f, job.target)
    BY <1>2, <1>3, <1>4, <1>5, <2>1 DEF ArpGoesOn, WillShow
  <2>2. CASE Asked(job.target)
    <3>1. PICK m \in MACs : m \in Has(job.vlan, job.target)
      BY <1>1 DEF GoodArp, CanPing, Has, Calmly, Fits
    <3>2. \/ Asked(job.target)'
          \/ Here(job.vlan, job.target, m, serial) \in captured'
      BY <1>1, <2>2, <3>1, QuestionOutside
    <3>3. Shows(Here(job.vlan, job.target, m, serial), job.target)
      BY HereShows
    <3> QED BY <1>2, <1>4, <1>5, <3>2, <3>3 DEF ArpGoesOn, WillShow
  <2> QED BY <1>1, <1>5, <2>1, <2>2 DEF ArpGoesOn, WillShow
<1>6. CASE phase # "wait"
  BY <1>1, <1>2, <1>6 DEF ArpGoesOn
<1> QED BY <1>5, <1>6

LEMMA CheckWork ==
  ASSUME CalmInv, GoodCheck,
         \/ Refuse \/ SendFails \/ UseCache \/ AskForHop \/ AskForTarget \/ SendEcho \/ Deadline
         \/ \E f \in captured : ReadHop(f) \/ ReadReply(f) \/ ReadRequest(f) \/ ReadNeighbour(f)
                                \/ ReadClaimant(f) \/ ReadOther(f)
  PROVE  CheckGoesOn'
<1>1. /\ CheckGoesOn /\ JobTypes /\ calm /\ job.kind = "check" /\ job.kind \notin Echoes /\ Calmly
      /\ Has(job.vlan, job.target) # {}
  BY DEF CalmInv, GoesOn, GoodCheck, Calmly, TypeInv, Echoes
<1>2. ~Refused /\ ~NobodyToAsk /\ phase \notin {"resolve", "send"}
  BY <1>1, NotRefused DEF JobTypes
<1>3. /\ ~Refuse /\ ~SendFails /\ ~UseCache /\ ~AskForHop /\ ~SendEcho
      /\ \A f : ~ReadHop(f) /\ ~ReadReply(f) /\ ~ReadRequest(f) /\ ~ReadNeighbour(f)
  BY <1>1, <1>2 DEF Refuse, SendFails, UseCache, AskForHop, AsksHop, SendEcho,
       ReadHop, ReadReply, ReadRequest, ReadNeighbour, Resolving, Pinging, Arping
<1>4. CASE AskForTarget
  <2>1. /\ phase' = "wait" /\ sent' = sent \cup {Query(job.vlan, job.target)}
        /\ Query(job.vlan, job.target)' = Query(job.vlan, job.target)
    BY <1>4 DEF AskForTarget, Query
  <2> QED BY <1>4, <2>1 DEF CheckGoesOn, Asked, AskForTarget
<1>5. CASE Deadline
  <2>1. /\ phase \in {"resolve", "wait"} /\ sent = {} /\ captured = {}
        /\ phase' = "idle" /\ outcome' = Verdict /\ UNCHANGED <<job, holds>>
    BY <1>1, <1>5 DEF Deadline, Finish, stations
  <2>2. Checking /\ ~Resolving
    BY <1>1, <1>2, <2>1 DEF Checking, Resolving
  <2>3. Has(job.vlan, job.target) \subseteq seen
    BY <1>1, <2>1, <2>2 DEF CheckGoesOn, Asked, WillSee, Checking
  <2>4. outcome'.result = "Duplicate" /\ outcome'.macs = seen
    BY <1>1, <2>1, <2>2, <2>3 DEF Verdict
  <2>5. Has(job.vlan, job.target)' = Has(job.vlan, job.target)
    BY <2>1 DEF Has
  <2> QED BY <2>1, <2>3, <2>4, <2>5 DEF CheckGoesOn
<1>6. ASSUME NEW f \in captured, ReadClaimant(f) \/ ReadOther(f) PROVE CheckGoesOn'
  <2>1. /\ phase = "wait" /\ phase' = phase /\ sent' = sent /\ captured' = captured \ {f}
        /\ UNCHANGED <<job, serial, holds>> /\ seen \subseteq seen'
        /\ ShowsClaimant(f) => f.mac \in seen'
    BY <1>1, <1>2, <1>6 DEF ReadClaimant, ReadOther, Collect, Checking, Reads, engine, stations
  <2>2. \A g : ShowsClaimant(g)' = ShowsClaimant(g)
    BY <2>1 DEF ShowsClaimant, Shows
  <2>3. Asked(job.target)' = Asked(job.target) /\ Has(job.vlan, job.target)' = Has(job.vlan, job.target)
    BY <2>1 DEF Asked, Query, Has
  <2>4. \A m : WillSee(m) => WillSee(m)'
    BY <2>1, <2>2 DEF WillSee
  <2> QED BY <1>1, <2>1, <2>3, <2>4 DEF CheckGoesOn
<1> QED BY <1>3, <1>4, <1>5, <1>6

LEMMA CheckOutside ==
  ASSUME CalmInv, GoodCheck, Hear \/ OwnerAnswers \/ Overhear
  PROVE  CheckGoesOn'
<1>1. /\ TypeInv /\ CheckGoesOn /\ Calmly
  BY DEF CalmInv, GoesOn, GoodCheck
<1>2. UNCHANGED <<phase, job, serial, seen, outcome, holds, held, calm>>
  BY DEF Hear, OwnerAnswers, Overhear, engine, stations
<1>3. captured \subseteq captured'
  BY DEF Hear, HearQuery, HearEcho, HearClaim, OwnerAnswers, Overhear
<1>4. /\ \A g : ShowsClaimant(g)' = ShowsClaimant(g)
      /\ Has(job.vlan, job.target)' = Has(job.vlan, job.target)
  BY <1>2 DEF ShowsClaimant, Shows, Has
<1>5. \A m : WillSee(m) => WillSee(m)'
  BY <1>2, <1>3, <1>4 DEF WillSee
<1>6. CASE phase = "wait"
  <2>1. CASE Asked(job.target)
    <3>1. \/ Asked(job.target)'
          \/ \A m \in Has(job.vlan, job.target) :
               Here(job.vlan, job.target, m, serial) \in captured'
      BY <1>1, <2>1, QuestionOutside
    <3>2. ASSUME NEW m \in Has(job.vlan, job.target), Here(job.vlan, job.target, m, serial) \in captured'
          PROVE  WillSee(m)'
      <4>1. PICK h : h = Here(job.vlan, job.target, m, serial)
        OBVIOUS
      <4>2. ShowsClaimant(h) /\ h.mac = m
        BY <4>1, HereShows DEF Has
      <4>3. h \in captured' /\ ShowsClaimant(h)'
        BY <1>4, <3>2, <4>1, <4>2
      <4> QED BY <4>2, <4>3 DEF WillSee
    <3> QED BY <1>2, <1>4, <1>6, <3>1, <3>2 DEF CheckGoesOn
  <2>2. CASE \A m \in Has(job.vlan, job.target) : WillSee(m)
    BY <1>2, <1>4, <1>5, <1>6, <2>2 DEF CheckGoesOn
  <2> QED BY <1>1, <1>6, <2>1, <2>2 DEF CheckGoesOn
<1>7. CASE phase # "wait"
  BY <1>1, <1>2, <1>4, <1>7 DEF CheckGoesOn
<1> QED BY <1>6, <1>7

-----------------------------------------------------------------------------
LEMMA CalmWorldNext == ASSUME BelieveInv, CalmWorld, [Next]_vars PROVE CalmWorld'
<1>1. CASE Move
  BY <1>1 DEF Move, CalmWorld
<1>2. CASE UNCHANGED <<holds, held, calm>>
  BY <1>2 DEF CalmWorld
<1>3. Move \/ UNCHANGED <<holds, held, calm>>
  <2>1. ASSUME NEW kind, NEW s, NEW t, NEW v, Take(kind, s, t, v) PROVE UNCHANGED <<holds, held, calm>>
    BY <2>1 DEF Take, stations
  <2>2. CASE Work
    BY <2>2 DEF Work, Refuse, SendFails, UseCache, AskForHop, AskForTarget, SendEcho, Deadline,
       ReadHop, ReadReply, ReadRequest, ReadNeighbour, ReadClaimant, ReadOther, Finish, stations
  <2>3. CASE Hear \/ OwnerAnswers \/ Overhear
    BY <2>3 DEF Hear, OwnerAnswers, Overhear, stations
  <2>4. CASE UNCHANGED vars
    BY <2>4, EngineStutter DEF vars
  <2> QED BY <2>1, <2>2, <2>3, <2>4 DEF Next
<1> QED BY <1>1, <1>2, <1>3

LEMMA GoesOnNext == ASSUME CalmInv, [Next]_vars PROVE GoesOn'
<1>1. ASSUME NEW kind, NEW s, NEW t, NEW v, Take(kind, s, t, v) PROVE GoesOn'
  <2>1. phase' = "start"
    BY <1>1 DEF Take
  <2> QED BY <2>1 DEF GoesOn, PingGoesOn, ArpGoesOn, CheckGoesOn
<1>2. CASE Work
  <2>1. UNCHANGED <<job, serial, holds, held, calm>>
    BY <1>2 DEF Work, Refuse, SendFails, UseCache, AskForHop, AskForTarget, SendEcho, Deadline,
       ReadHop, ReadReply, ReadRequest, ReadNeighbour, ReadClaimant, ReadOther, Finish, engine, stations
  <2>2. GoodPing' = GoodPing /\ GoodArp' = GoodArp /\ GoodCheck' = GoodCheck
    BY <2>1, JobStays
  <2>3. GoodPing => PingGoesOn'
    BY <1>2, PingWork, PingRead DEF Work
  <2>4. GoodArp => ArpGoesOn'
    BY <1>2, ArpWork DEF Work
  <2>5. GoodCheck => CheckGoesOn'
    BY <1>2, CheckWork DEF Work
  <2> QED BY <2>2, <2>3, <2>4, <2>5 DEF GoesOn
<1>3. CASE Hear \/ OwnerAnswers \/ Overhear
  <2>1. UNCHANGED <<job, serial, holds, held, calm>>
    BY <1>3 DEF Hear, OwnerAnswers, Overhear, engine, stations
  <2>2. GoodPing' = GoodPing /\ GoodArp' = GoodArp /\ GoodCheck' = GoodCheck
    BY <2>1, JobStays
  <2> QED BY <1>3, <2>2, PingOutside, ArpOutside, CheckOutside DEF GoesOn
<1>4. CASE Move
  <2>1. ~calm'
    BY <1>4 DEF Move
  <2> QED BY <2>1 DEF GoesOn, GoodPing, GoodArp, GoodCheck, Calmly
<1>5. CASE UNCHANGED vars
  <2>1. UNCHANGED <<phase, job, serial, cache, seen, outcome, sent, captured, owed, holds, held, calm>>
    BY <1>5, EngineStutter DEF vars
  <2>2. /\ GoodPing' = GoodPing /\ GoodArp' = GoodArp /\ GoodCheck' = GoodCheck /\ Hop' = Hop
    BY <2>1, JobStays
  <2>3. PingGoesOn' = PingGoesOn
    BY <2>1, <2>2 DEF PingGoesOn, WillResolve, WillReply, Asked, Query, ShowsHop, Shows, Cached,
       Echo, Reply, Who, Claim, Reaches
  <2>4. ArpGoesOn' = ArpGoesOn /\ CheckGoesOn' = CheckGoesOn
    BY <2>1 DEF ArpGoesOn, CheckGoesOn, WillShow, WillSee, Asked, Query, ShowsClaimant, Shows, Has
  <2> QED BY <2>2, <2>3, <2>4 DEF GoesOn, CalmInv
<1> QED BY <1>1, <1>2, <1>3, <1>4, <1>5 DEF Next

(* On a calm IPv4 network an engine finds what there is to find, however   *)
(* many jobs went before and whatever else is captured: a ping from an     *)
(* address that nobody has is answered, and a check reports every station  *)
(* that has the address (do_ping_v4, do_timestamp_ping, do_arp_ping_v4,    *)
(* do_duplicate_check_v4).                                                 *)
THEOREM CalmFound == Spec => []CalmFindsV4
<1>1. Init => CalmInv
  BY CalmInit
<1>2. CalmInv /\ OnlyRepliesOwed /\ [Next]_vars => CalmInv'
  <2> SUFFICES ASSUME CalmInv, OnlyRepliesOwed, [Next]_vars PROVE CalmInv'
    OBVIOUS
  <2>1. TypeInv /\ BelieveInv /\ CalmWorld
    BY DEF CalmInv
  <2> QED BY <2>1, TypeNext, BelieveNext, CalmWorldNext, GoesOnNext DEF CalmInv
<1> QED BY <1>1, <1>2, RepliesOwed, CalmFinds, PTL DEF Spec
=============================================================================
