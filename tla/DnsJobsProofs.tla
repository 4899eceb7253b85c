--------------------------- MODULE DnsJobsProofs ---------------------------
(***************************************************************************)
(* Proofs about DnsJobs, for any names, files and fields, any capacity of  *)
(* the worker's channel and any number of requests.                        *)
(***************************************************************************)
EXTENDS DnsJobs, SequenceTheorems, TLAPS

Kinds    == {"resolve", "query", "trace"}
Statuses == {"empty", "ok", "err", "closed"}
Asked    == [kind : Kinds, name : Names \union {NoText}, method : Methods \union {NoText}]
PingSet  == [id : Requests \union {NoId}, list : 0 .. opened, name : Names \union Literals, method : Methods]

(***************************************************************************)
(* The types, of what the worker keeps and of what the window keeps.       *)
(***************************************************************************)
WorkTypes ==
  /\ asked \in Seq(Asked)
  /\ reply \in Seq(Statuses) /\ Len(reply) = Len(asked)
  /\ chan \in Seq(Requests) /\ Len(chan) <= Capacity
  /\ serving \in Requests \union {NoId}
  /\ tasks \subseteq Requests
  /\ worker \in BOOLEAN

(* Who waits for whom: a request is in one place of the worker, once, or   *)
(* has its reply.                                                          *)
WorkInv ==
  /\ \A id \in Requests :
       reply[id] = "empty" <=> (id = serving \/ id \in tasks \/ id \in Elements(chan))
  /\ \A i, j \in DOMAIN chan : chan[i] = chan[j] => i = j
  /\ serving \notin tasks /\ serving \notin Elements(chan)
  /\ Elements(chan) \intersect tasks = {}

(* What a step does to the requests: it adds to them and answers some.     *)
Grows ==
  /\ \A id \in Requests :
       /\ id \in Requests' /\ asked'[id] = asked[id]
       /\ reply[id] = "ok" => reply'[id] = "ok"
  /\ \A id \in Requests' \ Requests, old \in Requests : id > old

-----------------------------------------------------------------------------

(* What is in a sequence. *)
LEMMA ElementsType == \A S : \A s \in Seq(S) : Elements(s) \subseteq S
  BY DEF Elements

LEMMA ElementsAppend ==
  \A S : \A s \in Seq(S) : \A e \in S : Elements(Append(s, e)) = Elements(s) \union {e}
<1>1. SUFFICES ASSUME NEW S, NEW s \in Seq(S), NEW e \in S
               PROVE  Elements(Append(s, e)) = Elements(s) \union {e}
  OBVIOUS
<1>2. /\ DOMAIN Append(s, e) = 1 .. (Len(s) + 1) /\ DOMAIN s = 1 .. Len(s)
      /\ Append(s, e)[Len(s) + 1] = e
      /\ \A i \in 1 .. Len(s) : Append(s, e)[i] = s[i]
      /\ Len(s) \in Nat
  OBVIOUS
<1>3. \A x \in Elements(Append(s, e)) : x \in Elements(s) \union {e}
  BY <1>2 DEF Elements
<1>4. \A x \in Elements(s) : x \in Elements(Append(s, e))
  BY <1>2 DEF Elements
<1>5. e \in Elements(Append(s, e))
  <2>1. Len(s) + 1 \in DOMAIN Append(s, e)
    BY <1>2
  <2> QED BY <2>1, <1>2 DEF Elements
<1> QED BY <1>3, <1>4, <1>5

LEMMA ElementsTail ==
  \A S : \A s \in Seq(S) : s # <<>> =>
    /\ Elements(s) = Elements(Tail(s)) \union {Head(s)}
    /\ (\A i, j \in DOMAIN s : s[i] = s[j] => i = j) =>
         /\ Head(s) \notin Elements(Tail(s))
         /\ \A i, j \in DOMAIN Tail(s) : Tail(s)[i] = Tail(s)[j] => i = j
<1>1. SUFFICES ASSUME NEW S, NEW s \in Seq(S), s # <<>>
               PROVE  /\ Elements(s) = Elements(Tail(s)) \union {Head(s)}
                      /\ (\A i, j \in DOMAIN s : s[i] = s[j] => i = j) =>
                           /\ Head(s) \notin Elements(Tail(s))
                           /\ \A i, j \in DOMAIN Tail(s) : Tail(s)[i] = Tail(s)[j] => i = j
  OBVIOUS
<1>2. /\ DOMAIN Tail(s) = 1 .. (Len(s) - 1) /\ DOMAIN s = 1 .. Len(s)
      /\ \A i \in 1 .. (Len(s) - 1) : Tail(s)[i] = s[i + 1]
      /\ Len(s) \in Nat \ {0} /\ Head(s) = s[1]
  BY <1>1
<1>3. \A x \in Elements(s) : x \in Elements(Tail(s)) \union {Head(s)}
  <2>1. TAKE x \in Elements(s)
  <2>2. PICK i \in DOMAIN s : x = s[i]
    BY DEF Elements
  <2>3. CASE i = 1
    BY <2>2, <2>3, <1>2
  <2>4. CASE i # 1
    <3>1. i - 1 \in DOMAIN Tail(s) /\ Tail(s)[i - 1] = x
      BY <2>2, <2>4, <1>2
    <3> QED BY <3>1 DEF Elements
  <2> QED BY <2>3, <2>4
<1>4. \A x \in Elements(Tail(s)) : x \in Elements(s)
  <2>1. TAKE x \in Elements(Tail(s))
  <2>2. PICK i \in DOMAIN Tail(s) : x = Tail(s)[i]
    BY DEF Elements
  <2>3. i + 1 \in DOMAIN s /\ s[i + 1] = x
    BY <2>2, <1>2
  <2> QED BY <2>3 DEF Elements
<1>5. Head(s) \in Elements(s)
  <2>1. 1 \in DOMAIN s
    BY <1>2
  <2> QED BY <2>1, <1>2 DEF Elements
<1>6. ASSUME \A i, j \in DOMAIN s : s[i] = s[j] => i = j
      PROVE  /\ Head(s) \notin Elements(Tail(s))
             /\ \A i, j \in DOMAIN Tail(s) : Tail(s)[i] = Tail(s)[j] => i = j
  BY <1>2, <1>6 DEF Elements
<1> QED BY <1>3, <1>4, <1>5, <1>6

-----------------------------------------------------------------------------

(* The requests are the numbers from one on. *)
LEMMA RequestsAre == WorkTypes => Requests = 1 .. Len(asked) /\ Len(asked) \in Nat /\ NoId \notin Requests
  BY DEF WorkTypes, Requests, NoId

(* A request that is made is the next one, and waits in the channel.       *)
LEMMA AskKeeps ==
  ASSUME NEW kind \in Kinds, NEW name \in Names \union {NoText}, NEW how \in Methods \union {NoText},
         WorkTypes, WorkInv, Ask(kind, name, how)
  PROVE  /\ WorkTypes' /\ WorkInv' /\ Grows
         /\ Requests' = Requests \union {Fresh} /\ Fresh \notin Requests /\ Fresh # NoId
         /\ asked'[Fresh] = [kind |-> kind, name |-> name, method |-> how]
<1> DEFINE r == [kind |-> kind, name |-> name, method |-> how]
<1>1. /\ r \in Asked /\ Fresh = Len(asked) + 1 /\ Len(asked) \in Nat
      /\ Requests = 1 .. Len(asked)
      /\ asked \in Seq(Asked) /\ reply \in Seq(Statuses) /\ Len(reply) = Len(asked)
      /\ asked' = Append(asked, r) /\ reply' = Append(reply, "empty")
  BY RequestsAre DEF Asked, WorkTypes, Ask, Fresh
<1> HIDE DEF r
<1>2. /\ asked' \in Seq(Asked) /\ Len(asked') = Len(asked) + 1
      /\ DOMAIN asked' = 1 .. (Len(asked) + 1)
      /\ \A id \in 1 .. Len(asked) : asked'[id] = asked[id]
      /\ asked'[Len(asked) + 1] = r
  BY <1>1
<1>3. /\ reply' \in Seq(Statuses) /\ Len(reply') = Len(asked')
      /\ \A id \in 1 .. Len(asked) : reply'[id] = reply[id]
      /\ reply'[Len(asked) + 1] = "empty"
  <2>1. "empty" \in Statuses
    BY DEF Statuses
  <2> QED BY <2>1, <1>1, <1>2
<1>4. /\ Requests' = Requests \union {Fresh} /\ Fresh \notin Requests /\ Fresh # NoId
  BY <1>1, <1>2 DEF Requests, NoId
<1>5. /\ chan' = Append(chan, Fresh) /\ Len(chan) < Capacity
      /\ UNCHANGED <<serving, tasks, worker>>
  BY DEF Ask, Room
<1>6. chan \in Seq(Requests') /\ Fresh \in Requests'
  <2>1. chan \in Seq(Requests)
    BY DEF WorkTypes
  <2>2. Requests \subseteq Requests'
    BY <1>4
  <2> QED BY <2>1, <2>2, <1>4
<1>7. chan' \in Seq(Requests') /\ Len(chan') <= Capacity
  BY <1>5, <1>6, BoundAssumption DEF WorkTypes
<1>8. WorkTypes'
  <2>1. serving' \in Requests' \union {NoId} /\ tasks' \subseteq Requests' /\ worker' \in BOOLEAN
    BY <1>4, <1>5 DEF WorkTypes
  <2> QED BY <2>1, <1>2, <1>3, <1>7 DEF WorkTypes
<1>9. Elements(chan') = Elements(chan) \union {Fresh}
  BY <1>5, <1>6, ElementsAppend
<1>10. Elements(chan) \subseteq Requests /\ tasks \subseteq Requests /\ serving # Fresh
  BY <1>4, ElementsType DEF WorkTypes
<1>11. WorkInv'
  <2>1. ASSUME NEW id \in Requests'
        PROVE  reply'[id] = "empty" <=> (id = serving' \/ id \in tasks' \/ id \in Elements(chan'))
    <3>1. CASE id = Fresh
      BY <3>1, <1>1, <1>3, <1>9
    <3>2. CASE id # Fresh
      <4>1. id \in Requests /\ reply'[id] = reply[id]
        BY <3>2, <1>1, <1>3, <1>4
      <4> QED BY <4>1, <3>2, <1>5, <1>9 DEF WorkInv
    <3> QED BY <3>1, <3>2
  <2>2. \A i, j \in DOMAIN chan' : chan'[i] = chan'[j] => i = j
    <3>1. /\ DOMAIN chan' = 1 .. (Len(chan) + 1) /\ DOMAIN chan = 1 .. Len(chan) /\ Len(chan) \in Nat
          /\ chan'[Len(chan) + 1] = Fresh
          /\ \A i \in 1 .. Len(chan) : chan'[i] = chan[i] /\ chan[i] \in Requests
      BY <1>5, <1>6 DEF WorkTypes
    <3> QED BY <3>1, <1>4 DEF WorkInv
  <2>3. serving' \notin tasks' /\ serving' \notin Elements(chan') /\ Elements(chan') \intersect tasks' = {}
    BY <1>5, <1>9, <1>10, <1>4 DEF WorkInv
  <2> QED BY <2>1, <2>2, <2>3 DEF WorkInv
<1>12. Grows
  BY <1>1, <1>2, <1>3, <1>4 DEF Grows
<1> QED BY <1>1, <1>2, <1>4, <1>8, <1>11, <1>12 DEF r

(* A step that neither asks nor answers. *)
LEMMA StillKeeps ==
  ASSUME WorkTypes, WorkInv, UNCHANGED <<work, asked>>
  PROVE  WorkTypes' /\ WorkInv' /\ Grows
<1>1. UNCHANGED <<chan, serving, tasks, worker, reply, asked>>
  BY DEF work
<1>2. UNCHANGED Requests
  BY <1>1 DEF Requests
<1>3. WorkTypes'
  BY <1>1, <1>2 DEF WorkTypes
<1>4. WorkInv'
  BY <1>1, <1>2 DEF WorkInv, Elements
<1>5. Grows
  BY <1>1, <1>2 DEF Grows
<1> QED BY <1>3, <1>4, <1>5

(* A step that answers some requests, all of which wait, and forgets them. *)
LEMMA AnswerKeeps ==
  ASSUME WorkTypes, WorkInv, asked' = asked,
         NEW S, S \subseteq {serving} \union tasks \union Elements(chan),
         reply' \in Seq(Statuses), Len(reply') = Len(reply),
         \A id \in Requests : id \in S => reply'[id] # "empty",
         \A id \in Requests : id \notin S => reply'[id] = reply[id],
         chan' \in Seq(Requests), Len(chan') <= Capacity,
         \A i, j \in DOMAIN chan' : chan'[i] = chan'[j] => i = j,
         Elements(chan') = Elements(chan) \ S, tasks' = tasks \ S,
         serving' = IF serving \in S THEN NoId ELSE serving, worker' \in BOOLEAN
  PROVE  WorkTypes' /\ WorkInv' /\ Grows
<1>1. Requests' = Requests /\ NoId \notin Requests
  BY RequestsAre DEF Requests
<1>2. WorkTypes'
  BY <1>1 DEF WorkTypes
<1>3. Elements(chan) \subseteq Requests
  BY ElementsType DEF WorkTypes
<1>4. \A id \in Requests : id \in S => reply[id] = "empty"
  BY DEF WorkInv
<1>5. WorkInv'
  <2>1. ASSUME NEW id \in Requests'
        PROVE  reply'[id] = "empty" <=> (id = serving' \/ id \in tasks' \/ id \in Elements(chan'))
    BY <2>1, <1>1 DEF WorkInv
  <2>2. serving' \notin tasks' /\ serving' \notin Elements(chan') /\ Elements(chan') \intersect tasks' = {}
    BY <1>1, <1>3 DEF WorkInv, WorkTypes
  <2> QED BY <2>1, <2>2 DEF WorkInv
<1>6. Grows
  BY <1>1, <1>4 DEF Grows
<1> QED BY <1>2, <1>5, <1>6

LEMMA TakeKeeps ==
  ASSUME WorkTypes, WorkInv, Take
  PROVE  WorkTypes' /\ WorkInv' /\ Grows
<1>1. /\ serving = NoId /\ chan # <<>> /\ chan' = Tail(chan)
      /\ UNCHANGED <<worker, reply, asked>>
      /\ IF asked[Head(chan)].kind = "resolve"
         THEN serving' = Head(chan) /\ tasks' = tasks
         ELSE tasks' = tasks \union {Head(chan)} /\ serving' = serving
  BY DEF Take
<1>2. Requests' = Requests /\ NoId \notin Requests
  BY <1>1, RequestsAre DEF Requests
<1>3. /\ chan \in Seq(Requests) /\ Len(chan) <= Capacity /\ Len(chan) \in Nat
      /\ \A i, j \in DOMAIN chan : chan[i] = chan[j] => i = j
  BY DEF WorkTypes, WorkInv
<1>4. /\ Elements(chan) = Elements(chan') \union {Head(chan)}
      /\ Head(chan) \notin Elements(chan')
      /\ \A i, j \in DOMAIN chan' : chan'[i] = chan'[j] => i = j
  BY <1>1, <1>3, ElementsTail
<1>5. /\ chan' \in Seq(Requests) /\ Len(chan') = Len(chan) - 1 /\ Head(chan) \in Requests
  BY <1>1, <1>3
<1>6. WorkTypes'
  <2>1. serving' \in Requests \union {NoId} /\ tasks' \subseteq Requests
    BY <1>1, <1>5 DEF WorkTypes
  <2>2. Len(chan') <= Capacity
    BY <1>3, <1>5, BoundAssumption
  <2> QED BY <2>1, <2>2, <1>1, <1>2, <1>5 DEF WorkTypes
<1>7. WorkInv'
  <2>1. ASSUME NEW id \in Requests'
        PROVE  reply'[id] = "empty" <=> (id = serving' \/ id \in tasks' \/ id \in Elements(chan'))
    BY <2>1, <1>1, <1>2, <1>4 DEF WorkInv
  <2>2. serving' \notin tasks' /\ serving' \notin Elements(chan') /\ Elements(chan') \intersect tasks' = {}
    BY <1>1, <1>2, <1>4, <1>5 DEF WorkInv
  <2> QED BY <2>1, <2>2, <1>4 DEF WorkInv
<1>8. Grows
  BY <1>1, <1>2 DEF Grows
<1> QED BY <1>6, <1>7, <1>8

(* The replies after one of them was given. *)
LEMMA GivesReply ==
  ASSUME WorkTypes, NEW id \in Requests, NEW outcome \in Statuses,
         reply' = [reply EXCEPT ![id] = outcome]
  PROVE  /\ reply' \in Seq(Statuses) /\ Len(reply') = Len(reply)
         /\ reply'[id] = outcome
         /\ \A other \in Requests : other # id => reply'[other] = reply[other]
<1>1. reply \in Seq(Statuses) /\ DOMAIN reply = Requests
  BY RequestsAre DEF WorkTypes
<1> QED BY <1>1

LEMMA ResolvedKeeps ==
  ASSUME WorkTypes, WorkInv, Resolved
  PROVE  WorkTypes' /\ WorkInv' /\ Grows
<1>1. PICK outcome \in {"ok", "err"} : reply' = [reply EXCEPT ![serving] = outcome]
  BY DEF Resolved
<1>2. serving \in Requests /\ serving' = NoId /\ UNCHANGED <<chan, tasks, worker, asked>>
  BY DEF Resolved, WorkTypes
<1>3. outcome \in Statuses /\ outcome # "empty"
  BY DEF Statuses
<1>4. /\ reply' \in Seq(Statuses) /\ Len(reply') = Len(reply) /\ reply'[serving] = outcome
      /\ \A other \in Requests : other # serving => reply'[other] = reply[other]
  BY <1>1, <1>2, <1>3, GivesReply
<1>5. \A id \in Requests : id \in {serving} => reply'[id] # "empty"
  BY <1>3, <1>4
<1>6. \A id \in Requests : id \notin {serving} => reply'[id] = reply[id]
  BY <1>4
<1>7. Elements(chan') = Elements(chan) \ {serving} /\ tasks' = tasks \ {serving}
  BY <1>2 DEF WorkInv
<1>8. /\ chan' \in Seq(Requests) /\ Len(chan') <= Capacity /\ worker' \in BOOLEAN
      /\ \A i, j \in DOMAIN chan' : chan'[i] = chan'[j] => i = j
  BY <1>2 DEF WorkTypes, WorkInv
<1>9. serving' = IF serving \in {serving} THEN NoId ELSE serving
  BY <1>2
<1>10. {serving} \subseteq {serving} \union tasks \union Elements(chan)
  OBVIOUS
<1> QED BY <1>2, <1>4, <1>5, <1>6, <1>7, <1>8, <1>9, <1>10, AnswerKeeps

LEMMA TaskEndsKeeps ==
  ASSUME WorkTypes, WorkInv, TaskEnds
  PROVE  WorkTypes' /\ WorkInv' /\ Grows
<1>1. PICK id \in tasks, outcome \in {"ok", "closed"} :
        tasks' = tasks \ {id} /\ reply' = [reply EXCEPT ![id] = outcome]
  BY DEF TaskEnds
<1>2. id \in Requests /\ UNCHANGED <<chan, serving, worker, asked>>
  BY DEF TaskEnds, WorkTypes
<1>3. outcome \in Statuses /\ outcome # "empty"
  BY DEF Statuses
<1>4. /\ reply' \in Seq(Statuses) /\ Len(reply') = Len(reply) /\ reply'[id] = outcome
      /\ \A other \in Requests : other # id => reply'[other] = reply[other]
  BY <1>1, <1>2, <1>3, GivesReply
<1>5. \A x \in Requests : x \in {id} => reply'[x] # "empty"
  BY <1>3, <1>4
<1>6. \A x \in Requests : x \notin {id} => reply'[x] = reply[x]
  BY <1>4
<1>7. /\ Elements(chan') = Elements(chan) \ {id}
      /\ serving' = IF serving \in {id} THEN NoId ELSE serving
  BY <1>1, <1>2 DEF WorkInv
<1>8. /\ chan' \in Seq(Requests) /\ Len(chan') <= Capacity /\ worker' \in BOOLEAN
      /\ \A i, j \in DOMAIN chan' : chan'[i] = chan'[j] => i = j
  BY <1>2 DEF WorkTypes, WorkInv
<1>9. {id} \subseteq {serving} \union tasks \union Elements(chan)
  BY <1>1
<1> QED BY <1>1, <1>2, <1>4, <1>5, <1>6, <1>7, <1>8, <1>9, AnswerKeeps

LEMMA WorkerDiesKeeps ==
  ASSUME WorkTypes, WorkInv, WorkerDies
  PROVE  WorkTypes' /\ WorkInv' /\ Grows
<1>1. /\ serving \in Requests /\ serving' = NoId /\ chan' = <<>> /\ worker' = FALSE
      /\ UNCHANGED <<tasks, asked>>
      /\ reply' = [id \in DOMAIN reply |-> IF id \in Let THEN "closed" ELSE reply[id]]
  BY DEF WorkerDies, WorkTypes
<1>2. reply \in Seq(Statuses) /\ DOMAIN reply = Requests /\ Requests = 1 .. Len(reply)
      /\ Len(reply) \in Nat
  BY RequestsAre DEF WorkTypes
<1>3. /\ reply' \in Seq(Statuses) /\ Len(reply') = Len(reply)
      /\ \A id \in Requests : id \in Let => reply'[id] # "empty"
      /\ \A id \in Requests : id \notin Let => reply'[id] = reply[id]
  <2>1. /\ reply' = [id \in 1 .. Len(reply) |-> reply'[id]]
        /\ \A id \in 1 .. Len(reply) : reply'[id] = IF id \in Let THEN "closed" ELSE reply[id]
    BY <1>1, <1>2
  <2>2. \A id \in 1 .. Len(reply) : reply'[id] \in Statuses
    BY <2>1, <1>2 DEF Statuses
  <2>3. reply' \in [1 .. Len(reply) -> Statuses]
    BY <2>1, <2>2
  <2>4. reply' \in Seq(Statuses) /\ Len(reply') = Len(reply)
    BY <2>3, <1>2
  <2> QED BY <2>1, <2>4, <1>2
<1>4. Elements(chan') = {} /\ chan' \in Seq(Requests) /\ Len(chan') <= Capacity
      /\ DOMAIN chan' = {}
  <2>1. DOMAIN chan' = {} /\ Len(chan') = 0 /\ chan' \in Seq(Requests)
    BY <1>1
  <2> QED BY <2>1, BoundAssumption DEF Elements
<1>5. /\ Elements(chan') = Elements(chan) \ Let /\ tasks' = tasks \ Let
      /\ serving' = (IF serving \in Let THEN NoId ELSE serving) /\ worker' \in BOOLEAN
      /\ Let \subseteq {serving} \union tasks \union Elements(chan)
  BY <1>1, <1>4 DEF Let, WorkInv
<1>6. \A i, j \in DOMAIN chan' : chan'[i] = chan'[j] => i = j
  BY <1>4
<1> QED BY <1>1, <1>3, <1>4, <1>5, <1>6, AnswerKeeps

Lookup(name, how) == [kind |-> "resolve", name |-> name, method |-> how]

(* The lookup that found a ping's address asked for what is pinged. *)
Found(p) == reply[p.id] = "ok" /\ asked[p.id] = Lookup(p.name, p.method)

(***************************************************************************)
(* What the window keeps, and which requests it is about.  The lines of a  *)
(* list are all somewhere as long as it is loaded (Under).                 *)
(***************************************************************************)
UserTypes ==
  /\ tab \in {"ping", "dns"} /\ method \in Methods
  /\ opened \in Nat /\ errors \subseteq Names \union Literals

BoxInv ==
  /\ box \in [rx : Requests \union {NoId}, target : Names \union {NoText},
              pending : Methods \union {NoText}]
  /\ box.rx = NoId <=> box.pending = NoText
  /\ box.rx # NoId => box.target \in Names /\ asked[box.rx] = Lookup(box.target, box.pending)

LoadTypes ==
  load \in [on : BOOLEAN, file : SUBSET (Names \union Literals), queue : Seq(Names),
            flight : Requests \union {NoId}, name : Names \union {NoText},
            resolved : SUBSET PingSet, failed : SUBSET Names]
LoadAsked ==
  /\ load.flight # NoId => load.name \in Names /\ asked[load.flight] = Lookup(load.name, ListMethod)
  /\ \A p \in load.resolved :
       p.list = opened /\ p.method = ListMethod /\ (p.id # NoId => Found(p))
LoadWhole == load.on => load.file \subseteq Under(load)
LoadInv == LoadTypes /\ LoadAsked /\ LoadWhole

PanelInv ==
  /\ panel \in [rx : Requests \union {NoId}, query : Requests \union {NoId},
                trace : Requests \union {NoId}]
  /\ panel.rx # NoId =>
       /\ asked[panel.rx].kind \in {"query", "trace"}
       /\ \A id \in Requests : id > panel.rx => asked[id].kind = "resolve"
  /\ \A kind \in {"query", "trace"} : panel[kind] # NoId =>
       /\ asked[panel[kind]].kind = kind
       /\ \A id \in Requests : id > panel[kind] => asked[id].kind # kind

PingsInv ==
  /\ pings \subseteq PingSet
  /\ \A p \in pings : p.id # NoId => Found(p)

UserInv == UserTypes /\ BoxInv /\ LoadInv /\ PanelInv /\ PingsInv
Inv     == WorkTypes /\ WorkInv /\ UserInv

-----------------------------------------------------------------------------

(* What is known of a ping stays so. *)
LEMMA PingsGrow ==
  ASSUME WorkTypes, Grows, opened \in Nat, opened' \in Nat, opened <= opened'
  PROVE  /\ Requests \subseteq Requests'
         /\ PingSet \subseteq PingSet'
         /\ \A p \in PingSet : p.id # NoId /\ Found(p) => Found(p)'
<1>1. Requests \subseteq Requests'
  BY DEF Grows
<1>2. PingSet \subseteq PingSet'
  <2>1. 0 .. opened \subseteq 0 .. opened'
    OBVIOUS
  <2> QED BY <1>1, <2>1 DEF PingSet
<1>3. ASSUME NEW p \in PingSet, p.id # NoId, Found(p)
      PROVE  Found(p)'
  <2>1. p.id \in Requests
    BY <1>3 DEF PingSet
  <2> QED BY <1>3, <2>1 DEF Grows, Found
<1> QED BY <1>1, <1>2, <1>3

LEMMA BoxKeeps ==
  ASSUME BoxInv, Grows, box' = box
  PROVE  BoxInv'
<1>1. Requests \subseteq Requests' /\ \A id \in Requests : asked'[id] = asked[id]
  BY DEF Grows
<1>2. box.rx # NoId => box.rx \in Requests
  BY DEF BoxInv
<1> QED BY <1>1, <1>2 DEF BoxInv

LEMMA LoadKeeps ==
  ASSUME WorkTypes, LoadInv, Grows, load' = load, opened \in Nat, opened' = opened
  PROVE  LoadInv'
<1>1. /\ Requests \subseteq Requests' /\ PingSet \subseteq PingSet'
      /\ \A p \in PingSet : p.id # NoId /\ Found(p) => Found(p)'
  BY PingsGrow
<1>2. \A id \in Requests : asked'[id] = asked[id]
  BY DEF Grows
<1>3. load.resolved \subseteq PingSet /\ (load.flight # NoId => load.flight \in Requests)
  BY DEF LoadInv, LoadTypes
<1>4. LoadTypes'
  BY <1>1 DEF LoadInv, LoadTypes
<1>5. LoadAsked'
  BY <1>1, <1>2, <1>3 DEF LoadInv, LoadAsked
<1>6. LoadWhole'
  BY DEF LoadInv, LoadWhole, Under
<1> QED BY <1>4, <1>5, <1>6 DEF LoadInv

LEMMA PanelKeeps ==
  ASSUME WorkTypes, WorkTypes', PanelInv, Grows, panel' = panel,
         \A id \in Requests' \ Requests : asked'[id].kind = "resolve"
  PROVE  PanelInv'
<1>1. Requests \subseteq Requests' /\ \A id \in Requests : asked'[id] = asked[id]
  BY DEF Grows
<1>2. ASSUME panel'.rx # NoId
      PROVE  /\ asked'[panel'.rx].kind \in {"query", "trace"}
             /\ \A id \in Requests' : id > panel'.rx => asked'[id].kind = "resolve"
  BY <1>1, <1>2 DEF PanelInv
<1>3. ASSUME NEW kind \in {"query", "trace"}, panel'[kind] # NoId
      PROVE  /\ asked'[panel'[kind]].kind = kind
             /\ \A id \in Requests' : id > panel'[kind] => asked'[id].kind # kind
  <2>1. panel[kind] \in Requests
    BY <1>3 DEF PanelInv
  <2>2. /\ asked[panel[kind]].kind = kind
        /\ \A id \in Requests : id > panel[kind] => asked[id].kind # kind
    BY <1>3 DEF PanelInv
  <2> QED BY <1>1, <2>1, <2>2
<1>4. panel' \in [rx : Requests' \union {NoId}, query : Requests' \union {NoId},
                  trace : Requests' \union {NoId}]
  BY <1>1 DEF PanelInv
<1> QED BY <1>2, <1>3, <1>4 DEF PanelInv

LEMMA PingsKeep ==
  ASSUME WorkTypes, PingsInv, Grows, pings' = pings,
         opened \in Nat, opened' \in Nat, opened <= opened'
  PROVE  PingsInv'
<1>1. /\ PingSet \subseteq PingSet'
      /\ \A p \in PingSet : p.id # NoId /\ Found(p) => Found(p)'
  BY PingsGrow
<1> QED BY <1>1 DEF PingsInv

(* A step of the worker, or of the window that only looks.                 *)
LEMMA UserKeeps ==
  ASSUME WorkTypes, WorkTypes', UserInv, Grows, Requests' = Requests,
         UNCHANGED <<box, load, panel, pings, opened>>,
         tab' \in {"ping", "dns"}, method' \in Methods, errors' \subseteq Names \union Literals
  PROVE  UserInv'
<1>1. UserTypes'
  BY DEF UserInv, UserTypes
<1>2. BoxInv'
  BY BoxKeeps DEF UserInv
<1>3. LoadInv'
  BY LoadKeeps DEF UserInv, UserTypes
<1>4. PanelInv'
  BY PanelKeeps DEF UserInv
<1>5. PingsInv'
  BY PingsKeep DEF UserInv, UserTypes
<1> QED BY <1>1, <1>2, <1>3, <1>4, <1>5 DEF UserInv

LEMMA SubmitInv ==
  ASSUME Inv, NEW name \in Typed, Submit(name)
  PROVE  Inv'
<1>1. /\ name \in Names /\ method \in Methods /\ method # NoText /\ opened \in Nat
      /\ Ask("resolve", name, method)
      /\ box' = [rx |-> Fresh, target |-> name, pending |-> method]
      /\ UNCHANGED <<tab, method, load, errors, panel, opened, pings>>
  BY NameAssumption, MethodAssumption DEF Submit, Inv, UserInv, UserTypes, NoText
<1>2. /\ WorkTypes' /\ WorkInv' /\ Grows
      /\ Requests' = Requests \union {Fresh} /\ Fresh # NoId
      /\ asked'[Fresh] = Lookup(name, method)
  <2>1. "resolve" \in Kinds /\ name \in Names \union {NoText} /\ method \in Methods \union {NoText}
    BY <1>1 DEF Kinds
  <2> QED BY <1>1, <2>1, AskKeeps DEF Inv, Lookup
<1>3. UserTypes'
  BY <1>1 DEF Inv, UserInv, UserTypes
<1>4. BoxInv'
  <2>1. /\ Fresh \in Requests' \union {NoId} /\ name \in Names \union {NoText}
        /\ method \in Methods \union {NoText}
    BY <1>1, <1>2
  <2>2. box'.rx = Fresh /\ box'.target = name /\ box'.pending = method
    BY <1>1
  <2>3. box' \in [rx : Requests' \union {NoId}, target : Names \union {NoText},
                  pending : Methods \union {NoText}]
    BY <1>1, <2>1
  <2> QED BY <1>1, <1>2, <2>2, <2>3 DEF BoxInv
<1>5. LoadInv'
  BY <1>1, <1>2, LoadKeeps DEF Inv, UserInv
<1>6. PanelInv'
  <2>1. \A id \in Requests' \ Requests : asked'[id].kind = "resolve"
    BY <1>2 DEF Lookup
  <2> QED BY <1>1, <1>2, <2>1, PanelKeeps DEF Inv, UserInv
<1>7. PingsInv'
  BY <1>1, <1>2, PingsKeep DEF Inv, UserInv
<1> QED BY <1>2, <1>3, <1>4, <1>5, <1>6, <1>7 DEF Inv, UserInv

LEMMA OpenInv ==
  ASSUME Inv, NEW file \in Files, Open(file)
  PROVE  Inv'
<1> DEFINE here(x) == Ping(NoId, opened + 1, x, ListMethod)
<1>1. /\ opened \in Nat /\ opened' = opened + 1
      /\ UNCHANGED <<tab, method, box, errors, panel, work, asked, pings>>
      /\ load' = [NoLoad EXCEPT !.on = TRUE, !.file = Elements(file.names) \union file.ips,
                   !.queue = file.names, !.resolved = {here(ip) : ip \in file.ips}]
  BY DEF Open, Inv, UserInv, UserTypes
<1>2. /\ load'.on = TRUE /\ load'.file = Elements(file.names) \union file.ips
      /\ load'.queue = file.names /\ load'.flight = NoId /\ load'.name = NoText
      /\ load'.resolved = {here(ip) : ip \in file.ips} /\ load'.failed = {}
      /\ load' = [on |-> load'.on, file |-> load'.file, queue |-> load'.queue, flight |-> load'.flight,
                  name |-> load'.name, resolved |-> load'.resolved, failed |-> load'.failed]
  BY <1>1 DEF NoLoad
<1>3. WorkTypes' /\ WorkInv' /\ Grows /\ Requests' = Requests
  BY <1>1, StillKeeps DEF Inv, Requests
<1>4. file.names \in Seq(Names) /\ file.ips \subseteq Literals /\ Elements(file.names) \subseteq Names
  BY LineAssumption, ElementsType
<1>5. \A ip \in file.ips : /\ here(ip) \in PingSet' /\ here(ip).list = opened'
                           /\ here(ip).method = ListMethod /\ here(ip).id = NoId /\ here(ip).name = ip
  <2>1. opened + 1 \in 0 .. opened' /\ NoId \in Requests' \union {NoId} /\ ListMethod \in Methods
    BY <1>1, MethodAssumption
  <2> QED BY <2>1, <1>1, <1>4 DEF Ping, PingSet
<1> HIDE DEF here
<1>6. LoadInv'
  <2>1. LoadTypes'
    <3>1. /\ load'.on \in BOOLEAN /\ load'.file \in SUBSET (Names \union Literals)
          /\ load'.queue \in Seq(Names) /\ load'.flight \in Requests' \union {NoId}
          /\ load'.name \in Names \union {NoText} /\ load'.failed \in SUBSET Names
      BY <1>2, <1>4
    <3>2. load'.resolved \in SUBSET PingSet'
      BY <1>2, <1>5
    <3> QED BY <1>2, <3>1, <3>2 DEF LoadTypes
  <2>2. LoadAsked'
    BY <1>2, <1>5 DEF LoadAsked
  <2>3. LoadWhole'
    <3>1. \A ip \in file.ips : ip \in {p.name : p \in load'.resolved}
      BY <1>2, <1>5
    <3>2. Elements(file.names) \subseteq Under(load')
      BY <1>2 DEF Under
    <3>3. file.ips \subseteq Under(load')
      BY <3>1 DEF Under
    <3> QED BY <1>2, <3>2, <3>3 DEF LoadWhole
  <2> QED BY <2>1, <2>2, <2>3 DEF LoadInv
<1>7. UserTypes' /\ BoxInv'
  BY <1>1, <1>3, BoxKeeps DEF Inv, UserInv, UserTypes
<1>8. PanelInv'
  BY <1>1, <1>3, PanelKeeps DEF Inv, UserInv
<1>9. PingsInv'
  BY <1>1, <1>3, PingsKeep DEF Inv, UserInv
<1> QED BY <1>3, <1>6, <1>7, <1>8, <1>9 DEF Inv, UserInv

LEMMA SubmitQueryInv ==
  ASSUME Inv, NEW kind \in {"query", "trace"}, SubmitQuery(kind)
  PROVE  Inv'
<1>1. /\ Ask(kind, NoText, NoText) /\ opened \in Nat
      /\ panel.rx = NoId /\ panel' = [Cleared(kind) EXCEPT !.rx = Fresh]
      /\ UNCHANGED <<tab, method, box, load, errors, opened, pings>>
  BY DEF SubmitQuery, Inv, UserInv, UserTypes
<1>2. /\ WorkTypes' /\ WorkInv' /\ Grows
      /\ Requests' = Requests \union {Fresh} /\ Fresh # NoId /\ Fresh \notin Requests
      /\ asked'[Fresh] = [kind |-> kind, name |-> NoText, method |-> NoText]
  <2>1. kind \in Kinds
    BY DEF Kinds
  <2> QED BY <1>1, <2>1, AskKeeps DEF Inv
<1>3. UserTypes' /\ BoxInv'
  BY <1>1, <1>2, BoxKeeps DEF Inv, UserInv, UserTypes
<1>4. LoadInv' /\ PingsInv'
  BY <1>1, <1>2, LoadKeeps, PingsKeep DEF Inv, UserInv
<1>5. PanelInv'
  <2>1. panel \in [rx : Requests \union {NoId}, query : Requests \union {NoId},
                   trace : Requests \union {NoId}]
    BY DEF Inv, UserInv, PanelInv
  <2>2. /\ panel'.rx = Fresh /\ panel'[kind] = NoId
        /\ \A other \in {"query", "trace"} : other # kind => panel'[other] = panel[other]
        /\ panel' \in [rx : Requests' \union {NoId}, query : Requests' \union {NoId},
                       trace : Requests' \union {NoId}]
    <3>1. CASE kind = "query"
      <4>1. panel' = [rx |-> Fresh, query |-> NoId, trace |-> panel.trace]
        BY <1>1, <2>1, <3>1 DEF Cleared
      <4> QED BY <4>1, <3>1, <2>1, <1>2
    <3>2. CASE kind = "trace"
      <4>1. panel' = [rx |-> Fresh, query |-> panel.query, trace |-> NoId]
        BY <1>1, <2>1, <3>2 DEF Cleared
      <4> QED BY <4>1, <3>2, <2>1, <1>2
    <3> QED BY <3>1, <3>2
  <2>3. \A id \in Requests : Fresh > id
    BY <1>2 DEF Grows
  <2>4. Fresh \in Nat /\ \A id \in Requests : id \in Nat
    BY <1>2, RequestsAre DEF Inv, Fresh
  <2>5. \A id \in Requests' : ~(id > Fresh)
    BY <1>2, <2>3, <2>4
  <2>6. asked'[Fresh].kind = kind
    BY <1>2
  <2>7. ASSUME NEW other \in {"query", "trace"}, panel'[other] # NoId
        PROVE  /\ asked'[panel'[other]].kind = other
               /\ \A id \in Requests' : id > panel'[other] => asked'[id].kind # other
    <3>1. other # kind /\ panel'[other] = panel[other] /\ panel[other] \in Requests
      BY <2>1, <2>2, <2>7
    <3>2. /\ asked[panel[other]].kind = other
          /\ \A id \in Requests : id > panel[other] => asked[id].kind # other
      BY <2>7, <3>1 DEF Inv, UserInv, PanelInv
    <3>3. \A id \in Requests : asked'[id] = asked[id]
      BY <1>2 DEF Grows
    <3> QED BY <3>1, <3>2, <3>3, <2>6, <1>2
  <2> QED BY <2>2, <2>5, <2>6, <2>7 DEF PanelInv
<1> QED BY <1>2, <1>3, <1>4, <1>5 DEF Inv, UserInv

LEMMA PollBoxInv ==
  ASSUME Inv, PollBox
  PROVE  Inv'
<1>1. /\ box.rx # NoId /\ opened \in Nat
      /\ box' = [box EXCEPT !.rx = NoId, !.pending = NoText]
      /\ UNCHANGED <<tab, method, load, errors, panel, work, opened, asked>>
  BY DEF PollBox, Answered, Inv, UserInv, UserTypes
<1>2. WorkTypes' /\ WorkInv' /\ Grows /\ Requests' = Requests
  BY <1>1, StillKeeps DEF Inv, Requests
<1>3. /\ box.rx \in Requests /\ box.target \in Names /\ box.pending \in Methods
      /\ asked[box.rx] = Lookup(box.target, box.pending)
  BY <1>1 DEF Inv, UserInv, BoxInv
<1>4. BoxInv'
  <2>1. box' = [rx |-> NoId, target |-> box.target, pending |-> NoText]
    BY <1>1 DEF Inv, UserInv, BoxInv
  <2>2. box'.rx = NoId /\ box'.pending = NoText
    BY <2>1
  <2>3. box' \in [rx : Requests' \union {NoId}, target : Names \union {NoText},
                  pending : Methods \union {NoText}]
    BY <2>1, <1>3
  <2> QED BY <2>2, <2>3 DEF BoxInv
<1>5. UserTypes' /\ LoadInv' /\ PanelInv'
  BY <1>1, <1>2, LoadKeeps, PanelKeeps DEF Inv, UserInv, UserTypes
<1>6. PingsInv'
  <2>1. CASE pings' = pings
    BY <2>1, <1>1, <1>2, PingsKeep DEF Inv, UserInv
  <2>2. CASE reply[box.rx] = "ok" /\ pings' = pings \union {Ping(box.rx, 0, box.target, Chosen)}
    <3>1. PICK p : p = Ping(box.rx, 0, box.target, Chosen)
      OBVIOUS
    <3>2. /\ p.id = box.rx /\ p.list = 0 /\ p.name = box.target /\ p.method = box.pending
          /\ p = [id |-> box.rx, list |-> 0, name |-> box.target, method |-> box.pending]
      BY <3>1 DEF Ping, Chosen
    <3>3. p \in PingSet
      <4>1. 0 \in 0 .. opened
        BY <1>1
      <4> QED BY <4>1, <3>2, <1>3 DEF PingSet
    <3>4. Found(p)
      BY <3>2, <1>3, <2>2 DEF Found
    <3>5. UNCHANGED <<reply, asked, opened>>
      BY <1>1 DEF work
    <3> QED BY <2>2, <3>1, <3>3, <3>4, <3>5 DEF Inv, UserInv, PingsInv, Found, PingSet, Requests
  <2> QED BY <2>1, <2>2 DEF PollBox
<1> QED BY <1>2, <1>4, <1>5, <1>6 DEF Inv, UserInv

LEMMA PollPanelInv ==
  ASSUME Inv, PollPanel
  PROVE  Inv'
<1>1. /\ panel.rx # NoId /\ opened \in Nat
      /\ UNCHANGED <<tab, method, box, load, errors, work, opened, asked, pings>>
  BY DEF PollPanel, Answered, Inv, UserInv, UserTypes
<1>2. WorkTypes' /\ WorkInv' /\ Grows /\ Requests' = Requests
  BY <1>1, StillKeeps DEF Inv, Requests
<1>3. /\ panel \in [rx : Requests \union {NoId}, query : Requests \union {NoId},
                    trace : Requests \union {NoId}]
      /\ panel.rx \in Requests /\ asked[panel.rx].kind \in {"query", "trace"}
      /\ \A id \in Requests : id > panel.rx => asked[id].kind = "resolve"
  BY <1>1 DEF Inv, UserInv, PanelInv
<1>4. PICK kind \in {"query", "trace"} : kind = asked[panel.rx].kind
  BY <1>3
<1>5. panel' = IF reply[panel.rx] = "ok" THEN [panel EXCEPT !.rx = NoId, ![kind] = panel.rx]
                                         ELSE [panel EXCEPT !.rx = NoId]
  BY <1>4 DEF PollPanel
<1>6. /\ panel'.rx = NoId /\ panel'[kind] \in {panel.rx, panel[kind]}
      /\ \A other \in {"query", "trace"} : other # kind => panel'[other] = panel[other]
      /\ panel' \in [rx : Requests \union {NoId}, query : Requests \union {NoId},
                     trace : Requests \union {NoId}]
  <2>1. CASE reply[panel.rx] # "ok"
    <3>1. panel' = [rx |-> NoId, query |-> panel.query, trace |-> panel.trace]
      BY <1>3, <1>5, <2>1
    <3> QED BY <3>1, <1>3
  <2>2. CASE reply[panel.rx] = "ok" /\ kind = "query"
    <3>1. panel' = [rx |-> NoId, query |-> panel.rx, trace |-> panel.trace]
      BY <1>3, <1>5, <2>2
    <3> QED BY <3>1, <1>3, <2>2
  <2>3. CASE reply[panel.rx] = "ok" /\ kind = "trace"
    <3>1. panel' = [rx |-> NoId, query |-> panel.query, trace |-> panel.rx]
      BY <1>3, <1>5, <2>3
    <3> QED BY <3>1, <1>3, <2>3
  <2> QED BY <2>1, <2>2, <2>3
<1>7. \A other \in {"query", "trace"} : panel[other] # NoId =>
        /\ asked[panel[other]].kind = other
        /\ \A id \in Requests : id > panel[other] => asked[id].kind # other
  BY DEF Inv, UserInv, PanelInv
<1>8. ASSUME NEW other \in {"query", "trace"}, panel'[other] # NoId
      PROVE  /\ asked[panel'[other]].kind = other
             /\ \A id \in Requests : id > panel'[other] => asked[id].kind # other
  <2>1. CASE panel'[other] = panel[other]
    BY <2>1, <1>7, <1>8
  <2>2. CASE other = kind /\ panel'[other] = panel.rx
    BY <2>2, <1>3, <1>4
  <2> QED BY <2>1, <2>2, <1>6
<1>9. PanelInv'
  BY <1>1, <1>2, <1>6, <1>8 DEF PanelInv
<1>10. UserTypes' /\ BoxInv' /\ LoadInv' /\ PingsInv'
  BY <1>1, <1>2, BoxKeeps, LoadKeeps, PingsKeep DEF Inv, UserInv, UserTypes
<1> QED BY <1>2, <1>9, <1>10 DEF Inv, UserInv

LoadRecords == [on : BOOLEAN, file : SUBSET (Names \union Literals), queue : Seq(Names),
                flight : Requests \union {NoId}, name : Names \union {NoText},
                resolved : SUBSET PingSet, failed : SUBSET Names]

(* The name that was looked up is resolved or failed, and no longer looked up. *)
LEMMA HeardIs ==
  ASSUME Inv, load.flight = NoId \/ Answered(load.flight)
  PROVE  /\ Heard \in LoadRecords
         /\ Heard.on = load.on /\ Heard.file = load.file /\ Heard.queue = load.queue
         /\ Heard.flight = NoId
         /\ \A p \in Heard.resolved :
              p.list = opened /\ p.method = ListMethod /\ (p.id # NoId => Found(p))
         /\ Under(load) \subseteq Under(Heard)
<1>1. load \in LoadRecords /\ opened \in Nat
  BY DEF Inv, UserInv, UserTypes, LoadInv, LoadTypes, LoadRecords
<1>2. \A p \in load.resolved :
        p.list = opened /\ p.method = ListMethod /\ (p.id # NoId => Found(p))
  BY DEF Inv, UserInv, LoadInv, LoadAsked
<1>3. CASE load.flight = NoId
  BY <1>1, <1>2, <1>3 DEF Heard
<1>4. CASE load.flight # NoId /\ reply[load.flight] = "ok"
  <2>1. PICK p : p = Ping(load.flight, opened, load.name, ListMethod)
    OBVIOUS
  <2>2. /\ load.name \in Names /\ load.flight \in Requests
        /\ asked[load.flight] = Lookup(load.name, ListMethod)
    BY <1>1, <1>4 DEF Inv, UserInv, LoadInv, LoadAsked, LoadRecords
  <2>3. /\ p.id = load.flight /\ p.list = opened /\ p.name = load.name /\ p.method = ListMethod
        /\ p = [id |-> load.flight, list |-> opened, name |-> load.name, method |-> ListMethod]
    BY <2>1 DEF Ping
  <2>4. p \in PingSet
    <3>1. opened \in 0 .. opened
      BY <1>1
    <3> QED BY <3>1, <2>2, <2>3, MethodAssumption DEF PingSet
  <2>5. Found(p)
    BY <1>4, <2>2, <2>3 DEF Found
  <2>6. Heard = [load EXCEPT !.flight = NoId, !.resolved = load.resolved \union {p}]
    BY <1>4, <2>1 DEF Heard
  <2>7. /\ Heard \in LoadRecords
        /\ Heard.on = load.on /\ Heard.file = load.file /\ Heard.queue = load.queue
        /\ Heard.flight = NoId /\ Heard.failed = load.failed
        /\ Heard.resolved = load.resolved \union {p}
    BY <1>1, <2>4, <2>6 DEF LoadRecords
  <2>8. \A q \in Heard.resolved :
          q.list = opened /\ q.method = ListMethod /\ (q.id # NoId => Found(q))
    BY <1>2, <2>3, <2>5, <2>7
  <2>9. Under(load) \subseteq Under(Heard)
    <3>1. {q.name : q \in load.resolved} \subseteq {q.name : q \in Heard.resolved}
      BY <2>7
    <3>2. load.name \in {q.name : q \in Heard.resolved}
      BY <2>3, <2>7
    <3> QED BY <3>1, <3>2, <2>7 DEF Under
  <2> QED BY <2>7, <2>8, <2>9
<1>5. CASE load.flight # NoId /\ reply[load.flight] # "ok"
  <2>1. load.name \in Names
    BY <1>5 DEF Inv, UserInv, LoadInv, LoadAsked
  <2>2. Heard = [load EXCEPT !.flight = NoId, !.failed = load.failed \union {load.name}]
    BY <1>5 DEF Heard
  <2>3. /\ Heard \in LoadRecords
        /\ Heard.on = load.on /\ Heard.file = load.file /\ Heard.queue = load.queue
        /\ Heard.flight = NoId /\ Heard.failed = load.failed \union {load.name}
        /\ Heard.resolved = load.resolved
    BY <1>1, <2>1, <2>2 DEF LoadRecords
  <2>4. Under(load) \subseteq Under(Heard)
    BY <2>3 DEF Under
  <2> QED BY <1>2, <2>3, <2>4
<1> QED BY <1>3, <1>4, <1>5

(* The next name is looked up, or failed for want of room. *)
LEMMA LookUpInv ==
  ASSUME Inv, NEW l, l = Heard, load.flight = NoId \/ Answered(load.flight),
         l.queue # <<>>, LookUp(l),
         UNCHANGED <<tab, method, box, errors, panel, opened, pings>>
  PROVE  Inv' /\ load'.on = load.on /\ load'.file = load.file
<1>1. /\ l \in LoadRecords /\ opened \in Nat
      /\ l.on = load.on /\ l.file = load.file /\ l.queue = load.queue /\ l.flight = NoId
      /\ \A p \in l.resolved : p.list = opened /\ p.method = ListMethod /\ (p.id # NoId => Found(p))
      /\ Under(load) \subseteq Under(l)
  BY HeardIs DEF Inv, UserInv, UserTypes
<1>2. /\ l.queue \in Seq(Names) /\ Head(l.queue) \in Names /\ Tail(l.queue) \in Seq(Names)
      /\ Elements(l.queue) = Elements(Tail(l.queue)) \union {Head(l.queue)}
  BY <1>1, ElementsTail DEF LoadRecords
<1>3. CASE /\ Ask("resolve", Head(l.queue), ListMethod)
           /\ load' = [l EXCEPT !.queue = Tail(@), !.flight = Fresh, !.name = Head(l.queue)]
  <2>1. PICK name \in Names : name = Head(l.queue)
    BY <1>2
  <2>2. /\ WorkTypes' /\ WorkInv' /\ Grows
        /\ Requests' = Requests \union {Fresh} /\ Fresh # NoId
        /\ asked'[Fresh] = Lookup(name, ListMethod)
    <3>1. "resolve" \in Kinds /\ name \in Names \union {NoText} /\ ListMethod \in Methods \union {NoText}
      BY MethodAssumption DEF Kinds
    <3>2. Ask("resolve", name, ListMethod)
      BY <1>3, <2>1
    <3> QED BY <3>1, <3>2, AskKeeps DEF Inv, Lookup
  <2>3. /\ Requests \subseteq Requests' /\ PingSet \subseteq PingSet'
        /\ \A p \in PingSet : p.id # NoId /\ Found(p) => Found(p)'
    BY <2>2, <1>1, PingsGrow DEF Inv
  <2>4. /\ load' = [on |-> l.on, file |-> l.file, queue |-> Tail(l.queue), flight |-> Fresh,
                    name |-> name, resolved |-> l.resolved, failed |-> l.failed]
    BY <1>1, <1>3, <2>1 DEF LoadRecords
  <2>5. /\ load'.on = l.on /\ load'.file = l.file /\ load'.queue = Tail(l.queue)
        /\ load'.flight = Fresh /\ load'.name = name /\ load'.resolved = l.resolved
        /\ load'.failed = l.failed
    BY <2>4
  <2>6. /\ l.on \in BOOLEAN /\ l.file \in SUBSET (Names \union Literals)
        /\ l.resolved \in SUBSET PingSet /\ l.failed \in SUBSET Names
    BY <1>1 DEF LoadRecords
  <2>7. LoadTypes'
    BY <2>2, <2>3, <2>4, <2>6, <1>2 DEF LoadTypes
  <2>8. LoadAsked'
    BY <2>2, <2>3, <2>5, <2>6, <1>1 DEF LoadAsked
  <2>9. LoadWhole'
    <3>1. Under(l) \subseteq Under(load')
      BY <1>1, <1>2, <2>1, <2>2, <2>5 DEF Under
    <3> QED BY <3>1, <2>5, <1>1 DEF LoadWhole, Inv, UserInv, LoadInv
  <2>10. UserTypes' /\ BoxInv' /\ PingsInv'
    BY <1>1, <2>2, BoxKeeps, PingsKeep DEF Inv, UserInv, UserTypes
  <2>11. PanelInv'
    <3>1. \A id \in Requests' \ Requests : asked'[id].kind = "resolve"
      BY <2>2 DEF Lookup
    <3> QED BY <3>1, <2>2, PanelKeeps DEF Inv, UserInv
  <2> QED BY <2>2, <2>5, <2>7, <2>8, <2>9, <2>10, <2>11, <1>1 DEF Inv, UserInv, LoadInv
<1>4. CASE load' = [Skipped(l) EXCEPT !.queue = Tail(@)] /\ UNCHANGED <<work, asked>>
  <2>1. WorkTypes' /\ WorkInv' /\ Grows /\ Requests' = Requests /\ UNCHANGED <<reply, asked>>
    BY <1>4, StillKeeps DEF Inv, Requests, work
  <2>2. load' = [on |-> l.on, file |-> l.file, queue |-> Tail(l.queue), flight |-> l.flight,
                 name |-> l.name, resolved |-> l.resolved,
                 failed |-> l.failed \union {Head(l.queue)}]
    BY <1>1, <1>4 DEF LoadRecords, Skipped
  <2>3. /\ load'.on = l.on /\ load'.file = l.file /\ load'.queue = Tail(l.queue)
        /\ load'.flight = NoId /\ load'.resolved = l.resolved
        /\ load'.failed = l.failed \union {Head(l.queue)}
    BY <1>1, <2>2
  <2>4. LoadTypes'
    <3>1. PingSet' = PingSet
      BY <2>1 DEF PingSet
    <3> QED BY <3>1, <1>1, <1>2, <2>1, <2>2 DEF LoadTypes, LoadRecords
  <2>5. LoadAsked'
    BY <1>1, <2>1, <2>3 DEF LoadAsked, Found
  <2>6. LoadWhole'
    <3>1. Under(l) \subseteq Under(load')
      BY <1>1, <1>2, <2>3 DEF Under
    <3> QED BY <3>1, <2>3, <1>1 DEF LoadWhole, Inv, UserInv, LoadInv
  <2>7. UserTypes' /\ BoxInv' /\ PingsInv' /\ PanelInv'
    BY <1>1, <2>1, BoxKeeps, PingsKeep, PanelKeeps DEF Inv, UserInv, UserTypes
  <2> QED BY <2>1, <2>3, <2>4, <2>5, <2>6, <2>7, <1>1 DEF Inv, UserInv, LoadInv
<1> QED BY <1>3, <1>4 DEF LookUp

(* The list is pinged, but for what the ping worker has no room for, and   *)
(* the error window names the rest.                                        *)
LEMMA FinishInv ==
  ASSUME Inv, NEW l, l = Heard, load.flight = NoId \/ Answered(load.flight),
         load.on, l.queue = <<>>, Finish(l),
         UNCHANGED <<tab, method, box, panel, opened>>
  PROVE  Inv' /\ load'.on = FALSE /\ load.file \subseteq Outcome(opened)'
<1>1. /\ l \in LoadRecords /\ opened \in Nat
      /\ l.file = load.file /\ l.flight = NoId
      /\ \A p \in l.resolved : p.list = opened /\ p.method = ListMethod /\ (p.id # NoId => Found(p))
      /\ Under(load) \subseteq Under(l)
  BY HeardIs DEF Inv, UserInv, UserTypes
<1>2. PICK lost \in SUBSET l.resolved :
        /\ pings' = pings \union (l.resolved \ lost)
        /\ errors' = IF l.failed \union {p.name : p \in lost} = {} THEN errors
                     ELSE l.failed \union {p.name : p \in lost}
  BY DEF Finish
<1>3. load' = NoLoad /\ UNCHANGED <<work, asked>>
  BY DEF Finish
<1>4. WorkTypes' /\ WorkInv' /\ Grows /\ Requests' = Requests /\ UNCHANGED <<reply, asked>>
  BY <1>3, StillKeeps DEF Inv, Requests, work
<1>5. /\ load'.on = FALSE /\ load'.flight = NoId /\ load'.resolved = {}
      /\ load' = [on |-> FALSE, file |-> {}, queue |-> <<>>, flight |-> NoId, name |-> NoText,
                  resolved |-> {}, failed |-> {}]
  BY <1>3 DEF NoLoad
<1>6. LoadInv'
  <2>1. LoadTypes'
    <3>1. <<>> \in Seq(Names) /\ NoId \in Requests' \union {NoId} /\ NoText \in Names \union {NoText}
      OBVIOUS
    <3> QED BY <1>5, <3>1 DEF LoadTypes
  <2> QED BY <1>5, <2>1 DEF LoadInv, LoadAsked, LoadWhole
<1>7. PingsInv'
  <2>1. l.resolved \subseteq PingSet /\ PingSet' = PingSet
    BY <1>1, <1>4 DEF LoadRecords, PingSet
  <2>2. pings' \subseteq PingSet'
    BY <1>2, <2>1 DEF Inv, UserInv, PingsInv
  <2>3. ASSUME NEW p \in pings', p.id # NoId
        PROVE  Found(p)
    BY <1>1, <1>2, <2>3 DEF Inv, UserInv, PingsInv
  <2> QED BY <2>2, <2>3, <1>4 DEF PingsInv, Found
<1>8. l.failed \subseteq Names /\ \A p \in l.resolved : p.name \in Names \union Literals
  BY <1>1 DEF LoadRecords, PingSet
<1>9. UserTypes'
  <2>1. errors' \subseteq Names \union Literals
    BY <1>2, <1>8 DEF Inv, UserInv, UserTypes
  <2> QED BY <2>1 DEF Inv, UserInv, UserTypes
<1>10. BoxInv' /\ PanelInv'
  BY <1>4, BoxKeeps, PanelKeeps DEF Inv, UserInv
<1>11. load.file \subseteq Outcome(opened)'
  <2>1. load.file \subseteq Under(l)
    BY <1>1 DEF Inv, UserInv, LoadInv, LoadWhole
  <2>2. Elements(l.queue) = {}
    <3>1. DOMAIN l.queue = {}
      <4>1. DOMAIN <<>> = 1 .. 0
        OBVIOUS
      <4> QED BY <4>1
    <3> QED BY <3>1 DEF Elements
  <2>3. Under(l) = {p.name : p \in l.resolved} \union l.failed
    BY <1>1, <2>2 DEF Under
  <2>4. l.failed \subseteq errors'
    BY <1>2
  <2>5. ASSUME NEW p \in l.resolved
        PROVE  p.name \in errors' \union {q.name : q \in {r \in pings' : r.list = opened'}}
    <3>1. CASE p \in lost
      BY <3>1, <1>2
    <3>2. CASE p \notin lost
      BY <3>2, <1>1, <1>2
    <3> QED BY <3>1, <3>2
  <2>6. Outcome(opened)' = errors' \union {q.name : q \in {r \in pings' : r.list = opened'}}
    BY DEF Outcome
  <2> QED BY <2>1, <2>3, <2>4, <2>5, <2>6
<1> QED BY <1>4, <1>5, <1>6, <1>7, <1>9, <1>10, <1>11 DEF Inv, UserInv

(* No line is lost by a frame of the loader. *)
Kept == load.on /\ opened' = opened =>
          load.file \subseteq (IF load'.on THEN Under(load)' ELSE Outcome(opened)')

LEMMA PollLoadInv ==
  ASSUME Inv, PollLoad
  PROVE  /\ Inv'
         /\ \/ load'.on /\ load'.file = load.file
            \/ ~load'.on /\ load.file \subseteq Outcome(opened)'
<1>1. /\ load.on /\ (load.flight = NoId \/ Answered(load.flight))
      /\ UNCHANGED <<tab, method, box, panel, opened>>
      /\ IF Heard.queue # <<>>
         THEN LookUp(Heard) /\ UNCHANGED <<errors, pings>>
         ELSE Finish(Heard)
  BY DEF PollLoad
<1>2. PICK l : l = Heard
  OBVIOUS
<1>3. CASE l.queue # <<>>
  <2>1. LookUp(l) /\ UNCHANGED <<tab, method, box, errors, panel, opened, pings>>
    BY <1>1, <1>2, <1>3
  <2>2. Inv' /\ load'.on = load.on /\ load'.file = load.file
    BY <1>1, <1>2, <1>3, <2>1, LookUpInv
  <2> QED BY <1>1, <2>2
<1>4. CASE l.queue = <<>>
  <2>1. Finish(l)
    BY <1>1, <1>2, <1>4
  <2>2. Inv' /\ load'.on = FALSE /\ load.file \subseteq Outcome(opened)'
    BY <1>1, <1>2, <1>4, <2>1, FinishInv
  <2> QED BY <2>2
<1> QED BY <1>3, <1>4

LEMMA InitInv == Init => Inv
<1> SUFFICES ASSUME Init PROVE Inv
  OBVIOUS
<1>1. /\ asked = <<>> /\ reply = <<>> /\ chan = <<>> /\ serving = NoId /\ tasks = {} /\ worker = TRUE
  BY DEF Init
<1>2. Requests = {} /\ Elements(chan) = {} /\ DOMAIN chan = {}
  <2>1. DOMAIN <<>> = {}
    <3>1. DOMAIN <<>> = 1 .. 0
      OBVIOUS
    <3> QED BY <3>1
  <2> QED BY <1>1, <2>1 DEF Requests, Elements
<1>3. WorkTypes /\ WorkInv
  <2>1. asked \in Seq(Asked) /\ reply \in Seq(Statuses) /\ Len(reply) = Len(asked)
        /\ chan \in Seq(Requests) /\ Len(chan) = 0
    BY <1>1
  <2> QED BY <1>1, <1>2, <2>1, BoundAssumption DEF WorkTypes, WorkInv
<1>4. UserTypes /\ PingsInv
  BY DEF Init, UserTypes, PingsInv
<1>5. BoxInv
  BY DEF Init, NoBox, BoxInv
<1>6. LoadInv
  <2>1. load = [on |-> FALSE, file |-> {}, queue |-> <<>>, flight |-> NoId, name |-> NoText,
                resolved |-> {}, failed |-> {}]
    BY DEF Init, NoLoad
  <2>2. <<>> \in Seq(Names)
    OBVIOUS
  <2> QED BY <2>1, <2>2 DEF LoadInv, LoadTypes, LoadAsked, LoadWhole
<1>7. PanelInv
  <2>1. panel = [rx |-> NoId, query |-> NoId, trace |-> NoId]
    BY DEF Init
  <2> QED BY <2>1 DEF PanelInv
<1> QED BY <1>3, <1>4, <1>5, <1>6, <1>7 DEF Inv, UserInv

(* The steps of the worker and those that only look keep what the window   *)
(* has, and change no list.                                                *)
LEMMA OthersInv ==
  ASSUME Inv, Show \/ Edit \/ Dismiss \/ Take \/ Resolved \/ TaskEnds \/ WorkerDies
  PROVE  Inv' /\ load' = load
<1>1. UserTypes
  BY DEF Inv, UserInv
<1>2. ASSUME Show \/ Edit \/ Dismiss
      PROVE  Inv' /\ load' = load
  <2>1. /\ UNCHANGED <<box, load, panel, pings, opened, work, asked>>
        /\ tab' \in {"ping", "dns"} /\ method' \in Methods /\ errors' \subseteq Names \union Literals
    BY <1>1, <1>2 DEF Show, Edit, Dismiss, UserTypes
  <2>2. WorkTypes' /\ WorkInv' /\ Grows /\ Requests' = Requests
    BY <2>1, StillKeeps DEF Inv, Requests
  <2> QED BY <2>1, <2>2, UserKeeps DEF Inv
<1>3. ASSUME Take \/ Resolved \/ TaskEnds \/ WorkerDies
      PROVE  Inv' /\ load' = load
  <2>1. /\ UNCHANGED <<tab, method, box, load, errors, panel, pings, opened, asked>>
    BY <1>3 DEF Take, Resolved, TaskEnds, WorkerDies, ui
  <2>2. WorkTypes' /\ WorkInv' /\ Grows
    BY <1>3, TakeKeeps, ResolvedKeeps, TaskEndsKeeps, WorkerDiesKeeps DEF Inv
  <2>3. Requests' = Requests
    BY <2>1 DEF Requests
  <2> QED BY <1>1, <2>1, <2>2, <2>3, UserKeeps DEF Inv, UserTypes
<1> QED BY <1>2, <1>3

LEMMA NextInv == Inv /\ [Next]_vars => Inv' /\ Kept
<1> SUFFICES ASSUME Inv, [Next]_vars PROVE Inv' /\ Kept
  OBVIOUS
<1>1. Inv'
  <2>1. CASE Show \/ Edit \/ Dismiss \/ Take \/ Resolved \/ TaskEnds \/ WorkerDies
    BY <2>1, OthersInv
  <2>2. CASE \E name \in Typed : Submit(name)
    BY <2>2, SubmitInv
  <2>3. CASE \E file \in Files : Open(file)
    BY <2>3, OpenInv
  <2>4. CASE \E kind \in {"query", "trace"} : SubmitQuery(kind)
    BY <2>4, SubmitQueryInv
  <2>5. CASE PollBox
    BY <2>5, PollBoxInv
  <2>6. CASE PollLoad
    BY <2>6, PollLoadInv
  <2>7. CASE PollPanel
    BY <2>7, PollPanelInv
  <2>8. CASE UNCHANGED vars
    <3>1. UNCHANGED <<tab, method, box, load, errors, panel, pings, opened, work, asked>>
      BY <2>8 DEF vars, ui
    <3>2. WorkTypes' /\ WorkInv' /\ Grows /\ Requests' = Requests
      BY <3>1, StillKeeps DEF Inv, Requests
    <3> QED BY <3>1, <3>2, UserKeeps DEF Inv, UserInv, UserTypes
  <2> QED BY <2>1, <2>2, <2>3, <2>4, <2>5, <2>6, <2>7, <2>8 DEF Next
<1>2. Kept
  <2>1. load'.on => load'.file \subseteq Under(load)'
    <3>1. LoadWhole'
      BY <1>1 DEF Inv, UserInv, LoadInv
    <3> QED BY <3>1 DEF LoadWhole
  <2>2. ASSUME load.on, opened' = opened
        PROVE  \/ load'.on /\ load'.file = load.file
               \/ ~load'.on /\ load.file \subseteq Outcome(opened)'
    <3>1. CASE load' = load
      BY <2>2, <3>1
    <3>2. CASE PollLoad
      BY <2>2, <3>2, PollLoadInv
    <3>3. ~\E file \in Files : Open(file)
      <4>1. opened \in Nat
        BY DEF Inv, UserInv, UserTypes
      <4>2. ASSUME NEW file \in Files, Open(file)
            PROVE  FALSE
        <5>1. opened' = opened + 1
          BY <4>2 DEF Open
        <5> QED BY <4>1, <5>1, <2>2
      <4> QED BY <4>2
    <3>4. PollLoad \/ load' = load
      BY <3>3, OthersInv DEF Next, Submit, SubmitQuery, PollBox, PollPanel, vars, ui
    <3> QED BY <3>1, <3>2, <3>4
  <2> QED BY <2>1, <2>2 DEF Kept
<1> QED BY <1>1, <1>2

-----------------------------------------------------------------------------

LEMMA SpecInv == Spec => []Inv
<1>1. Init => Inv
  BY InitInv
<1>2. Inv /\ [Next]_vars => Inv'
  BY NextInv
<1> QED BY <1>1, <1>2, PTL DEF Spec

LEMMA InvTypeOK == Inv => TypeOK
<1> SUFFICES ASSUME Inv PROVE TypeOK
  OBVIOUS
<1>1. WorkTypes /\ WorkInv /\ UserTypes /\ BoxInv /\ LoadInv /\ PanelInv /\ PingsInv
  BY DEF Inv, UserInv
<1>2. Requests = 1 .. Len(asked) /\ Len(asked) \in Nat /\ DOMAIN reply = Requests
  BY <1>1, RequestsAre DEF WorkTypes
<1>3. ASSUME NEW id \in Requests
      PROVE  /\ asked[id].kind \in {"resolve", "query", "trace"}
             /\ asked[id].name \in Names \union {NoText} /\ asked[id].method \in Methods \union {NoText}
             /\ reply[id] \in {"empty", "ok", "err", "closed"}
  <2>1. asked[id] \in Asked /\ reply[id] \in Statuses
    BY <1>1, <1>2 DEF WorkTypes
  <2> QED BY <2>1 DEF Asked, Kinds, Statuses
<1>4. ASSUME NEW id \in Requests
      PROVE  reply[id] = "empty" <=> id = serving \/ id \in tasks \union Elements(chan)
  BY <1>1 DEF WorkInv
<1>5. /\ Len(chan) <= Capacity /\ Elements(chan) \intersect (tasks \union {serving}) = {}
      /\ serving \notin tasks /\ tasks \subseteq Requests
      /\ tab \in {"ping", "dns"} /\ method \in Methods /\ worker \in BOOLEAN
  BY <1>1 DEF WorkTypes, WorkInv, UserTypes
<1>6. /\ box.target \in Names \union {NoText} /\ box.pending \in Methods \union {NoText}
      /\ box.rx = NoId <=> box.pending = NoText
  BY <1>1 DEF BoxInv
<1>7. load.queue \in Seq(Names) /\ load.failed \union errors \subseteq Names \union Literals
  BY <1>1 DEF LoadInv, LoadTypes, UserTypes
<1>8. {box.rx, load.flight, panel.rx} \ {NoId} \subseteq Requests
  <2>1. box.rx \in Requests \union {NoId}
    BY <1>1 DEF BoxInv
  <2>2. load.flight \in Requests \union {NoId}
    BY <1>1 DEF LoadInv, LoadTypes
  <2>3. panel.rx \in Requests \union {NoId}
    BY <1>1 DEF PanelInv
  <2> QED BY <2>1, <2>2, <2>3
<1>9. pings \subseteq [id : Requests \union {NoId}, list : 0 .. opened, name : Names \union Literals, method : Methods]
  BY <1>1 DEF PingsInv, PingSet
<1> QED BY <1>2, <1>3, <1>4, <1>5, <1>6, <1>7, <1>8, <1>9 DEF TypeOK

(* Every variable is of its type, and a request is in one place of the     *)
(* worker or has its reply: no oneshot is forgotten (net/dns.rs, the three *)
(* polls).                                                                 *)
THEOREM TypeCorrect == Spec => []TypeOK
  BY SpecInv, InvTypeOK, PTL

LEMMA InvAnswersFit == Inv => AnswersFit
<1> SUFFICES ASSUME Inv PROVE AnswersFit
  OBVIOUS
<1>1. \A p \in pings : p.id # NoId =>
        reply[p.id] = "ok" /\ asked[p.id] = [kind |-> "resolve", name |-> p.name, method |-> p.method]
  BY DEF Inv, UserInv, PingsInv, Found, Lookup
<1>2. \A kind \in {"query", "trace"} : panel[kind] # NoId =>
        /\ asked[panel[kind]].kind = kind
        /\ \A id \in Requests : id > panel[kind] => asked[id].kind # kind
  BY DEF Inv, UserInv, PanelInv
<1> QED BY <1>1, <1>2 DEF AnswersFit

(* For any names, files and methods and any number of requests, an answer  *)
(* is used for what was asked (submit_ping_target, poll_dns_resolution,    *)
(* submit_dns_query).                                                      *)
THEOREM AnswersUsedRight == Spec => []AnswersFit
  BY SpecInv, InvAnswersFit, PTL

(* For any files, no line of a list is lost on its way, wherever it fails  *)
(* (poll_ping_list_load).                                                  *)
THEOREM LinesKept == Spec => NoLineLost
<1>1. Inv /\ [Next]_vars => [load.on /\ opened' = opened =>
        load.file \subseteq (IF load'.on THEN Under(load)' ELSE Outcome(opened)')]_vars
  BY NextInv DEF Kept
<1> QED BY <1>1, SpecInv, PTL DEF Spec, NoLineLost
=============================================================================
