-------------------------- MODULE L2PingerProofs --------------------------
(***************************************************************************)
(* Proofs about L2Pinger, for any pairings, methods, capacity of the       *)
(* command channel and numbers of commands and rounds.                     *)
(***************************************************************************)
EXTENDS L2Pinger, SequenceTheorems, TLAPS

-----------------------------------------------------------------------------
(* Types                                                                   *)

UiTypes == clicks \in Nat /\ cmds \in Seq(Cmd) /\ Len(cmds) <= CmdCap
WorkerTypes ==
  /\ worker \in {Idle} \cup [at : {"joining"}, cmd : Cmd, old : Nat]
  /\ worker # Idle /\ worker.old # NoLoop =>
       worker.old \in DOMAIN loops /\ loops[worker.old].pair = worker.cmd.pair
HandleTypes ==
  /\ handles \in [Pairs -> Nat]
  /\ \A p \in Pairs : handles[p] # NoLoop =>
       handles[p] \in DOMAIN loops /\ loops[handles[p]].pair = p
RowTypes == rows \in [Pairs -> Row \cup {NoRow}]

LEMMA TypeParts ==
  TypeOK <=> UiTypes /\ WorkerTypes /\ HandleTypes /\ loops \in Seq(Loop) /\ RowTypes
  BY DEF TypeOK, UiTypes, WorkerTypes, HandleTypes, RowTypes

LEMMA TypePartsNext ==
  UiTypes' /\ WorkerTypes' /\ HandleTypes' /\ loops' \in Seq(Loop) /\ RowTypes' => TypeOK'
  BY DEF TypeOK, UiTypes, WorkerTypes, HandleTypes, RowTypes

(* What a row is, and that no row is not one.                              *)
LEMMA RowFacts ==
  /\ NoRow \notin Row /\ NoRow.running = FALSE
  /\ \A m \in Methods : NewRow(m) \in Row /\ NewRow(m).running = TRUE
<1>1. NoRow \notin Row /\ NoRow.running = FALSE
  BY DEF NoRow, Row
<1>2. ASSUME NEW m \in Methods PROVE NewRow(m) \in Row /\ NewRow(m).running = TRUE
  BY DEF NewRow, Row
<1> QED BY <1>1, <1>2

LEMMA WorkerFacts ==
  \A c \in Cmd, old \in Nat :
    /\ Joining(c, old) # Idle /\ Joining(c, old) \in [at : {"joining"}, cmd : Cmd, old : Nat]
    /\ Joining(c, old).cmd = c /\ Joining(c, old).old = old
  BY DEF Joining, Idle

LEMMA LoopFacts ==
  ASSUME TypeOK, NEW g \in DOMAIN loops
  PROVE  /\ loops[g] \in Loop /\ loops[g].told \in {"no", "stop", "abort"}
         /\ loops[g].pair \in Pairs /\ g \in Nat /\ g # NoLoop
<1>1. loops[g] \in Loop /\ g \in 1..Len(loops)
  BY DEF TypeOK
<1> QED BY <1>1 DEF Loop, NoLoop

(* What telling a loop to end changes, and what spawning one does.         *)
LEMMA TellFacts ==
  ASSUME loops \in Seq(Loop), NEW g \in DOMAIN loops \cup {NoLoop},
         NEW w \in {"stop", "abort"}, loops' = Tell(g, w)
  PROVE  /\ loops' \in Seq(Loop) /\ DOMAIN loops' = DOMAIN loops
         /\ g # NoLoop => loops'[g] = [loops[g] EXCEPT !.told = w]
         /\ \A h \in DOMAIN loops : h # g => loops'[h] = loops[h]
<1>1. CASE g = NoLoop
  <2>1. loops' = loops
    BY <1>1 DEF Tell
  <2> QED BY <1>1, <2>1
<1>2. CASE g # NoLoop
  <2>1. DOMAIN loops = 1..Len(loops) /\ g \in 1..Len(loops) /\ loops[g] \in Loop
    BY <1>2
  <2>2. [loops[g] EXCEPT !.told = w] \in Loop
    BY <2>1 DEF Loop
  <2>3. loops' = [loops EXCEPT ![g] = [loops[g] EXCEPT !.told = w]]
    BY <1>2 DEF Tell
  <2>4. loops' \in Seq(Loop) /\ DOMAIN loops' = DOMAIN loops
    BY <2>1, <2>2, <2>3, ExceptSeq
  <2> QED BY <2>3, <2>4
<1> QED BY <1>1, <1>2

LEMMA SpawnFacts ==
  ASSUME loops \in Seq(Loop), NEW c \in Cmd, loops' = Append(loops, NewLoop(c))
  PROVE  /\ loops' \in Seq(Loop) /\ DOMAIN loops' = DOMAIN loops \cup {Len(loops) + 1}
         /\ Len(loops) + 1 \notin DOMAIN loops /\ Len(loops) + 1 \in Nat \ {0}
         /\ loops'[Len(loops) + 1] = NewLoop(c)
         /\ \A h \in DOMAIN loops : loops'[h] = loops[h]
<1>1. NewLoop(c) \in Loop
  BY DEF NewLoop, Loop, Cmd
<1>2. DOMAIN loops = 1..Len(loops) /\ Len(loops) \in Nat
  OBVIOUS
<1> DEFINE l == NewLoop(c)
<1> HIDE DEF l
<1>3. /\ Append(loops, l) \in Seq(Loop) /\ DOMAIN Append(loops, l) = 1..(Len(loops) + 1)
      /\ Append(loops, l)[Len(loops) + 1] = l
      /\ \A h \in 1..Len(loops) : Append(loops, l)[h] = loops[h]
  BY <1>1 DEF l
<1> QED BY <1>2, <1>3 DEF l

(* What updating a row changes.                                            *)
LEMMA UpdateFacts ==
  ASSUME RowTypes, NEW p \in Pairs, NEW new, HasRow(p) => new \in Row, Update(p, new)
  PROVE  /\ RowTypes'
         /\ \A q \in Pairs : q # p => rows'[q] = rows[q]
         /\ rows'[p] = IF HasRow(p) THEN new ELSE NoRow
<1>1. CASE HasRow(p)
  BY <1>1 DEF Update, RowTypes
<1>2. CASE ~HasRow(p)
  BY <1>2 DEF Update, RowTypes, HasRow
<1> QED BY <1>1, <1>2

(* Loops are only ever added, keep their pairings, and are told to end for *)
(* good; none is revived.                                                  *)
LoopsFollow ==
  \A g \in DOMAIN loops :
    /\ g \in DOMAIN loops' /\ loops'[g].pair = loops[g].pair
    /\ Stopped(g) => loops'[g].told = loops[g].told
    /\ loops'[g].at # "ended" => loops[g].at # "ended"

HandlesUntold == \A p \in Pairs : handles[p] # NoLoop => ~Stopped(handles[p])

-----------------------------------------------------------------------------
(* The dispatcher's steps                                                  *)

LEMMA NextCommand ==
  ASSUME UiTypes, cmds # <<>>
  PROVE  /\ Head(cmds) \in Cmd /\ Head(cmds).pair \in Pairs
         /\ Tail(cmds) \in Seq(Cmd) /\ Len(Tail(cmds)) <= CmdCap
<1>1. Head(cmds) \in Cmd /\ Tail(cmds) \in Seq(Cmd) /\ Len(Tail(cmds)) = Len(cmds) - 1
      /\ Len(cmds) \in Nat
  BY HeadTailProperties DEF UiTypes
<1> QED BY <1>1, BoundAssumption DEF UiTypes, Cmd

(* Taking a command out: the pairing's loop, if it has one, is aborted.    *)
LEMMA TakeMoves ==
  ASSUME TypeOK, TakeStartOrDelete
  PROVE  \E c \in Cmd :
    /\ c.pair \in Pairs /\ worker = Idle /\ worker' = Joining(c, handles[c.pair])
    /\ handles[c.pair] \in Nat /\ handles' = [handles EXCEPT ![c.pair] = NoLoop]
    /\ loops' \in Seq(Loop) /\ DOMAIN loops' = DOMAIN loops
    /\ handles[c.pair] # NoLoop =>
         loops'[handles[c.pair]] = [loops[handles[c.pair]] EXCEPT !.told = "abort"]
    /\ \A h \in DOMAIN loops : h # handles[c.pair] => loops'[h] = loops[h]
    /\ UiTypes' /\ rows' = rows
<1>t. UiTypes /\ HandleTypes /\ loops \in Seq(Loop)
  BY TypeParts
<1>1. /\ worker = Idle /\ cmds # <<>> /\ Replace(Head(cmds)) /\ cmds' = Tail(cmds)
      /\ UNCHANGED <<clicks, rows>>
  BY DEF TakeStartOrDelete, Takes
<1>2. Head(cmds).pair \in Pairs /\ UiTypes'
  BY <1>t, <1>1, NextCommand DEF UiTypes
<1>3. PICK c \in Cmd : c = Head(cmds) /\ c.pair \in Pairs
  BY <1>t, <1>1, <1>2, NextCommand
<1>4. handles[c.pair] \in DOMAIN loops \cup {NoLoop} /\ handles[c.pair] \in Nat
  BY <1>t, <1>3 DEF HandleTypes
<1>5. loops' = Tell(handles[c.pair], "abort") /\ handles' = [handles EXCEPT ![c.pair] = NoLoop]
      /\ worker' = Joining(c, handles[c.pair])
  BY <1>1, <1>3 DEF Replace
<1>6. /\ loops' \in Seq(Loop) /\ DOMAIN loops' = DOMAIN loops
      /\ handles[c.pair] # NoLoop =>
           loops'[handles[c.pair]] = [loops[handles[c.pair]] EXCEPT !.told = "abort"]
      /\ \A h \in DOMAIN loops : h # handles[c.pair] => loops'[h] = loops[h]
  BY <1>t, <1>4, <1>5, TellFacts
<1> QED BY <1>1, <1>2, <1>3, <1>4, <1>5, <1>6

(* Stop: the pairing's loop, if it has one, is let go.                     *)
LEMMA StopMoves ==
  ASSUME TypeOK, Stop
  PROVE  \E p \in Pairs :
    /\ worker = Idle /\ worker' = worker
    /\ handles[p] \in Nat /\ handles' = [handles EXCEPT ![p] = NoLoop]
    /\ loops' \in Seq(Loop) /\ DOMAIN loops' = DOMAIN loops
    /\ handles[p] # NoLoop => loops'[handles[p]] = [loops[handles[p]] EXCEPT !.told = "stop"]
    /\ \A h \in DOMAIN loops : h # handles[p] => loops'[h] = loops[h]
    /\ UiTypes' /\ RowTypes' /\ \A q \in Pairs : q # p => rows'[q] = rows[q]
    /\ ~rows'[p].running /\ (rows'[p] # NoRow <=> HasRow(p)) /\ rows'[p].phase = rows[p].phase
    /\ rows'[p].macs = rows[p].macs
<1>t. UiTypes /\ HandleTypes /\ loops \in Seq(Loop) /\ RowTypes
  BY TypeParts
<1>1. /\ worker = Idle /\ cmds # <<>> /\ cmds' = Tail(cmds) /\ UNCHANGED <<clicks, worker>>
  BY DEF Stop, Takes
<1>2. Head(cmds).pair \in Pairs /\ UiTypes'
  BY <1>t, <1>1, NextCommand DEF UiTypes
<1>3. PICK p \in Pairs : p = Head(cmds).pair
  BY <1>2
<1>4. handles[p] \in DOMAIN loops \cup {NoLoop} /\ handles[p] \in Nat
  BY <1>t DEF HandleTypes
<1>5. loops' = Tell(handles[p], "stop") /\ handles' = [handles EXCEPT ![p] = NoLoop]
      /\ Update(p, [rows[p] EXCEPT !.running = FALSE])
  BY <1>3 DEF Stop
<1>6. /\ loops' \in Seq(Loop) /\ DOMAIN loops' = DOMAIN loops
      /\ handles[p] # NoLoop => loops'[handles[p]] = [loops[handles[p]] EXCEPT !.told = "stop"]
      /\ \A h \in DOMAIN loops : h # handles[p] => loops'[h] = loops[h]
  BY <1>t, <1>4, <1>5, TellFacts
<1>7. /\ RowTypes' /\ \A q \in Pairs : q # p => rows'[q] = rows[q]
      /\ ~rows'[p].running /\ (rows'[p] # NoRow <=> HasRow(p)) /\ rows'[p].phase = rows[p].phase
      /\ rows'[p].macs = rows[p].macs
  <2> DEFINE new == [rows[p] EXCEPT !.running = FALSE]
  <2>1. HasRow(p) => /\ rows[p] \in Row /\ new \in Row /\ new.running = FALSE
                     /\ new.phase = rows[p].phase /\ new.macs = rows[p].macs
    BY <1>t DEF RowTypes, HasRow, Row
  <2>2. Update(p, new)
    BY <1>5
  <2> HIDE DEF new
  <2>3. /\ RowTypes' /\ \A q \in Pairs : q # p => rows'[q] = rows[q]
        /\ rows'[p] = IF HasRow(p) THEN new ELSE NoRow
    BY <1>t, <2>1, <2>2, UpdateFacts
  <2> QED BY <2>1, <2>3, RowFacts DEF HasRow
<1> QED BY <1>1, <1>2, <1>4, <1>5, <1>6, <1>7

(* Starting the loop of the command at hand, whose row runs from then on.  *)
LEMMA StartMoves ==
  ASSUME TypeOK, StartLoop
  PROVE  \E c \in Cmd, n \in Nat \ {0} :
    /\ worker # Idle /\ worker.cmd = c /\ worker' = Idle
    /\ worker.old # NoLoop => ~Alive(worker.old)
    /\ c.pair \in Pairs /\ handles' = [handles EXCEPT ![c.pair] = n]
    /\ loops' \in Seq(Loop) /\ DOMAIN loops' = DOMAIN loops \cup {n} /\ n \notin DOMAIN loops
    /\ \A h \in DOMAIN loops : loops'[h] = loops[h]
    /\ loops'[n] = NewLoop(c)
    /\ RowTypes' /\ \A q \in Pairs : q # c.pair => rows'[q] = rows[q]
    /\ rows'[c.pair] \in Row /\ rows'[c.pair].running /\ UNCHANGED <<clicks, cmds>>
<1>t. WorkerTypes /\ loops \in Seq(Loop) /\ RowTypes
  BY TypeParts
<1>1. worker # Idle /\ (worker.old # NoLoop => ~Alive(worker.old))
  BY DEF StartLoop, Joined
<1>2. PICK c \in Cmd : c = worker.cmd /\ c.pair \in Pairs /\ c.method \in Methods
  BY <1>t, <1>1 DEF WorkerTypes, Cmd
<1>3. /\ loops' = Append(loops, NewLoop(c)) /\ handles' = [handles EXCEPT ![c.pair] = Len(loops) + 1]
      /\ worker' = Idle /\ UNCHANGED <<clicks, cmds>>
      /\ rows' = [rows EXCEPT ![c.pair] =
                    IF HasRow(c.pair) THEN [rows[c.pair] EXCEPT !.running = TRUE] ELSE NewRow(c.method)]
  BY <1>2 DEF StartLoop, uiVars
<1>4. PICK n \in Nat \ {0} : n = Len(loops) + 1
  BY <1>t, <1>3, SpawnFacts
<1>5. /\ loops' \in Seq(Loop) /\ DOMAIN loops' = DOMAIN loops \cup {n} /\ n \notin DOMAIN loops
      /\ loops'[n] = NewLoop(c)
      /\ \A h \in DOMAIN loops : loops'[h] = loops[h]
  BY <1>t, <1>3, <1>4, SpawnFacts
<1>6. /\ RowTypes' /\ \A q \in Pairs : q # c.pair => rows'[q] = rows[q]
      /\ rows'[c.pair] \in Row /\ rows'[c.pair].running
  <2> DEFINE new == IF HasRow(c.pair) THEN [rows[c.pair] EXCEPT !.running = TRUE] ELSE NewRow(c.method)
  <2>1. new \in Row /\ new.running = TRUE
    <3>1. CASE HasRow(c.pair)
      BY <1>t, <1>2, <3>1 DEF RowTypes, HasRow, Row
    <3>2. CASE ~HasRow(c.pair)
      BY <1>2, <3>2, RowFacts
    <3> QED BY <3>1, <3>2
  <2>2. rows' = [rows EXCEPT ![c.pair] = new]
    BY <1>3
  <2> HIDE DEF new
  <2> QED BY <1>t, <1>2, <2>1, <2>2 DEF RowTypes
<1> QED BY <1>1, <1>2, <1>3, <1>4, <1>5, <1>6

-----------------------------------------------------------------------------
(* A loop's steps                                                          *)

(* The phase that goes with where a loop is.                               *)
PhaseFits(at, row) ==
  /\ at = "asking" => row.phase = "CheckingDuplicate"
  /\ at = "pinging" => row.phase = "InFlight"
  /\ at = "sleeping" => row.phase \in {"Success", "Failed"}
  /\ at = "resting" => row.phase = "Duplicate" /\ row.macs

(* Moving a loop on.                                                       *)
LoopBecomes(g, l) ==
  /\ l \in Loop /\ l.pair = loops[g].pair /\ l.told = loops[g].told
  /\ loops' = [loops EXCEPT ![g] = l]

(* Showing something of the round: every row keeps its mark.               *)
Shows(p, at) ==
  /\ RowTypes' /\ \A q \in Pairs : q # p => rows'[q] = rows[q]
  /\ ~HasRow(p) => rows'[p] = NoRow
  /\ HasRow(p) => rows'[p] \in Row /\ rows'[p].running = rows[p].running /\ PhaseFits(at, rows'[p])

LEMMA ShowFacts ==
  ASSUME RowTypes, NEW p \in Pairs, NEW new, NEW at, Update(p, new),
         HasRow(p) => new \in Row /\ new.running = rows[p].running /\ PhaseFits(at, new)
  PROVE  Shows(p, at)
  BY UpdateFacts DEF Shows

LEMMA LandFacts ==
  ASSUME TypeOK, NEW g \in DOMAIN loops, NEW got, NEW new,
         NEW at \in {"pinging", "sleeping", "resting"}, Land(g, got, at, new),
         HasRow(loops[g].pair) =>
           new \in Row /\ new.running = RowOf(g).running /\ PhaseFits(at, new)
  PROVE  /\ \E l \in Loop : LoopBecomes(g, l) /\ l.at = at
         /\ Alive(g) /\ Shows(loops[g].pair, at)
         /\ UNCHANGED <<uiVars, worker, handles>>
<1>1. loops[g] \in Loop /\ loops[g].at = "landing" /\ loops[g].pair \in Pairs /\ RowTypes
  BY LoopFacts, TypeParts DEF Land
<1>2. DEFINE l == [loops[g] EXCEPT !.at = at, !.got = "none"]
<1>3. l \in Loop /\ l.pair = loops[g].pair /\ l.told = loops[g].told /\ l.at = at
  BY <1>1 DEF Loop
<1>4. loops' = [loops EXCEPT ![g] = l]
  BY DEF Land
<1>5. Shows(loops[g].pair, at)
  BY <1>1, ShowFacts DEF Land, Show, RowOf
<1> HIDE DEF l
<1> QED BY <1>1, <1>3, <1>4, <1>5 DEF Land, Alive, LoopBecomes

LEMMA LoopMoves ==
  ASSUME TypeOK, NEW g \in DOMAIN loops, LoopStep(g)
  PROVE  /\ \E l \in Loop :
              /\ LoopBecomes(g, l) /\ (l.at = "ended" => Stopped(g))
              /\ Shows(loops[g].pair, l.at)
         /\ Alive(g)
         /\ UNCHANGED <<uiVars, worker, handles>>
<1>t. /\ loops \in Seq(Loop) /\ RowTypes /\ loops[g] \in Loop /\ loops[g].pair \in Pairs
      /\ loops[g].done + 1 \in Nat
  BY TypeParts, LoopFacts DEF Loop
<1> DEFINE p == loops[g].pair
           row == rows[p]
<1>r. HasRow(p) => row \in Row
  BY <1>t DEF RowTypes, HasRow
<1>m. ASSUME NEW at \in {"top", "ended"}, Move(g, at)
      PROVE  LoopBecomes(g, [loops[g] EXCEPT !.at = at]) /\ [loops[g] EXCEPT !.at = at].at = at
  BY <1>t, <1>m DEF Move, LoopBecomes, Loop
<1>u. ASSUME rows' = rows PROVE \A at \in {"top", "landing", "ended"} : Shows(p, at)
  BY <1>t, <1>r, <1>u DEF Shows, RowTypes, PhaseFits, HasRow
<1>1. CASE BeginRound(g)
  <2>1. CASE FlagSeen(g)
    <3>1. loops[g].at = "top" /\ Move(g, "ended") /\ rows' = rows /\ UNCHANGED <<uiVars, worker, handles>>
      BY <1>1, <2>1 DEF BeginRound
    <3> QED BY <1>m, <1>u, <2>1, <3>1 DEF FlagSeen, Alive, LoopBecomes
  <2>2. CASE ~FlagSeen(g)
    <3> DEFINE l == [loops[g] EXCEPT !.at = "asking", !.done = loops[g].done + 1]
               new == [row EXCEPT !.phase = "CheckingDuplicate"]
    <3>1. /\ loops[g].at = "top" /\ loops' = [loops EXCEPT ![g] = l] /\ Update(p, new)
          /\ UNCHANGED <<uiVars, worker, handles>>
      BY <1>1, <2>2 DEF BeginRound, Show, RowOf
    <3>2. LoopBecomes(g, l) /\ l.at = "asking"
      BY <1>t, <3>1 DEF LoopBecomes, Loop
    <3>3. HasRow(p) => new \in Row /\ new.running = row.running /\ PhaseFits("asking", new)
      BY <1>r DEF Row, PhaseFits
    <3>4. Shows(p, "asking")
      BY <1>t, <3>1, <3>3, ShowFacts
    <3> HIDE DEF l, new
    <3> QED BY <3>1, <3>2, <3>4 DEF Alive, LoopBecomes
  <2> QED BY <2>1, <2>2
<1>2. ASSUME NEW at \in {"asking", "pinging"},
             NEW o \in {"clear", "duplicate", "unknown", "reply", "nothing"}, Answered(g, at, o)
      PROVE  /\ \E l \in Loop : /\ LoopBecomes(g, l) /\ (l.at = "ended" => Stopped(g))
                                /\ Shows(loops[g].pair, l.at)
             /\ Alive(g) /\ UNCHANGED <<uiVars, worker, handles>>
  <2> DEFINE next == IF FlagSeen(g) THEN "ended" ELSE "landing"
             got == IF FlagSeen(g) THEN "none" ELSE o
             l == [loops[g] EXCEPT !.at = next, !.got = got]
  <2>1. /\ loops[g].at = at /\ loops' = [loops EXCEPT ![g] = l] /\ rows' = rows
        /\ UNCHANGED <<uiVars, worker, handles>>
    BY <1>2 DEF Answered
  <2>2. /\ next \in {"ended", "landing"} /\ got \in {"none", "clear", "duplicate", "unknown", "reply", "nothing"}
        /\ (next = "ended" => Stopped(g))
    BY DEF FlagSeen
  <2> HIDE DEF next, got
  <2>3. LoopBecomes(g, l) /\ l.at = next
    BY <1>t, <2>1, <2>2 DEF LoopBecomes, Loop
  <2>4. Shows(p, next)
    BY <1>u, <2>1, <2>2
  <2> HIDE DEF l
  <2> QED BY <2>1, <2>2, <2>3, <2>4 DEF Alive, LoopBecomes
<1>3. CASE Duplicate(g)
  <2> DEFINE new == [row EXCEPT !.macs = TRUE, !.phase = "Duplicate", !.last = "error"]
  <2>1. HasRow(p) => new \in Row /\ new.running = row.running /\ PhaseFits("resting", new)
    BY <1>r DEF Row, PhaseFits
  <2>2. Land(g, "duplicate", "resting", new)
    BY <1>3 DEF Duplicate, RowOf
  <2> HIDE DEF new
  <2> QED BY <2>1, <2>2, LandFacts DEF RowOf
<1>4. CASE Ping(g)
  <2>1. CASE Land(g, "clear", "pinging", [RowOf(g) EXCEPT !.macs = FALSE, !.phase = "InFlight"])
    <3> DEFINE new == [row EXCEPT !.macs = FALSE, !.phase = "InFlight"]
    <3>1. HasRow(p) => new \in Row /\ new.running = row.running /\ PhaseFits("pinging", new)
      BY <1>r DEF Row, PhaseFits
    <3>2. Land(g, "clear", "pinging", new)
      BY <2>1 DEF RowOf
    <3> HIDE DEF new
    <3> QED BY <3>1, <3>2, LandFacts DEF RowOf
  <2>2. CASE Land(g, "unknown", "pinging", [RowOf(g) EXCEPT !.phase = "InFlight"])
    <3> DEFINE new == [row EXCEPT !.phase = "InFlight"]
    <3>1. HasRow(p) => new \in Row /\ new.running = row.running /\ PhaseFits("pinging", new)
      BY <1>r DEF Row, PhaseFits
    <3>2. Land(g, "unknown", "pinging", new)
      BY <2>2 DEF RowOf
    <3> HIDE DEF new
    <3> QED BY <3>1, <3>2, LandFacts DEF RowOf
  <2> QED BY <1>4, <2>1, <2>2 DEF Ping
<1>5. CASE Pinged(g)
  <2>1. CASE Land(g, "reply", "sleeping", [RowOf(g) EXCEPT !.phase = "Success", !.last = "success"])
    <3> DEFINE new == [row EXCEPT !.phase = "Success", !.last = "success"]
    <3>1. HasRow(p) => new \in Row /\ new.running = row.running /\ PhaseFits("sleeping", new)
      BY <1>r DEF Row, PhaseFits
    <3>2. Land(g, "reply", "sleeping", new)
      BY <2>1 DEF RowOf
    <3> HIDE DEF new
    <3> QED BY <3>1, <3>2, LandFacts DEF RowOf
  <2>2. CASE Land(g, "nothing", "sleeping", [RowOf(g) EXCEPT !.phase = "Failed", !.last = "error"])
    <3> DEFINE new == [row EXCEPT !.phase = "Failed", !.last = "error"]
    <3>1. HasRow(p) => new \in Row /\ new.running = row.running /\ PhaseFits("sleeping", new)
      BY <1>r DEF Row, PhaseFits
    <3>2. Land(g, "nothing", "sleeping", new)
      BY <2>2 DEF RowOf
    <3> HIDE DEF new
    <3> QED BY <3>1, <3>2, LandFacts DEF RowOf
  <2> QED BY <1>5, <2>1, <2>2 DEF Pinged
<1>6. CASE WakeUp(g)
  <2>1. /\ Move(g, "top") /\ loops[g].at # "ended" /\ UNCHANGED <<uiVars, worker, handles>>
        /\ Update(p, [row EXCEPT !.phase = "Idle"]) \/ rows' = rows
    BY <1>6 DEF WakeUp, Show, RowOf
  <2>2. Shows(p, "top")
    <3>1. CASE Update(p, [row EXCEPT !.phase = "Idle"])
      <4> DEFINE new == [row EXCEPT !.phase = "Idle"]
      <4>1. HasRow(p) => new \in Row /\ new.running = row.running /\ PhaseFits("top", new)
        BY <1>r DEF Row, PhaseFits
      <4>2. Update(p, new)
        BY <3>1
      <4> HIDE DEF new
      <4> QED BY <1>t, <4>1, <4>2, ShowFacts
    <3> QED BY <1>u, <2>1, <3>1
  <2> QED BY <1>m, <2>1, <2>2 DEF Alive, LoopBecomes
<1>7. CASE Cancelled(g)
  <2>1. /\ Move(g, "ended") /\ loops[g].at # "ended" /\ Stopped(g) /\ rows' = rows
        /\ UNCHANGED <<uiVars, worker, handles>>
    BY <1>7 DEF Cancelled, Stopped
  <2> QED BY <1>m, <1>u, <2>1 DEF Alive, LoopBecomes
<1> QED BY <1>1, <1>2, <1>3, <1>4, <1>5, <1>6, <1>7 DEF LoopStep, OwnStep, ManagerAnswers

-----------------------------------------------------------------------------
LEMMA InitType == Init => TypeOK
<1> SUFFICES ASSUME Init PROVE TypeOK
  OBVIOUS
<1>1. loops \in Seq(Loop) /\ UiTypes
  BY BoundAssumption DEF Init, UiTypes
<1>2. WorkerTypes /\ HandleTypes /\ RowTypes
  BY DEF Init, WorkerTypes, HandleTypes, RowTypes, NoLoop
<1> QED BY <1>1, <1>2, TypeParts

LEMMA GiveType ==
  ASSUME TypeOK, NEW c \in Cmd, Give(c) PROVE TypeOK'
<1>1. UiTypes'
  <2>1. Len(cmds) \in Nat /\ CmdCap \in Nat /\ Append(cmds, c) \in Seq(Cmd)
        /\ Len(Append(cmds, c)) = Len(cmds) + 1
    BY BoundAssumption DEF TypeOK
  <2> QED BY <2>1 DEF TypeOK, Give, UiTypes
<1>2. WorkerTypes' /\ HandleTypes' /\ RowTypes' /\ loops' \in Seq(Loop)
  BY DEF TypeOK, Give, WorkerTypes, HandleTypes, RowTypes
<1> QED BY <1>1, <1>2, TypePartsNext

LEMMA NamesKept ==
  ASSUME \A g \in DOMAIN loops : g \in DOMAIN loops' /\ loops'[g].pair = loops[g].pair
  PROVE  /\ WorkerTypes /\ worker' = worker => WorkerTypes'
         /\ HandleTypes /\ handles' = handles => HandleTypes'
  BY DEF WorkerTypes, HandleTypes

(* The steps of a loop, as steps of the table of loops.                    *)
LEMMA StepFacts ==
  ASSUME TypeOK, NEW g \in DOMAIN loops, NEW l \in Loop, LoopBecomes(g, l)
  PROVE  /\ loops' \in Seq(Loop) /\ DOMAIN loops' = DOMAIN loops /\ loops'[g] = l
         /\ \A h \in DOMAIN loops : h # g => loops'[h] = loops[h]
         /\ \A h \in DOMAIN loops : loops'[h].pair = loops[h].pair /\ loops'[h].told = loops[h].told
<1>1. loops \in Seq(Loop) /\ g \in 1..Len(loops) /\ loops' = [loops EXCEPT ![g] = l]
  BY TypeParts DEF LoopBecomes
<1>2. loops' \in Seq(Loop) /\ DOMAIN loops' = DOMAIN loops
  BY <1>1, ExceptSeq
<1> QED BY <1>1, <1>2 DEF LoopBecomes

(* No step breaks a type, nor overfills the channel.                       *)
LEMMA NextType == TypeOK /\ [Next]_vars => TypeOK'
<1> SUFFICES ASSUME TypeOK, [Next]_vars PROVE TypeOK'
  OBVIOUS
<1>t. UiTypes /\ WorkerTypes /\ HandleTypes /\ loops \in Seq(Loop) /\ RowTypes
  BY TypeParts
<1>1. ASSUME NEW p \in Pairs, NEW m \in Methods, Submit(p, m) PROVE TypeOK'
  <2>1. Command("Start", p, m) \in Cmd
    BY DEF Command, Cmd
  <2> QED BY <1>1, <2>1, GiveType DEF Submit
<1>2. ASSUME NEW p \in Pairs, Toggle(p) \/ Delete(p) PROVE TypeOK'
  <2>1. rows[p].method \in Methods
    BY <1>t, <1>2 DEF Toggle, Delete, RowTypes, HasRow, Row
  <2>2. \A k \in {"Start", "Stop", "Delete"} : Command(k, p, rows[p].method) \in Cmd
    BY <2>1 DEF Command, Cmd
  <2> QED BY <1>2, <2>2, GiveType DEF Toggle, Delete
<1>3. ASSUME TakeStartOrDelete PROVE TypeOK'
  <2>1. PICK c \in Cmd :
          /\ c.pair \in Pairs /\ worker' = Joining(c, handles[c.pair])
          /\ handles[c.pair] \in Nat /\ handles' = [handles EXCEPT ![c.pair] = NoLoop]
          /\ loops' \in Seq(Loop) /\ DOMAIN loops' = DOMAIN loops
          /\ handles[c.pair] # NoLoop =>
               loops'[handles[c.pair]] = [loops[handles[c.pair]] EXCEPT !.told = "abort"]
          /\ \A h \in DOMAIN loops : h # handles[c.pair] => loops'[h] = loops[h]
          /\ UiTypes' /\ rows' = rows
    BY <1>3, TakeMoves
  <2>2. \A h \in DOMAIN loops : loops'[h].pair = loops[h].pair
    BY <2>1, LoopFacts DEF Loop
  <2>3. WorkerTypes'
    <3>1. handles[c.pair] # NoLoop =>
            handles[c.pair] \in DOMAIN loops /\ loops[handles[c.pair]].pair = c.pair
      BY <1>t, <2>1 DEF HandleTypes
    <3> QED BY <2>1, <2>2, <3>1, WorkerFacts DEF WorkerTypes
  <2>4. HandleTypes' /\ RowTypes'
    BY <1>t, <2>1, <2>2 DEF HandleTypes, NoLoop, RowTypes
  <2> QED BY <2>1, <2>3, <2>4, TypePartsNext
<1>4. ASSUME Stop PROVE TypeOK'
  <2>1. PICK p \in Pairs :
          /\ worker' = worker /\ handles' = [handles EXCEPT ![p] = NoLoop]
          /\ loops' \in Seq(Loop) /\ DOMAIN loops' = DOMAIN loops
          /\ handles[p] # NoLoop => loops'[handles[p]] = [loops[handles[p]] EXCEPT !.told = "stop"]
          /\ \A h \in DOMAIN loops : h # handles[p] => loops'[h] = loops[h]
          /\ UiTypes' /\ RowTypes'
    BY <1>4, StopMoves
  <2>2. \A h \in DOMAIN loops : loops'[h].pair = loops[h].pair
    BY <2>1, LoopFacts DEF Loop
  <2>3. WorkerTypes'
    BY <1>t, <2>1, <2>2, NamesKept
  <2>4. HandleTypes'
    BY <1>t, <2>1, <2>2 DEF HandleTypes, NoLoop
  <2> QED BY <2>1, <2>3, <2>4, TypePartsNext
<1>5. ASSUME StartLoop PROVE TypeOK'
  <2>1. PICK c \in Cmd, n \in Nat \ {0} :
          /\ worker' = Idle /\ c.pair \in Pairs /\ handles' = [handles EXCEPT ![c.pair] = n]
          /\ loops' \in Seq(Loop) /\ DOMAIN loops' = DOMAIN loops \cup {n}
          /\ \A h \in DOMAIN loops : loops'[h] = loops[h]
          /\ loops'[n] = NewLoop(c) /\ RowTypes' /\ UNCHANGED <<clicks, cmds>>
    BY <1>5, StartMoves
  <2>2. \A h \in DOMAIN loops : h \in DOMAIN loops' /\ loops'[h].pair = loops[h].pair
    BY <2>1, LoopFacts
  <2>3. HandleTypes'
    BY <1>t, <2>1, <2>2 DEF HandleTypes, NoLoop, NewLoop
  <2>4. UiTypes' /\ WorkerTypes'
    BY <1>t, <2>1 DEF UiTypes, WorkerTypes
  <2> QED BY <2>1, <2>3, <2>4, TypePartsNext
<1>6. ASSUME RemoveRow PROVE TypeOK'
  <2>1. worker' = Idle /\ UNCHANGED <<clicks, cmds, handles, loops>>
        /\ rows' = [rows EXCEPT ![worker.cmd.pair] = NoRow]
    BY <1>6 DEF RemoveRow, uiVars
  <2>2. UiTypes' /\ WorkerTypes' /\ HandleTypes' /\ loops' \in Seq(Loop) /\ RowTypes'
    BY <1>t, <2>1 DEF UiTypes, WorkerTypes, HandleTypes, RowTypes
  <2> QED BY <2>2, TypePartsNext
<1>7. ASSUME NEW g \in DOMAIN loops, LoopStep(g) PROVE TypeOK'
  <2>1. PICK l \in Loop : LoopBecomes(g, l) /\ Shows(loops[g].pair, l.at)
    BY <1>7, LoopMoves
  <2>2. UNCHANGED <<uiVars, worker, handles>>
    BY <1>7, LoopMoves
  <2>3. loops' \in Seq(Loop) /\ \A h \in DOMAIN loops : h \in DOMAIN loops' /\ loops'[h].pair = loops[h].pair
    BY <2>1, StepFacts
  <2>4. UiTypes' /\ WorkerTypes' /\ HandleTypes' /\ RowTypes'
    BY <1>t, <2>1, <2>2, <2>3, NamesKept DEF UiTypes, uiVars, Shows
  <2> QED BY <2>3, <2>4, TypePartsNext
<1>8. CASE UNCHANGED vars
  BY <1>8 DEF TypeOK, vars, uiVars
<1> QED
  BY <1>1, <1>2, <1>3, <1>4, <1>5, <1>6, <1>7, <1>8 DEF Next, Dispatch

(* Every variable keeps to its type and the channel to its capacity;       *)
(* handles and joins name loops of their pairing.                          *)
THEOREM TypeCorrect == Spec => []TypeOK
  BY InitType, NextType, PTL DEF Spec

-----------------------------------------------------------------------------
(* Which loop goes on                                                      *)

(* A loop nobody told to stop is handled; no handle is of another loop;    *)
(* the dispatcher has taken out the handle of the pairing it is busy with, *)
(* and the only loop that is aborted and not yet over is the one it joins. *)
NoOrphan == \A g \in DOMAIN loops : Alive(g) /\ ~Stopped(g) => handles[loops[g].pair] = g
HandledAlive == \A p \in Pairs : handles[p] # NoLoop => Alive(handles[p])
HandleTaken == worker # Idle => handles[worker.cmd.pair] = NoLoop
AbortedJoined ==
  \A g \in DOMAIN loops : Alive(g) /\ loops[g].told = "abort" => worker # Idle /\ worker.old = g

LoopsInv == NoOrphan /\ HandlesUntold /\ HandledAlive /\ HandleTaken /\ AbortedJoined

(* So a row that runs is one whose pairing has a handle.                   *)
RowsInv ==
  \A p \in Pairs :
    (worker = Idle \/ worker.cmd.pair # p) => (rows[p].running <=> handles[p] # NoLoop)

(* A pairing none of whose loops was let go has at most one that is alive. *)
LEMMA OneAlive ==
  ASSUME TypeOK, LoopsInv, NEW g \in DOMAIN loops, NEW h \in DOMAIN loops, Alive(g), Alive(h),
         loops[h].pair = loops[g].pair, NeverLetGo(loops[g].pair)
  PROVE  g = h
<1>1. loops[g].told \in {"no", "abort"} /\ loops[h].told \in {"no", "abort"}
  BY LoopFacts DEF NeverLetGo
<1>2. /\ loops[g].told = "no" => handles[loops[g].pair] = g
      /\ loops[h].told = "no" => handles[loops[g].pair] = h
  BY DEF LoopsInv, NoOrphan, Stopped
<1>3. \A k \in DOMAIN loops : Alive(k) /\ loops[k].told = "abort" =>
        worker.old = k /\ handles[loops[k].pair] = NoLoop
  <2>1. WorkerTypes
    BY TypeParts
  <2> QED BY <2>1, LoopFacts DEF LoopsInv, AbortedJoined, HandleTaken, WorkerTypes
<1> QED BY <1>1, <1>2, <1>3, LoopFacts

LEMMA LoopsInit == Init => LoopsInv /\ RowsInv
  BY RowFacts DEF Init, LoopsInv, NoOrphan, HandlesUntold, HandledAlive, HandleTaken, AbortedJoined,
                  RowsInv, NoLoop

(* Which loop goes on, which handle has it and which row runs, step by     *)
(* step.                                                                   *)
LEMMA LoopsNext == TypeOK /\ LoopsInv /\ RowsInv /\ [Next]_vars => LoopsInv' /\ RowsInv' /\ LoopsFollow
<1> SUFFICES ASSUME TypeOK, LoopsInv, RowsInv, [Next]_vars PROVE LoopsInv' /\ RowsInv' /\ LoopsFollow
  OBVIOUS
<1>t. WorkerTypes /\ HandleTypes /\ loops \in Seq(Loop) /\ RowTypes
  BY TypeParts
<1>i. NoOrphan /\ HandlesUntold /\ HandledAlive /\ HandleTaken /\ AbortedJoined
  BY DEF LoopsInv
<1>1. CASE UNCHANGED <<worker, handles, loops, rows>>
  <2>1. NoOrphan' /\ HandlesUntold' /\ HandledAlive' /\ HandleTaken' /\ AbortedJoined'
    BY <1>1, <1>i DEF NoOrphan, HandlesUntold, HandledAlive, HandleTaken, AbortedJoined, Alive, Stopped
  <2> QED BY <1>1, <2>1 DEF RowsInv, LoopsInv, LoopsFollow
<1>2. CASE TakeStartOrDelete
  <2>1. PICK c \in Cmd :
          /\ c.pair \in Pairs /\ worker = Idle /\ worker' = Joining(c, handles[c.pair])
          /\ handles[c.pair] \in Nat /\ handles' = [handles EXCEPT ![c.pair] = NoLoop]
          /\ DOMAIN loops' = DOMAIN loops
          /\ handles[c.pair] # NoLoop =>
               loops'[handles[c.pair]] = [loops[handles[c.pair]] EXCEPT !.told = "abort"]
          /\ \A h \in DOMAIN loops : h # handles[c.pair] => loops'[h] = loops[h]
          /\ rows' = rows
    BY <1>2, TakeMoves
  <2> DEFINE g == handles[c.pair]
  <2>2. g # NoLoop => /\ g \in DOMAIN loops /\ loops[g].pair = c.pair
                      /\ loops'[g].told = "abort" /\ loops'[g].at = loops[g].at
                      /\ loops'[g].pair = loops[g].pair
    <3>1. g # NoLoop => g \in DOMAIN loops /\ loops[g].pair = c.pair
      BY <1>t, <2>1 DEF HandleTypes
    <3>2. g # NoLoop => loops[g] \in Loop
      BY <3>1, LoopFacts
    <3> QED BY <2>1, <3>1, <3>2 DEF Loop
  <2>3. worker' # Idle /\ worker'.cmd = c /\ worker'.old = g
    BY <2>1, WorkerFacts
  <2>4. NoOrphan'
    BY <1>i, <2>1, <2>2, LoopFacts DEF NoOrphan, Alive, Stopped, HandleTypes
  <2>5. HandlesUntold' /\ HandledAlive'
    BY <1>i, <1>t, <2>1, <2>2 DEF HandlesUntold, HandledAlive, HandleTypes, Stopped, Alive
  <2>6. HandleTaken'
    BY <1>t, <2>1, <2>3 DEF HandleTaken, HandleTypes
  <2>7. AbortedJoined'
    BY <1>i, <2>1, <2>2, <2>3 DEF AbortedJoined, Alive
  <2>8. RowsInv'
    BY <1>t, <2>1, <2>3 DEF RowsInv, HandleTypes
  <2>9. LoopsFollow
    BY <1>i, <2>1, <2>2, LoopFacts DEF LoopsFollow, HandlesUntold
  <2> QED BY <2>4, <2>5, <2>6, <2>7, <2>8, <2>9 DEF LoopsInv
<1>3. CASE Stop
  <2>1. PICK p \in Pairs :
          /\ worker = Idle /\ worker' = worker
          /\ handles[p] \in Nat /\ handles' = [handles EXCEPT ![p] = NoLoop]
          /\ DOMAIN loops' = DOMAIN loops
          /\ handles[p] # NoLoop => loops'[handles[p]] = [loops[handles[p]] EXCEPT !.told = "stop"]
          /\ \A h \in DOMAIN loops : h # handles[p] => loops'[h] = loops[h]
          /\ \A q \in Pairs : q # p => rows'[q] = rows[q]
          /\ ~rows'[p].running
    BY <1>3, StopMoves
  <2> DEFINE g == handles[p]
  <2>2. g # NoLoop => /\ g \in DOMAIN loops /\ loops[g].pair = p
                      /\ loops'[g].told = "stop" /\ loops'[g].at = loops[g].at
                      /\ loops'[g].pair = loops[g].pair
    BY <1>t, <2>1, LoopFacts DEF HandleTypes, Loop
  <2>4. NoOrphan'
    BY <1>i, <2>1, <2>2, LoopFacts DEF NoOrphan, Alive, Stopped, HandleTypes
  <2>5. HandlesUntold' /\ HandledAlive'
    BY <1>i, <1>t, <2>1, <2>2 DEF HandlesUntold, HandledAlive, HandleTypes, Stopped, Alive
  <2>6. HandleTaken' /\ AbortedJoined'
    BY <1>i, <2>1, <2>2, LoopFacts DEF HandleTaken, AbortedJoined, Alive
  <2>8. RowsInv'
    BY <1>t, <2>1 DEF RowsInv, HandleTypes
  <2>9. LoopsFollow
    BY <1>i, <2>1, <2>2, LoopFacts DEF LoopsFollow, HandlesUntold
  <2> QED BY <2>4, <2>5, <2>6, <2>8, <2>9 DEF LoopsInv
<1>4. CASE StartLoop
  <2>1. PICK c \in Cmd, n \in Nat \ {0} :
          /\ worker # Idle /\ worker.cmd = c /\ worker' = Idle
          /\ worker.old # NoLoop => ~Alive(worker.old)
          /\ c.pair \in Pairs /\ handles' = [handles EXCEPT ![c.pair] = n]
          /\ DOMAIN loops' = DOMAIN loops \cup {n} /\ n \notin DOMAIN loops
          /\ \A h \in DOMAIN loops : loops'[h] = loops[h]
          /\ loops'[n] = NewLoop(c)
          /\ \A q \in Pairs : q # c.pair => rows'[q] = rows[q]
          /\ rows'[c.pair].running
    BY <1>4, StartMoves
  <2>2. loops'[n].pair = c.pair /\ loops'[n].told = "no" /\ loops'[n].at = "top" /\ n # NoLoop
    BY <2>1 DEF NewLoop, NoLoop
  <2>3. handles[c.pair] = NoLoop
    BY <1>i, <2>1 DEF HandleTaken
  <2>4. NoOrphan'
    BY <1>i, <1>t, <2>1, <2>2, <2>3, LoopFacts DEF NoOrphan, HandleTypes, Alive, Stopped
  <2>5. HandlesUntold' /\ HandledAlive'
    BY <1>i, <1>t, <2>1, <2>2 DEF HandlesUntold, HandledAlive, HandleTypes, Stopped, Alive
  <2>6. HandleTaken' /\ AbortedJoined'
    BY <1>i, <2>1, <2>2, LoopFacts DEF HandleTaken, AbortedJoined, Alive
  <2>7. RowsInv'
    BY <1>t, <2>1, <2>2 DEF RowsInv, HandleTypes
  <2>8. LoopsFollow
    BY <2>1, LoopFacts DEF LoopsFollow
  <2> QED BY <2>4, <2>5, <2>6, <2>7, <2>8 DEF LoopsInv
<1>5. CASE RemoveRow
  <2>1. /\ worker # Idle /\ worker' = Idle /\ UNCHANGED <<handles, loops>>
        /\ worker.old # NoLoop => ~Alive(worker.old)
        /\ rows' = [rows EXCEPT ![worker.cmd.pair] = NoRow]
    BY <1>5 DEF RemoveRow, Joined
  <2>2. NoOrphan' /\ HandlesUntold' /\ HandledAlive' /\ HandleTaken'
    BY <1>i, <2>1 DEF NoOrphan, HandlesUntold, HandledAlive, HandleTaken, Alive, Stopped
  <2>3. AbortedJoined'
    BY <1>i, <2>1, LoopFacts DEF AbortedJoined, Alive
  <2>4. RowsInv'
    BY <1>i, <1>t, <2>1, RowFacts DEF RowsInv, RowTypes, HandleTaken
  <2> QED BY <2>1, <2>2, <2>3, <2>4 DEF LoopsInv, LoopsFollow
<1>6. CASE \E g \in DOMAIN loops : LoopStep(g)
  <2>1. PICK g \in DOMAIN loops : LoopStep(g)
    BY <1>6
  <2>2. PICK l \in Loop :
          /\ LoopBecomes(g, l) /\ (l.at = "ended" => Stopped(g)) /\ Shows(loops[g].pair, l.at)
    BY <2>1, LoopMoves
  <2>3. Alive(g) /\ UNCHANGED <<worker, handles>>
    BY <2>1, LoopMoves
  <2>4. /\ DOMAIN loops' = DOMAIN loops /\ loops'[g] = l
        /\ \A h \in DOMAIN loops : h # g => loops'[h] = loops[h]
        /\ \A h \in DOMAIN loops : loops'[h].pair = loops[h].pair /\ loops'[h].told = loops[h].told
    BY <2>2, StepFacts
  <2>5. \A h \in DOMAIN loops : loops'[h].at # "ended" => loops[h].at # "ended"
    BY <2>3, <2>4 DEF Alive
  <2>6. NoOrphan' /\ HandleTaken' /\ AbortedJoined'
    BY <1>i, <2>3, <2>4, <2>5 DEF NoOrphan, HandleTaken, AbortedJoined, Alive, Stopped
  <2>7. HandlesUntold' /\ HandledAlive'
    BY <1>i, <1>t, <2>2, <2>3, <2>4 DEF HandlesUntold, HandledAlive, HandleTypes, Stopped, Alive
  <2>8. \A p \in Pairs : rows'[p].running = rows[p].running
    <3>1. PICK q \in Pairs : q = loops[g].pair
      BY LoopFacts
    <3> QED BY <2>2, <3>1, RowFacts DEF Shows, HasRow
  <2>9. RowsInv' /\ LoopsFollow
    BY <2>3, <2>4, <2>5, <2>8 DEF RowsInv, LoopsFollow
  <2> QED BY <2>6, <2>7, <2>9 DEF LoopsInv
<1>7. CASE UNCHANGED vars
  BY <1>1, <1>7 DEF vars
<1> QED
  BY <1>1, <1>2, <1>3, <1>4, <1>5, <1>6, <1>7 DEF Next, Dispatch, Submit, Toggle, Delete, Give

(* Between two commands a row runs exactly while its pairing has a loop    *)
(* that nobody told to stop, which is the one its handle controls.         *)
THEOREM RowsTellTheTruth == Spec => []RunningIsTrue
<1>1. TypeOK /\ LoopsInv /\ RowsInv => RunningIsTrue
  <2> SUFFICES ASSUME TypeOK, LoopsInv, RowsInv PROVE RunningIsTrue
    OBVIOUS
  <2>1. HandleTypes
    BY TypeParts
  <2>2. \A p \in Pairs : Runs(p) <=> handles[p] # NoLoop
    BY <2>1, LoopFacts DEF Runs, HandleTypes, LoopsInv, NoOrphan, HandlesUntold, HandledAlive
  <2> QED BY <2>2 DEF RunningIsTrue, LoopsInv, NoOrphan, RowsInv
<1>2. Init => TypeOK /\ LoopsInv /\ RowsInv
  BY InitType, LoopsInit
<1>3. TypeOK /\ LoopsInv /\ RowsInv /\ [Next]_vars => (TypeOK /\ LoopsInv /\ RowsInv)'
  BY NextType, LoopsNext
<1> QED BY <1>1, <1>2, <1>3, PTL DEF Spec

-----------------------------------------------------------------------------
(* What phase a row shows                                                  *)

(* Unless one of its loops was let go, a pairing with a loop that is alive *)
(* has a row, and the row shows the phase that loop is in.                 *)
PhaseInv ==
  \A g \in DOMAIN loops : Alive(g) /\ NeverLetGo(loops[g].pair) =>
    HasRow(loops[g].pair) /\ PhaseFits(loops[g].at, rows[loops[g].pair])

(* The joins of Start and Delete leave no loop of the pairing alive, save  *)
(* those that were let go.                                                 *)
LEMMA NoneAlive ==
  ASSUME TypeOK, LoopsInv, worker # Idle, worker.old # NoLoop => ~Alive(worker.old),
         NEW g \in DOMAIN loops, Alive(g), loops[g].pair = worker.cmd.pair
  PROVE  ~NeverLetGo(loops[g].pair)
<1>1. loops[g].told # "abort"
  BY LoopFacts DEF LoopsInv, AbortedJoined
<1>2. loops[g].told # "no"
  BY LoopFacts DEF LoopsInv, NoOrphan, HandleTaken, Stopped
<1> QED BY <1>1, <1>2, LoopFacts DEF NeverLetGo

LEMMA PhaseNext == TypeOK /\ LoopsInv /\ RowsInv /\ PhaseInv /\ [Next]_vars => PhaseInv'
<1> SUFFICES ASSUME TypeOK, LoopsInv, RowsInv, PhaseInv, [Next]_vars PROVE PhaseInv'
  OBVIOUS
<1>t. WorkerTypes /\ HandleTypes /\ loops \in Seq(Loop) /\ RowTypes
  BY TypeParts
<1>f. \A p \in Pairs : NeverLetGo(p)' => NeverLetGo(p)
  <2>1. LoopsFollow
    BY LoopsNext
  <2> QED BY <2>1 DEF LoopsFollow, NeverLetGo, Stopped
<1>1. CASE UNCHANGED <<loops, rows>>
  BY <1>1 DEF PhaseInv, Alive, NeverLetGo, HasRow
<1>2. CASE TakeStartOrDelete
  <2>1. PICK c \in Cmd :
          /\ DOMAIN loops' = DOMAIN loops /\ c.pair \in Pairs
          /\ handles[c.pair] # NoLoop =>
               loops'[handles[c.pair]] = [loops[handles[c.pair]] EXCEPT !.told = "abort"]
          /\ \A h \in DOMAIN loops : h # handles[c.pair] => loops'[h] = loops[h]
          /\ rows' = rows
    BY <1>2, TakeMoves
  <2>2. \A h \in DOMAIN loops : loops'[h].pair = loops[h].pair /\ loops'[h].at = loops[h].at
    BY <2>1, LoopFacts DEF Loop
  <2> QED BY <1>f, <2>1, <2>2, LoopFacts DEF PhaseInv, Alive, HasRow
<1>3. CASE Stop
  <2>1. PICK p \in Pairs :
          /\ DOMAIN loops' = DOMAIN loops
          /\ handles[p] # NoLoop => loops'[handles[p]] = [loops[handles[p]] EXCEPT !.told = "stop"]
          /\ \A h \in DOMAIN loops : h # handles[p] => loops'[h] = loops[h]
          /\ \A q \in Pairs : q # p => rows'[q] = rows[q]
          /\ (rows'[p] # NoRow <=> HasRow(p)) /\ rows'[p].phase = rows[p].phase
          /\ rows'[p].macs = rows[p].macs
    BY <1>3, StopMoves
  <2>2. \A h \in DOMAIN loops : loops'[h].pair = loops[h].pair /\ loops'[h].at = loops[h].at
    BY <2>1, LoopFacts DEF Loop
  <2>3. \A q \in Pairs : /\ rows'[q] # NoRow <=> HasRow(q)
                         /\ \A at : PhaseFits(at, rows[q]) => PhaseFits(at, rows'[q])
    BY <2>1 DEF PhaseFits, HasRow
  <2> QED BY <1>f, <2>1, <2>2, <2>3, LoopFacts DEF PhaseInv, Alive, HasRow
<1>4. CASE StartLoop
  <2>1. PICK c \in Cmd, n \in Nat \ {0} :
          /\ worker # Idle /\ worker.cmd = c
          /\ worker.old # NoLoop => ~Alive(worker.old)
          /\ DOMAIN loops' = DOMAIN loops \cup {n}
          /\ \A h \in DOMAIN loops : loops'[h] = loops[h]
          /\ loops'[n] = NewLoop(c)
          /\ \A q \in Pairs : q # c.pair => rows'[q] = rows[q]
          /\ rows'[c.pair] \in Row
    BY <1>4, StartMoves
  <2>2. ASSUME NEW g \in DOMAIN loops', Alive(g)', NeverLetGo(loops[g].pair)'
        PROVE  HasRow(loops[g].pair)' /\ PhaseFits(loops'[g].at, rows'[loops'[g].pair])
    <3>1. CASE g = n
      <4>1. loops'[n].pair = c.pair /\ loops'[n].at = "top"
        BY <2>1 DEF NewLoop
      <4> QED BY <2>1, <3>1, <4>1, RowFacts DEF HasRow, PhaseFits
    <3>2. CASE g # n
      <4>1. g \in DOMAIN loops /\ loops'[g] = loops[g] /\ Alive(g)
        BY <2>1, <2>2, <3>2 DEF Alive
      <4>2. NeverLetGo(loops[g].pair)
        BY <1>f, <2>2, <4>1, LoopFacts
      <4>3. loops[g].pair # c.pair
        BY <2>1, <4>1, <4>2, NoneAlive
      <4> QED BY <2>1, <4>1, <4>2, <4>3, LoopFacts DEF PhaseInv, HasRow
    <3> QED BY <3>1, <3>2
  <2> QED BY <2>2 DEF PhaseInv
<1>5. CASE RemoveRow
  <2>1. /\ worker # Idle /\ UNCHANGED loops
        /\ worker.old # NoLoop => ~Alive(worker.old)
        /\ rows' = [rows EXCEPT ![worker.cmd.pair] = NoRow]
    BY <1>5 DEF RemoveRow, Joined
  <2>2. ASSUME NEW g \in DOMAIN loops, Alive(g), NeverLetGo(loops[g].pair)
        PROVE  rows'[loops[g].pair] = rows[loops[g].pair]
    <3>1. loops[g].pair # worker.cmd.pair
      BY <2>1, <2>2, NoneAlive
    <3> QED BY <1>t, <2>1, <3>1, LoopFacts DEF RowTypes
  <2> QED BY <2>1, <2>2 DEF PhaseInv, Alive, NeverLetGo, HasRow
<1>6. CASE \E g \in DOMAIN loops : LoopStep(g)
  <2>1. PICK g \in DOMAIN loops : LoopStep(g)
    BY <1>6
  <2>2. PICK l \in Loop : LoopBecomes(g, l) /\ Shows(loops[g].pair, l.at)
    BY <2>1, LoopMoves
  <2>3. Alive(g)
    BY <2>1, LoopMoves
  <2>4. /\ DOMAIN loops' = DOMAIN loops /\ loops'[g] = l
        /\ \A h \in DOMAIN loops : h # g => loops'[h] = loops[h]
        /\ \A h \in DOMAIN loops : loops'[h].pair = loops[h].pair
    BY <2>2, StepFacts
  <2>5. ASSUME NEW h \in DOMAIN loops', Alive(h)', NeverLetGo(loops[h].pair)'
        PROVE  HasRow(loops[h].pair)' /\ PhaseFits(loops'[h].at, rows'[loops'[h].pair])
    <3>1. h \in DOMAIN loops /\ loops'[h].pair = loops[h].pair /\ NeverLetGo(loops[h].pair)
      BY <1>f, <2>4, <2>5, LoopFacts
    <3>2. Alive(h)
      BY <2>3, <2>4, <2>5 DEF Alive
    <3>3. HasRow(loops[h].pair) /\ PhaseFits(loops[h].at, rows[loops[h].pair])
      BY <3>1, <3>2 DEF PhaseInv
    <3>4. CASE h = g
      BY <2>2, <2>4, <3>1, <3>3, <3>4, RowFacts DEF Shows, HasRow
    <3>5. CASE h # g
      <4>1. loops[h].pair # loops[g].pair
        BY <2>3, <3>1, <3>2, <3>5, OneAlive
      <4>2. rows'[loops[h].pair] = rows[loops[h].pair]
        BY <2>2, <3>1, <4>1, LoopFacts DEF Shows
      <4> QED BY <2>4, <3>1, <3>3, <3>5, <4>2 DEF HasRow
    <3> QED BY <3>4, <3>5
  <2> QED BY <2>5 DEF PhaseInv
<1>7. CASE UNCHANGED vars
  BY <1>1, <1>7 DEF vars
<1> QED
  BY <1>1, <1>2, <1>3, <1>4, <1>5, <1>6, <1>7 DEF Next, Dispatch, Submit, Toggle, Delete, Give

(* Unless Stop let one of its loops go, the phase a row shows is that of   *)
(* its loop's round, whatever rounds restarts cut short.                   *)
THEOREM PhasesTellTheTruth == Spec => []PhaseIsTrue
<1> DEFINE Inv == TypeOK /\ LoopsInv /\ RowsInv /\ PhaseInv
<1>1. Inv => PhaseIsTrue
  BY DEF PhaseInv, PhaseIsTrue, PhaseFits, PhaseShown, RowOf, Alive
<1>2. Init => Inv
  <2>1. Init => DOMAIN loops = {}
    BY DEF Init
  <2> QED BY <2>1, InitType, LoopsInit DEF PhaseInv
<1>3. Inv /\ [Next]_vars => Inv'
  BY NextType, LoopsNext, PhaseNext
<1> QED BY <1>1, <1>2, <1>3, PTL DEF Spec
=============================================================================
