------------------------- MODULE PingWorkerProofs -------------------------
(***************************************************************************)
(* Proofs about PingWorker, for any targets, methods, capacities and       *)
(* numbers of commands and rounds.                                         *)
(***************************************************************************)
EXTENDS PingWorker, SequenceTheorems, TLAPS

Sample == [by : Nat, late : BOOLEAN]
Stages == {"top", "pinging", "returned", "finishing", "ended"}

(* What a record of the table is, and that no row is not one.              *)
LEMMA RowFacts ==
  /\ NoRow \notin Row /\ NoRow.running = FALSE
  /\ \A m \in Methods, n \in Counts \cup {0} :
       NewRow(m, n) \in Row /\ NewRow(m, n).running = TRUE /\ NewRow(m, n).history = <<>>
<1>1. NoRow \notin Row /\ NoRow.running = FALSE
  BY DEF NoRow, Row
<1>2. <<>> \in Seq(Sample)
  OBVIOUS
<1>3. ASSUME NEW m \in Methods, NEW n \in Counts \cup {0}
      PROVE  NewRow(m, n) \in Row /\ NewRow(m, n).running = TRUE /\ NewRow(m, n).history = <<>>
  BY <1>2 DEF NewRow, Row, Sample
<1> QED BY <1>1, <1>3

(* The idle dispatcher is at no command.                                   *)
LEMMA WorkerFacts ==
  /\ \A c, old, at : Handling(at, c, old) # Idle \/ at = "recv"
  /\ \A c \in Cmd, old \in Nat, at \in {"joining", "opening"} :
       /\ Handling(at, c, old) # Idle
       /\ Handling(at, c, old) \in [at : {"joining", "opening"}, cmd : Cmd, old : Nat]
       /\ Handling(at, c, old).at = at
       /\ Handling(at, c, old).cmd = c
       /\ Handling(at, c, old).old = old
  BY DEF Handling, Idle

(* What moving a loop on changes.                                          *)
LEMMA MoveFacts ==
  ASSUME loops \in Seq(Loop), NEW g \in DOMAIN loops, NEW a \in Stages, Move(g, a)
  PROVE  /\ loops' \in Seq(Loop) /\ DOMAIN loops' = DOMAIN loops
         /\ loops'[g] = [loops[g] EXCEPT !.at = a]
         /\ \A h \in DOMAIN loops : h # g => loops'[h] = loops[h]
<1>1. DOMAIN loops = 1..Len(loops) /\ g \in 1..Len(loops) /\ loops[g] \in Loop
  OBVIOUS
<1>2. [loops[g] EXCEPT !.at = a] \in Loop
  BY <1>1 DEF Loop, Stages
<1>3. loops' = [loops EXCEPT ![g] = [loops[g] EXCEPT !.at = a]]
  BY DEF Move
<1>4. loops' \in Seq(Loop) /\ DOMAIN loops' = DOMAIN loops
  BY <1>1, <1>2, <1>3, ExceptSeq
<1> QED BY <1>3, <1>4

(* What telling a loop to end changes.                                     *)
LEMMA TellFacts ==
  ASSUME loops \in Seq(Loop), NEW g \in DOMAIN loops \cup {NoLoop},
         NEW w \in {"stop", "abort"}, loops' = Tell(g, w)
  PROVE  /\ loops' \in Seq(Loop) /\ DOMAIN loops' = DOMAIN loops
         /\ g # NoLoop => loops'[g] = [loops[g] EXCEPT !.told = w]
         /\ \A h \in DOMAIN loops : h # g => loops'[h] = loops[h]
<1>1. CASE g = NoLoop
  <2>1. loops' = loops
    BY <1>1 DEF Tell
  <2> QED BY <1>1, <2>1
<1>2. CASE g # NoLoop
  <2>1. DOMAIN loops = 1..Len(loops) /\ g \in 1..Len(loops) /\ loops[g] \in Loop
    BY <1>2
  <2>2. [loops[g] EXCEPT !.told = w] \in Loop
    BY <2>1 DEF Loop
  <2>3. loops' = [loops EXCEPT ![g] = [loops[g] EXCEPT !.told = w]]
    BY <1>2 DEF Tell
  <2>4. loops' \in Seq(Loop) /\ DOMAIN loops' = DOMAIN loops
    BY <2>1, <2>2, <2>3, ExceptSeq
  <2> QED BY <2>3, <2>4
<1> QED BY <1>1, <1>2

(* What spawning a loop changes.                                           *)
LEMMA SpawnFacts ==
  ASSUME loops \in Seq(Loop), NEW c \in Cmd, loops' = Append(loops, NewLoop(c))
  PROVE  /\ loops' \in Seq(Loop) /\ DOMAIN loops' = DOMAIN loops \cup {Len(loops) + 1}
         /\ Len(loops) + 1 \notin DOMAIN loops /\ Len(loops) + 1 \in Nat \ {0}
         /\ \A h \in DOMAIN loops : h < Len(loops) + 1
         /\ loops'[Len(loops) + 1] = NewLoop(c)
         /\ \A h \in DOMAIN loops : loops'[h] = loops[h]
<1>1. NewLoop(c) \in Loop
  BY DEF NewLoop, Loop, Cmd
<1>2. DOMAIN loops = 1..Len(loops) /\ Len(loops) \in Nat
  OBVIOUS
<1> DEFINE l == NewLoop(c)
<1> HIDE DEF l
<1>3. /\ Append(loops, l) \in Seq(Loop) /\ DOMAIN Append(loops, l) = 1..(Len(loops) + 1)
      /\ Append(loops, l)[Len(loops) + 1] = l
      /\ \A h \in 1..Len(loops) : Append(loops, l)[h] = loops[h]
  BY <1>1 DEF l
<1> QED BY <1>2, <1>3 DEF l

(* The row of t as a result finds it, or makes it.                         *)
RowFor(t) == IF HasRow(t) THEN rows[t] ELSE NewRow("icmp", 0)

RowTypes ==
  /\ rows \in [Targets -> Row \cup {NoRow}]
  /\ \A t \in Targets : HasRow(t) => Len(rows[t].history) <= HistoryLen

(* A history with a sample appended, after its oldest was dropped or not:  *)
(* every sample in it is the new one or one it had, and no two of those    *)
(* have changed places.                                                    *)
Continues(new, old, s) ==
  /\ \A i \in DOMAIN new : new[i] = s \/ \E k \in DOMAIN old : new[i] = old[k]
  /\ \A i, j \in DOMAIN new : i < j =>
       \/ new[j] = s /\ \E k \in DOMAIN old : new[i] = old[k]
       \/ \E k, l \in DOMAIN old : k < l /\ new[i] = old[k] /\ new[j] = old[l]

LEMMA AppendContinues ==
  ASSUME NEW old \in Seq(Sample), NEW s \in Sample, NEW kept,
         kept = old \/ (old # <<>> /\ kept = Tail(old))
  PROVE  Continues(Append(kept, s), old, s)
<1>1. /\ kept \in Seq(Sample) /\ DOMAIN kept = 1..Len(kept) /\ Len(kept) \in Nat
      /\ DOMAIN Append(kept, s) = 1..(Len(kept) + 1)
      /\ \A i \in 1..Len(kept) : Append(kept, s)[i] = kept[i]
      /\ Append(kept, s)[Len(kept) + 1] = s
  <2>1. kept \in Seq(Sample)
    BY HeadTailProperties
  <2> QED BY <2>1
<1>2. \E d \in Nat : \A i \in DOMAIN kept : i + d \in DOMAIN old /\ kept[i] = old[i + d]
  <2>1. CASE kept = old
    <3>1. \A i \in DOMAIN kept : i + 0 \in DOMAIN old /\ kept[i] = old[i + 0]
      BY <1>1, <2>1
    <3> QED BY <3>1
  <2>2. CASE old # <<>> /\ kept = Tail(old)
    <3>1. \A i \in DOMAIN kept : i + 1 \in DOMAIN old /\ kept[i] = old[i + 1]
      BY <1>1, <2>2, HeadTailProperties
    <3> QED BY <3>1
  <2> QED BY <2>1, <2>2
<1>3. PICK d \in Nat : \A i \in DOMAIN kept : i + d \in DOMAIN old /\ kept[i] = old[i + d]
  BY <1>2
<1> DEFINE new == Append(kept, s)
<1> HIDE DEF new
<1>4. /\ DOMAIN new = 1..(Len(kept) + 1) /\ new[Len(kept) + 1] = s
      /\ \A i \in 1..Len(kept) : i + d \in DOMAIN old /\ new[i] = old[i + d]
  BY <1>1, <1>3 DEF new
<1>5. \A i \in DOMAIN new : new[i] = s \/ \E k \in DOMAIN old : new[i] = old[k]
  BY <1>1, <1>4
<1>6. ASSUME NEW i \in DOMAIN new, NEW j \in DOMAIN new, i < j
      PROVE  \/ new[j] = s /\ \E k \in DOMAIN old : new[i] = old[k]
             \/ \E k, l \in DOMAIN old : k < l /\ new[i] = old[k] /\ new[j] = old[l]
  <2>1. i \in 1..Len(kept) /\ i + d \in DOMAIN old /\ new[i] = old[i + d]
    BY <1>1, <1>4, <1>6
  <2>2. CASE j = Len(kept) + 1
    BY <1>4, <2>1, <2>2
  <2>3. CASE j \in 1..Len(kept)
    <3>1. j + d \in DOMAIN old /\ new[j] = old[j + d] /\ i + d < j + d
      BY <1>1, <1>4, <1>6, <2>1, <2>3
    <3> QED BY <2>1, <3>1
  <2> QED BY <1>1, <1>4, <2>2, <2>3
<1>7. Continues(new, old, s)
  BY <1>5, <1>6 DEF Continues
<1> QED BY <1>7 DEF new

(* What recording a sample changes: the row of its target, which is there  *)
(* afterwards, and whose history ends with the sample.                     *)
LEMMA RecordedFacts ==
  ASSUME RowTypes, NEW t \in Targets, NEW s \in Sample, NEW table, table = Recorded(t, s)
  PROVE  /\ table \in [Targets -> Row \cup {NoRow}]
         /\ table[t] \in Row /\ table[t].running = RowFor(t).running
         /\ Len(table[t].history) <= HistoryLen
         /\ Continues(table[t].history, RowFor(t).history, s)
         /\ \A u \in Targets : u # t => table[u] = rows[u]
<1> DEFINE row == RowFor(t)
           kept == IF Len(row.history) = HistoryLen THEN Tail(row.history) ELSE row.history
<1>1. row \in Row /\ row.history \in Seq(Sample) /\ Len(row.history) <= HistoryLen
  <2>1. CASE HasRow(t)
    BY <2>1 DEF RowFor, RowTypes, HasRow, Row, Sample
  <2>2. CASE ~HasRow(t)
    BY <2>2, RowFacts, TargetAssumption, BoundAssumption DEF RowFor, Row, Sample
  <2> QED BY <2>1, <2>2
<1>2. table = [rows EXCEPT ![t] = [row EXCEPT !.history = Append(kept, s)]]
  BY DEF Recorded, RowFor
<1> HIDE DEF row
<1>3. /\ kept \in Seq(Sample) /\ Len(kept) + 1 <= HistoryLen
      /\ kept = row.history \/ (row.history # <<>> /\ kept = Tail(row.history))
  <2>1. HistoryLen \in Nat \ {0} /\ Len(row.history) \in Nat
    BY <1>1, BoundAssumption
  <2>2. CASE Len(row.history) = HistoryLen
    <3>1. row.history # <<>>
      BY <2>1, <2>2
    <3> QED BY <1>1, <2>1, <2>2, <3>1, HeadTailProperties
  <2>3. CASE Len(row.history) # HistoryLen
    BY <1>1, <2>1, <2>3
  <2> QED BY <2>2, <2>3
<1> HIDE DEF kept
<1>4. /\ Append(kept, s) \in Seq(Sample) /\ Len(Append(kept, s)) <= HistoryLen
      /\ Continues(Append(kept, s), row.history, s)
  BY <1>1, <1>3, AppendContinues, AppendProperties, BoundAssumption
<1>5. table[t] = [row EXCEPT !.history = Append(kept, s)]
      /\ \A u \in Targets : u # t => table[u] = rows[u]
  BY <1>2 DEF RowTypes
<1>6. table[t] \in Row /\ table[t].running = row.running /\ table[t].history = Append(kept, s)
  BY <1>1, <1>4, <1>5 DEF Row, Sample
<1>7. table \in [Targets -> Row \cup {NoRow}]
  BY <1>2, <1>5, <1>6 DEF RowTypes
<1> QED BY <1>4, <1>5, <1>6, <1>7 DEF row

(* What setting or clearing the running mark changes.                      *)
LEMMA SetRunningFacts ==
  ASSUME NEW table \in [Targets -> Row \cup {NoRow}], NEW t \in Targets, NEW r \in BOOLEAN,
         NEW new, new = SetRunning(table, t, r)
  PROVE  /\ new \in [Targets -> Row \cup {NoRow}]
         /\ \A u \in Targets : u # t => new[u] = table[u]
         /\ table[t] = NoRow => new[t] = NoRow
         /\ table[t] # NoRow => /\ new[t] \in Row /\ new[t].running = r
                                /\ new[t].history = table[t].history
<1>1. CASE table[t] = NoRow
  BY <1>1 DEF SetRunning
<1>2. CASE table[t] # NoRow
  <2>1. new = [table EXCEPT ![t] = [table[t] EXCEPT !.running = r]] /\ table[t] \in Row
    BY <1>2 DEF SetRunning
  <2>2. [table[t] EXCEPT !.running = r] \in Row
    BY <2>1 DEF Row
  <2> QED BY <1>2, <2>1, <2>2 DEF Row
<1> QED BY <1>1, <1>2

-----------------------------------------------------------------------------
(* Types                                                                   *)

UiTypes == clicks \in Nat /\ cmds \in Seq(Cmd) /\ Len(cmds) <= CmdCap
WorkerTypes ==
  /\ worker \in {Idle} \cup [at : {"joining", "opening"}, cmd : Cmd, old : Nat]
  /\ worker # Idle /\ worker.old # NoLoop =>
       worker.old \in DOMAIN loops /\ loops[worker.old].target = worker.cmd.target
HandleTypes ==
  /\ handles \in [Targets -> Nat]
  /\ \A t \in Targets : handles[t] # NoLoop =>
       handles[t] \in DOMAIN loops /\ loops[handles[t]].target = t

LEMMA TypeParts ==
  TypeOK <=> UiTypes /\ WorkerTypes /\ HandleTypes /\ loops \in Seq(Loop) /\ RowTypes
  BY DEF TypeOK, UiTypes, WorkerTypes, HandleTypes, RowTypes

LEMMA TypePartsNext ==
  UiTypes' /\ WorkerTypes' /\ HandleTypes' /\ loops' \in Seq(Loop) /\ RowTypes' => TypeOK'
  BY DEF TypeOK, UiTypes, WorkerTypes, HandleTypes, RowTypes, HasRow

(* Loops are only ever added, and keep their targets.                      *)
LoopsKept ==
  \A g \in DOMAIN loops : g \in DOMAIN loops' /\ loops'[g].target = loops[g].target

LEMMA NamesKept ==
  ASSUME LoopsKept
  PROVE  /\ WorkerTypes /\ worker' = worker => WorkerTypes'
         /\ HandleTypes /\ handles' = handles => HandleTypes'
  BY DEF LoopsKept, WorkerTypes, HandleTypes

(* The command the dispatcher is at.                                       *)
LEMMA AtCommand ==
  ASSUME WorkerTypes, worker # Idle
  PROVE  /\ worker.cmd \in Cmd /\ worker.cmd.target \in Targets /\ worker.old \in Nat
         /\ worker.cmd.method \in Methods /\ worker.cmd.count \in Counts \cup {0}
         /\ worker.at \in {"joining", "opening"}
  BY DEF WorkerTypes, Cmd

LEMMA IdleAt == Idle.at = "recv"
  BY DEF Idle

LEMMA Busy ==
  ASSUME worker.at = "joining" \/ worker.at = "opening" PROVE worker # Idle
  BY IdleAt

(* And the one it takes.                                                   *)
LEMMA NextCommand ==
  ASSUME UiTypes, cmds # <<>>
  PROVE  /\ Head(cmds) \in Cmd /\ Head(cmds).target \in Targets
         /\ Tail(cmds) \in Seq(Cmd) /\ Len(Tail(cmds)) <= CmdCap
<1>1. Head(cmds) \in Cmd /\ Tail(cmds) \in Seq(Cmd) /\ Len(Tail(cmds)) = Len(cmds) - 1
      /\ Len(cmds) \in Nat
  BY HeadTailProperties DEF UiTypes
<1> QED BY <1>1, BoundAssumption DEF UiTypes, Cmd

LEMMA InitType == Init => TypeOK
<1> SUFFICES ASSUME Init PROVE TypeOK
  OBVIOUS
<1>1. loops \in Seq(Loop) /\ cmds \in Seq(Cmd) /\ Len(cmds) = 0 /\ CmdCap \in Nat
  BY BoundAssumption DEF Init
<1>2. UiTypes
  BY <1>1 DEF Init, UiTypes
<1>3. WorkerTypes /\ HandleTypes /\ RowTypes
  BY DEF Init, WorkerTypes, HandleTypes, RowTypes, HasRow, NoLoop
<1> QED BY <1>1, <1>2, <1>3, TypeParts

(* A command given by the user.                                            *)
LEMMA GiveType ==
  ASSUME TypeOK, NEW c \in Cmd, Give(c) PROVE TypeOK'
<1>1. UiTypes'
  <2>1. Len(cmds) \in Nat /\ CmdCap \in Nat /\ Append(cmds, c) \in Seq(Cmd)
        /\ Len(Append(cmds, c)) = Len(cmds) + 1
    BY BoundAssumption DEF TypeOK
  <2> QED BY <2>1 DEF TypeOK, Give, UiTypes
<1>2. WorkerTypes' /\ HandleTypes' /\ RowTypes' /\ loops' \in Seq(Loop)
  BY DEF TypeOK, Give, WorkerTypes, HandleTypes, RowTypes, HasRow
<1> QED BY <1>1, <1>2, TypePartsNext

(* Taking a command out: the target's loop, if it has one, is aborted.     *)
LEMMA TakeMoves ==
  ASSUME TypeOK, TakeStartOrDelete
  PROVE  \E c \in Cmd :
    /\ c.target \in Targets /\ worker = Idle /\ worker' = Handling("joining", c, handles[c.target])
    /\ handles[c.target] \in Nat /\ handles' = [handles EXCEPT ![c.target] = NoLoop]
    /\ loops' \in Seq(Loop) /\ DOMAIN loops' = DOMAIN loops
    /\ handles[c.target] # NoLoop =>
         loops'[handles[c.target]] = [loops[handles[c.target]] EXCEPT !.told = "abort"]
    /\ \A h \in DOMAIN loops : h # handles[c.target] => loops'[h] = loops[h]
    /\ LoopsKept /\ UiTypes' /\ rows' = rows
<1>t. UiTypes /\ HandleTypes /\ loops \in Seq(Loop)
  BY TypeParts
<1>1. /\ worker = Idle /\ cmds # <<>> /\ Replace(Head(cmds)) /\ cmds' = Tail(cmds)
      /\ UNCHANGED <<clicks, rows>>
  BY DEF TakeStartOrDelete, Takes
<1>2. Head(cmds).target \in Targets /\ UiTypes'
  BY <1>t, <1>1, NextCommand DEF UiTypes
<1>3. PICK c \in Cmd : c = Head(cmds) /\ c.target \in Targets
  BY <1>t, <1>1, <1>2, NextCommand
<1>4. handles[c.target] \in DOMAIN loops \cup {NoLoop} /\ handles[c.target] \in Nat
  BY <1>t, <1>3 DEF HandleTypes
<1>5. loops' = Tell(handles[c.target], "abort") /\ handles' = [handles EXCEPT ![c.target] = NoLoop]
      /\ worker' = Handling("joining", c, handles[c.target])
  BY <1>1, <1>3 DEF Replace
<1>6. /\ loops' \in Seq(Loop) /\ DOMAIN loops' = DOMAIN loops
      /\ handles[c.target] # NoLoop =>
           loops'[handles[c.target]] = [loops[handles[c.target]] EXCEPT !.told = "abort"]
      /\ \A h \in DOMAIN loops : h # handles[c.target] => loops'[h] = loops[h]
  BY <1>t, <1>4, <1>5, TellFacts
<1>7. LoopsKept
  <2>1. \A h \in DOMAIN loops : loops[h] \in Loop /\ h # NoLoop
    BY <1>t DEF NoLoop
  <2> QED BY <1>6, <2>1 DEF LoopsKept, Loop
<1> QED BY <1>1, <1>2, <1>3, <1>4, <1>5, <1>6, <1>7

(* Stop: the target's loop, if it has one, is let go.                      *)
LEMMA StopMoves ==
  ASSUME TypeOK, Stop
  PROVE  \E t \in Targets :
    /\ worker = Idle /\ worker' = worker
    /\ handles[t] \in Nat /\ handles' = [handles EXCEPT ![t] = NoLoop]
    /\ loops' \in Seq(Loop) /\ DOMAIN loops' = DOMAIN loops
    /\ handles[t] # NoLoop => loops'[handles[t]] = [loops[handles[t]] EXCEPT !.told = "stop"]
    /\ \A h \in DOMAIN loops : h # handles[t] => loops'[h] = loops[h]
    /\ LoopsKept /\ UiTypes' /\ rows' = SetRunning(rows, t, FALSE)
<1>t. UiTypes /\ HandleTypes /\ loops \in Seq(Loop)
  BY TypeParts
<1>1. /\ worker = Idle /\ cmds # <<>> /\ cmds' = Tail(cmds) /\ UNCHANGED <<clicks, worker>>
  BY DEF Stop, Takes
<1>2. Head(cmds).target \in Targets /\ UiTypes'
  BY <1>t, <1>1, NextCommand DEF UiTypes
<1>3. PICK t \in Targets : t = Head(cmds).target
  BY <1>2
<1>4. handles[t] \in DOMAIN loops \cup {NoLoop} /\ handles[t] \in Nat
  BY <1>t DEF HandleTypes
<1>5. loops' = Tell(handles[t], "stop") /\ handles' = [handles EXCEPT ![t] = NoLoop]
      /\ rows' = SetRunning(rows, t, FALSE)
  BY <1>3 DEF Stop
<1>6. /\ loops' \in Seq(Loop) /\ DOMAIN loops' = DOMAIN loops
      /\ handles[t] # NoLoop => loops'[handles[t]] = [loops[handles[t]] EXCEPT !.told = "stop"]
      /\ \A h \in DOMAIN loops : h # handles[t] => loops'[h] = loops[h]
  BY <1>t, <1>4, <1>5, TellFacts
<1>7. LoopsKept
  <2>1. \A h \in DOMAIN loops : loops[h] \in Loop /\ h # NoLoop
    BY <1>t DEF NoLoop
  <2> QED BY <1>6, <2>1 DEF LoopsKept, Loop
<1> QED BY <1>1, <1>2, <1>4, <1>5, <1>6, <1>7

(* Spawning the loop of the command at hand.                               *)
LEMMA SpawnMoves ==
  ASSUME TypeOK, Spawn
  PROVE  \E c \in Cmd, n \in Nat \ {0} :
    /\ worker # Idle /\ worker.at = "opening" /\ worker.cmd = c /\ worker' = Idle
    /\ c.target \in Targets /\ handles' = [handles EXCEPT ![c.target] = n]
    /\ loops' \in Seq(Loop) /\ DOMAIN loops' = DOMAIN loops \cup {n} /\ n \notin DOMAIN loops
    /\ \A h \in DOMAIN loops : h < n /\ loops'[h] = loops[h]
    /\ loops'[n] = NewLoop(c)
    /\ LoopsKept /\ UNCHANGED <<clicks, cmds, rows>>
<1>t. WorkerTypes /\ loops \in Seq(Loop)
  BY TypeParts
<1>1. worker # Idle /\ worker.at = "opening"
  BY Busy DEF Spawn
<1>2. PICK c \in Cmd : c = worker.cmd /\ c.target \in Targets
  BY <1>t, <1>1, AtCommand
<1>3. /\ loops' = Append(loops, NewLoop(c)) /\ handles' = [handles EXCEPT ![c.target] = Len(loops) + 1]
      /\ worker' = Idle /\ UNCHANGED <<clicks, cmds, rows>>
  BY <1>2 DEF Spawn, uiVars
<1>4. PICK n \in Nat \ {0} : n = Len(loops) + 1
  BY <1>t, <1>3, SpawnFacts
<1>5. /\ loops' \in Seq(Loop) /\ DOMAIN loops' = DOMAIN loops \cup {n} /\ n \notin DOMAIN loops
      /\ \A h \in DOMAIN loops : h < n
      /\ loops'[n] = NewLoop(c)
      /\ \A h \in DOMAIN loops : loops'[h] = loops[h]
  BY <1>t, <1>3, <1>4, SpawnFacts
<1> QED BY <1>1, <1>2, <1>3, <1>4, <1>5 DEF LoopsKept

(* What each step of a loop changes in the loops, and in the rows.         *)
LEMMA LoopMoves ==
  ASSUME TypeOK, NEW g \in DOMAIN loops, LoopStep(g)
  PROVE  /\ loops' \in Seq(Loop) /\ DOMAIN loops' = DOMAIN loops
         /\ \A h \in DOMAIN loops : h # g => loops'[h] = loops[h]
         /\ loops'[g].target = loops[g].target /\ loops'[g].told = loops[g].told
         /\ UNCHANGED <<uiVars, worker, handles>>
<1>1. CASE \E a \in Stages : Move(g, a)
  <2>1. loops \in Seq(Loop)
    BY DEF TypeOK
  <2>2. PICK a \in Stages : Move(g, a)
    BY <1>1
  <2>3. loops[g] \in Loop
    BY <2>1, ElementOfSeq
  <2>4. UNCHANGED <<uiVars, worker, handles>>
    BY DEF LoopStep, Wake, PingReturns, Record, Finish, Cancelled
  <2> QED BY <2>1, <2>2, <2>3, <2>4, MoveFacts DEF Loop
<1>2. CASE Record(g)
  <2>1. loops \in Seq(Loop) /\ loops[g] \in Loop /\ g \in 1..Len(loops)
    BY DEF TypeOK
  <2>2. PICK l \in Loop : /\ loops' = [loops EXCEPT ![g] = l]
                          /\ l.target = loops[g].target /\ l.told = loops[g].told
    <3> DEFINE a == IF loops[g].count # 0 /\ loops[g].done + 1 >= loops[g].count
                      THEN "finishing" ELSE "top"
               l == [loops[g] EXCEPT !.done = loops[g].done + 1, !.at = a]
    <3>1. loops' = [loops EXCEPT ![g] = l]
      BY <1>2, <2>1 DEF Record
    <3>2. a \in Stages /\ loops[g].done + 1 \in Nat
      BY <2>1 DEF Stages, Loop
    <3> HIDE DEF a
    <3>3. l \in Loop /\ l.target = loops[g].target /\ l.told = loops[g].told
      BY <2>1, <3>2 DEF Loop, Stages
    <3> QED BY <3>1, <3>3
  <2>3. UNCHANGED <<uiVars, worker, handles>>
    BY <1>2 DEF Record
  <2> QED BY <2>1, <2>2, <2>3, ExceptSeq
<1>3. CASE Wake(g) \/ PingReturns(g) \/ Finish(g) \/ Cancelled(g)
  BY <1>1, <1>3 DEF Wake, PingReturns, Finish, Cancelled, Stages
<1> QED BY <1>2, <1>3 DEF LoopStep

(* Only a loop that is alive takes a step; one that was told to stop never *)
(* pings again, and one that was not ends only by finishing.               *)
LEMMA LoopStages ==
  ASSUME TypeOK, NEW g \in DOMAIN loops, LoopStep(g)
  PROVE  /\ Alive(g)
         /\ Stopped(g) => loops'[g].at \notin {"pinging", "returned"}
         /\ loops'[g].at = "ended" => Stopped(g) \/ Finish(g)
<1>1. loops \in Seq(Loop) /\ loops[g] \in Loop /\ g \in 1..Len(loops)
  BY DEF TypeOK
<1>2. ASSUME NEW a \in Stages, Move(g, a) PROVE loops'[g].at = a
  <2>1. loops'[g] = [loops[g] EXCEPT !.at = a]
    BY <1>1, <1>2, MoveFacts
  <2> QED BY <1>1, <2>1 DEF Loop
<1>3. CASE Wake(g) \/ PingReturns(g) \/ Finish(g) \/ Cancelled(g)
  <2>1. CASE Wake(g)
    BY <1>2, <2>1 DEF Wake, FlagSeen, Alive, Stages
  <2>2. CASE PingReturns(g)
    BY <1>2, <2>2 DEF PingReturns, FlagSeen, Alive, Stages
  <2>3. CASE Finish(g)
    BY <1>2, <2>3 DEF Finish, Alive, Stages
  <2>4. CASE Cancelled(g)
    BY <1>2, <2>4 DEF Cancelled, Alive, Stages, Stopped
  <2> QED BY <1>3, <2>1, <2>2, <2>3, <2>4
<1>4. CASE Record(g)
  <2>1. loops[g].at = "returned" /\ loops'[g].at \in {"finishing", "top"}
    BY <1>1, <1>4 DEF Record, Loop
  <2> QED BY <2>1 DEF Alive
<1> QED BY <1>3, <1>4 DEF LoopStep

LEMMA LoopMovesRows ==
  ASSUME TypeOK, NEW g \in DOMAIN loops, LoopStep(g)
  PROVE  \/ rows' = rows
         \/ /\ loops[g].at = "returned" /\ Record(g)
            /\ rows' = Recorded(loops[g].target, [by |-> g, late |-> Stopped(g)])
         \/ /\ loops[g].at = "finishing" /\ Finish(g)
            /\ rows' = SetRunning(rows, loops[g].target, FALSE)
  BY DEF LoopStep, Wake, PingReturns, Record, Finish, Cancelled

(* Recording and marking keep the types of the table.                      *)
LEMMA RowsChange ==
  ASSUME RowTypes, NEW t \in Targets
  PROVE  /\ \A s \in Sample : rows' = Recorded(t, s) => RowTypes'
         /\ \A r \in BOOLEAN : rows' = SetRunning(rows, t, r) => RowTypes'
         /\ \A s \in Sample, r \in BOOLEAN :
              rows' = SetRunning(Recorded(t, s), t, r) => RowTypes'
<1>1. ASSUME NEW s \in Sample, rows' = Recorded(t, s) PROVE RowTypes'
  BY <1>1, RecordedFacts DEF RowTypes, HasRow
<1>2. ASSUME NEW r \in BOOLEAN, rows' = SetRunning(rows, t, r) PROVE RowTypes'
  BY <1>2, SetRunningFacts DEF RowTypes, HasRow
<1>3. ASSUME NEW s \in Sample, NEW r \in BOOLEAN, rows' = SetRunning(Recorded(t, s), t, r)
      PROVE  RowTypes'
  <2> DEFINE table == Recorded(t, s)
  <2>1. /\ table \in [Targets -> Row \cup {NoRow}] /\ table[t] \in Row
        /\ Len(table[t].history) <= HistoryLen
        /\ \A u \in Targets : u # t => table[u] = rows[u]
    BY RecordedFacts
  <2>2. rows' = SetRunning(table, t, r)
    BY <1>3
  <2> HIDE DEF table
  <2> QED BY <2>1, <2>2, SetRunningFacts, RowFacts DEF RowTypes, HasRow
<1> QED BY <1>1, <1>2, <1>3

(* No step breaks a type, nor lets a channel or a history grow too long.   *)
LEMMA NextType == TypeOK /\ [Next]_vars => TypeOK'
<1> SUFFICES ASSUME TypeOK, [Next]_vars PROVE TypeOK'
  OBVIOUS
<1>t. UiTypes /\ WorkerTypes /\ HandleTypes /\ loops \in Seq(Loop) /\ RowTypes
  BY TypeParts
<1>1. ASSUME NEW t \in Targets, NEW m \in Methods, NEW n \in Counts, Submit(t, m, n)
      PROVE  TypeOK'
  <2>1. Command("Start", t, m, n) \in Cmd
    BY DEF Command, Cmd
  <2> QED BY <1>1, <2>1, GiveType DEF Submit
<1>2. ASSUME NEW t \in Targets, Toggle(t) \/ Delete(t) PROVE TypeOK'
  <2>1. HasRow(t)
    BY <1>2 DEF Toggle, Delete
  <2>2. rows[t].method \in Methods /\ rows[t].count \in Counts \cup {0}
    BY <1>t, <2>1 DEF RowTypes, HasRow, Row
  <2>3. \A k \in {"Start", "Stop", "Delete"} :
          Command(k, t, rows[t].method, rows[t].count) \in Cmd
    BY <2>2 DEF Command, Cmd
  <2> QED BY <1>2, <2>3, GiveType DEF Toggle, Delete
<1>3. ASSUME TakeStartOrDelete PROVE TypeOK'
  <2>1. PICK c \in Cmd :
          /\ c.target \in Targets /\ worker' = Handling("joining", c, handles[c.target])
          /\ handles[c.target] \in Nat /\ handles' = [handles EXCEPT ![c.target] = NoLoop]
          /\ loops' \in Seq(Loop) /\ LoopsKept /\ UiTypes' /\ rows' = rows
    BY <1>3, TakeMoves
  <2>2. WorkerTypes'
    <3>1. handles[c.target] # NoLoop =>
            handles[c.target] \in DOMAIN loops /\ loops[handles[c.target]].target = c.target
      BY <1>t, <2>1 DEF HandleTypes
    <3> QED BY <2>1, <3>1, WorkerFacts DEF WorkerTypes, LoopsKept
  <2>3. HandleTypes' /\ RowTypes'
    BY <1>t, <2>1 DEF HandleTypes, NoLoop, LoopsKept, RowTypes, HasRow
  <2> QED BY <2>1, <2>2, <2>3, TypePartsNext
<1>4. ASSUME Stop PROVE TypeOK'
  <2>1. PICK t \in Targets :
          /\ worker' = worker /\ handles' = [handles EXCEPT ![t] = NoLoop]
          /\ loops' \in Seq(Loop) /\ LoopsKept /\ UiTypes' /\ rows' = SetRunning(rows, t, FALSE)
    BY <1>4, StopMoves
  <2>2. WorkerTypes'
    BY <1>t, <2>1, NamesKept
  <2>3. HandleTypes'
    BY <1>t, <2>1 DEF HandleTypes, NoLoop, LoopsKept
  <2>4. RowTypes'
    BY <1>t, <2>1, RowsChange
  <2> QED BY <2>1, <2>2, <2>3, <2>4, TypePartsNext
<1>5. ASSUME EnsureRow PROVE TypeOK'
  <2>1. worker # Idle
    BY <1>5, Busy DEF EnsureRow, Joined
  <2> DEFINE c == worker.cmd
  <2>2. c \in Cmd /\ c.target \in Targets /\ c.method \in Methods /\ c.count \in Counts \cup {0}
    BY <1>t, <2>1, AtCommand
  <2>3. /\ rows' = IF HasRow(c.target) THEN SetRunning(rows, c.target, TRUE)
                   ELSE [rows EXCEPT ![c.target] = NewRow(c.method, c.count)]
        /\ worker' = Handling("opening", c, NoLoop)
        /\ UNCHANGED <<clicks, cmds, handles, loops>>
    BY <1>5 DEF EnsureRow, uiVars
  <2> HIDE DEF c
  <2>4. RowTypes'
    <3>1. CASE HasRow(c.target)
      BY <1>t, <2>2, <2>3, <3>1, RowsChange
    <3>2. CASE ~HasRow(c.target)
      <4>1. NewRow(c.method, c.count) \in Row /\ Len(NewRow(c.method, c.count).history) = 0
        BY <2>2, RowFacts
      <4>2. rows' = [rows EXCEPT ![c.target] = NewRow(c.method, c.count)]
        BY <2>3, <3>2
      <4> QED BY <1>t, <2>2, <4>1, <4>2, BoundAssumption DEF RowTypes, HasRow
    <3> QED BY <3>1, <3>2
  <2>5. UiTypes' /\ WorkerTypes' /\ HandleTypes' /\ loops' \in Seq(Loop)
    BY <1>t, <2>2, <2>3, WorkerFacts DEF UiTypes, WorkerTypes, HandleTypes, NoLoop
  <2> QED BY <2>4, <2>5, TypePartsNext
<1>6. ASSUME BackendFails \/ RemoveRow PROVE TypeOK'
  <2>1. worker # Idle
    BY <1>6, Busy DEF BackendFails, RemoveRow, Joined
  <2>2. worker.cmd.target \in Targets
    BY <1>t, <2>1, AtCommand
  <2>3. worker' = Idle /\ UNCHANGED <<clicks, cmds, handles, loops>>
    BY <1>6 DEF BackendFails, RemoveRow, uiVars
  <2>4. RowTypes'
    <3>1. CASE BackendFails
      <4>1. [by |-> NoLoop, late |-> FALSE] \in Sample
        BY DEF Sample, NoLoop
      <4> QED BY <1>t, <2>2, <3>1, <4>1, RowsChange DEF BackendFails
    <3>2. CASE RemoveRow
      BY <1>t, <2>2, <3>2 DEF RemoveRow, RowTypes, HasRow
    <3> QED BY <1>6, <3>1, <3>2
  <2>5. UiTypes' /\ WorkerTypes' /\ HandleTypes' /\ loops' \in Seq(Loop)
    BY <1>t, <2>3 DEF UiTypes, WorkerTypes, HandleTypes
  <2> QED BY <2>4, <2>5, TypePartsNext
<1>7. ASSUME Spawn PROVE TypeOK'
  <2>1. PICK c \in Cmd, n \in Nat \ {0} :
          /\ c.target \in Targets /\ handles' = [handles EXCEPT ![c.target] = n] /\ worker' = Idle
          /\ loops' \in Seq(Loop) /\ n \in DOMAIN loops' /\ loops'[n] = NewLoop(c)
          /\ LoopsKept /\ UNCHANGED <<clicks, cmds, rows>>
    BY <1>7, SpawnMoves
  <2>2. HandleTypes'
    BY <1>t, <2>1 DEF HandleTypes, NoLoop, LoopsKept, NewLoop
  <2>3. UiTypes' /\ WorkerTypes' /\ RowTypes'
    BY <1>t, <2>1 DEF UiTypes, WorkerTypes, RowTypes, HasRow
  <2> QED BY <2>1, <2>2, <2>3, TypePartsNext
<1>8. ASSUME NEW g \in DOMAIN loops, LoopStep(g) PROVE TypeOK'
  <2>1. /\ loops' \in Seq(Loop) /\ LoopsKept /\ UNCHANGED <<uiVars, worker, handles>>
    BY <1>8, LoopMoves DEF LoopsKept
  <2>2. g \in Nat /\ loops[g].target \in Targets /\ Stopped(g) \in BOOLEAN
    <3>1. loops[g] \in Loop /\ g \in 1..Len(loops)
      BY <1>t
    <3> QED BY <3>1 DEF Loop, Stopped
  <2>3. RowTypes'
    <3>1. CASE rows' = rows
      BY <1>t, <3>1 DEF RowTypes, HasRow
    <3>2. CASE rows' = Recorded(loops[g].target, [by |-> g, late |-> Stopped(g)])
      <4>1. [by |-> g, late |-> Stopped(g)] \in Sample
        BY <2>2 DEF Sample
      <4> QED BY <1>t, <2>2, <3>2, <4>1, RowsChange
    <3>3. CASE rows' = SetRunning(rows, loops[g].target, FALSE)
      BY <1>t, <2>2, <3>3, RowsChange
    <3> QED BY <1>8, <3>1, <3>2, <3>3, LoopMovesRows
  <2>4. UiTypes' /\ WorkerTypes' /\ HandleTypes'
    BY <1>t, <2>1, NamesKept DEF UiTypes, uiVars
  <2> QED BY <2>1, <2>3, <2>4, TypePartsNext
<1>9. CASE UNCHANGED vars
  BY <1>9 DEF TypeOK, vars, uiVars, HasRow
<1> QED
  BY <1>1, <1>2, <1>3, <1>4, <1>5, <1>6, <1>7, <1>8, <1>9 DEF Next, Dispatch

(* Every variable keeps to its type, the channel to its capacity and every *)
(* history to HISTORY_LEN; handles and joins name loops of their target.   *)
THEOREM TypeCorrect == Spec => []TypeOK
  BY InitType, NextType, PTL DEF Spec

-----------------------------------------------------------------------------
(* Which loop goes on                                                      *)

(* No handle is of a loop that was told to end; and the dispatcher has     *)
(* taken out the handle of the target whose command it handles.            *)
HandlesUntold == \A t \in Targets : handles[t] # NoLoop => ~Stopped(handles[t])
HandleTaken == worker # Idle => handles[worker.cmd.target] = NoLoop

(* The only loop that is aborted and not yet over is the one it awaits.    *)
AbortedJoined ==
  \A g \in DOMAIN loops : Alive(g) /\ loops[g].told = "abort" =>
    worker # Idle /\ worker.at = "joining" /\ worker.old = g

(* Of the loops of a target none of which was let go, only the last runs.  *)
LatestRuns ==
  \A g, h \in DOMAIN loops :
    Alive(g) /\ loops[h].target = loops[g].target /\ NeverLetGo(loops[g].target) => h <= g

LoopsInv == NoOrphan /\ HandlesUntold /\ HandleTaken /\ AbortedJoined /\ LatestRuns

LEMMA ToldValues ==
  ASSUME TypeOK, NEW g \in DOMAIN loops
  PROVE  /\ loops[g].told \in {"no", "stop", "abort"} /\ loops[g].target \in Targets
         /\ g \in Nat /\ g # NoLoop
<1>1. loops[g] \in Loop /\ g \in 1..Len(loops)
  BY DEF TypeOK
<1> QED BY <1>1 DEF Loop, NoLoop

(* Between two commands, or while a backend is opened, an alive loop of a  *)
(* target none of whose loops was let go is the one its handle has.        *)
LEMMA AliveHandled ==
  ASSUME TypeOK, NoOrphan, AbortedJoined, NEW g \in DOMAIN loops, Alive(g),
         NeverLetGo(loops[g].target),
         worker = Idle \/ worker.at = "opening" \/ ~(worker.old = g)
  PROVE  handles[loops[g].target] = g
<1>1. loops[g].told # "stop" /\ loops[g].told # "abort"
  BY DEF NeverLetGo, AbortedJoined
<1> QED BY <1>1, ToldValues DEF NoOrphan, Stopped

LEMMA LoopsInit == Init => LoopsInv
  BY DEF Init, LoopsInv, NoOrphan, HandlesUntold, HandleTaken, AbortedJoined, LatestRuns, NoLoop

(* Once the loop it awaited is over, no loop is aborted and alive.         *)
NoneAborted == \A g \in DOMAIN loops : Alive(g) => loops[g].told # "abort"

LEMMA Awaited ==
  ASSUME TypeOK, AbortedJoined,
         \/ worker = Idle
         \/ worker.at = "opening"
         \/ worker.old # NoLoop => ~Alive(worker.old)
  PROVE  NoneAborted
  BY ToldValues DEF AbortedJoined, NoneAborted

(* A step that leaves the loops and the handles alone.                     *)
LEMMA LoopsUnmoved ==
  ASSUME LoopsInv, UNCHANGED <<handles, loops>>,
         \/ worker' = worker
         \/ NoneAborted /\ (worker' = Idle \/ (worker # Idle /\ worker'.cmd = worker.cmd))
  PROVE  LoopsInv'
<1>1. NoOrphan' /\ HandlesUntold' /\ LatestRuns'
  BY DEF LoopsInv, NoOrphan, HandlesUntold, LatestRuns, Alive, Stopped, NeverLetGo
<1>2. HandleTaken'
  BY DEF LoopsInv, HandleTaken
<1>3. AbortedJoined'
  BY DEF LoopsInv, AbortedJoined, NoneAborted, Alive
<1> QED BY <1>1, <1>2, <1>3 DEF LoopsInv

(* Which loop goes on, and which handle has it, step by step.              *)
LEMMA LoopsNext == TypeOK /\ LoopsInv /\ [Next]_vars => LoopsInv'
<1> SUFFICES ASSUME TypeOK, LoopsInv, [Next]_vars PROVE LoopsInv'
  OBVIOUS
<1>t. WorkerTypes /\ HandleTypes /\ loops \in Seq(Loop)
  BY TypeParts
<1>i. NoOrphan /\ HandlesUntold /\ HandleTaken /\ AbortedJoined /\ LatestRuns
  BY DEF LoopsInv
<1>1. CASE UNCHANGED <<worker, handles, loops>>
  BY <1>1, LoopsUnmoved
<1>2. CASE EnsureRow \/ BackendFails \/ RemoveRow
  <2>1. UNCHANGED <<handles, loops>> /\ worker # Idle
    BY <1>2, Busy DEF EnsureRow, BackendFails, RemoveRow, Joined
  <2>2. NoneAborted
    BY <1>2, <1>i, Awaited DEF EnsureRow, BackendFails, RemoveRow, Joined
  <2>3. worker' = Idle \/ worker'.cmd = worker.cmd
    <3>1. worker' = Idle \/ worker' = Handling("opening", worker.cmd, NoLoop)
      BY <1>2 DEF EnsureRow, BackendFails, RemoveRow
    <3>2. Handling("opening", worker.cmd, NoLoop).cmd = worker.cmd
      BY DEF Handling
    <3> QED BY <3>1, <3>2
  <2> QED BY <2>1, <2>2, <2>3, LoopsUnmoved
<1>3. CASE TakeStartOrDelete
  <2>1. PICK c \in Cmd :
          /\ c.target \in Targets /\ worker = Idle /\ worker' = Handling("joining", c, handles[c.target])
          /\ handles[c.target] \in Nat /\ handles' = [handles EXCEPT ![c.target] = NoLoop]
          /\ DOMAIN loops' = DOMAIN loops
          /\ handles[c.target] # NoLoop =>
               loops'[handles[c.target]] = [loops[handles[c.target]] EXCEPT !.told = "abort"]
          /\ \A h \in DOMAIN loops : h # handles[c.target] => loops'[h] = loops[h]
    BY <1>3, TakeMoves
  <2> DEFINE g == handles[c.target]
  <2>2. g \in Nat /\ (g # NoLoop => g \in DOMAIN loops /\ loops[g].target = c.target)
        /\ (g # NoLoop => loops[g] \in Loop)
    BY <1>t, <2>1 DEF HandleTypes
  <2>3. /\ g # NoLoop => /\ loops'[g].told = "abort" /\ loops'[g].at = loops[g].at
                         /\ loops'[g].target = loops[g].target
        /\ \A h \in DOMAIN loops : h # g => loops'[h] = loops[h]
    BY <2>1, <2>2 DEF Loop
  <2>4. NoOrphan'
    BY <1>i, <2>1, <2>2, <2>3, ToldValues DEF NoOrphan, Alive, Stopped, HandleTypes
  <2>5. HandlesUntold'
    BY <1>i, <1>t, <2>1, <2>2, <2>3 DEF HandlesUntold, HandleTypes, Stopped
  <2>6. HandleTaken' /\ worker'.at = "joining" /\ worker'.old = g /\ worker' # Idle
    BY <1>t, <2>1, <2>2, WorkerFacts DEF HandleTaken, HandleTypes
  <2>7. AbortedJoined'
    <3>1. NoneAborted
      BY <1>i, <2>1, Awaited
    <3> QED BY <2>1, <2>3, <2>6, <3>1 DEF AbortedJoined, NoneAborted, Alive
  <2>8. LatestRuns'
    <3>1. \A h \in DOMAIN loops : loops'[h].target = loops[h].target /\ loops'[h].at = loops[h].at
                                  /\ (loops[h].told = "stop" => loops'[h].told = "stop")
      BY <1>i, <2>1, <2>2, <2>3, ToldValues DEF HandlesUntold, Stopped
    <3> QED BY <1>i, <2>1, <3>1 DEF LatestRuns, NeverLetGo, Alive
  <2> QED BY <2>4, <2>5, <2>6, <2>7, <2>8 DEF LoopsInv
<1>4. CASE Stop
  <2>1. PICK t \in Targets :
          /\ worker = Idle /\ worker' = worker
          /\ handles[t] \in Nat /\ handles' = [handles EXCEPT ![t] = NoLoop]
          /\ DOMAIN loops' = DOMAIN loops
          /\ handles[t] # NoLoop => loops'[handles[t]] = [loops[handles[t]] EXCEPT !.told = "stop"]
          /\ \A h \in DOMAIN loops : h # handles[t] => loops'[h] = loops[h]
    BY <1>4, StopMoves
  <2> DEFINE g == handles[t]
  <2>2. g \in Nat /\ (g # NoLoop => g \in DOMAIN loops /\ loops[g].target = t /\ loops[g] \in Loop)
    BY <1>t, <2>1 DEF HandleTypes
  <2>3. /\ g # NoLoop => /\ loops'[g].told = "stop" /\ loops'[g].at = loops[g].at
                         /\ loops'[g].target = loops[g].target
        /\ \A h \in DOMAIN loops : h # g => loops'[h] = loops[h]
    BY <2>1, <2>2 DEF Loop
  <2>4. NoOrphan'
    BY <1>i, <2>1, <2>2, <2>3, ToldValues DEF NoOrphan, Alive, Stopped, HandleTypes
  <2>5. HandlesUntold'
    BY <1>i, <1>t, <2>1, <2>2, <2>3 DEF HandlesUntold, HandleTypes, Stopped
  <2>6. HandleTaken'
    BY <2>1 DEF HandleTaken
  <2>7. AbortedJoined'
    <3>1. NoneAborted
      BY <1>i, <2>1, Awaited
    <3> QED BY <2>1, <2>3, <3>1, ToldValues DEF AbortedJoined, NoneAborted, Alive
  <2>8. LatestRuns'
    <3>1. \A h \in DOMAIN loops : loops'[h].target = loops[h].target /\ loops'[h].at = loops[h].at
                                  /\ (loops[h].told = "stop" => loops'[h].told = "stop")
      BY <1>i, <2>1, <2>2, <2>3, ToldValues DEF HandlesUntold, Stopped
    <3> QED BY <1>i, <2>1, <3>1 DEF LatestRuns, NeverLetGo, Alive
  <2> QED BY <2>4, <2>5, <2>6, <2>7, <2>8 DEF LoopsInv
<1>5. CASE Spawn
  <2>1. PICK c \in Cmd, n \in Nat \ {0} :
          /\ worker # Idle /\ worker.at = "opening" /\ worker.cmd = c /\ worker' = Idle
          /\ c.target \in Targets /\ handles' = [handles EXCEPT ![c.target] = n]
          /\ DOMAIN loops' = DOMAIN loops \cup {n} /\ n \notin DOMAIN loops
          /\ \A h \in DOMAIN loops : h < n /\ loops'[h] = loops[h]
          /\ loops'[n] = NewLoop(c)
    BY <1>5, SpawnMoves
  <2>2. loops'[n].target = c.target /\ loops'[n].told = "no" /\ loops'[n].at = "top"
    BY <2>1 DEF NewLoop
  <2>3. handles[c.target] = NoLoop /\ handles \in [Targets -> Nat]
    BY <1>i, <1>t, <2>1 DEF HandleTaken, HandleTypes
  <2>4. NoneAborted
    BY <1>i, <2>1, Awaited
  <2>5. \A h \in DOMAIN loops : h # NoLoop /\ h \in Nat /\ loops[h].target \in Targets
                                /\ loops[h].told \in {"no", "stop", "abort"}
    BY ToldValues
  <2>6. NoOrphan'
    BY <1>i, <2>1, <2>2, <2>3, <2>5 DEF NoOrphan, Alive, Stopped
  <2>7. HandlesUntold'
    BY <1>i, <1>t, <2>1, <2>2, <2>3 DEF HandlesUntold, HandleTypes, Stopped
  <2>8. HandleTaken' /\ AbortedJoined'
    BY <2>1, <2>2, <2>4 DEF HandleTaken, AbortedJoined, NoneAborted, Alive
  <2>9. LatestRuns'
    <3>1. ASSUME NEW g \in DOMAIN loops', NEW h \in DOMAIN loops', Alive(g)',
                 loops'[h].target = loops'[g].target, NeverLetGo(loops[g].target)'
          PROVE  h <= g
      <4>1. CASE g = n
        BY <2>1, <2>5, <4>1
      <4>2. CASE g # n
        <5>1. g \in DOMAIN loops /\ Alive(g) /\ loops'[g] = loops[g] /\ NeverLetGo(loops[g].target)
          BY <2>1, <3>1, <4>2 DEF Alive, NeverLetGo
        <5>2. handles[loops[g].target] = g
          BY <1>i, <2>1, <5>1, AliveHandled
        <5>3. h # n
          BY <2>2, <2>3, <2>5, <3>1, <5>1, <5>2
        <5> QED BY <1>i, <2>1, <3>1, <5>1, <5>3 DEF LatestRuns
      <4> QED BY <4>1, <4>2
    <3> QED BY <3>1 DEF LatestRuns
  <2> QED BY <2>6, <2>7, <2>8, <2>9 DEF LoopsInv
<1>6. CASE \E g \in DOMAIN loops : LoopStep(g)
  <2>1. PICK g \in DOMAIN loops : LoopStep(g)
    BY <1>6
  <2>2. /\ DOMAIN loops' = DOMAIN loops /\ UNCHANGED <<worker, handles>>
        /\ \A h \in DOMAIN loops : loops'[h].target = loops[h].target /\ loops'[h].told = loops[h].told
    BY <2>1, LoopMoves
  <2>3. \A h \in DOMAIN loops : loops'[h].at # "ended" => loops[h].at # "ended"
    <3>1. \A h \in DOMAIN loops : h # g => loops'[h] = loops[h]
      BY <2>1, LoopMoves
    <3> QED BY <2>1, <3>1, LoopStages DEF Alive
  <2>4. NoOrphan' /\ HandleTaken'
    BY <1>i, <2>2, <2>3 DEF NoOrphan, HandleTaken, Alive, Stopped
  <2>5. HandlesUntold'
    BY <1>i, <1>t, <2>2 DEF HandlesUntold, HandleTypes, Stopped
  <2>6. AbortedJoined'
    BY <1>i, <2>2, <2>3 DEF AbortedJoined, Alive
  <2>7. LatestRuns'
    BY <1>i, <2>2, <2>3 DEF LatestRuns, NeverLetGo, Alive
  <2> QED BY <2>4, <2>5, <2>6, <2>7 DEF LoopsInv
<1>7. CASE UNCHANGED vars
  BY <1>1, <1>7 DEF vars
<1> QED
  BY <1>1, <1>2, <1>3, <1>4, <1>5, <1>6, <1>7 DEF Next, Dispatch, Submit, Toggle, Delete, Give

(* A loop nobody has told to stop is the one its target's handle has: no   *)
(* sequence of commands leaves a loop that no Stop or Delete can reach.    *)
THEOREM NoneOrphaned == Spec => []NoOrphan
<1>1. TypeOK /\ LoopsInv => NoOrphan
  BY DEF LoopsInv
<1>2. Init => TypeOK /\ LoopsInv
  BY InitType, LoopsInit
<1>3. TypeOK /\ LoopsInv /\ [Next]_vars => (TypeOK /\ LoopsInv)'
  BY NextType, LoopsNext
<1> QED BY <1>1, <1>2, <1>3, PTL DEF Spec

-----------------------------------------------------------------------------
(* What the button of a row shows                                          *)

(* While a backend is opened for a target none of whose loops was let go,  *)
(* its row, made or marked before that, runs.                              *)
OpeningRuns ==
  worker # Idle /\ worker.at = "opening" /\ NeverLetGo(worker.cmd.target) =>
    rows[worker.cmd.target].running

RunningInv == RunningIsTrueUnlessLetGo /\ OpeningRuns

(* A target runs exactly when its handle is of a loop that is alive.       *)
LEMMA RunsHandled ==
  ASSUME TypeOK, LoopsInv, NEW t \in Targets
  PROVE  Runs(t) <=> handles[t] # NoLoop /\ Alive(handles[t])
<1>1. HandleTypes
  BY TypeParts
<1>2. handles[t] # NoLoop /\ Alive(handles[t]) => Runs(t)
  BY <1>1 DEF Runs, HandleTypes, LoopsInv, HandlesUntold
<1>3. Runs(t) => handles[t] # NoLoop /\ Alive(handles[t])
  BY ToldValues DEF Runs, LoopsInv, NoOrphan
<1> QED BY <1>2, <1>3

(* Loops are never taken back, told twice, revived, or made to ping again  *)
(* once they were told to end.                                             *)
Quiet(at) == at \notin {"pinging", "returned"}

LoopsFollow ==
  \A g \in DOMAIN loops :
    /\ g \in DOMAIN loops' /\ loops'[g].target = loops[g].target
    /\ Stopped(g) => loops'[g].told = loops[g].told
    /\ loops'[g].at # "ended" => loops[g].at # "ended"
    /\ Stopped(g) /\ Quiet(loops[g].at) => Quiet(loops'[g].at)

LEMMA Follow == TypeOK /\ LoopsInv /\ [Next]_vars => LoopsFollow
<1> SUFFICES ASSUME TypeOK, LoopsInv, [Next]_vars PROVE LoopsFollow
  OBVIOUS
<1>t. HandleTypes /\ loops \in Seq(Loop)
  BY TypeParts
<1>h. \A t \in Targets : handles[t] # NoLoop => ~Stopped(handles[t]) /\ loops[handles[t]] \in Loop
  BY <1>t DEF LoopsInv, HandlesUntold, HandleTypes
<1>1. CASE loops' = loops
  BY <1>1 DEF LoopsFollow
<1>2. CASE TakeStartOrDelete \/ Stop
  <2>1. \E t \in Targets, w \in {"abort", "stop"} :
          /\ DOMAIN loops' = DOMAIN loops
          /\ handles[t] # NoLoop => loops'[handles[t]] = [loops[handles[t]] EXCEPT !.told = w]
          /\ \A h \in DOMAIN loops : h # handles[t] => loops'[h] = loops[h]
    <3>1. CASE TakeStartOrDelete
      BY <3>1, TakeMoves
    <3>2. CASE Stop
      BY <3>2, StopMoves
    <3> QED BY <1>2, <3>1, <3>2
  <2>2. PICK t \in Targets, w \in {"abort", "stop"} :
          /\ DOMAIN loops' = DOMAIN loops
          /\ handles[t] # NoLoop => loops'[handles[t]] = [loops[handles[t]] EXCEPT !.told = w]
          /\ \A h \in DOMAIN loops : h # handles[t] => loops'[h] = loops[h]
    BY <2>1
  <2>3. handles[t] # NoLoop => /\ loops'[handles[t]].at = loops[handles[t]].at
                               /\ loops'[handles[t]].target = loops[handles[t]].target
    BY <1>h, <2>2 DEF Loop
  <2> QED BY <1>h, <2>2, <2>3, ToldValues DEF LoopsFollow
<1>3. CASE Spawn
  BY <1>3, SpawnMoves DEF LoopsFollow
<1>4. CASE \E g \in DOMAIN loops : LoopStep(g)
  <2>1. PICK g \in DOMAIN loops : LoopStep(g)
    BY <1>4
  <2> QED BY <2>1, LoopMoves, LoopStages DEF LoopsFollow, Quiet, Alive
<1> QED
  BY <1>1, <1>2, <1>3, <1>4
  DEF Next, Dispatch, Submit, Toggle, Delete, Give, EnsureRow, BackendFails, RemoveRow, vars

(* Letting go is for ever.                                                 *)
LEMMA LetGoStays ==
  ASSUME TypeOK, LoopsFollow, NEW t \in Targets, NeverLetGo(t)'
  PROVE  NeverLetGo(t)
  BY DEF LoopsFollow, NeverLetGo, Stopped

(* What marking a row changes in what the buttons show.                    *)
LEMMA Marked ==
  ASSUME RowTypes, NEW t \in Targets, NEW r \in BOOLEAN, NEW table, table = SetRunning(rows, t, r)
  PROVE  /\ \A u \in Targets : u # t => table[u] = rows[u]
         /\ table[t].running = (r /\ HasRow(t))
<1>1. HasRow(t) => table[t].running = r
  BY SetRunningFacts DEF RowTypes, HasRow
<1>2. ~HasRow(t) => table[t] = NoRow
  BY SetRunningFacts DEF RowTypes, HasRow
<1>3. \A u \in Targets : u # t => table[u] = rows[u]
  BY SetRunningFacts DEF RowTypes
<1> QED BY <1>1, <1>2, <1>3, RowFacts

LEMMA RunningInit == Init => RunningInv
  BY RowFacts DEF Init, RunningInv, RunningIsTrueUnlessLetGo, OpeningRuns, Runs

(* A step that changes what a row shows, or whether its target runs, only  *)
(* for the one target t.                                                   *)
LEMMA OtherTargets ==
  ASSUME TypeOK, LoopsInv, RunningInv, [Next]_vars, NEW t \in Targets,
         \A u \in Targets \ {t} :
           /\ rows'[u] = rows[u]
           /\ Runs(u)' <=> Runs(u)
           /\ Settled(u)' => Settled(u),
         Settled(t)' /\ NeverLetGo(t)' => (rows'[t].running <=> Runs(t)')
  PROVE  RunningIsTrueUnlessLetGo'
<1>1. \A u \in Targets : NeverLetGo(u)' => NeverLetGo(u)
  BY Follow, LetGoStays
<1> QED BY <1>1 DEF RunningInv, RunningIsTrueUnlessLetGo

RunsByHandle ==
  \A t \in Targets :
    /\ Runs(t) <=> handles[t] # NoLoop /\ loops[handles[t]].at # "ended"
    /\ handles[t] # NoLoop => handles[t] \in DOMAIN loops /\ loops[handles[t]].target = t

LEMMA HandleRuns == TypeOK /\ LoopsInv => RunsByHandle
  BY TypeParts, RunsHandled DEF RunsByHandle, Alive, HandleTypes

LEMMA HandleRunsNext == TypeOK' /\ LoopsInv' => RunsByHandle'
  BY HandleRuns, PTL

(* What the rows show, step by step.                                       *)
LEMMA RunningNext == TypeOK /\ LoopsInv /\ RunningInv /\ [Next]_vars => RunningInv'
<1> SUFFICES ASSUME TypeOK, LoopsInv, RunningInv, [Next]_vars PROVE RunningInv'
  OBVIOUS
<1>t. WorkerTypes /\ HandleTypes /\ RowTypes /\ loops \in Seq(Loop)
  BY TypeParts
<1>i. RunningIsTrueUnlessLetGo /\ OpeningRuns /\ LoopsFollow
  BY Follow DEF RunningInv
<1>r. \A u \in Targets :
        /\ Runs(u) <=> handles[u] # NoLoop /\ loops[handles[u]].at # "ended"
        /\ Runs(u)' <=> handles'[u] # NoLoop /\ loops'[handles'[u]].at # "ended"
        /\ handles[u] # NoLoop => handles[u] \in DOMAIN loops /\ loops[handles[u]].target = u
  <2>1. RunsByHandle /\ RunsByHandle'
    BY NextType, LoopsNext, HandleRuns, HandleRunsNext
  <2> QED BY <2>1 DEF RunsByHandle
<1>1. CASE UNCHANGED <<worker, loops, rows>>
  BY <1>1, <1>i DEF RunningInv, RunningIsTrueUnlessLetGo, OpeningRuns, Settled, Runs, Alive,
                    Stopped, NeverLetGo
<1>2. CASE TakeStartOrDelete
  <2>1. PICK c \in Cmd :
          /\ c.target \in Targets /\ worker = Idle /\ worker' = Handling("joining", c, handles[c.target])
          /\ handles[c.target] \in Nat /\ handles' = [handles EXCEPT ![c.target] = NoLoop]
          /\ loops' \in Seq(Loop) /\ DOMAIN loops' = DOMAIN loops
          /\ \A h \in DOMAIN loops : h # handles[c.target] => loops'[h] = loops[h]
          /\ rows' = rows
    BY <1>2, TakeMoves
  <2>2. worker' # Idle /\ worker'.cmd = c /\ worker'.at = "joining"
    BY <2>1, WorkerFacts
  <2>3. \A u \in Targets \ {c.target} : Runs(u)' <=> Runs(u)
    BY <1>r, <1>t, <2>1 DEF HandleTypes
  <2>4. RunningIsTrueUnlessLetGo'
    BY <2>1, <2>2, <2>3, OtherTargets DEF Settled
  <2> QED BY <2>2, <2>4 DEF RunningInv, OpeningRuns
<1>3. CASE Stop
  <2>1. PICK t \in Targets :
          /\ worker = Idle /\ worker' = worker
          /\ handles[t] \in Nat /\ handles' = [handles EXCEPT ![t] = NoLoop]
          /\ \A h \in DOMAIN loops : h # handles[t] => loops'[h] = loops[h]
          /\ rows' = SetRunning(rows, t, FALSE)
    BY <1>3, StopMoves
  <2>2. /\ \A u \in Targets \ {t} : rows'[u] = rows[u] /\ (Runs(u)' <=> Runs(u))
        /\ rows'[t].running = FALSE /\ ~Runs(t)'
    <3>1. \A u \in Targets : u # t => rows'[u] = rows[u]
      BY <1>t, <2>1, Marked
    <3>2. rows'[t].running = FALSE
      BY <1>t, <2>1, Marked
    <3>3. handles'[t] = NoLoop /\ \A u \in Targets : u # t => handles'[u] = handles[u]
      BY <1>t, <2>1 DEF HandleTypes
    <3>4. ~Runs(t)'
      BY <1>r, <3>3
    <3>5. \A u \in Targets : u # t => (Runs(u)' <=> Runs(u))
      BY <1>r, <2>1, <3>3
    <3> QED BY <3>1, <3>2, <3>4, <3>5
  <2>3. RunningIsTrueUnlessLetGo'
    BY <2>1, <2>2, OtherTargets DEF Settled
  <2> QED BY <2>1, <2>3 DEF RunningInv, OpeningRuns
<1>4. CASE EnsureRow
  <2>1. worker # Idle
    BY <1>4, Busy DEF EnsureRow, Joined
  <2>2. PICK c \in Cmd : c = worker.cmd /\ c.target \in Targets /\ c.method \in Methods
                         /\ c.count \in Counts \cup {0}
    BY <1>t, <2>1, AtCommand
  <2>3. /\ rows' = IF HasRow(c.target) THEN SetRunning(rows, c.target, TRUE)
                   ELSE [rows EXCEPT ![c.target] = NewRow(c.method, c.count)]
        /\ worker' = Handling("opening", c, NoLoop) /\ UNCHANGED <<handles, loops>>
    BY <1>4, <2>2 DEF EnsureRow
  <2>4. worker' # Idle /\ worker'.cmd = c
    BY <2>2, <2>3, WorkerFacts DEF NoLoop
  <2>5. rows'[c.target].running /\ \A u \in Targets : u # c.target => rows'[u] = rows[u]
    <3>1. PICK t \in Targets : t = c.target
      BY <2>2
    <3>2. CASE HasRow(t)
      <4>1. rows' = SetRunning(rows, t, TRUE)
        BY <2>3, <3>1, <3>2
      <4>2. rows'[t].running
        BY <1>t, <3>2, <4>1, Marked
      <4>3. \A u \in Targets : u # t => rows'[u] = rows[u]
        BY <1>t, <4>1, Marked
      <4> QED BY <3>1, <4>2, <4>3
    <3>3. CASE ~HasRow(t)
      BY <1>t, <2>2, <2>3, <3>1, <3>3, RowFacts DEF RowTypes
    <3> QED BY <3>2, <3>3
  <2>6. RunningIsTrueUnlessLetGo'
    BY <1>r, <2>1, <2>2, <2>3, <2>4, <2>5, OtherTargets DEF Settled
  <2> QED BY <2>2, <2>4, <2>5, <2>6 DEF RunningInv, OpeningRuns
<1>5. CASE BackendFails \/ RemoveRow
  <2>1. worker # Idle
    BY <1>5, Busy DEF BackendFails, RemoveRow, Joined
  <2>2. PICK t \in Targets : t = worker.cmd.target
    BY <1>t, <2>1, AtCommand
  <2>3. worker' = Idle /\ UNCHANGED <<handles, loops>>
    BY <1>5 DEF BackendFails, RemoveRow
  <2>4. ~rows'[t].running /\ \A u \in Targets : u # t => rows'[u] = rows[u]
    <3>1. CASE BackendFails
      <4> DEFINE s == [by |-> NoLoop, late |-> FALSE]
                 table == Recorded(t, s)
      <4>1. s \in Sample
        BY DEF Sample, NoLoop
      <4>2. table \in [Targets -> Row \cup {NoRow}] /\ \A u \in Targets : u # t => table[u] = rows[u]
        BY <1>t, <4>1, RecordedFacts
      <4>3. rows' = SetRunning(table, t, FALSE) /\ table[t] \in Row
        BY <1>t, <2>2, <3>1, <4>1, RecordedFacts DEF BackendFails
      <4> HIDE DEF table
      <4>4. table[t] # NoRow
        BY <4>3, RowFacts
      <4>5. \A u \in Targets : u # t => rows'[u] = table[u]
        BY <4>2, <4>3, <4>4 DEF SetRunning
      <4>6. rows'[t].running = FALSE
        BY <4>2, <4>3, <4>4, SetRunningFacts
      <4> QED BY <4>2, <4>5, <4>6
    <3>2. CASE RemoveRow
      BY <1>t, <2>2, <3>2, RowFacts DEF RemoveRow, RowTypes
    <3> QED BY <1>5, <3>1, <3>2
  <2>5. handles[t] = NoLoop
    BY <2>1, <2>2 DEF LoopsInv, HandleTaken
  <2>6. RunningIsTrueUnlessLetGo'
    BY <1>r, <2>1, <2>2, <2>3, <2>4, <2>5, OtherTargets DEF Settled
  <2> QED BY <2>3, <2>6 DEF RunningInv, OpeningRuns
<1>6. CASE Spawn
  <2>1. PICK c \in Cmd, n \in Nat \ {0} :
          /\ worker # Idle /\ worker.at = "opening" /\ worker.cmd = c /\ worker' = Idle
          /\ c.target \in Targets /\ handles' = [handles EXCEPT ![c.target] = n]
          /\ \A h \in DOMAIN loops : h < n /\ loops'[h] = loops[h]
          /\ loops'[n] = NewLoop(c) /\ rows' = rows
    BY <1>6, SpawnMoves
  <2>2. PICK t \in Targets : t = c.target
    BY <2>1
  <2>3. handles'[t] = n /\ \A u \in Targets : u # t => handles'[u] = handles[u]
    BY <1>t, <2>1, <2>2 DEF HandleTypes
  <2>4. loops'[n].at # "ended" /\ n # NoLoop
    BY <2>1 DEF NewLoop, NoLoop
  <2>5. Runs(t)'
    BY <1>r, <2>3, <2>4
  <2>6. \A u \in Targets : u # t => (Runs(u)' <=> Runs(u))
    BY <1>r, <2>1, <2>3
  <2>7. NeverLetGo(t)' => rows'[t].running
    BY <1>i, <2>1, <2>2, LetGoStays DEF OpeningRuns
  <2>8. RunningIsTrueUnlessLetGo'
    BY <2>1, <2>2, <2>5, <2>6, <2>7, OtherTargets DEF Settled
  <2> QED BY <2>1, <2>8 DEF RunningInv, OpeningRuns
<1>7. CASE \E g \in DOMAIN loops : LoopStep(g)
  <2>1. PICK g \in DOMAIN loops : LoopStep(g)
    BY <1>7
  <2>2. PICK t \in Targets : t = loops[g].target
    BY ToldValues
  <2>3. /\ worker' = worker /\ handles' = handles
        /\ \A h \in DOMAIN loops : h # g => loops'[h] = loops[h]
    BY <2>1, LoopMoves
  <2>4. \A u \in Targets : u # t => (Runs(u)' <=> Runs(u))
    BY <1>r, <2>2, <2>3
  <2>5. /\ \A u \in Targets : u # t => rows'[u] = rows[u]
        /\ ~Finish(g) => rows'[t].running = rows[t].running \/ ~HasRow(t)
        /\ Finish(g) => rows'[t].running = FALSE
    <3>1. Stopped(g) \in BOOLEAN /\ [by |-> g, late |-> Stopped(g)] \in Sample
      BY ToldValues DEF Stopped, Sample
    <3>2. CASE rows' = rows /\ ~Finish(g)
      BY <3>2
    <3>3. CASE rows' = Recorded(t, [by |-> g, late |-> Stopped(g)]) /\ ~Finish(g)
      BY <1>t, <3>1, <3>3, RecordedFacts DEF RowFor
    <3>4. CASE Finish(g)
      <4>1. rows' = SetRunning(rows, t, FALSE)
        BY <2>2, <3>4 DEF Finish
      <4> QED BY <1>t, <3>4, <4>1, Marked
    <3> QED BY <2>1, <2>2, <3>2, <3>3, <3>4, LoopMovesRows DEF Finish, Record
  <2>6. NeverLetGo(t)' /\ (worker = Idle \/ worker.at = "opening" \/ worker.cmd.target # t)
          => handles[t] = g
    <3>1. Alive(g) /\ (NeverLetGo(t)' => NeverLetGo(t))
      BY <1>i, <2>1, LoopStages, LetGoStays
    <3>2. worker # Idle /\ worker.cmd.target # t => ~(worker.old = g)
      BY <1>t, <2>2, ToldValues DEF WorkerTypes
    <3> QED BY <2>2, <3>1, <3>2, AliveHandled DEF LoopsInv
  <2>7. Settled(t)' /\ NeverLetGo(t)' => (rows'[t].running <=> Runs(t)')
    <3> SUFFICES ASSUME Settled(t)', NeverLetGo(t)' PROVE rows'[t].running <=> Runs(t)'
      OBVIOUS
    <3>1. handles[t] = g /\ g # NoLoop /\ ~Stopped(g) /\ Alive(g)
      BY <2>1, <2>3, <2>6, LoopStages, ToldValues DEF Settled, LoopsInv, HandlesUntold
    <3>2. Settled(t) /\ NeverLetGo(t) /\ Runs(t)
      BY <1>i, <1>r, <2>3, <3>1, LetGoStays DEF Settled, Alive
    <3>3. rows[t].running /\ HasRow(t)
      BY <1>i, <3>2, RowFacts DEF RunningIsTrueUnlessLetGo, HasRow
    <3>4. CASE Finish(g)
      <4>1. loops'[g].at = "ended"
        <5>1. loops[g] \in Loop /\ Move(g, "ended") /\ "ended" \in Stages
          BY <1>t, <3>4, ToldValues DEF Finish, Stages
        <5>2. loops'[g] = [loops[g] EXCEPT !.at = "ended"]
          BY <1>t, <5>1, MoveFacts
        <5> QED BY <5>1, <5>2 DEF Loop
      <4> QED BY <1>r, <2>3, <2>5, <3>1, <3>4, <4>1
    <3>5. CASE ~Finish(g)
      <4>1. loops'[g].at # "ended"
        BY <2>1, <3>1, <3>5, LoopStages
      <4> QED BY <1>r, <2>3, <2>5, <3>1, <3>3, <3>5, <4>1
    <3> QED BY <3>4, <3>5
  <2>8. RunningIsTrueUnlessLetGo'
    BY <2>3, <2>4, <2>5, <2>7, OtherTargets DEF Settled
  <2>9. OpeningRuns'
    <3> SUFFICES ASSUME worker # Idle, worker.at = "opening", NeverLetGo(worker.cmd.target)'
                 PROVE  rows'[worker.cmd.target].running
      BY <2>3 DEF OpeningRuns
    <3>1. PICK u \in Targets : u = worker.cmd.target
      BY <1>t, AtCommand
    <3>2. rows[u].running /\ handles[u] = NoLoop
      BY <1>i, <2>3, <3>1, LetGoStays DEF OpeningRuns, LoopsInv, HandleTaken
    <3>3. u # t
      BY <2>3, <2>6, <3>1, <3>2, ToldValues
    <3> QED BY <2>5, <3>1, <3>2, <3>3
  <2> QED BY <2>8, <2>9 DEF RunningInv
<1>8. CASE UNCHANGED vars
  BY <1>1, <1>8 DEF vars
<1> QED
  BY <1>1, <1>2, <1>3, <1>4, <1>5, <1>6, <1>7, <1>8 DEF Next, Dispatch, Submit, Toggle, Delete, Give

(* Between commands, and as long as no loop of a target was let go, its    *)
(* row says it runs exactly when a loop of it does.                        *)
THEOREM RowsTellTheTruth == Spec => []RunningIsTrueUnlessLetGo
<1> DEFINE Inv == TypeOK /\ LoopsInv /\ RunningInv
<1>1. Inv => RunningIsTrueUnlessLetGo
  BY DEF RunningInv
<1>2. Init => Inv
  BY InitType, LoopsInit, RunningInit
<1>3. Inv /\ [Next]_vars => Inv'
  BY NextType, LoopsNext, RunningNext
<1> QED BY <1>1, <1>2, <1>3, PTL DEF Spec

-----------------------------------------------------------------------------
(* What the histories hold                                                 *)

Hist(t) == IF HasRow(t) THEN rows[t].history ELSE <<>>

(* Where a sample came from: the dispatcher, or a loop of its target; one  *)
(* recorded after its loop was told to end was the last that loop took.    *)
Traced(t, s) ==
  /\ s.by = NoLoop => ~s.late
  /\ s.by # NoLoop => s.by \in DOMAIN loops /\ loops[s.by].target = t
  /\ s.late => Stopped(s.by) /\ Quiet(loops[s.by].at)

(* What holds of two samples, the first of which was recorded earlier.     *)
InOrder(t, a, b) ==
  /\ ~(a.late /\ b.late /\ a.by = b.by)
  /\ NeverLetGo(t) /\ b.by # NoLoop => a.by <= b.by

HistoryInv ==
  \A t \in Targets :
    /\ \A i \in DOMAIN Hist(t) : Traced(t, Hist(t)[i])
    /\ \A i, j \in DOMAIN Hist(t) : i < j => InOrder(t, Hist(t)[i], Hist(t)[j])

LEMMA HistoryOrder == HistoryInv => SamplesInOrder
  BY DEF HistoryInv, SamplesInOrder, InOrder, Hist

LEMMA HistoryInit == Init => HistoryInv
<1> SUFFICES ASSUME Init, NEW t \in Targets
             PROVE  /\ \A i \in DOMAIN Hist(t) : Traced(t, Hist(t)[i])
                    /\ \A i, j \in DOMAIN Hist(t) : i < j => InOrder(t, Hist(t)[i], Hist(t)[j])
  BY DEF HistoryInv
<1>1. Hist(t) = <<>>
  BY DEF Init, Hist, HasRow
<1>2. DOMAIN Hist(t) = {}
  <2>1. Len(Hist(t)) = 0 /\ Hist(t) \in Seq(Sample)
    BY <1>1
  <2>2. DOMAIN Hist(t) = 1..0
    BY <2>1
  <2> QED BY <2>2
<1> QED BY <1>2

(* The samples a step can add.                                             *)
Failed == [by |-> NoLoop, late |-> FALSE]
Taken(g) == [by |-> g, late |-> Stopped(g)]

LEMMA SampleTypes ==
  ASSUME TypeOK
  PROVE  Failed \in Sample /\ \A g \in DOMAIN loops : Taken(g) \in Sample
  BY ToldValues DEF Failed, Taken, Sample, Stopped, NoLoop

(* What one step does to the history of a target: nothing, empty it, or    *)
(* add one sample, of a failed start or of a loop of the target.           *)
HistoryStep(t) ==
  \/ Hist(t)' \in {<<>>, Hist(t)}
  \/ Continues(Hist(t)', Hist(t), Failed)
  \/ \E g \in DOMAIN loops :
       /\ Record(g) /\ loops[g].target = t
       /\ Continues(Hist(t)', Hist(t), Taken(g))

LEMMA MarkedHistory ==
  ASSUME RowTypes, NEW t \in Targets, NEW r \in BOOLEAN, rows' = SetRunning(rows, t, r),
         NEW u \in Targets
  PROVE  Hist(u)' = Hist(u)
<1>1. CASE u # t
  <2>1. rows'[u] = rows[u]
    BY <1>1, Marked
  <2> QED BY <2>1 DEF Hist, HasRow
<1>2. CASE u = t /\ HasRow(t)
  <2>1. rows'[t] \in Row /\ rows'[t].history = rows[t].history
    BY <1>2, SetRunningFacts DEF RowTypes, HasRow
  <2> QED BY <1>2, <2>1, RowFacts DEF Hist, HasRow
<1>3. CASE u = t /\ ~HasRow(t)
  <2>1. rows' = rows
    BY <1>3 DEF SetRunning, HasRow
  <2> QED BY <2>1 DEF Hist, HasRow
<1> QED BY <1>1, <1>2, <1>3

LEMMA RecordedHistory ==
  ASSUME RowTypes, NEW t \in Targets, NEW s \in Sample, NEW table, table = Recorded(t, s)
  PROVE  /\ \A u \in Targets : u # t => table[u] = rows[u]
         /\ table[t] \in Row /\ Continues(table[t].history, Hist(t), s)
<1>1. RowFor(t).history = Hist(t)
  BY RowFacts, TargetAssumption, BoundAssumption DEF RowFor, Hist, NewRow
<1> QED BY <1>1, RecordedFacts

LEMMA HistoryMoves == TypeOK /\ [Next]_vars => \A t \in Targets : HistoryStep(t)
<1> SUFFICES ASSUME TypeOK, [Next]_vars, NEW t \in Targets PROVE HistoryStep(t)
  OBVIOUS
<1>t. WorkerTypes /\ RowTypes
  BY TypeParts
<1>1. CASE rows' = rows
  BY <1>1 DEF HistoryStep, Hist, HasRow
<1>2. CASE Stop
  <2>1. PICK u \in Targets : rows' = SetRunning(rows, u, FALSE)
    BY <1>2, StopMoves
  <2> QED BY <1>t, <2>1, MarkedHistory DEF HistoryStep
<1>3. CASE EnsureRow
  <2>1. worker # Idle
    BY <1>3, Busy DEF EnsureRow, Joined
  <2>2. PICK c \in Cmd, u \in Targets : c = worker.cmd /\ u = c.target /\ c.method \in Methods
                         /\ c.count \in Counts \cup {0}
    BY <1>t, <2>1, AtCommand
  <2>3. rows' = IF HasRow(u) THEN SetRunning(rows, u, TRUE)
                ELSE [rows EXCEPT ![u] = NewRow(c.method, c.count)]
    BY <1>3, <2>2 DEF EnsureRow
  <2>4. CASE HasRow(u)
    <3>1. rows' = SetRunning(rows, u, TRUE)
      BY <2>3, <2>4
    <3> QED BY <1>t, <3>1, MarkedHistory DEF HistoryStep
  <2>5. CASE ~HasRow(u)
    <3>1. rows' = [rows EXCEPT ![u] = NewRow(c.method, c.count)]
      BY <2>3, <2>5
    <3> QED BY <1>t, <2>2, <3>1, RowFacts DEF HistoryStep, Hist, HasRow, RowTypes
  <2> QED BY <2>4, <2>5
<1>4. CASE BackendFails
  <2>1. PICK u \in Targets : u = worker.cmd.target
    BY <1>t, <1>4, Busy, AtCommand DEF BackendFails
  <2> DEFINE table == Recorded(u, Failed)
  <2>2. Failed \in Sample
    BY SampleTypes
  <2>3. /\ \A v \in Targets : v # u => table[v] = rows[v]
        /\ table[u] \in Row /\ Continues(table[u].history, Hist(u), Failed)
    BY <1>t, <2>2, RecordedHistory
  <2>4. table \in [Targets -> Row \cup {NoRow}]
    BY <1>t, <2>2, RecordedFacts
  <2>5. rows' = SetRunning(table, u, FALSE)
    BY <1>4, <2>1 DEF BackendFails, Failed
  <2> HIDE DEF table
  <2>6. rows' = [table EXCEPT ![u].running = FALSE]
    BY <2>3, <2>5, RowFacts DEF SetRunning
  <2>7. \A v \in Targets : v # u => rows'[v] = rows[v]
    BY <2>3, <2>4, <2>6
  <2>8. rows'[u] \in Row /\ rows'[u].history = table[u].history
    BY <2>3, <2>4, <2>6 DEF Row
  <2>9. CASE t = u
    BY <2>3, <2>8, <2>9, RowFacts DEF HistoryStep, Hist, HasRow
  <2>10. CASE t # u
    BY <2>7, <2>10 DEF HistoryStep, Hist, HasRow
  <2> QED BY <2>9, <2>10
<1>5. CASE RemoveRow
  <2>1. rows' = [rows EXCEPT ![worker.cmd.target] = NoRow]
    BY <1>5 DEF RemoveRow
  <2> QED BY <1>t, <2>1 DEF HistoryStep, Hist, HasRow, RowTypes
<1>6. CASE \E g \in DOMAIN loops : LoopStep(g)
  <2>1. PICK g \in DOMAIN loops : LoopStep(g)
    BY <1>6
  <2>2. PICK u \in Targets : u = loops[g].target
    BY ToldValues
  <2>3. CASE Record(g) /\ rows' = Recorded(u, Taken(g))
    <3>1. /\ \A v \in Targets : v # u => rows'[v] = rows[v]
          /\ rows'[u] \in Row /\ Continues(rows'[u].history, Hist(u), Taken(g))
      BY <1>t, <2>3, SampleTypes, RecordedHistory
    <3>2. CASE t = u
      BY <2>2, <2>3, <3>1, <3>2, RowFacts DEF HistoryStep, Hist, HasRow
    <3>3. CASE t # u
      BY <3>1, <3>3 DEF HistoryStep, Hist, HasRow
    <3> QED BY <3>2, <3>3
  <2>4. CASE rows' = SetRunning(rows, u, FALSE)
    BY <1>t, <2>4, MarkedHistory DEF HistoryStep
  <2> QED BY <1>1, <2>1, <2>2, <2>3, <2>4, LoopMovesRows DEF Taken
<1>7. CASE TakeStartOrDelete \/ Spawn
  BY <1>1, <1>7 DEF TakeStartOrDelete, Spawn
<1> QED
  BY <1>1, <1>2, <1>3, <1>4, <1>5, <1>6, <1>7 DEF Next, Dispatch, Submit, Toggle, Delete, Give, vars

(* What was found of a sample, or of two, stays true.                      *)
LEMMA TraceStays ==
  ASSUME TypeOK, LoopsFollow, NEW t \in Targets, NEW s, Traced(t, s)
  PROVE  Traced(t, s)'
  BY DEF LoopsFollow, Traced, Stopped

LEMMA OrderStays ==
  ASSUME TypeOK, LoopsFollow, NEW t \in Targets, NEW a, NEW b, InOrder(t, a, b)
  PROVE  InOrder(t, a, b)'
  BY LetGoStays DEF InOrder

LEMMA HistoryNext == TypeOK /\ LoopsInv /\ HistoryInv /\ [Next]_vars => HistoryInv'
<1> SUFFICES ASSUME TypeOK, LoopsInv, HistoryInv, [Next]_vars, NEW t \in Targets
             PROVE  /\ \A i \in DOMAIN Hist(t)' : Traced(t, Hist(t)[i])'
                    /\ \A i, j \in DOMAIN Hist(t)' : i < j => InOrder(t, Hist(t)[i], Hist(t)[j])'
  BY DEF HistoryInv
<1>1. PICK old, new : old = Hist(t) /\ new = Hist(t)'
  OBVIOUS
<1>2. /\ \A i \in DOMAIN old : Traced(t, old[i])
      /\ \A i, j \in DOMAIN old : i < j => InOrder(t, old[i], old[j])
  BY <1>1 DEF HistoryInv
<1>3. LoopsFollow
  BY Follow
<1>4. /\ \A i \in DOMAIN old : Traced(t, old[i])'
      /\ \A i, j \in DOMAIN old : i < j => InOrder(t, old[i], old[j])'
  BY <1>2, <1>3, TraceStays, OrderStays
<1>5. ASSUME NEW s, Continues(new, old, s), Traced(t, s)',
             \A i \in DOMAIN old : InOrder(t, old[i], s)'
      PROVE  /\ \A i \in DOMAIN new : Traced(t, new[i])'
             /\ \A i, j \in DOMAIN new : i < j => InOrder(t, new[i], new[j])'
  BY <1>4, <1>5 DEF Continues
<1>6. CASE new \in {<<>>, old}
  BY <1>1, <1>4, <1>6
<1>7. CASE Continues(new, old, Failed)
  <2>1. Traced(t, Failed)' /\ \A i \in DOMAIN old : InOrder(t, old[i], Failed)'
    BY DEF Traced, InOrder, Failed
  <2> QED BY <1>1, <1>5, <1>7, <2>1
<1>8. CASE \E g \in DOMAIN loops :
             Record(g) /\ loops[g].target = t /\ Continues(new, old, Taken(g))
  <2>1. PICK g \in DOMAIN loops :
          Record(g) /\ loops[g].target = t /\ Continues(new, old, Taken(g))
    BY <1>8
  <2>2. PICK s : s = Taken(g)
    OBVIOUS
  <2>3. loops[g].at = "returned" /\ Alive(g) /\ g \in Nat /\ g # NoLoop
    BY <2>1, ToldValues DEF Record, Alive
  <2>4. Traced(t, s)'
    <3>1. Stopped(g) => Stopped(g)' /\ Quiet(loops'[g].at)
      BY <1>3, <2>1, LoopStages DEF LoopsFollow, Stopped, LoopStep, Quiet
    <3> QED BY <1>3, <2>1, <2>2, <2>3, <3>1 DEF Traced, Taken, LoopsFollow
  <2>5. ASSUME NEW i \in DOMAIN old PROVE InOrder(t, old[i], s)
    <3>1. Traced(t, old[i])
      BY <1>2
    <3>2. ~(old[i].late /\ s.late /\ old[i].by = s.by)
      BY <2>2, <2>3, <3>1 DEF Traced, Taken, Quiet
    <3>3. NeverLetGo(t) => old[i].by <= g
      BY <2>1, <2>3, <3>1 DEF Traced, LoopsInv, LatestRuns, NoLoop
    <3> QED BY <2>2, <3>2, <3>3 DEF InOrder, Taken
  <2>6. \A i \in DOMAIN old : InOrder(t, old[i], s)'
    BY <1>3, <2>5, OrderStays
  <2> QED BY <1>1, <1>5, <2>1, <2>2, <2>4, <2>6
<1> QED BY <1>1, <1>6, <1>7, <1>8, HistoryMoves DEF HistoryStep

(* A loop records at most one sample after it was told to stop; and the    *)
(* history of a target none of whose loops was let go lists its samples    *)
(* loop by loop.                                                           *)
THEOREM HistoriesInOrder == Spec => []SamplesInOrder
<1> DEFINE Inv == TypeOK /\ LoopsInv /\ HistoryInv
<1>1. Inv => SamplesInOrder
  BY HistoryOrder
<1>2. Init => Inv
  BY InitType, LoopsInit, HistoryInit
<1>3. Inv /\ [Next]_vars => Inv'
  BY NextType, LoopsNext, HistoryNext
<1> QED BY <1>1, <1>2, <1>3, PTL DEF Spec
=============================================================================
