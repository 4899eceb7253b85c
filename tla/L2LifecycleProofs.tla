------------------------- MODULE L2LifecycleProofs -------------------------
(***************************************************************************)
(* Proofs about L2Lifecycle, for any way of starting helpers and any       *)
(* number of starts.                                                       *)
(***************************************************************************)
EXTENDS L2Lifecycle, SequenceTheorems, TLAPS

Message == {"ok", "error", "ready", "failed"}
Place == {"unborn", "launching", "connected", "open", "announcing", "serving", "ending",
          "exited", "nowhere"}

-----------------------------------------------------------------------------
(* The two ends of the connection                                          *)

(* The endpoint is there, and a helper may wait at it, only while the      *)
(* manager waits for one; a helper is connected from then to the end of    *)
(* its session.                                                            *)
Ends ==
  /\ bound \/ peer # NoHelper => mgr = "waiting"
  /\ mgr \in {"handshake", "reaping"} => conn # NoHelper
  /\ conn # NoHelper => mgr \in {"handshake", "select", "reaping"}
  /\ status = "Active" => mgr \in {"select", "reaping"} /\ conn # NoHelper
  /\ peer = NoHelper /\ conn = NoHelper => inbox = <<>>

(* What is in the stream of a helper, by how far its startup has got, and  *)
(* whether the manager has heard of its sniffer.                           *)
Streamed(h) ==
  /\ at[h] \notin {"unborn", "launching"}
  /\ at[h] \in {"connected", "open"} => inbox = <<>>
  /\ at[h] = "announcing" => inbox \in {<<>>, <<outcome[h]>>}
  /\ at[h] = "serving" => inbox \in {<<>>, <<"ready">>, <<outcome[h], "ready">>}
  /\ at[h] \in Gone =>
       inbox \in {<<>>, <<"failed">>, <<"ready">>, <<outcome[h]>>, <<outcome[h], "ready">>}
  /\ at[h] \in {"announcing", "serving"} => outcome[h] \in {"ok", "error"}
  /\ inbox = <<outcome[h]>> \/ inbox = <<outcome[h], "ready">> => outcome[h] \in {"ok", "error"}
  /\ inbox = <<"ready">> => at[h] \in {"serving"} \cup Gone
  /\ inbox = <<"ready">> \/ (inbox = <<>> /\ at[h] \in {"announcing", "serving"}) =>
       banner = outcome[h]

StreamsInv == Ends /\ \A h \in Helpers : Held(h) => Streamed(h)

LEMMA TupleFacts ==
  ASSUME NEW a, NEW b
  PROVE  /\ Append(<<>>, a) = <<a>> /\ Append(<<a>>, b) = <<a, b>>
         /\ Head(<<a>>) = a /\ Tail(<<a>>) = <<>>
         /\ Head(<<a, b>>) = a /\ Tail(<<a, b>>) = <<b>>
         /\ <<>> # <<a>> /\ <<>> # <<a, b>> /\ <<a>> # <<a, b>> /\ <<b>> # <<a, b>>
         /\ <<a>> = <<b>> => a = b
<1>1. <<>> \in Seq({a, b}) /\ <<a>> \in Seq({a, b}) /\ <<a, b>> \in Seq({a, b}) /\ <<b>> \in Seq({a, b})
  OBVIOUS
<1>2. Append(<<>>, a) = <<a>> /\ Append(<<a>>, b) = <<a, b>>
  <2>1. /\ Append(<<>>, a) \in Seq({a, b}) /\ Len(Append(<<>>, a)) = 1 /\ Append(<<>>, a)[1] = a
        /\ Append(<<a>>, b) \in Seq({a, b}) /\ Len(Append(<<a>>, b)) = 2
        /\ Append(<<a>>, b)[1] = a /\ Append(<<a>>, b)[2] = b
    BY <1>1
  <2>2. Len(<<a>>) = 1 /\ <<a>>[1] = a /\ Len(<<a, b>>) = 2 /\ <<a, b>>[1] = a /\ <<a, b>>[2] = b
    OBVIOUS
  <2>3. Append(<<>>, a) = <<a>>
    BY <1>1, <2>1, <2>2, SeqEqual
  <2>4. Append(<<a>>, b) = <<a, b>>
    <3>1. \A i \in 1..2 : Append(<<a>>, b)[i] = <<a, b>>[i]
      <4>1. 1..2 = {1, 2}
        OBVIOUS
      <4> QED BY <2>1, <2>2, <4>1
    <3> QED BY <1>1, <2>1, <2>2, <3>1, SeqEqual
  <2> QED BY <2>3, <2>4
<1>3. Head(<<a>>) = a /\ Head(<<a, b>>) = a
  BY <1>1
<1>4. Tail(<<a>>) = <<>> /\ Tail(<<a, b>>) = <<b>>
  BY <1>1
<1>5. <<>> # <<a>> /\ <<>> # <<a, b>> /\ <<a>> # <<a, b>> /\ <<b>> # <<a, b>>
  <2>1. Len(<<>>) = 0 /\ Len(<<a>>) = 1 /\ Len(<<a, b>>) = 2 /\ Len(<<b>>) = 1
    OBVIOUS
  <2> QED BY <2>1
<1>6. <<a>> = <<b>> => a = b
  <2>1. <<a>>[1] = a /\ <<b>>[1] = b
    OBVIOUS
  <2> QED BY <2>1
<1> QED BY <1>2, <1>3, <1>4, <1>5, <1>6

LEMMA HelperFacts ==
  /\ NoHelper \notin Helpers /\ Exited \subseteq Gone /\ Exited = {"exited", "nowhere"}
  /\ Gone = {"exited", "nowhere", "ending"}
  BY DEF NoHelper, Helpers, Exited, Gone

LEMMA OneHeld ==
  ASSUME Ends, NEW h \in Helpers, NEW k \in Helpers, Held(h), Held(k) PROVE h = k
  BY HelperFacts DEF Ends, Held

-----------------------------------------------------------------------------
(* Types                                                                   *)

LEMMA InitType == Init => TypeOK
<1> SUFFICES ASSUME Init PROVE TypeOK
  OBVIOUS
<1>1. inbox \in Seq({"ok", "error", "ready", "failed"}) /\ starts \in Nat /\ starts <= MaxStarts
  BY StartAssumption DEF Init
<1>2. /\ at \in [Helpers -> {"unborn", "launching", "connected", "open", "announcing", "serving",
                             "ending"} \cup Exited]
      /\ sniffer \in [Helpers -> {"none", "on", "off"}]
      /\ outcome \in [Helpers -> {"unknown", "ok", "error"}]
  BY DEF Init
<1> QED BY <1>1, <1>2 DEF Init, TypeOK

LEMMA SendType ==
  ASSUME inbox \in Seq(Message), NEW h, NEW m \in Message, Send(h, m)
  PROVE  inbox' \in Seq(Message)
<1>1. Append(inbox, m) \in Seq(Message)
  OBVIOUS
<1> QED BY <1>1 DEF Send

LEMMA NextType == TypeOK /\ [Next]_vars => TypeOK'
<1> SUFFICES ASSUME TypeOK, [Next]_vars PROVE TypeOK'
  OBVIOUS
<1>t. /\ inbox \in Seq(Message) /\ at \in [Helpers -> Place] /\ <<>> \in Seq(Message)
      /\ \A h \in Helpers, p \in Place : [at EXCEPT ![h] = p] \in [Helpers -> Place]
      /\ Message = {"ok", "error", "ready", "failed"}
      /\ Place = {"unborn", "launching", "connected", "open", "announcing", "serving", "ending"} \cup Exited
  BY DEF TypeOK, Message, Place, Exited
<1>1. CASE Launch
  <2>1. starts + 1 \in Helpers
    BY <1>1, StartAssumption DEF TypeOK, Launch, Helpers
  <2> QED BY <1>t, <1>1, <2>1 DEF TypeOK, Launch, Place, Helpers
<1>2. CASE LaunchFails \/ BindFails \/ ChildExited \/ AcceptTimesOut \/ HearFailed \/ HandshakeFails
           \/ HelperLost
  <2>1. GiveUp /\ UNCHANGED banner
    BY <1>2 DEF LaunchFails, BindFails, ChildExited, AcceptTimesOut, HearFailed, HandshakeFails, HelperLost
  <2> QED BY <1>t, <2>1 DEF TypeOK, GiveUp, helperVars, Message
<1>3. CASE Bind \/ Accept \/ DeactivateNothing
  BY <1>3 DEF TypeOK, Bind, Accept, DeactivateNothing, helperVars
<1>4. CASE HearSniffer \/ HearReady
  <2>1. inbox # <<>> => Tail(inbox) \in Seq(Message)
    BY <1>t, HeadTailProperties
  <2> QED BY <1>t, <1>4, <2>1 DEF TypeOK, HearSniffer, HearReady, Receives, helperVars, Message
<1>5. CASE Deactivate
  <2>1. conn \in Helpers
    BY <1>5 DEF TypeOK, Deactivate, Session
  <2> QED BY <1>5, <2>1 DEF TypeOK, Deactivate, helperVars
<1>6. CASE Reap
  <2>1. at' \in [Helpers -> Place] /\ sniffer' \in [Helpers -> {"none", "on", "off"}]
    BY <1>t, <1>6 DEF Reap, TypeOK, Place, Exited
  <2> QED BY <1>t, <1>6, <2>1 DEF TypeOK, Reap, Message
<1>7. ASSUME NEW h \in Helpers, Decline(h) \/ HelperStep(h) \/ SnifferEnds(h) \/ Crash(h)
      PROVE  TypeOK'
  <2>1. CASE Decline(h) \/ Connect(h) \/ ConnectFails(h) \/ EngineOpens(h) \/ StopServing(h) \/ Exit(h)
    <3>1. \E p \in Place : at' = [at EXCEPT ![h] = p]
      BY <2>1 DEF Decline, Connect, ConnectFails, EngineOpens, StopServing, Exit, Go, Place
    <3>2. /\ UNCHANGED <<mode, mgr, status, banner, starts, bound, conn, told, inbox, sniffer, outcome>>
          /\ peer' \in {peer, h}
      BY <2>1 DEF Decline, Connect, ConnectFails, EngineOpens, StopServing, Exit, Others, mgrVars
    <3> QED BY <1>t, <3>1, <3>2 DEF TypeOK
  <2>2. CASE EngineFails(h) \/ Announce(h)
    <3>1. \E p \in Place : at' = [at EXCEPT ![h] = p]
      BY <2>2 DEF EngineFails, Announce, Go, Place
    <3>2. inbox' \in Seq(Message)
      BY <1>t, <2>2, SendType DEF EngineFails, Announce, Message
    <3>3. UNCHANGED <<mode, mgr, status, banner, starts, bound, conn, told, peer, sniffer, outcome>>
      BY <2>2 DEF EngineFails, Announce, Others, mgrVars
    <3> QED BY <1>t, <3>1, <3>2, <3>3 DEF TypeOK
  <2>3. ASSUME NEW o \in {"ok", "error"}, SnifferStarts(h, o) PROVE TypeOK'
    <3>1. at' \in [Helpers -> Place]
      BY <1>t, <2>3 DEF SnifferStarts, Go, Place
    <3>2. inbox' \in Seq(Message)
      BY <1>t, <2>3, SendType DEF SnifferStarts, Message
    <3>3. /\ UNCHANGED <<mode, mgr, status, banner, starts, bound, conn, told, peer>>
          /\ sniffer' \in [Helpers -> {"none", "on", "off"}]
          /\ outcome' \in [Helpers -> {"unknown", "ok", "error"}]
      BY <2>3 DEF SnifferStarts, Others, mgrVars, TypeOK
    <3> QED BY <1>t, <3>1, <3>2, <3>3 DEF TypeOK
  <2>4. CASE SnifferEnds(h) \/ Crash(h)
    <3>1. at' = at \/ at' = [at EXCEPT ![h] = "exited"]
      BY <2>4 DEF SnifferEnds, Crash, Go
    <3>2. /\ UNCHANGED <<mode, mgr, status, banner, starts, bound, conn, told, peer, inbox, outcome>>
          /\ sniffer' = [sniffer EXCEPT ![h] = "off"]
      BY <2>4 DEF SnifferEnds, Crash, Others, mgrVars
    <3>3. at' \in [Helpers -> Place]
      BY <1>t, <3>1 DEF Place
    <3> QED BY <1>t, <3>2, <3>3 DEF TypeOK
  <2> QED BY <1>7, <2>1, <2>2, <2>3, <2>4 DEF HelperStep
<1>8. CASE UNCHANGED vars
  BY <1>8 DEF TypeOK, vars, mgrVars, helperVars
<1> QED BY <1>1, <1>2, <1>3, <1>4, <1>5, <1>6, <1>7, <1>8 DEF Next, ManagerStep

(* Every variable keeps to its type: what is said on a connection and      *)
(* shown of it is one of the things the program knows.                     *)
THEOREM TypeCorrect == Spec => []TypeOK
  BY InitType, NextType, PTL DEF Spec

-----------------------------------------------------------------------------
(* What the stream of a helper holds                                       *)

LEMMA InitStreams == Init => StreamsInv /\ ActiveIsServed
  BY HelperFacts DEF Init, StreamsInv, Ends, Held, ActiveIsServed

(* What a step of helper k leaves alone.                                   *)
LEMMA HelperLeaves ==
  ASSUME TypeOK, NEW k \in Helpers, Decline(k) \/ HelperStep(k) \/ SnifferEnds(k) \/ Crash(k)
  PROVE  /\ UNCHANGED <<mode, mgr, status, banner, starts, bound, conn, told>>
         /\ ~Connect(k) => peer' = peer
         /\ Held(k) \/ inbox' = inbox
         /\ \A h \in Helpers : h # k => at'[h] = at[h] /\ outcome'[h] = outcome[h]
  BY DEF TypeOK, Decline, HelperStep, SnifferEnds, Crash, Connect, ConnectFails, EngineFails,
         EngineOpens, SnifferStarts, Announce, StopServing, Exit, Go, Send, Others, mgrVars

(* The steps of the helper at the other end.                               *)
LEMMA StreamStep ==
  ASSUME TypeOK, NEW k \in Helpers, Held(k), Streamed(k), UNCHANGED <<peer, conn, banner>>,
         Decline(k) \/ HelperStep(k) \/ SnifferEnds(k) \/ Crash(k)
  PROVE  Streamed(k)' /\ (at[k] \in {"serving"} \cup Gone => at'[k] \in Gone /\ outcome'[k] = outcome[k])
<1>t. at \in [Helpers -> Place] /\ outcome \in [Helpers -> {"unknown", "ok", "error"}] /\ at[k] \in Place
  BY HelperFacts DEF TypeOK, Place
<1>g. Gone = {"exited", "nowhere", "ending"} /\ Exited = {"exited", "nowhere"}
  BY HelperFacts
<1>1. CASE Decline(k) \/ Connect(k) \/ ConnectFails(k)
  BY <1>1 DEF Decline, Connect, ConnectFails, Streamed
<1>2. CASE EngineFails(k)
  <2>1. at[k] = "connected" /\ inbox' = Append(inbox, "failed") /\ at'[k] = "exited" /\ outcome' = outcome
    BY <1>2, <1>t DEF EngineFails, Send, Go
  <2>2. inbox' = <<"failed">>
    BY <2>1, TupleFacts DEF Streamed
  <2>3. inbox' # <<"ready">> /\ inbox' # <<>> /\ inbox' # <<outcome[k]>> /\ inbox' # <<outcome[k], "ready">>
    BY <2>2, <1>t, TupleFacts
  <2> QED BY <1>g, <2>1, <2>2, <2>3 DEF Streamed
<1>3. CASE EngineOpens(k)
  <2>1. at[k] = "connected" /\ inbox' = inbox /\ at'[k] = "open" /\ outcome' = outcome
    BY <1>3, <1>t DEF EngineOpens, Go
  <2>2. inbox = <<>>
    BY <2>1 DEF Streamed
  <2> QED BY <1>g, <2>1, <2>2, TupleFacts DEF Streamed
<1>4. ASSUME NEW o \in {"ok", "error"}, SnifferStarts(k, o) PROVE Streamed(k)' /\ at[k] = "open"
  <2>1. at[k] = "open" /\ inbox' = Append(inbox, o) /\ at'[k] = "announcing" /\ outcome'[k] = o
    BY <1>4, <1>t DEF SnifferStarts, Send, Go
  <2>2. inbox' = <<o>>
    BY <2>1, TupleFacts DEF Streamed
  <2>3. inbox' # <<"ready">> /\ inbox' # <<>>
    BY <2>2, TupleFacts
  <2> QED BY <1>g, <2>1, <2>2, <2>3 DEF Streamed
<1>5. CASE Announce(k)
  <2>1. at[k] = "announcing" /\ inbox' = Append(inbox, "ready") /\ at'[k] = "serving" /\ outcome' = outcome
    BY <1>5, <1>t DEF Announce, Send, Go
  <2>2. CASE inbox = <<>>
    <3>1. inbox' = <<"ready">> /\ banner = outcome[k]
      BY <2>1, <2>2, TupleFacts DEF Streamed
    <3>2. inbox' # <<>> /\ inbox' # <<outcome[k], "ready">> /\ outcome[k] \in {"ok", "error"}
      BY <2>1, <3>1, TupleFacts DEF Streamed
    <3> QED BY <1>g, <2>1, <3>1, <3>2 DEF Streamed
  <2>3. CASE inbox = <<outcome[k]>>
    <3>1. inbox' = <<outcome[k], "ready">>
      <4>1. PICK o : o = outcome[k]
        OBVIOUS
      <4>2. Append(<<o>>, "ready") = <<o, "ready">>
        BY TupleFacts
      <4> QED BY <2>1, <2>3, <4>1, <4>2
    <3>2. inbox' # <<>> /\ inbox' # <<"ready">> /\ outcome[k] \in {"ok", "error"}
      BY <2>1, <3>1, TupleFacts DEF Streamed
    <3> QED BY <1>g, <2>1, <3>1, <3>2 DEF Streamed
  <2> QED BY <1>g, <2>1, <2>2, <2>3 DEF Streamed
<1>6. CASE StopServing(k) \/ SnifferEnds(k) \/ Exit(k) \/ Crash(k)
  <2>1. at[k] \notin {"unborn", "launching"} /\ inbox' = inbox /\ outcome' = outcome
        /\ at'[k] \in Gone
    BY <1>6, <1>t, <1>g DEF StopServing, SnifferEnds, Exit, Crash, Go, Others
  <2>2. inbox \in {<<>>, <<"failed">>, <<"ready">>, <<outcome[k]>>, <<outcome[k], "ready">>}
    BY <1>t, <1>g DEF Streamed, Place
  <2> QED BY <1>g, <2>1, <2>2 DEF Streamed
<1> QED
  <2>1. CASE HelperStep(k)
    BY <1>g, <1>1, <1>2, <1>3, <1>4, <1>5, <1>6, <2>1
    DEF HelperStep, StopServing, Exit, EngineFails, EngineOpens, Announce
  <2> QED BY <1>1, <1>6, <2>1

(* What the manager hears.                                                 *)
LEMMA HeardSniffer ==
  ASSUME TypeOK, StreamsInv, HearSniffer
  PROVE  Streamed(conn)' /\ banner' = outcome[conn] /\ conn \in Helpers
<1>1. conn \in Helpers /\ Streamed(conn) /\ inbox # <<>> /\ Head(inbox) \in {"ok", "error"}
  BY HelperFacts DEF TypeOK, StreamsInv, Ends, Held, HearSniffer
<1>2. /\ UNCHANGED <<conn, at, outcome>> /\ inbox' = Tail(inbox) /\ banner' = Head(inbox)
  BY DEF HearSniffer, helperVars
<1>3. PICK o : o = outcome[conn]
  OBVIOUS
<1>4. at[conn] \in Place /\ Gone = {"exited", "nowhere", "ending"}
  BY <1>1, HelperFacts DEF TypeOK, Place
<1>5. inbox \in {<<o>>, <<o, "ready">>}
  <2>1. inbox \in {<<>>, <<"failed">>, <<"ready">>, <<o>>, <<o, "ready">>}
    BY <1>1, <1>3, <1>4 DEF Streamed, Place
  <2> QED BY <1>1, <2>1, TupleFacts
<1>6. CASE inbox = <<o>>
  <2>1. inbox' = <<>> /\ banner' = o
    BY <1>2, <1>6, TupleFacts
  <2>2. inbox # <<>> /\ inbox # <<"ready">> /\ inbox # <<o, "ready">> /\ at[conn] \in {"announcing"} \cup Gone
    BY <1>1, <1>3, <1>4, <1>6, TupleFacts DEF Streamed, Place
  <2>3. <<>> # <<o>> /\ <<>> # <<o, "ready">> /\ <<>> # <<"ready">>
    BY TupleFacts
  <2> QED BY <1>1, <1>2, <1>3, <1>4, <2>1, <2>2, <2>3 DEF Streamed
<1>7. CASE inbox = <<o, "ready">>
  <2>1. inbox' = <<"ready">> /\ banner' = o
    BY <1>2, <1>7, TupleFacts
  <2>2. at[conn] \in {"serving"} \cup Gone /\ outcome[conn] \in {"ok", "error"}
    <3>1. inbox # <<>> /\ inbox # <<"ready">> /\ inbox # <<o>>
      BY <1>7, TupleFacts
    <3> QED BY <1>1, <1>3, <1>4, <1>7, <3>1 DEF Streamed, Place
  <2>3. <<"ready">> # <<o>> /\ <<"ready">> # <<o, "ready">> /\ <<"ready">> # <<>>
    BY <1>3, <2>2, TupleFacts
  <2> QED BY <1>1, <1>2, <1>3, <1>4, <2>1, <2>2, <2>3 DEF Streamed
<1> QED BY <1>1, <1>2, <1>3, <1>5, <1>6, <1>7, TupleFacts

LEMMA HeardReady ==
  ASSUME TypeOK, StreamsInv, HearReady
  PROVE  /\ conn \in Helpers /\ at[conn] \in {"serving"} \cup Gone /\ banner = outcome[conn]
         /\ Streamed(conn)'
<1>1. conn \in Helpers /\ Streamed(conn) /\ inbox # <<>> /\ Head(inbox) = "ready"
  BY HelperFacts DEF TypeOK, StreamsInv, Ends, Held, HearReady, Receives
<1>2. UNCHANGED <<conn, at, outcome, banner>> /\ inbox' = Tail(inbox)
  BY DEF HearReady, helperVars
<1>3. PICK o : o = outcome[conn] /\ o \in {"unknown", "ok", "error"}
  BY <1>1 DEF TypeOK
<1>4. at[conn] \in Place /\ Gone = {"exited", "nowhere", "ending"}
  BY <1>1, HelperFacts DEF TypeOK, Place
<1>5. inbox = <<"ready">>
  <2>1. inbox \in {<<>>, <<"failed">>, <<"ready">>, <<o>>, <<o, "ready">>}
    BY <1>1, <1>3, <1>4 DEF Streamed, Place
  <2> QED BY <1>1, <1>3, <2>1, TupleFacts
<1>6. inbox' = <<>> /\ at[conn] \in {"serving"} \cup Gone /\ banner = o
  BY <1>1, <1>2, <1>3, <1>5, TupleFacts DEF Streamed
<1>7. <<>> # <<o>> /\ <<>> # <<o, "ready">> /\ <<>> # <<"ready">>
  BY TupleFacts
<1> QED BY <1>1, <1>2, <1>3, <1>4, <1>6, <1>7 DEF Streamed

-----------------------------------------------------------------------------
(* What Active promises                                                    *)

ServedInv == StreamsInv /\ ActiveIsServed

LEMMA NextServed == TypeOK /\ ServedInv /\ [Next]_vars => ServedInv'
<1> SUFFICES ASSUME TypeOK, ServedInv, [Next]_vars PROVE ServedInv'
  OBVIOUS
<1>i. /\ Ends /\ ActiveIsServed /\ StreamsInv
      /\ \A h \in Helpers : Held(h) => Streamed(h)
  BY DEF ServedInv, StreamsInv
<1>s. /\ \A h \in Helpers : Held(h)' => Streamed(h)'
      /\ Ends' /\ ActiveIsServed'
      => ServedInv'
  BY DEF ServedInv, StreamsInv
<1>1. CASE Launch
  <2>1. /\ mgr = "select" /\ conn = NoHelper /\ peer = NoHelper /\ mgr' = "spawned" /\ status' = "Starting"
        /\ UNCHANGED <<bound, peer, conn, inbox>>
    BY <1>1, <1>i DEF Launch, Session, Ends
  <2>2. Ends' /\ ActiveIsServed' /\ \A h \in Helpers : ~Held(h)'
    BY <1>i, <2>1, HelperFacts DEF Ends, ActiveIsServed, Held
  <2> QED BY <1>s, <2>2
<1>2. CASE LaunchFails \/ BindFails \/ ChildExited \/ AcceptTimesOut \/ HearFailed \/ HandshakeFails
           \/ HelperLost
  <2>1. GiveUp
    BY <1>2 DEF LaunchFails, BindFails, ChildExited, AcceptTimesOut, HearFailed, HandshakeFails, HelperLost
  <2>2. Ends' /\ ActiveIsServed' /\ \A h \in Helpers : ~Held(h)'
    BY <2>1, HelperFacts DEF GiveUp, Ends, ActiveIsServed, Held
  <2> QED BY <1>s, <2>2
<1>3. CASE Bind
  <2>1. Ends' /\ ActiveIsServed' /\ \A h \in Helpers : ~Held(h)'
    BY <1>3, <1>i, HelperFacts DEF Bind, Ends, ActiveIsServed, Held
  <2> QED BY <1>s, <2>1
<1>4. CASE Accept
  <2>1. /\ mgr = "waiting" /\ peer # NoHelper /\ conn = NoHelper /\ mgr' = "handshake"
        /\ conn' = peer /\ peer' = NoHelper /\ bound' = FALSE
        /\ UNCHANGED <<status, banner, inbox, at, outcome>>
    BY <1>4, <1>i DEF Accept, Ends, helperVars
  <2>2. \A h \in Helpers : Held(h)' => Held(h)
    BY <2>1, HelperFacts DEF Held
  <2>3. \A h \in Helpers : Streamed(h) => Streamed(h)'
    BY <2>1 DEF Streamed
  <2>4. Ends' /\ ActiveIsServed'
    BY <1>i, <2>1 DEF Ends, ActiveIsServed
  <2> QED BY <1>i, <1>s, <2>2, <2>3, <2>4
<1>5. CASE HearSniffer
  <2>1. mgr = "handshake" /\ conn # NoHelper /\ peer = NoHelper /\ status # "Active"
        /\ UNCHANGED <<mgr, status, bound, peer, conn, at, outcome>>
    BY <1>5, <1>i DEF HearSniffer, Ends, helperVars
  <2>2. Streamed(conn)'
    BY <1>5, <1>i, HeardSniffer
  <2>3. \A h \in Helpers : Held(h)' => h = conn'
    BY <2>1, HelperFacts DEF Held
  <2>4. Ends' /\ ActiveIsServed'
    BY <1>i, <2>1 DEF Ends, ActiveIsServed
  <2> QED BY <1>s, <2>1, <2>2, <2>3, <2>4
<1>6. CASE HearReady
  <2>1. mgr = "handshake" /\ conn # NoHelper /\ peer = NoHelper /\ mgr' = "select" /\ status' = "Active"
        /\ UNCHANGED <<banner, bound, peer, conn, at, outcome>>
    BY <1>6, <1>i DEF HearReady, Receives, Ends, helperVars
  <2>2. Streamed(conn)' /\ at[conn] \in {"serving"} \cup Gone /\ banner = outcome[conn]
    BY <1>6, <1>i, HeardReady
  <2>3. \A h \in Helpers : Held(h)' => h = conn'
    BY <2>1, HelperFacts DEF Held
  <2>4. Ends' /\ ActiveIsServed'
    BY <1>i, <2>1, <2>2 DEF Ends, ActiveIsServed
  <2> QED BY <1>s, <2>1, <2>2, <2>3, <2>4
<1>7. CASE Deactivate
  <2>1. /\ mgr = "select" /\ conn # NoHelper /\ mgr' = "reaping"
        /\ UNCHANGED <<status, banner, bound, peer, conn, inbox, at, outcome>>
    BY <1>7 DEF Deactivate, Session, helperVars
  <2>2. \A h \in Helpers : (Held(h)' => Held(h)) /\ (Streamed(h) => Streamed(h)')
    BY <2>1 DEF Held, Streamed
  <2>3. Ends' /\ ActiveIsServed'
    BY <1>i, <2>1 DEF Ends, ActiveIsServed
  <2> QED BY <1>i, <1>s, <2>2, <2>3
<1>8. CASE DeactivateNothing
  <2>1. /\ conn = NoHelper /\ status' = "Inactive"
        /\ UNCHANGED <<mgr, banner, bound, peer, conn, inbox, at, outcome>>
    BY <1>8 DEF DeactivateNothing, Session, helperVars
  <2>2. \A h \in Helpers : (Held(h)' => Held(h)) /\ (Streamed(h) => Streamed(h)')
    BY <2>1 DEF Held, Streamed
  <2>3. Ends' /\ ActiveIsServed'
    BY <1>i, <2>1 DEF Ends, ActiveIsServed
  <2> QED BY <1>i, <1>s, <2>2, <2>3
<1>9. CASE Reap
  <2>1. /\ mgr = "reaping" /\ mgr' = "select" /\ status' = "Inactive" /\ conn' = NoHelper /\ inbox' = <<>>
        /\ peer' = peer /\ bound' = bound
    BY <1>9 DEF Reap
  <2>2. Ends' /\ ActiveIsServed' /\ \A h \in Helpers : ~Held(h)'
    BY <1>i, <2>1, HelperFacts DEF Ends, ActiveIsServed, Held
  <2> QED BY <1>s, <2>2
<1>10. ASSUME NEW k \in Helpers, Decline(k) \/ HelperStep(k) \/ SnifferEnds(k) \/ Crash(k)
       PROVE  ServedInv'
  <2>0. /\ UNCHANGED <<mgr, status, banner, bound, conn>>
        /\ ~Connect(k) => peer' = peer
        /\ Held(k) \/ inbox' = inbox
        /\ \A h \in Helpers : h # k => at'[h] = at[h] /\ outcome'[h] = outcome[h]
    BY <1>10, HelperLeaves
  <2>1. CASE Connect(k) /\ peer = NoHelper
    <3>1. /\ mgr = "waiting" /\ conn = NoHelper /\ peer' = k /\ inbox = <<>> /\ inbox' = inbox
          /\ status # "Active"
      BY <1>i, <2>1 DEF Connect, Ends
    <3>2. at'[k] = "connected"
      BY <2>1 DEF Connect, Go, TypeOK
    <3>3. Streamed(k)'
      <4>1. inbox' # <<"ready">> /\ inbox' # <<outcome'[k]>> /\ inbox' # <<outcome'[k], "ready">>
        BY <3>1, TupleFacts
      <4> QED BY <3>1, <3>2, <4>1, HelperFacts DEF Streamed
    <3>4. \A h \in Helpers : Held(h)' => h = k
      BY <2>0, <3>1, HelperFacts DEF Held
    <3>5. Ends' /\ ActiveIsServed'
      BY <2>0, <3>1, HelperFacts DEF Ends, ActiveIsServed
    <3> QED BY <1>s, <3>3, <3>4, <3>5
  <2>2. CASE Connect(k) => peer # NoHelper
    <3>1. peer' = peer
      BY <2>0, <2>2 DEF Connect
    <3>2. ASSUME NEW h \in Helpers, Held(h)' PROVE Streamed(h)'
      <4>1. Held(h) /\ Streamed(h)
        BY <1>i, <2>0, <3>1, <3>2 DEF Held
      <4>2. CASE h = k
        BY <1>10, <2>0, <3>1, <4>1, <4>2, StreamStep
      <4>3. CASE h # k
        <5>1. inbox' = inbox
          BY <1>i, <2>0, <4>1, <4>3, OneHeld
        <5> QED BY <2>0, <4>1, <4>3, <5>1 DEF Streamed
      <4> QED BY <4>2, <4>3
    <3>3. ActiveIsServed'
      <4> SUFFICES ASSUME status = "Active"
                   PROVE  conn # NoHelper /\ at'[conn] \in {"serving"} \cup Gone /\ banner = outcome'[conn]
        BY <2>0 DEF ActiveIsServed
      <4>1. conn \in Helpers /\ at[conn] \in {"serving"} \cup Gone /\ banner = outcome[conn]
        BY <1>i DEF ActiveIsServed, TypeOK
      <4>2. CASE conn = k
        <5>1. Held(k) /\ Streamed(k)
          BY <1>i, <4>1, <4>2 DEF Held
        <5> QED BY <1>10, <2>0, <3>1, <4>1, <4>2, <5>1, HelperFacts, StreamStep
      <4> QED BY <2>0, <4>1, <4>2, HelperFacts
    <3>4. Ends'
      BY <1>i, <2>0, <3>1, HelperFacts DEF Ends, Held
    <3> QED BY <1>s, <3>2, <3>3, <3>4
  <2> QED BY <2>1, <2>2
<1>11. CASE UNCHANGED vars
  <2>1. UNCHANGED <<mgr, status, banner, bound, peer, conn, inbox, at, outcome>>
    BY <1>11 DEF vars, mgrVars, helperVars
  <2> QED BY <1>i, <1>s, <2>1 DEF Ends, ActiveIsServed, Streamed, Held
<1> QED
  BY <1>1, <1>2, <1>3, <1>4, <1>5, <1>6, <1>7, <1>8, <1>9, <1>10, <1>11 DEF Next, ManagerStep

(* L2 mode is shown as Active only over a connection to a helper that has  *)
(* been through all of its startup, and with the outcome of that helper's  *)
(* sniffer on display.                                                     *)
THEOREM ActiveMeansServed == Spec => []ActiveIsServed
<1>1. Init => TypeOK /\ ServedInv
  BY InitType, InitStreams DEF ServedInv
<1>2. TypeOK /\ ServedInv /\ [Next]_vars => (TypeOK /\ ServedInv)'
  BY NextType, NextServed
<1>3. ServedInv => ActiveIsServed
  BY DEF ServedInv
<1> QED BY <1>1, <1>2, <1>3, PTL DEF Spec
=============================================================================
