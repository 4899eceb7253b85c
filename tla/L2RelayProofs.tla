--------------------------- MODULE L2RelayProofs ---------------------------
(***************************************************************************)
(* Proofs about L2Relay, for any set of requests, any capacities and any   *)
(* faults.                                                                 *)
(***************************************************************************)
EXTENDS L2Relay, SequenceTheorems, TLAPS

(* What sending into a channel and receiving from it do to its type and to *)
(* its length.                                                             *)
LEMMA SendReceive ==
  ASSUME NEW S, NEW s \in Seq(S)
  PROVE  /\ \A e \in S : /\ Append(s, e) \in Seq(S)
                         /\ Len(Append(s, e)) = Len(s) + 1
         /\ Len(s) \in Nat
         /\ s # <<>> => /\ Head(s) \in S
                        /\ Tail(s) \in Seq(S)
                        /\ Len(Tail(s)) = Len(s) - 1
                        /\ Len(s) > 0
  OBVIOUS

(* Every capacity is a positive number.                                    *)
LEMMA CapsAreNat ==
  /\ JobCap \in Nat \ {0} /\ CommandCap \in Nat \ {0} /\ WireCap \in Nat \ {0}
  /\ EventCap \in Nat \ {0} /\ QueueCap \in Nat \ {0}
  BY CapAssumption

(* The idle engine's NoJob, also the Shutdown message, is no job.          *)
LEMMA NoJobIsNoJob == NoJob \notin Job
  BY RequestAssumption DEF NoJob, Job

(* Every variable starts with its type.                                    *)
LEMMA InitType == Init => TypeOK
<1> SUFFICES ASSUME Init PROVE TypeOK
  OBVIOUS
<1> DEFINE Empty == <<>>
<1>0. /\ \A S : Empty \in Seq(S)
      /\ Len(Empty) = 0 /\ DOMAIN Empty = {}
  OBVIOUS
<1>1. /\ jobQ = Empty /\ cmdQ = Empty /\ pending = Empty /\ events = Empty
      /\ toHelper = Empty /\ toGui = Empty /\ jobs = Empty /\ recorded = Empty
      /\ answer \in [Requests -> Outcomes \cup {None}]
      /\ asked = {} /\ replies = {} /\ clicks = 0 /\ sniffed = 0 /\ nextId = 1
      /\ writing = NoJob /\ held = NoJob /\ engine = NoJob
      /\ status = "Inactive" /\ mgr = "select" /\ helper = "none" /\ reader = "none"
  BY DEF Init
<1>b. session \in BOOLEAN /\ listening \in BOOLEAN /\ engineUp \in BOOLEAN
  BY DEF Init
<1> HIDE DEF Empty
<1>2. CallTypes
  BY <1>0, <1>1, CapsAreNat DEF CallTypes
<1>3. ManagerTypes
  BY <1>0, <1>1, <1>b, NoJobIsNoJob DEF ManagerTypes, Waiting
<1>4. WireTypes
  BY <1>0, <1>1, CapsAreNat DEF WireTypes
<1>5. HelperTypes
  BY <1>0, <1>1, <1>b, CapsAreNat, NoJobIsNoJob DEF HelperTypes
<1>6. DhcpTypes
  BY <1>0, <1>1 DEF DhcpTypes
<1> QED BY <1>2, <1>3, <1>4, <1>5, <1>6 DEF TypeOK

(* The message the helper builds for a job is a reply message.             *)
LEMMA ResponseType ==
  ASSUME NEW j \in Job, NEW out \in Outcomes
  PROVE  Response(j, out) \in ReplyMsg
  BY DEF Response, ReplyMsg, SlotOf, Job

(* What the helper writes is what the reader task may read.                *)
LEMMA EventType ==
  /\ ReplyMsg \subseteq Event
  /\ \A n \in Nat : DhcpEvent(n) \in Event
  BY DEF Event, ReplyMsg, DhcpEvent

(* A local failure is an outcome a caller may get.                         *)
LEMMA LocalType == Failed \in Outcomes /\ Dropped \in Outcomes
  BY DEF Outcomes

(* So is the engine's outcome for a request.                               *)
LEMMA OwnType == \A r \in Requests : Own(r) \in Outcomes
  BY DEF Outcomes

(* Using a reply handle keeps the type of the answers.                     *)
LEMMA ReplyType ==
  ASSUME CallTypes, NEW r \in Requests, NEW out \in Outcomes, Reply(r, out)
  PROVE  answer' \in [Requests -> Outcomes \cup {None}]
  BY DEF CallTypes, Reply

(* Answering every waiting request keeps the types of what it touches.     *)
LEMMA FailAllType ==
  ASSUME CallTypes, FailAll
  PROVE  /\ answer' \in [Requests -> Outcomes \cup {None}]
         /\ DOMAIN pending' = {} /\ Waiting' = {}
<1>1. Failed \in Outcomes
  BY LocalType
<1>2. answer' \in [Requests -> Outcomes \cup {None}]
  BY <1>1 DEF FailAll, CallTypes
<1>3. DOMAIN pending' = {} /\ Waiting' = {}
  BY DEF FailAll, Waiting
<1> QED BY <1>2, <1>3

(* The pending replies stay a map from ids to requests.                    *)
LEMMA SlotTypes ==
  ASSUME ManagerTypes, NEW k \in Nat
  PROVE  /\ k \in DOMAIN pending => pending[k] \in Requests
         /\ pending' = Remove(pending, k) => DOMAIN pending' \subseteq Nat /\ Waiting' \subseteq Requests
         /\ \A r \in Requests : pending' = Insert(pending, k, r) =>
              DOMAIN pending' \subseteq Nat /\ Waiting' \subseteq Requests
<1>1. \A i \in DOMAIN pending : i \in Nat /\ pending[i] \in Requests
  BY DEF ManagerTypes, Waiting
<1>2. pending' = Remove(pending, k) => DOMAIN pending' \subseteq Nat /\ Waiting' \subseteq Requests
  BY <1>1 DEF Remove, Waiting
<1>3. ASSUME NEW r \in Requests, pending' = Insert(pending, k, r)
      PROVE DOMAIN pending' \subseteq Nat /\ Waiting' \subseteq Requests
  BY <1>1, <1>3 DEF Insert, Waiting
<1> QED BY <1>1, <1>2, <1>3

(* A step that leaves a group of variables alone keeps their types.        *)
LEMMA TypesStutter ==
  /\ CallTypes /\ UNCHANGED <<callVars, jobQ, uiVars>> => CallTypes'
  /\ ManagerTypes /\ UNCHANGED mgrVars => ManagerTypes'
  /\ WireTypes /\ UNCHANGED <<readVars, toHelper, toGui>> => WireTypes'
  /\ HelperTypes /\ UNCHANGED helperVars => HelperTypes'
  /\ DhcpTypes /\ UNCHANGED dhcpVars => DhcpTypes'
<1>1. CallTypes /\ UNCHANGED <<callVars, jobQ, uiVars>> => CallTypes'
  BY DEF CallTypes, callVars, uiVars
<1>2. ManagerTypes /\ UNCHANGED mgrVars => ManagerTypes'
  BY DEF ManagerTypes, Waiting, mgrVars
<1>3. WireTypes /\ UNCHANGED <<readVars, toHelper, toGui>> => WireTypes'
  BY DEF WireTypes, readVars
<1>4. HelperTypes /\ UNCHANGED helperVars => HelperTypes'
  BY DEF HelperTypes, helperVars, engineVars
<1>5. DhcpTypes /\ UNCHANGED dhcpVars => DhcpTypes'
  BY DEF DhcpTypes, dhcpVars
<1> QED BY <1>1, <1>2, <1>3, <1>4, <1>5

(* A torn-down connection leaves well-typed, empty channels behind.        *)
LEMMA DisconnectedType ==
  ASSUME Disconnected PROVE WireTypes' /\ HelperTypes'
<1> DEFINE Empty == <<>>
<1>0. (\A S : Empty \in Seq(S)) /\ Len(Empty) = 0
  OBVIOUS
<1>1. /\ reader' = "none" /\ events' = Empty /\ toHelper' = Empty /\ toGui' = Empty
      /\ helper' = "none" /\ held' = NoJob
      /\ jobs' = Empty /\ engine' = NoJob /\ replies' = {}
  BY DEF Disconnected
<1>b. engineUp' \in BOOLEAN
  BY DEF Disconnected
<1> HIDE DEF Empty
<1>2. WireTypes'
  BY <1>0, <1>1, CapsAreNat DEF WireTypes
<1>3. HelperTypes'
  BY <1>0, <1>1, <1>b, CapsAreNat, NoJobIsNoJob DEF HelperTypes
<1> QED BY <1>2, <1>3

(* So does the end of the helper process.                                  *)
LEMMA HelperStopsType ==
  ASSUME HelperStops PROVE HelperTypes'
<1>1. jobs' \in Seq(Job) /\ Len(jobs') <= QueueCap
  BY CapsAreNat DEF HelperStops
<1>2. engineUp' \in BOOLEAN
  BY DEF HelperStops
<1> QED BY <1>1, <1>2, NoJobIsNoJob DEF HelperStops, HelperTypes

(* No step of any task breaks a type or overruns a capacity.               *)
LEMMA NextType == TypeOK /\ [Next]_vars => TypeOK'
<1> SUFFICES ASSUME TypeOK, [Next]_vars PROVE TypeOK'
  OBVIOUS
<1> USE CapsAreNat, NoJobIsNoJob
<1>1. ASSUME NEW r \in Requests, Submit(r) PROVE TypeOK'
  <2>1. CallTypes'
    BY <1>1, SendReceive, CapsAreNat DEF Submit, TypeOK, CallTypes, callVars, uiVars
  <2> QED BY <1>1, <2>1, TypesStutter DEF Submit, TypeOK
<1>2. ASSUME Click PROVE TypeOK'
  <2>1. CallTypes'
    BY <1>2, SendReceive, CapsAreNat DEF Click, TypeOK, CallTypes, callVars, uiVars
  <2> QED BY <1>2, <2>1, TypesStutter DEF Click, TypeOK
<1>3. ASSUME Activate PROVE TypeOK'
  <2>1. CallTypes'
    BY <1>3, SendReceive DEF Activate, TypeOK, CallTypes, callVars, uiVars, TakeCommand
  <2>2. ManagerTypes'
    BY <1>3 DEF Activate, TypeOK, ManagerTypes, Waiting, mgrVars, TakeCommand
  <2> QED BY <1>3, <2>1, <2>2, TypesStutter DEF Activate, TypeOK
<1>4. ASSUME StartOk PROVE TypeOK'
  <2>1. ManagerTypes'
    BY <1>4 DEF StartOk, TypeOK, ManagerTypes, Waiting, mgrVars
  <2>2. WireTypes'
    BY <1>4 DEF StartOk, TypeOK, WireTypes, readVars
  <2>3. HelperTypes'
    BY <1>4 DEF StartOk, TypeOK, HelperTypes, helperVars, engineVars
  <2> QED BY <1>4, <2>1, <2>2, <2>3, TypesStutter DEF StartOk, TypeOK
<1>5. ASSUME StartFail PROVE TypeOK'
  <2>1. ManagerTypes'
    BY <1>5 DEF StartFail, TypeOK, ManagerTypes, Waiting, mgrVars
  <2> QED BY <1>5, <2>1, TypesStutter DEF StartFail, TypeOK
<1>6. ASSUME Deactivate PROVE TypeOK'
  <2>1. CallTypes'
    <3>1. answer' \in [Requests -> Outcomes \cup {None}]
      BY <1>6, FailAllType DEF Deactivate, TypeOK, CallTypes
    <3> QED BY <1>6, <3>1, SendReceive DEF Deactivate, TypeOK, CallTypes, TakeCommand
  <2>2. ManagerTypes'
    <3>1. session' \in BOOLEAN /\ listening' \in BOOLEAN
      BY <1>6 DEF Deactivate, TypeOK, ManagerTypes
    <3>2. DOMAIN pending' \subseteq Nat /\ Waiting' \subseteq Requests
      BY <1>6, FailAllType DEF Deactivate, TypeOK, ManagerTypes, Waiting
    <3>3. /\ mgr' = mgr \/ (mgr' = "stopping" /\ mgr = "select")
          /\ status' = status \/ status' = "Inactive"
      BY <1>6 DEF Deactivate, TakeCommand
    <3> QED BY <1>6, <3>1, <3>2, <3>3 DEF Deactivate, TypeOK, ManagerTypes, TakeCommand
  <2> QED BY <1>6, <2>1, <2>2, TypesStutter DEF Deactivate, TypeOK
<1>7. ASSUME SendShutdown PROVE TypeOK'
  <2>1. ManagerTypes'
    BY <1>7 DEF SendShutdown, TypeOK, ManagerTypes, Waiting, mgrVars
  <2>2. WireTypes'
    <3>1. CASE toHelper' = toHelper
      BY <1>7, <3>1 DEF SendShutdown, TypeOK, WireTypes
    <3>2. CASE Len(toHelper) < WireCap /\ toHelper' = Append(toHelper, Shutdown)
      <4>1. toHelper' \in Seq(Job \cup {Shutdown}) /\ Len(toHelper') <= WireCap
        BY <3>2, SendReceive DEF TypeOK, WireTypes
      <4> QED BY <1>7, <4>1 DEF SendShutdown, TypeOK, WireTypes
    <3> QED BY <1>7, <3>1, <3>2 DEF SendShutdown
  <2> QED BY <1>7, <2>1, <2>2, TypesStutter DEF SendShutdown, TypeOK
<1>8. ASSUME FinishDeactivate PROVE TypeOK'
  <2>1. CallTypes'
    BY <1>8, FailAllType DEF FinishDeactivate, TypeOK, CallTypes, uiVars
  <2>2. ManagerTypes'
    <3>1. DOMAIN pending' = {} /\ Waiting' = {}
      BY <1>8, FailAllType DEF FinishDeactivate, TypeOK
    <3>2. session' \in BOOLEAN /\ listening' \in BOOLEAN
      BY <1>8 DEF FinishDeactivate, TypeOK, ManagerTypes
    <3> QED BY <1>8, <3>1, <3>2 DEF FinishDeactivate, TypeOK, ManagerTypes
  <2>3. WireTypes'
    BY <1>8, DisconnectedType DEF FinishDeactivate
  <2>4. HelperTypes'
    BY <1>8, DisconnectedType DEF FinishDeactivate
  <2> QED BY <1>8, <2>1, <2>2, <2>3, <2>4, TypesStutter DEF FinishDeactivate, TypeOK
<1>9. ASSUME TakeJob PROVE TypeOK'
  <2>1. CallTypes'
    <3>1. Head(jobQ) \in Requests /\ jobQ' \in Seq(Requests) /\ Len(jobQ') <= JobCap
      <4>1. jobQ # <<>> /\ jobQ' = Tail(jobQ)
        BY <1>9 DEF TakeJob
      <4> QED BY <4>1, SendReceive DEF TypeOK, CallTypes
    <3>2. Failed \in Outcomes
      BY LocalType
    <3>3. answer' \in [Requests -> Outcomes \cup {None}]
      BY <1>9, <3>1, <3>2, ReplyType DEF TakeJob, TypeOK, CallTypes
    <3> QED BY <1>9, <3>1, <3>3 DEF TakeJob, TypeOK, CallTypes, uiVars
  <2>2. ManagerTypes'
    <3>1. Head(jobQ) \in Requests
      BY <1>9, SendReceive DEF TakeJob, TypeOK, CallTypes
    <3>2. CASE session
      <4>1. writing' \in Job /\ mgr' = "writing" /\ nextId' \in Nat \ {0}
        BY <1>9, <3>1, <3>2 DEF TakeJob, TypeOK, ManagerTypes, Job
      <4> QED BY <1>9, <4>1 DEF TakeJob, TypeOK, ManagerTypes, Waiting
    <3>3. CASE ~session
      BY <1>9, <3>3, TypesStutter DEF TakeJob, TypeOK, mgrVars
    <3> QED BY <3>2, <3>3
  <2> QED BY <1>9, <2>1, <2>2, TypesStutter DEF TakeJob, TypeOK
<1>10. ASSUME WriteRequest PROVE TypeOK'
  <2>1. ManagerTypes'
    <3>1. writing.id \in Nat /\ writing.req \in Requests
      BY <1>10 DEF WriteRequest, TypeOK, ManagerTypes, Job
    <3>2. DOMAIN pending' \subseteq Nat /\ Waiting' \subseteq Requests
      BY <1>10, <3>1, SlotTypes DEF WriteRequest, TypeOK
    <3> QED BY <1>10, <3>2 DEF WriteRequest, TypeOK, ManagerTypes
  <2>2. WireTypes'
    <3>1. writing \in Job
      BY <1>10 DEF WriteRequest, TypeOK, ManagerTypes
    <3> QED BY <1>10, <3>1, SendReceive DEF WriteRequest, TypeOK, WireTypes, readVars
  <2> QED BY <1>10, <2>1, <2>2, TypesStutter DEF WriteRequest, TypeOK
<1>11. ASSUME WriteFails PROVE TypeOK'
  <2>1. CallTypes'
    <3>1. writing.req \in Requests
      BY <1>11 DEF WriteFails, TypeOK, ManagerTypes, Job
    <3>2. Failed \in Outcomes
      BY LocalType
    <3>3. answer' \in [Requests -> Outcomes \cup {None}]
      BY <1>11, <3>1, <3>2, ReplyType DEF WriteFails, TypeOK
    <3> QED BY <1>11, <3>3 DEF WriteFails, TypeOK, CallTypes, uiVars
  <2>2. ManagerTypes'
    BY <1>11 DEF WriteFails, TypeOK, ManagerTypes, Waiting, mgrVars
  <2> QED BY <1>11, <2>1, <2>2, TypesStutter DEF WriteFails, TypeOK
<1>12. ASSUME TakeReply PROVE TypeOK'
  <2>1. CallTypes'
    <3>0. events # <<>> /\ events \in Seq(Event)
      BY <1>12 DEF TakeReply, TypeOK, WireTypes
    <3>1. Head(events) \in Event
      BY <3>0, SendReceive
    <3>2. Head(events).id \in Nat /\ Head(events).out \in Outcomes /\ Dropped \in Outcomes
      <4>1. Head(events).tag # "Dhcp"
        BY <1>12 DEF TakeReply
      <4>2. Head(events).id \in Nat /\ Head(events).out \in Outcomes
        BY <3>1, <4>1 DEF Event, ReplyMsg
      <4> QED BY <4>2, LocalType
    <3>3. CASE Head(events).id \in DOMAIN pending
      <4>1. pending[Head(events).id] \in Requests
        BY <3>2, <3>3, SlotTypes DEF TypeOK
      <4>2. answer' \in [Requests -> Outcomes \cup {None}]
        BY <1>12, <3>2, <3>3, <4>1, ReplyType DEF TakeReply, TypeOK
      <4> QED BY <1>12, <4>2 DEF TakeReply, TypeOK, CallTypes, uiVars
    <3>4. CASE Head(events).id \notin DOMAIN pending
      BY <1>12, <3>4 DEF TakeReply, TypeOK, CallTypes, uiVars
    <3> QED BY <3>3, <3>4
  <2>2. ManagerTypes'
    <3>0. events # <<>> /\ events \in Seq(Event)
      BY <1>12 DEF TakeReply, TypeOK, WireTypes
    <3>1. Head(events).id \in Nat
      <4>1. Head(events) \in Event
        BY <3>0, SendReceive
      <4> QED BY <4>1 DEF Event, ReplyMsg
    <3>2. DOMAIN pending' \subseteq Nat /\ Waiting' \subseteq Requests
      BY <1>12, <3>1, SlotTypes DEF TakeReply, TypeOK, ManagerTypes, Waiting
    <3> QED BY <1>12, <3>2 DEF TakeReply, TypeOK, ManagerTypes
  <2>3. WireTypes'
    BY <1>12, SendReceive DEF TakeReply, TypeOK, WireTypes, readVars
  <2> QED BY <1>12, <2>1, <2>2, <2>3, TypesStutter DEF TakeReply, TypeOK
<1>13. ASSUME TakeDhcp PROVE TypeOK'
  <2>1. WireTypes'
    BY <1>13, SendReceive DEF TakeDhcp, TypeOK, WireTypes, readVars
  <2>2. DhcpTypes'
    <3>0. events # <<>> /\ events \in Seq(Event)
      BY <1>13 DEF TakeDhcp, TypeOK, WireTypes
    <3>1. Head(events).id \in Nat
      <4>1. Head(events) \in Event
        BY <3>0, SendReceive
      <4> QED BY <4>1 DEF Event, ReplyMsg
    <3> QED BY <1>13, <3>1, SendReceive DEF TakeDhcp, TypeOK, DhcpTypes
  <2> QED BY <1>13, <2>1, <2>2, TypesStutter DEF TakeDhcp, TypeOK
<1>14. ASSUME HelperGone PROVE TypeOK'
  <2>1. CallTypes'
    BY <1>14, FailAllType DEF HelperGone, TypeOK, CallTypes, uiVars
  <2>2. ManagerTypes'
    <3>1. DOMAIN pending' = {} /\ Waiting' = {}
      BY <1>14, FailAllType DEF HelperGone, TypeOK
    <3>2. session' \in BOOLEAN /\ listening' \in BOOLEAN
      BY <1>14 DEF HelperGone, TypeOK, ManagerTypes
    <3> QED BY <1>14, <3>1, <3>2 DEF HelperGone, TypeOK, ManagerTypes
  <2>3. WireTypes'
    BY <1>14, DisconnectedType DEF HelperGone
  <2>4. HelperTypes'
    BY <1>14, DisconnectedType DEF HelperGone
  <2> QED BY <1>14, <2>1, <2>2, <2>3, <2>4, TypesStutter DEF HelperGone, TypeOK
<1>15. ASSUME ReaderForwards PROVE TypeOK'
  <2>1. WireTypes'
    BY <1>15, SendReceive DEF ReaderForwards, TypeOK, WireTypes, readVars
  <2> QED BY <1>15, <2>1, TypesStutter DEF ReaderForwards, TypeOK
<1>16. ASSUME ReaderEnds PROVE TypeOK'
  <2>1. WireTypes'
    BY <1>16 DEF ReaderEnds, TypeOK, WireTypes, readVars
  <2> QED BY <1>16, <2>1, TypesStutter DEF ReaderEnds, TypeOK
<1>17. ASSUME HelperReads PROVE TypeOK'
  <2>1. WireTypes'
    BY <1>17, SendReceive DEF HelperReads, TypeOK, WireTypes, readVars, HelperStops
  <2>2. HelperTypes'
    <3>1. CASE Head(toHelper) = Shutdown
      BY <1>17, <3>1, HelperStopsType DEF HelperReads
    <3>2. CASE Head(toHelper) # Shutdown
      <4>1. Head(toHelper) \in Job
        BY <1>17, <3>2, SendReceive DEF HelperReads, TypeOK, WireTypes
      <4> QED BY <1>17, <3>2, <4>1 DEF HelperReads, TypeOK, HelperTypes, engineVars
    <3> QED BY <3>1, <3>2
  <2> QED BY <1>17, <2>1, <2>2, TypesStutter DEF HelperReads, TypeOK
<1>18. ASSUME HelperQueues PROVE TypeOK'
  <2>1. HelperTypes'
    BY <1>18, SendReceive DEF HelperQueues, TypeOK, HelperTypes, helperVars, engineVars
  <2> QED BY <1>18, <2>1, TypesStutter DEF HelperQueues, TypeOK
<1>19. ASSUME HelperRefuses PROVE TypeOK'
  <2>1. WireTypes'
    <3> DEFINE m == Response(held, Failed)
    <3>1. m \in Event
      <4>1. held \in Job
        BY <1>19 DEF HelperRefuses, TypeOK, HelperTypes
      <4>2. Failed \in Outcomes
        BY LocalType
      <4> QED BY <4>1, <4>2, ResponseType DEF Event
    <3>2. Len(toGui) < WireCap /\ toGui' = Append(toGui, m)
      BY <1>19 DEF HelperRefuses
    <3>3. UNCHANGED <<readVars, toHelper>>
      BY <1>19 DEF HelperRefuses
    <3> HIDE DEF m
    <3>4. toGui' \in Seq(Event) /\ Len(toGui') <= WireCap
      BY <3>1, <3>2, SendReceive DEF TypeOK, WireTypes
    <3> QED BY <3>3, <3>4 DEF TypeOK, WireTypes, readVars
  <2>2. HelperTypes'
    BY <1>19 DEF HelperRefuses, TypeOK, HelperTypes, helperVars, engineVars
  <2> QED BY <1>19, <2>1, <2>2, TypesStutter DEF HelperRefuses, TypeOK
<1>20. ASSUME HelperTakesDhcp PROVE TypeOK'
  <2>1. HelperTypes'
    BY <1>20 DEF HelperTakesDhcp, TypeOK, HelperTypes, helperVars, engineVars
  <2>2. DhcpTypes'
    BY <1>20 DEF HelperTakesDhcp, TypeOK, DhcpTypes, dhcpVars
  <2> QED BY <1>20, <2>1, <2>2, TypesStutter DEF HelperTakesDhcp, TypeOK
<1>21. ASSUME HelperRelaysDhcp PROVE TypeOK'
  <2>1. WireTypes'
    <3>1. DhcpEvent(sniffed) \in Event
      BY EventType DEF TypeOK, DhcpTypes
    <3> QED BY <1>21, <3>1, SendReceive DEF HelperRelaysDhcp, TypeOK, WireTypes, readVars
  <2>2. HelperTypes'
    BY <1>21 DEF HelperRelaysDhcp, TypeOK, HelperTypes, helperVars, engineVars
  <2> QED BY <1>21, <2>1, <2>2, TypesStutter DEF HelperRelaysDhcp, TypeOK
<1>22. ASSUME NEW m \in replies, TaskReplies(m) PROVE TypeOK'
  <2>1. WireTypes'
    <3>1. m \in Event
      BY <1>22, EventType DEF TypeOK, HelperTypes
    <3> QED BY <1>22, <3>1, SendReceive DEF TaskReplies, TypeOK, WireTypes, readVars
  <2>2. HelperTypes'
    BY <1>22 DEF TaskReplies, TypeOK, HelperTypes, helperVars, engineVars
  <2> QED BY <1>22, <2>1, <2>2, TypesStutter DEF TaskReplies, TypeOK
<1>23. ASSUME EngineStarts PROVE TypeOK'
  <2>1. HelperTypes'
    BY <1>23, SendReceive DEF EngineStarts, TypeOK, HelperTypes, helperVars, engineVars
  <2> QED BY <1>23, <2>1, TypesStutter DEF EngineStarts, TypeOK
<1>24. ASSUME EngineFinishes PROVE TypeOK'
  <2>1. HelperTypes'
    <3>1. engine \in Job /\ engine.req \in Requests
      BY <1>24 DEF EngineFinishes, TypeOK, HelperTypes, Job
    <3>2. Response(engine, Own(engine.req)) \in ReplyMsg
      BY <3>1, OwnType, ResponseType
    <3> QED BY <1>24, <3>2 DEF EngineFinishes, TypeOK, HelperTypes
  <2> QED BY <1>24, <2>1, TypesStutter DEF EngineFinishes, TypeOK
<1>25. ASSUME EngineDies PROVE TypeOK'
  <2>1. HelperTypes'
    <3> DEFINE dropped == {jobs[i] : i \in DOMAIN jobs} \cup ({engine} \ {NoJob})
    <3>1. dropped \subseteq Job
      BY DEF TypeOK, HelperTypes
    <3>2. Failed \in Outcomes
      BY LocalType
    <3>3. \A j \in dropped : Response(j, Failed) \in ReplyMsg
      BY <3>1, <3>2, ResponseType
    <3>4. replies' \subseteq ReplyMsg
      BY <1>25, <3>3 DEF EngineDies, TypeOK, HelperTypes
    <3>5. jobs' \in Seq(Job) /\ Len(jobs') <= QueueCap
      <4>1. jobs' = <<>>
        BY <1>25 DEF EngineDies
      <4> QED BY <4>1
    <3>6. engineUp' \in BOOLEAN
      BY <1>25 DEF EngineDies
    <3> QED BY <1>25, <3>4, <3>5, <3>6 DEF EngineDies, TypeOK, HelperTypes
  <2> QED BY <1>25, <2>1, TypesStutter DEF EngineDies, TypeOK
<1>26. ASSUME HelperCrashes PROVE TypeOK'
  <2>1. HelperTypes'
    BY <1>26, HelperStopsType DEF HelperCrashes
  <2> QED BY <1>26, <2>1, TypesStutter DEF HelperCrashes, TypeOK
<1>27. CASE UNCHANGED vars
  BY <1>27, TypesStutter DEF vars, TypeOK
<1> QED
  BY <1>1, <1>2, <1>3, <1>4, <1>5, <1>6, <1>7, <1>8, <1>9, <1>10, <1>11, <1>12,
     <1>13, <1>14, <1>15, <1>16, <1>17, <1>18, <1>19, <1>20, <1>21, <1>22, <1>23,
     <1>24, <1>25, <1>26, <1>27
  DEF Next, ManagerStep, HelperStep, EngineStep

(* Every variable keeps to its type, and every channel to its capacity.    *)
THEOREM TypeCorrect == Spec => []TypeOK
  BY InitType, NextType, PTL DEF Spec

-----------------------------------------------------------------------------
(* SessionConsistent speaks of the manager between two iterations; what it *)
(* needs to be inductive is what the manager's state is inside one.        *)

Selecting == mgr = "select" => /\ session <=> listening
                               /\ session <=> status = "Active"
Starting == mgr = "starting" => ~session /\ ~listening /\ DOMAIN pending = {}
Writing  == mgr = "writing" => session /\ listening /\ status = "Active"
Stopping == mgr \in {"stopping", "reaping"} => ~session /\ listening
NoneWaits == DOMAIN pending # {} => listening
SessionInv ==
  /\ mgr \in {"select", "starting", "writing", "stopping", "reaping"}
  /\ session \in BOOLEAN /\ listening \in BOOLEAN
  /\ Selecting /\ Starting /\ Writing /\ Stopping /\ NoneWaits

(* At the start nothing is there.                                          *)
LEMMA SessionInit == Init => SessionInv
<1> SUFFICES ASSUME Init PROVE SessionInv
  OBVIOUS
<1>1. DOMAIN pending = {}
  BY DEF Init
<1>2. mgr = "select" /\ status = "Inactive" /\ session = FALSE /\ listening = FALSE
  BY DEF Init
<1> QED BY <1>1, <1>2 DEF SessionInv, Selecting, Starting, Writing, Stopping, NoneWaits

(* Draining the pending replies leaves none.                               *)
LEMMA Drained == ASSUME FailAll PROVE DOMAIN pending' = {}
  BY DEF FailAll

(* Steps of other tasks touch none of this.                                *)
LEMMA SessionStutter ==
  SessionInv /\ UNCHANGED <<status, mgr, session, listening, pending>> => SessionInv'
  BY DEF SessionInv, Selecting, Starting, Writing, Stopping, NoneWaits

(* Every step of the manager keeps its four pieces of state together.      *)
LEMMA SessionNext == SessionInv /\ [Next]_vars => SessionInv'
<1> SUFFICES ASSUME SessionInv, [Next]_vars PROVE SessionInv'
  OBVIOUS
<1> USE DEF SessionInv, Selecting, Starting, Writing, Stopping, NoneWaits
<1>1. ASSUME Activate PROVE SessionInv'
  <2>1. CASE session
    BY <1>1, <2>1 DEF Activate, TakeCommand
  <2>2. CASE ~session
    BY <1>1, <2>2 DEF Activate, TakeCommand
  <2> QED BY <2>1, <2>2
<1>2. ASSUME StartOk PROVE SessionInv'
  BY <1>2 DEF StartOk
<1>3. ASSUME StartFail PROVE SessionInv'
  BY <1>3 DEF StartFail
<1>4. ASSUME Deactivate PROVE SessionInv'
  <2>1. CASE session
    BY <1>4, <2>1 DEF Deactivate, TakeCommand
  <2>2. CASE ~session
    <3>1. DOMAIN pending' = {}
      BY <1>4, <2>2, Drained DEF Deactivate
    <3> QED BY <1>4, <2>2, <3>1 DEF Deactivate, TakeCommand
  <2> QED BY <2>1, <2>2
<1>5. ASSUME SendShutdown PROVE SessionInv'
  BY <1>5 DEF SendShutdown
<1>6. ASSUME FinishDeactivate PROVE SessionInv'
  <2>1. DOMAIN pending' = {}
    BY <1>6, Drained DEF FinishDeactivate
  <2> QED BY <1>6, <2>1 DEF FinishDeactivate
<1>7. ASSUME TakeJob PROVE SessionInv'
  <2>1. CASE session
    BY <1>7, <2>1 DEF TakeJob
  <2>2. CASE ~session
    BY <1>7, <2>2 DEF TakeJob
  <2> QED BY <2>1, <2>2
<1>8. ASSUME WriteRequest PROVE SessionInv'
  BY <1>8 DEF WriteRequest
<1>9. ASSUME WriteFails PROVE SessionInv'
  BY <1>9 DEF WriteFails
<1>10. ASSUME TakeReply PROVE SessionInv'
  <2>1. UNCHANGED <<status, mgr, session, listening>> /\ mgr = "select" /\ listening
    BY <1>10 DEF TakeReply
  <2> QED BY <2>1
<1>11. ASSUME HelperGone PROVE SessionInv'
  <2>1. DOMAIN pending' = {}
    BY <1>11, Drained DEF HelperGone
  <2> QED BY <1>11, <2>1 DEF HelperGone
<1>12. ASSUME UNCHANGED <<status, mgr, session, listening, pending>> PROVE SessionInv'
  BY <1>12, SessionStutter
<1>13. TakeDhcp => UNCHANGED <<status, mgr, session, listening, pending>>
  BY DEF TakeDhcp, mgrVars
<1>14. (\E r \in Requests : Submit(r)) \/ Click =>
         UNCHANGED <<status, mgr, session, listening, pending>>
  BY DEF Submit, Click, mgrVars
<1>15. ReaderForwards \/ ReaderEnds => UNCHANGED <<status, mgr, session, listening, pending>>
  BY DEF ReaderForwards, ReaderEnds, mgrVars
<1>16. HelperStep => UNCHANGED <<status, mgr, session, listening, pending>>
  BY DEF HelperStep, HelperReads, HelperQueues, HelperRefuses, HelperTakesDhcp,
         HelperRelaysDhcp, mgrVars
<1>17. (\E m \in replies : TaskReplies(m)) => UNCHANGED <<status, mgr, session, listening, pending>>
  BY DEF TaskReplies, mgrVars
<1>18. EngineStep \/ EngineDies => UNCHANGED <<status, mgr, session, listening, pending>>
  BY DEF EngineStep, EngineStarts, EngineFinishes, EngineDies, mgrVars
<1>19. HelperCrashes => UNCHANGED <<status, mgr, session, listening, pending>>
  BY DEF HelperCrashes, mgrVars
<1>20. UNCHANGED vars => UNCHANGED <<status, mgr, session, listening, pending>>
  BY DEF vars, mgrVars
<1> QED
  BY <1>1, <1>2, <1>3, <1>4, <1>5, <1>6, <1>7, <1>8, <1>9, <1>10, <1>11, <1>12,
     <1>13, <1>14, <1>15, <1>16, <1>17, <1>18, <1>19, <1>20
  DEF Next, ManagerStep

(* Between two iterations of its loop, the manager has a receiver exactly  *)
(* if it has a session and shows Active, and no caller waits for a helper  *)
(* that is not there.                                                      *)
THEOREM ManagerConsistent == Spec => []SessionConsistent
<1>1. SessionInv => SessionConsistent
  BY DEF SessionInv, Selecting, NoneWaits, SessionConsistent
<1> QED BY <1>1, SessionInit, SessionNext, PTL DEF Spec

-----------------------------------------------------------------------------
(* HandleInOnePlace: how the places a reply handle can be in change, step  *)
(* by step.                                                                *)

Values(q) == {q[i] : i \in DOMAIN q}
Distinct(q) == \A i, j \in DOMAIN q : q[i] = q[j] => i = j

(* Sending a value a channel does not hold adds it to what it holds.       *)
LEMMA ValuesAppend ==
  ASSUME NEW S, NEW q \in Seq(S), NEW e \in S, e \notin Values(q), Distinct(q)
  PROVE  Values(Append(q, e)) = Values(q) \cup {e} /\ Distinct(Append(q, e))
<1>1. /\ DOMAIN q = 1..Len(q) /\ Len(q) \in Nat
      /\ DOMAIN Append(q, e) = 1..(Len(q) + 1)
      /\ \A i \in 1..Len(q) : Append(q, e)[i] = q[i]
      /\ Append(q, e)[Len(q) + 1] = e
  OBVIOUS
<1>2. Values(Append(q, e)) = Values(q) \cup {e}
  BY <1>1 DEF Values
<1>3. \A i \in 1..Len(q) : q[i] # e
  BY <1>1 DEF Values
<1>4. Distinct(Append(q, e))
  BY <1>1, <1>3 DEF Distinct
<1> QED BY <1>2, <1>4

(* Receiving the first of a channel's values, all different, leaves the    *)
(* others.                                                                 *)
LEMMA ValuesTail ==
  ASSUME NEW S, NEW q \in Seq(S), q # <<>>, Distinct(q)
  PROVE  /\ Head(q) \in Values(q)
         /\ Values(Tail(q)) = Values(q) \ {Head(q)}
         /\ Distinct(Tail(q))
<1>1. /\ DOMAIN q = 1..Len(q) /\ Len(q) \in Nat /\ Len(q) > 0
      /\ DOMAIN Tail(q) = 1..(Len(q) - 1)
      /\ \A i \in 1..(Len(q) - 1) : Tail(q)[i] = q[i + 1]
      /\ Head(q) = q[1]
  OBVIOUS
<1>2. Head(q) \in Values(q)
  BY <1>1 DEF Values
<1>3. Distinct(Tail(q))
  BY <1>1 DEF Distinct
<1>4. Values(Tail(q)) \subseteq Values(q) \ {Head(q)}
  <2>1. ASSUME NEW i \in 1..(Len(q) - 1)
        PROVE  Tail(q)[i] \in Values(q) \ {Head(q)}
    <3>1. i + 1 \in DOMAIN q /\ 1 \in DOMAIN q /\ i + 1 # 1 /\ Tail(q)[i] = q[i + 1]
      BY <1>1
    <3> QED BY <1>1, <3>1 DEF Values, Distinct
  <2> QED BY <1>1, <2>1 DEF Values
<1>5. Values(q) \ {Head(q)} \subseteq Values(Tail(q))
  <2>1. ASSUME NEW i \in 1..Len(q), q[i] # Head(q)
        PROVE  q[i] \in Values(Tail(q))
    <3>1. i # 1
      BY <1>1, <2>1
    <3>2. i - 1 \in 1..(Len(q) - 1) /\ Tail(q)[i - 1] = q[i]
      BY <1>1, <3>1
    <3> QED BY <1>1, <3>2 DEF Values
  <2> QED BY <1>1, <2>1 DEF Values
<1> QED BY <1>2, <1>3, <1>4, <1>5

(* Storing a handle under an id that is free adds it to those that wait.   *)
LEMMA ValuesInsert ==
  ASSUME NEW f, NEW k, NEW v, k \notin DOMAIN f, v \notin Values(f), Distinct(f)
  PROVE  /\ DOMAIN Insert(f, k, v) = DOMAIN f \cup {k}
         /\ Values(Insert(f, k, v)) = Values(f) \cup {v}
         /\ Distinct(Insert(f, k, v))
<1>1. /\ DOMAIN Insert(f, k, v) = DOMAIN f \cup {k}
      /\ Insert(f, k, v)[k] = v
      /\ \A x \in DOMAIN f : Insert(f, k, v)[x] = f[x]
  BY DEF Insert
<1>2. \A x \in DOMAIN f : f[x] # v
  BY DEF Values
<1> QED BY <1>1, <1>2 DEF Values, Distinct

(* Taking one out leaves the others.                                       *)
LEMMA ValuesRemove ==
  ASSUME NEW f, NEW k \in DOMAIN f, Distinct(f)
  PROVE  /\ DOMAIN Remove(f, k) = DOMAIN f \ {k}
         /\ Values(Remove(f, k)) = Values(f) \ {f[k]}
         /\ Distinct(Remove(f, k))
<1>1. /\ DOMAIN Remove(f, k) = DOMAIN f \ {k}
      /\ \A x \in DOMAIN f \ {k} : Remove(f, k)[x] = f[x]
  BY DEF Remove
<1> QED BY <1>1 DEF Values, Distinct

(* The five places, as sets, with what keeps them apart: request ids are   *)
(* new when they are given out.                                            *)
Places(q, w, p, a) ==
  /\ asked = q \cup w \cup p \cup a
  /\ q \cap (w \cup p \cup a) = {}
  /\ w \cap (p \cup a) = {}
  /\ p \cap a = {}
FreshIds ==
  /\ \A i \in DOMAIN pending : i < nextId
  /\ mgr = "writing" => writing.id < nextId /\ writing.id \notin DOMAIN pending
HandleInv ==
  /\ Places(Values(jobQ), Written, Values(pending), Answered)
  /\ Distinct(jobQ) /\ Distinct(pending)
  /\ FreshIds

(* An answer is never None, which stands for no answer.                    *)
LEMMA AnswersAreSome == None \notin Outcomes
  BY DEF None, Outcomes, Own, Failed, Dropped

(* Using a handle makes its request an answered one.                       *)
LEMMA ReplyAnswers ==
  ASSUME CallTypes, NEW r \in Requests, NEW out \in Outcomes, Reply(r, out)
  PROVE  Answered' = Answered \cup {r}
  BY AnswersAreSome DEF CallTypes, Reply, Answered

(* Draining the pending replies answers every one that waits.              *)
LEMMA FailAllAnswers ==
  ASSUME CallTypes, ManagerTypes, FailAll
  PROVE  /\ Answered' = Answered \cup Values(pending)
         /\ DOMAIN pending' = {} /\ Values(pending') = {} /\ Distinct(pending')
<1>1. Failed # None
  BY DEF Failed, None
<1>2. Waiting = Values(pending) /\ Waiting \subseteq Requests
  BY DEF Waiting, Values, ManagerTypes
<1>3. Answered' = Answered \cup Waiting
  BY <1>1, <1>2 DEF FailAll, Answered, CallTypes
<1>4. DOMAIN pending' = {}
  BY DEF FailAll
<1>5. Values(pending') = {} /\ Distinct(pending')
  BY <1>4 DEF Values, Distinct
<1> QED BY <1>2, <1>3, <1>4, <1>5

(* What the manager writes when it writes nothing is no handle.            *)
LEMMA WrittenValue ==
  ASSUME ManagerTypes
  PROVE  /\ mgr # "writing" => Written = {}
         /\ mgr = "writing" => Written = {writing.req} /\ writing.req \in Requests
                               /\ writing.id \in Nat
<1>1. CASE mgr = "writing"
  <2>1. writing \in Job
    BY <1>1 DEF ManagerTypes
  <2> QED BY <1>1, <2>1, RequestAssumption DEF Job, Written
<1>2. CASE mgr # "writing"
  <2>1. writing = NoJob
    BY <1>2 DEF ManagerTypes
  <2> QED BY <1>2, <2>1 DEF NoJob, Written
<1> QED BY <1>1, <1>2

(* At the start there is no handle.                                        *)
LEMMA HandleInit == Init => HandleInv
<1> SUFFICES ASSUME Init PROVE HandleInv
  OBVIOUS
<1>1. DOMAIN jobQ = {} /\ DOMAIN pending = {} /\ asked = {} /\ mgr = "select"
  BY DEF Init
<1>2. Written = {}
  BY DEF Init, Written, NoJob
<1>3. Answered = {}
  BY DEF Init, Answered
<1>4. Values(jobQ) = {} /\ Values(pending) = {} /\ Distinct(jobQ) /\ Distinct(pending)
  BY <1>1 DEF Values, Distinct
<1>5. FreshIds
  BY <1>1 DEF FreshIds
<1> QED BY <1>1, <1>2, <1>3, <1>4, <1>5 DEF HandleInv, Places

(* Steps of other tasks touch no handle.                                   *)
LEMMA HandleStutter ==
  HandleInv /\ UNCHANGED <<callVars, jobQ, mgr, writing, pending, nextId>> => HandleInv'
<1> SUFFICES ASSUME HandleInv, UNCHANGED <<callVars, jobQ, mgr, writing, pending, nextId>>
             PROVE  HandleInv'
  OBVIOUS
<1>1. asked' = asked /\ Answered' = Answered
  BY DEF callVars, Answered
<1>2. Written' = Written /\ Values(jobQ)' = Values(jobQ) /\ Values(pending)' = Values(pending)
  BY DEF Written
<1>3. (Distinct(jobQ) /\ Distinct(pending) /\ FreshIds)'
  BY DEF HandleInv, FreshIds, Distinct
<1> QED BY <1>1, <1>2, <1>3 DEF HandleInv, Places

(* Every step moves a handle from one place to the next, or uses it.       *)
LEMMA HandleNext == TypeOK /\ HandleInv /\ [Next]_vars => HandleInv'
<1> SUFFICES ASSUME TypeOK, HandleInv, [Next]_vars PROVE HandleInv'
  OBVIOUS
<1>t. /\ CallTypes /\ ManagerTypes /\ WireTypes
      /\ jobQ \in Seq(Requests) /\ nextId \in Nat
      /\ \A i \in DOMAIN pending : i \in Nat /\ pending[i] \in Requests
  BY DEF TypeOK, CallTypes, ManagerTypes, Waiting
<1>h. /\ Places(Values(jobQ), Written, Values(pending), Answered)
      /\ Distinct(jobQ) /\ Distinct(pending) /\ FreshIds
  BY DEF HandleInv
<1>s. Failed \in Outcomes /\ Dropped \in Outcomes
  BY LocalType
<1>1. ASSUME NEW r \in Requests, Submit(r) PROVE HandleInv'
  <2>1. r \notin asked /\ asked' = asked \cup {r} /\ jobQ' = Append(jobQ, r)
    BY <1>1 DEF Submit
  <2>2. UNCHANGED <<answer, mgr, writing, pending, nextId>>
    BY <1>1 DEF Submit, mgrVars
  <2>3. Values(jobQ)' = Values(jobQ) \cup {r} /\ Distinct(jobQ)'
    <3>1. r \notin Values(jobQ)
      BY <1>h, <2>1 DEF Places
    <3> QED BY <1>t, <1>h, <2>1, <3>1, ValuesAppend
  <2>4. Answered' = Answered /\ Written' = Written /\ Values(pending)' = Values(pending)
    BY <2>2 DEF Answered, Written
  <2>5. Distinct(pending)' /\ FreshIds'
    BY <1>h, <2>2 DEF Distinct, FreshIds
  <2> QED BY <1>h, <2>1, <2>3, <2>4, <2>5 DEF HandleInv, Places
<1>2. ASSUME /\ FailAll
             /\ UNCHANGED <<asked, jobQ, writing, nextId>>
             /\ mgr # "writing" /\ mgr' # "writing"
      PROVE  HandleInv'
  <2>1. /\ Answered' = Answered \cup Values(pending)
        /\ DOMAIN pending' = {} /\ Values(pending)' = {} /\ Distinct(pending)'
    BY <1>2, <1>t, FailAllAnswers
  <2>2. Written' = Written /\ Values(jobQ)' = Values(jobQ) /\ Distinct(jobQ)'
    BY <1>2, <1>h DEF Written, Distinct
  <2>3. FreshIds'
    BY <1>2, <2>1 DEF FreshIds
  <2> QED BY <1>2, <1>h, <2>1, <2>2, <2>3 DEF HandleInv, Places
<1>3. ASSUME Deactivate PROVE HandleInv'
  <2>1. CASE session
    <3>1. UNCHANGED <<callVars, jobQ, writing, pending, nextId>> /\ mgr # "writing" /\ mgr' # "writing"
      BY <1>3, <2>1 DEF Deactivate, TakeCommand, callVars
    <3>2. Answered' = Answered /\ Written' = Written /\ asked' = asked
          /\ Values(jobQ)' = Values(jobQ) /\ Values(pending)' = Values(pending)
      BY <3>1 DEF Answered, Written, callVars
    <3>3. (Distinct(jobQ) /\ Distinct(pending) /\ FreshIds)'
      BY <1>h, <3>1 DEF Distinct, FreshIds
    <3> QED BY <1>h, <3>2, <3>3 DEF HandleInv, Places
  <2>2. CASE ~session
    BY <1>2, <1>3, <2>2 DEF Deactivate, TakeCommand
  <2> QED BY <2>1, <2>2
<1>4. ASSUME FinishDeactivate PROVE HandleInv'
  BY <1>2, <1>4 DEF FinishDeactivate
<1>5. ASSUME HelperGone PROVE HandleInv'
  BY <1>2, <1>5 DEF HelperGone
<1>6. ASSUME TakeJob PROVE HandleInv'
  <2> DEFINE r == Head(jobQ)
  <2>1. jobQ # <<>> /\ jobQ' = Tail(jobQ) /\ mgr # "writing" /\ UNCHANGED <<asked, pending>>
    BY <1>6 DEF TakeJob
  <2>2. r \in Values(jobQ) /\ Values(jobQ)' = Values(jobQ) \ {r} /\ Distinct(jobQ)'
    BY <1>t, <1>h, <2>1, ValuesTail
  <2>3. r \in Requests /\ r # NoRequest
    BY <1>t, <2>1, RequestAssumption, SendReceive
  <2>4. Written = {}
    BY <1>t, <2>1, WrittenValue
  <2>5. Values(pending)' = Values(pending) /\ Distinct(pending)'
    BY <1>h, <2>1 DEF Distinct
  <2> HIDE DEF r
  <2>6. CASE session
    <3>1. mgr' = "writing" /\ writing' = [id |-> nextId, req |-> r] /\ nextId' = nextId + 1
          /\ UNCHANGED answer
      BY <1>6, <2>6 DEF TakeJob, r
    <3>2. Written' = {r}
      BY <2>3, <3>1 DEF Written
    <3>3. Answered' = Answered
      BY <3>1 DEF Answered
    <3>4. FreshIds'
      BY <1>t, <1>h, <2>1, <3>1 DEF FreshIds
    <3> QED BY <1>h, <2>1, <2>2, <2>4, <2>5, <3>2, <3>3, <3>4 DEF HandleInv, Places
  <2>7. CASE ~session
    <3>1. Reply(r, Failed) /\ UNCHANGED <<mgr, writing, nextId>>
      BY <1>6, <2>7 DEF TakeJob, r
    <3>2. Answered' = Answered \cup {r}
      BY <1>t, <1>s, <2>3, <3>1, ReplyAnswers
    <3>3. Written' = Written /\ FreshIds'
      BY <1>h, <2>1, <3>1 DEF Written, FreshIds
    <3> QED BY <1>h, <2>1, <2>2, <2>4, <2>5, <3>2, <3>3 DEF HandleInv, Places
  <2> QED BY <2>6, <2>7
<1>7. ASSUME WriteRequest PROVE HandleInv'
  <2>1. mgr = "writing" /\ mgr' = "select" /\ writing' = NoJob
        /\ pending' = Insert(pending, writing.id, writing.req)
        /\ UNCHANGED <<asked, answer, jobQ, nextId>>
    BY <1>7 DEF WriteRequest, callVars
  <2>2. Written = {writing.req} /\ writing.id \in Nat
    BY <1>t, <2>1, WrittenValue
  <2>3. writing.req \notin Values(pending) /\ writing.id \notin DOMAIN pending /\ writing.id < nextId
    BY <1>h, <2>1, <2>2 DEF Places, FreshIds
  <2>4. /\ DOMAIN pending' = DOMAIN pending \cup {writing.id}
        /\ Values(pending)' = Values(pending) \cup {writing.req}
        /\ Distinct(pending)'
    <3> DEFINE f == Insert(pending, writing.id, writing.req)
    <3>1. /\ DOMAIN f = DOMAIN pending \cup {writing.id}
          /\ Values(f) = Values(pending) \cup {writing.req}
          /\ Distinct(f)
      BY <1>h, <2>3, ValuesInsert
    <3> HIDE DEF f
    <3>2. pending' = f
      BY <2>1 DEF f
    <3> QED BY <3>1, <3>2
  <2>5. Written' = {}
    BY <2>1 DEF Written, NoJob
  <2>6. Answered' = Answered /\ Values(jobQ)' = Values(jobQ) /\ Distinct(jobQ)'
    BY <1>h, <2>1 DEF Answered, Distinct
  <2>7. FreshIds'
    BY <1>h, <2>1, <2>3, <2>4 DEF FreshIds
  <2> QED BY <1>h, <2>1, <2>2, <2>4, <2>5, <2>6, <2>7 DEF HandleInv, Places
<1>8. ASSUME WriteFails PROVE HandleInv'
  <2>1. mgr = "writing" /\ mgr' = "select" /\ writing' = NoJob
        /\ Reply(writing.req, Failed) /\ UNCHANGED <<asked, jobQ, pending, nextId>>
    BY <1>8 DEF WriteFails
  <2>2. Written = {writing.req} /\ writing.req \in Requests
    BY <1>t, <2>1, WrittenValue
  <2>3. Answered' = Answered \cup {writing.req}
    BY <1>t, <1>s, <2>1, <2>2, ReplyAnswers
  <2>4. Written' = {}
    BY <2>1 DEF Written, NoJob
  <2>5. Values(jobQ)' = Values(jobQ) /\ Values(pending)' = Values(pending)
        /\ Distinct(jobQ)' /\ Distinct(pending)' /\ FreshIds'
    BY <1>h, <2>1 DEF Distinct, FreshIds
  <2> QED BY <1>h, <2>1, <2>2, <2>3, <2>4, <2>5 DEF HandleInv, Places
<1>9. ASSUME TakeReply PROVE HandleInv'
  <2> DEFINE m == Head(events)
  <2>1. UNCHANGED <<asked, jobQ, mgr, writing, nextId>> /\ mgr # "writing"
    BY <1>9 DEF TakeReply
  <2>2. events # <<>> /\ m.tag # "Dhcp" /\ m \in Event
    BY <1>9, <1>t, SendReceive DEF TakeReply, WireTypes
  <2>3. m.out \in Outcomes
    BY <2>2 DEF Event, ReplyMsg
  <2>4. Written' = Written /\ Values(jobQ)' = Values(jobQ) /\ Distinct(jobQ)'
    BY <1>h, <2>1 DEF Written, Distinct
  <2>5. m.id \in DOMAIN pending =>
          /\ Reply(pending[m.id], IF m.tag = SlotOf(pending[m.id]) THEN m.out ELSE Dropped)
          /\ pending' = Remove(pending, m.id)
    BY <1>9 DEF TakeReply
  <2>6. m.id \notin DOMAIN pending => UNCHANGED <<answer, pending>>
    BY <1>9 DEF TakeReply
  <2> HIDE DEF m
  <2>7. CASE m.id \in DOMAIN pending
    <3> DEFINE r == pending[m.id]
               out == IF m.tag = SlotOf(r) THEN m.out ELSE Dropped
    <3>1. r \in Requests /\ out \in Outcomes
      BY <1>t, <1>s, <2>3, <2>7
    <3>2. Reply(r, out)
      BY <2>5, <2>7
    <3> HIDE DEF out
    <3>3. Answered' = Answered \cup {r}
      BY <1>t, <3>1, <3>2, ReplyAnswers
    <3>4. /\ DOMAIN pending' = DOMAIN pending \ {m.id}
          /\ Values(pending)' = Values(pending) \ {r}
          /\ Distinct(pending)'
      <4> DEFINE f == Remove(pending, m.id)
      <4>1. /\ DOMAIN f = DOMAIN pending \ {m.id}
            /\ Values(f) = Values(pending) \ {r}
            /\ Distinct(f)
        BY <1>h, <2>7, ValuesRemove
      <4> HIDE DEF f
      <4>2. pending' = f
        BY <2>5, <2>7 DEF f
      <4> QED BY <4>1, <4>2
    <3>5. r \in Values(pending)
      BY <2>7 DEF Values
    <3>6. FreshIds'
      BY <1>h, <2>1, <3>4 DEF FreshIds
    <3> QED BY <1>h, <2>1, <2>4, <3>3, <3>4, <3>5, <3>6 DEF HandleInv, Places
  <2>8. CASE m.id \notin DOMAIN pending
    <3>1. Answered' = Answered /\ Values(pending)' = Values(pending)
          /\ Distinct(pending)' /\ FreshIds'
      BY <1>h, <2>1, <2>6, <2>8 DEF Answered, Distinct, FreshIds
    <3> QED BY <1>h, <2>1, <2>4, <3>1 DEF HandleInv, Places
  <2> QED BY <2>7, <2>8
<1>10. ASSUME /\ UNCHANGED <<callVars, jobQ, writing, pending, nextId>>
              /\ mgr # "writing" /\ mgr' # "writing"
       PROVE  HandleInv'
  <2>1. Answered' = Answered /\ Written' = Written /\ asked' = asked
        /\ Values(jobQ)' = Values(jobQ) /\ Values(pending)' = Values(pending)
    BY <1>10 DEF Answered, Written, callVars
  <2>2. (Distinct(jobQ) /\ Distinct(pending) /\ FreshIds)'
    BY <1>h, <1>10 DEF Distinct, FreshIds
  <2> QED BY <1>h, <2>1, <2>2 DEF HandleInv, Places
<1>11. ASSUME Activate PROVE HandleInv'
  BY <1>10, <1>11 DEF Activate, TakeCommand
<1>12. ASSUME StartOk PROVE HandleInv'
  BY <1>10, <1>12 DEF StartOk
<1>13. ASSUME StartFail PROVE HandleInv'
  BY <1>10, <1>13 DEF StartFail
<1>14. ASSUME SendShutdown PROVE HandleInv'
  BY <1>10, <1>14 DEF SendShutdown
<1>15. ASSUME UNCHANGED <<callVars, jobQ, mgr, writing, pending, nextId>> PROVE HandleInv'
  BY <1>15, HandleStutter
<1>16. Click \/ TakeDhcp \/ ReaderForwards \/ ReaderEnds =>
         UNCHANGED <<callVars, jobQ, mgr, writing, pending, nextId>>
  BY DEF Click, TakeDhcp, ReaderForwards, ReaderEnds, mgrVars
<1>17. HelperStep => UNCHANGED <<callVars, jobQ, mgr, writing, pending, nextId>>
  BY DEF HelperStep, HelperReads, HelperQueues, HelperRefuses, HelperTakesDhcp,
         HelperRelaysDhcp, mgrVars
<1>18. (\E m \in replies : TaskReplies(m)) =>
         UNCHANGED <<callVars, jobQ, mgr, writing, pending, nextId>>
  BY DEF TaskReplies, mgrVars
<1>19. EngineStep \/ EngineDies \/ HelperCrashes =>
         UNCHANGED <<callVars, jobQ, mgr, writing, pending, nextId>>
  BY DEF EngineStep, EngineStarts, EngineFinishes, EngineDies, HelperCrashes, mgrVars
<1>20. UNCHANGED vars => UNCHANGED <<callVars, jobQ, mgr, writing, pending, nextId>>
  BY DEF vars, mgrVars
<1> QED
  BY <1>1, <1>3, <1>4, <1>5, <1>6, <1>7, <1>8, <1>9, <1>11, <1>12, <1>13, <1>14,
     <1>15, <1>16, <1>17, <1>18, <1>19, <1>20
  DEF Next, ManagerStep

(* No reply handle is forgotten, used twice, or kept under two ids.        *)
THEOREM NoCallerForgotten == Spec => []HandleInOnePlace
<1>1. HandleInv => HandleInOnePlace
  BY DEF HandleInv, Places, Values, Distinct, HandleInOnePlace, Queued, Waiting
<1>2. Init => TypeOK /\ HandleInv
  BY InitType, HandleInit
<1>3. TypeOK /\ HandleInv /\ [Next]_vars => (TypeOK /\ HandleInv)'
  BY NextType, HandleNext
<1> QED BY <1>1, <1>2, <1>3, PTL DEF Spec

-----------------------------------------------------------------------------
(* ImplementsJobService: what travels under a request id, in either        *)
(* direction, is about the request whose handle waits under it.            *)

(* No reply handle will be stored under an id that was given out before.   *)
NoMoreUse(i) == i < nextId /\ (mgr = "writing" => i # writing.id)
JobFits(j) == NoMoreUse(j.id) /\ (j.id \in DOMAIN pending => pending[j.id] = j.req)
ReplyFits(m) ==
  /\ NoMoreUse(m.id)
  /\ m.id \in DOMAIN pending =>
       m.tag = SlotOf(pending[m.id]) /\ m.out \in {Own(pending[m.id]), Failed}

(* Every place a job, or a reply to one, can be in.                        *)
Sent  == (Values(toHelper) \cup Values(jobs) \cup {held, engine}) \ {NoJob}
Heard == {m \in replies \cup Values(toGui) \cup Values(events) : m.tag # "Dhcp"}
RouteInv == (\A j \in Sent : JobFits(j)) /\ (\A m \in Heard : ReplyFits(m))

(* What sending and receiving do to what a channel holds.                  *)
LEMMA ValuesMove ==
  ASSUME NEW S, NEW q \in Seq(S)
  PROVE  /\ \A e \in S : Values(Append(q, e)) = Values(q) \cup {e}
         /\ q # <<>> => Head(q) \in Values(q) /\ Values(Tail(q)) \subseteq Values(q)
<1>1. DOMAIN q = 1..Len(q) /\ Len(q) \in Nat
  OBVIOUS
<1>2. ASSUME NEW e \in S PROVE Values(Append(q, e)) = Values(q) \cup {e}
  <2>1. /\ DOMAIN Append(q, e) = 1..(Len(q) + 1)
        /\ \A i \in 1..Len(q) : Append(q, e)[i] = q[i]
        /\ Append(q, e)[Len(q) + 1] = e
    OBVIOUS
  <2> QED BY <1>1, <2>1 DEF Values
<1>3. ASSUME q # <<>> PROVE Head(q) \in Values(q) /\ Values(Tail(q)) \subseteq Values(q)
  <2>1. /\ Len(q) > 0 /\ Head(q) = q[1]
        /\ DOMAIN Tail(q) = 1..(Len(q) - 1)
        /\ \A i \in 1..(Len(q) - 1) : Tail(q)[i] = q[i + 1] /\ i + 1 \in DOMAIN q
    BY <1>3
  <2> QED BY <1>1, <2>1 DEF Values
<1> QED BY <1>2, <1>3

(* An empty channel holds nothing.                                         *)
LEMMA ValuesEmpty == Values(<<>>) = {}
  BY DEF Values

(* What the manager does to the ids leaves those in flight with the        *)
(* request they had, or with none.                                         *)
IdsKept ==
  \A i \in Nat : NoMoreUse(i) =>
    /\ NoMoreUse(i)'
    /\ i \in DOMAIN pending' => i \in DOMAIN pending /\ pending'[i] = pending[i]

(* What is in flight has a number for its id.                              *)
LEMMA InFlightTypes ==
  ASSUME WireTypes, HelperTypes
  PROVE  Sent \subseteq Job /\ Heard \subseteq ReplyMsg
<1>1. /\ toHelper \in Seq(Job \cup {Shutdown}) /\ jobs \in Seq(Job)
      /\ toGui \in Seq(Event) /\ events \in Seq(Event)
      /\ held \in Job \cup {NoJob} /\ engine \in Job \cup {NoJob} /\ replies \subseteq ReplyMsg
  BY DEF WireTypes, HelperTypes
<1>2. \A S : \A q \in Seq(S) : Values(q) \subseteq S
  BY DEF Values
<1>3. Values(toHelper) \subseteq Job \cup {NoJob} /\ Values(jobs) \subseteq Job
  BY <1>1, <1>2 DEF Shutdown
<1>4. Values(toGui) \subseteq Event /\ Values(events) \subseteq Event
  BY <1>1, <1>2
<1>5. \A m \in Event : m.tag # "Dhcp" => m \in ReplyMsg
  BY DEF Event
<1>6. Sent \subseteq Job
  BY <1>1, <1>3 DEF Sent
<1>7. Heard \subseteq ReplyMsg
  BY <1>1, <1>4, <1>5 DEF Heard
<1> QED BY <1>6, <1>7

(* So it is enough to look at what a step puts in flight.                  *)
LEMMA RouteStep ==
  ASSUME TypeOK, RouteInv, IdsKept,
         \A j \in Sent' : j \in Sent \/ JobFits(j)',
         \A m \in Heard' : m \in Heard \/ ReplyFits(m)'
  PROVE  RouteInv'
<1>1. Sent \subseteq Job /\ Heard \subseteq ReplyMsg
  BY InFlightTypes DEF TypeOK
<1>2. ASSUME NEW j \in Sent PROVE JobFits(j)'
  <2>1. j.id \in Nat /\ JobFits(j)
    BY <1>1 DEF RouteInv, Job
  <2> QED BY <2>1 DEF JobFits, IdsKept
<1>3. ASSUME NEW m \in Heard PROVE ReplyFits(m)'
  <2>1. m.id \in Nat /\ ReplyFits(m)
    BY <1>1 DEF RouteInv, ReplyMsg
  <2> QED BY <2>1 DEF ReplyFits, IdsKept
<1>4. \A j \in Sent' : JobFits(j)'
  BY <1>2
<1>5. \A m \in Heard' : ReplyFits(m)'
  BY <1>3
<1> QED BY <1>4, <1>5 DEF RouteInv

(* The ids are kept by a step that draws none and stores under none.       *)
LEMMA IdsStutter == UNCHANGED <<mgr, writing, pending, nextId>> => IdsKept
  BY DEF IdsKept, NoMoreUse

(* Nothing is in flight at the start.                                      *)
LEMMA RouteInit == Init => RouteInv
<1> SUFFICES ASSUME Init PROVE RouteInv
  OBVIOUS
<1>1. /\ Values(toHelper) = {} /\ Values(jobs) = {} /\ Values(toGui) = {}
      /\ Values(events) = {} /\ replies = {} /\ held = NoJob /\ engine = NoJob
  BY ValuesEmpty DEF Init
<1> QED BY <1>1 DEF RouteInv, Sent, Heard

(* The reply the helper builds for a job that fits, fits.                  *)
LEMMA ResponseFits ==
  ASSUME NEW j, JobFits(j), NEW out \in {Own(j.req), Failed},
         UNCHANGED <<mgr, writing, pending, nextId>>
  PROVE  ReplyFits(Response(j, out))'
  BY DEF JobFits, ReplyFits, NoMoreUse, Response

(* With everything behind the connection gone, nothing is in flight.       *)
LEMMA NothingInFlight ==
  ASSUME /\ Values(toHelper') = {} /\ Values(jobs') = {} /\ held' = NoJob /\ engine' = NoJob
         /\ Values(toGui') = {} /\ Values(events') = {} /\ replies' = {}
  PROVE  RouteInv'
  BY DEF RouteInv, Sent, Heard

(* Steps that leave the ids alone, and what is in flight too or less of it *)
(* than before.                                                            *)
LEMMA RouteLess ==
  ASSUME TypeOK, RouteInv, IdsKept, Sent' \subseteq Sent, Heard' \subseteq Heard
  PROVE  RouteInv'
  BY RouteStep

(* Every message keeps to the request it began with: from the write that   *)
(* stores the handle, through the helper and its engine, to the reply.     *)
LEMMA RouteNext == TypeOK /\ HandleInv /\ RouteInv /\ [Next]_vars => RouteInv'
<1> SUFFICES ASSUME TypeOK, HandleInv, RouteInv, [Next]_vars PROVE RouteInv'
  OBVIOUS
<1> DEFINE SentVars == <<toHelper, jobs, held, engine>>
           HeardVars == <<replies, toGui, events>>
           IdVars == <<mgr, writing, pending, nextId>>
<1>t. /\ toHelper \in Seq(Job \cup {Shutdown}) /\ jobs \in Seq(Job)
      /\ toGui \in Seq(Event) /\ events \in Seq(Event)
      /\ held \in Job \cup {NoJob} /\ engine \in Job \cup {NoJob} /\ replies \subseteq ReplyMsg
      /\ ManagerTypes /\ nextId \in Nat
  BY DEF TypeOK, WireTypes, HelperTypes, ManagerTypes
<1>f. FreshIds
  BY DEF HandleInv
<1>a. ASSUME UNCHANGED SentVars PROVE Sent' = Sent
  BY <1>a DEF Sent
<1>b. ASSUME UNCHANGED HeardVars PROVE Heard' = Heard
  BY <1>b DEF Heard
<1>c. UNCHANGED IdVars => IdsKept
  BY IdsStutter
<1>d. UNCHANGED SentVars /\ UNCHANGED HeardVars /\ IdsKept => RouteInv'
  BY <1>a, <1>b, RouteLess
<1> HIDE DEF SentVars, HeardVars, IdVars
<1>1. ASSUME FailAll, UNCHANGED <<writing, nextId>>, mgr' # "writing" PROVE IdsKept
  <2>1. DOMAIN pending' = {}
    BY <1>1, Drained
  <2> QED BY <1>1, <2>1 DEF IdsKept, NoMoreUse
<1>2. ASSUME UNCHANGED <<writing, pending, nextId>>, mgr' # "writing" PROVE IdsKept
  BY <1>2 DEF IdsKept, NoMoreUse
<1>3. ASSUME Disconnected PROVE RouteInv'
  BY <1>3, ValuesEmpty, NothingInFlight DEF Disconnected
<1>4. ASSUME Activate \/ StartFail PROVE RouteInv'
  <2>1. UNCHANGED SentVars /\ UNCHANGED HeardVars
    BY <1>4 DEF Activate, StartFail, SentVars, HeardVars, readVars, helperVars, engineVars
  <2>2. IdsKept
    BY <1>2, <1>4 DEF Activate, StartFail, TakeCommand
  <2> QED BY <1>d, <2>1, <2>2
<1>5. ASSUME StartOk PROVE RouteInv'
  BY <1>5, ValuesEmpty, NothingInFlight DEF StartOk
<1>6. ASSUME Deactivate PROVE RouteInv'
  <2>1. UNCHANGED SentVars /\ UNCHANGED HeardVars
    BY <1>6 DEF Deactivate, SentVars, HeardVars, readVars, helperVars, engineVars
  <2>2. IdsKept
    BY <1>1, <1>2, <1>6 DEF Deactivate, TakeCommand
  <2> QED BY <1>d, <2>1, <2>2
<1>7. ASSUME SendShutdown PROVE RouteInv'
  <2>1. Sent' \subseteq Sent
    <3>1. toHelper' = toHelper \/ toHelper' = Append(toHelper, NoJob)
      BY <1>7 DEF SendShutdown, Shutdown
    <3>a. Values(Append(toHelper, NoJob)) = Values(toHelper) \cup {NoJob}
      <4>1. NoJob \in Job \cup {Shutdown}
        BY DEF Shutdown
      <4> QED BY <1>t, <4>1, ValuesMove
    <3>2. UNCHANGED <<jobs, held, engine>>
      BY <1>7 DEF SendShutdown, helperVars, engineVars
    <3> QED BY <3>1, <3>a, <3>2 DEF Sent
  <2>2. Heard' = Heard
    BY <1>b, <1>7 DEF SendShutdown, HeardVars, helperVars, engineVars
  <2>3. IdsKept
    BY <1>2, <1>7 DEF SendShutdown
  <2> QED BY <2>1, <2>2, <2>3, RouteLess
<1>8. ASSUME FinishDeactivate \/ HelperGone PROVE RouteInv'
  BY <1>3, <1>8 DEF FinishDeactivate, HelperGone
<1>9. ASSUME TakeJob PROVE RouteInv'
  <2>1. UNCHANGED SentVars /\ UNCHANGED HeardVars
    BY <1>9 DEF TakeJob, SentVars, HeardVars, readVars, helperVars, engineVars
  <2>2. IdsKept
    <3>1. CASE session
      <4>1. writing'.id = nextId /\ nextId' = nextId + 1 /\ pending' = pending
        BY <1>9, <3>1 DEF TakeJob
      <4> QED BY <1>t, <4>1 DEF IdsKept, NoMoreUse
    <3>2. CASE ~session
      BY <1>c, <1>9, <3>2 DEF TakeJob, IdVars
    <3> QED BY <3>1, <3>2
  <2> QED BY <1>d, <2>1, <2>2
<1>10. ASSUME WriteRequest PROVE RouteInv'
  <2>1. mgr = "writing" /\ mgr' = "select" /\ nextId' = nextId
        /\ pending' = Insert(pending, writing.id, writing.req)
        /\ toHelper' = Append(toHelper, writing)
    BY <1>10 DEF WriteRequest
  <2>2. PICK w \in Job : w = writing
    BY <1>t, <2>1 DEF ManagerTypes
  <2>3. IdsKept
    BY <2>1 DEF IdsKept, NoMoreUse, Insert
  <2>4. \A j \in Sent' : j \in Sent \/ j = w
    <3>1. Values(toHelper') = Values(toHelper) \cup {w}
      <4>1. w \in Job \cup {Shutdown} /\ toHelper' = Append(toHelper, w)
        BY <2>1, <2>2
      <4> QED BY <1>t, <4>1, ValuesMove
    <3>2. UNCHANGED <<jobs, held, engine>>
      BY <1>10 DEF WriteRequest, helperVars, engineVars
    <3> QED BY <3>1, <3>2 DEF Sent
  <2>5. JobFits(w)'
    BY <1>f, <2>1, <2>2 DEF FreshIds, JobFits, NoMoreUse, Insert
  <2>6. Heard' = Heard
    BY <1>b, <1>10 DEF WriteRequest, HeardVars, readVars, helperVars, engineVars
  <2> QED BY <2>3, <2>4, <2>5, <2>6, RouteStep
<1>11. ASSUME WriteFails PROVE RouteInv'
  <2>1. UNCHANGED SentVars /\ UNCHANGED HeardVars
    BY <1>11 DEF WriteFails, SentVars, HeardVars, readVars, helperVars, engineVars
  <2>2. IdsKept
    BY <1>11 DEF WriteFails, IdsKept, NoMoreUse
  <2> QED BY <1>d, <2>1, <2>2
<1>12. ASSUME TakeReply PROVE RouteInv'
  <2>1. Sent' = Sent
    BY <1>a, <1>12 DEF TakeReply, SentVars, helperVars, engineVars
  <2>2. Heard' \subseteq Heard
    <3>1. Values(events') \subseteq Values(events)
      BY <1>12, <1>t, ValuesMove DEF TakeReply
    <3>2. UNCHANGED <<toGui, replies>>
      BY <1>12 DEF TakeReply, helperVars, engineVars
    <3> QED BY <3>1, <3>2 DEF Heard
  <2>3. IdsKept
    <3>1. UNCHANGED <<mgr, writing, nextId>>
      BY <1>12 DEF TakeReply
    <3>2. pending' = pending \/ pending' = Remove(pending, Head(events).id)
      BY <1>12 DEF TakeReply
    <3> QED BY <3>1, <3>2 DEF IdsKept, NoMoreUse, Remove
  <2> QED BY <2>1, <2>2, <2>3, RouteLess
<1>13. ASSUME TakeDhcp PROVE RouteInv'
  <2>1. Sent' = Sent
    BY <1>a, <1>13 DEF TakeDhcp, SentVars, helperVars, engineVars
  <2>2. Heard' \subseteq Heard
    <3>1. Values(events') \subseteq Values(events)
      BY <1>13, <1>t, ValuesMove DEF TakeDhcp
    <3>2. UNCHANGED <<toGui, replies>>
      BY <1>13 DEF TakeDhcp, helperVars, engineVars
    <3> QED BY <3>1, <3>2 DEF Heard
  <2>3. IdsKept
    BY <1>c, <1>13 DEF TakeDhcp, mgrVars, IdVars
  <2> QED BY <2>1, <2>2, <2>3, RouteLess
<1>14. ASSUME ReaderForwards PROVE RouteInv'
  <2>1. Sent' = Sent
    BY <1>a, <1>14 DEF ReaderForwards, SentVars, helperVars, engineVars
  <2>2. Heard' \subseteq Heard
    <3>1. toGui # <<>> /\ toGui' = Tail(toGui) /\ events' = Append(events, Head(toGui))
      BY <1>14 DEF ReaderForwards
    <3>2. Head(toGui) \in Event /\ Head(toGui) \in Values(toGui)
          /\ Values(toGui') \subseteq Values(toGui)
      BY <1>t, <3>1, ValuesMove, SendReceive
    <3>3. Values(events') = Values(events) \cup {Head(toGui)}
      BY <1>t, <3>1, <3>2, ValuesMove
    <3>4. replies' = replies
      BY <1>14 DEF ReaderForwards, helperVars, engineVars
    <3> QED BY <3>2, <3>3, <3>4 DEF Heard
  <2>3. IdsKept
    BY <1>c, <1>14 DEF ReaderForwards, mgrVars, IdVars
  <2> QED BY <2>1, <2>2, <2>3, RouteLess
<1>15. ASSUME HelperStops, UNCHANGED IdVars, UNCHANGED <<toGui, events>>,
              Values(toHelper') \subseteq Values(toHelper)
       PROVE  RouteInv'
  <2>1. Sent' \subseteq Sent
    BY <1>15, ValuesEmpty DEF HelperStops, Sent
  <2>2. Heard' \subseteq Heard
    BY <1>15 DEF HelperStops, Heard
  <2> QED BY <1>c, <1>15, <2>1, <2>2, RouteLess
<1>16. ASSUME HelperReads PROVE RouteInv'
  <2>1. Head(toHelper) \in Values(toHelper) /\ Values(toHelper') \subseteq Values(toHelper)
    BY <1>16, <1>t, ValuesMove DEF HelperReads
  <2>2. UNCHANGED IdVars /\ UNCHANGED <<toGui, events>>
    BY <1>16 DEF HelperReads, mgrVars, readVars, IdVars
  <2>3. CASE Head(toHelper) = Shutdown
    BY <1>15, <1>16, <2>1, <2>2, <2>3 DEF HelperReads
  <2>4. CASE Head(toHelper) # Shutdown
    <3>1. held' = Head(toHelper) /\ UNCHANGED <<jobs, engine, replies>>
      BY <1>16, <2>4 DEF HelperReads, engineVars
    <3>2. Sent' \subseteq Sent
      BY <2>1, <3>1 DEF Sent
    <3>3. Heard' = Heard
      BY <1>b, <2>2, <3>1 DEF HeardVars
    <3> QED BY <1>c, <2>2, <3>2, <3>3, RouteLess
  <2> QED BY <2>3, <2>4
<1>17. ASSUME HelperQueues PROVE RouteInv'
  <2>1. Sent' \subseteq Sent
    <3>1. held \in Job /\ jobs' = Append(jobs, held) /\ held' = NoJob
          /\ UNCHANGED <<toHelper, engine>>
      BY <1>17 DEF HelperQueues, TypeOK, HelperTypes
    <3>2. Values(jobs') = Values(jobs) \cup {held}
      BY <1>t, <3>1, ValuesMove
    <3> QED BY <3>1, <3>2 DEF Sent
  <2>2. Heard' = Heard
    BY <1>b, <1>17 DEF HelperQueues, HeardVars, readVars
  <2>3. IdsKept
    BY <1>c, <1>17 DEF HelperQueues, mgrVars, IdVars
  <2> QED BY <2>1, <2>2, <2>3, RouteLess
<1>18. ASSUME HelperRefuses PROVE RouteInv'
  <2>1. PICK j \in Job : j = held
    BY <1>18 DEF HelperRefuses, TypeOK, HelperTypes
  <2>2. UNCHANGED IdVars
    BY <1>18 DEF HelperRefuses, mgrVars, IdVars
  <2>3. Sent' \subseteq Sent
    BY <1>18 DEF HelperRefuses, engineVars, Sent
  <2>4. \A m \in Heard' : m \in Heard \/ m = Response(j, Failed)
    <3>1. Response(j, Failed) \in Event
      BY LocalType, ResponseType, EventType
    <3>2. toGui' = Append(toGui, Response(j, Failed))
      BY <1>18, <2>1 DEF HelperRefuses
    <3> DEFINE m0 == Response(j, Failed)
    <3> HIDE DEF m0
    <3>3. Values(toGui') = Values(toGui) \cup {m0}
      BY <1>t, <3>1, <3>2, ValuesMove DEF m0
    <3>4. UNCHANGED <<events, replies>>
      BY <1>18 DEF HelperRefuses, readVars, engineVars
    <3>5. \A m \in Heard' : m \in Heard \/ m = m0
      BY <3>3, <3>4 DEF Heard
    <3> QED BY <3>5 DEF m0
  <2>5. ReplyFits(Response(j, Failed))'
    <3>1. JobFits(j)
      BY <2>1, NoJobIsNoJob DEF RouteInv, Sent
    <3> QED BY <2>2, <3>1, ResponseFits DEF IdVars
  <2> QED BY <1>c, <2>2, <2>3, <2>4, <2>5, RouteStep
<1>19. ASSUME HelperTakesDhcp PROVE RouteInv'
  <2>1. UNCHANGED SentVars /\ UNCHANGED HeardVars /\ UNCHANGED IdVars
    BY <1>19 DEF HelperTakesDhcp, mgrVars, readVars, engineVars, SentVars, HeardVars, IdVars
  <2> QED BY <1>c, <1>d, <2>1
<1>20. ASSUME HelperRelaysDhcp PROVE RouteInv'
  <2>1. UNCHANGED SentVars /\ UNCHANGED IdVars /\ UNCHANGED <<events, replies>>
    BY <1>20 DEF HelperRelaysDhcp, mgrVars, readVars, engineVars, SentVars, IdVars
  <2>2. Heard' \subseteq Heard
    <3>1. DhcpEvent(sniffed) \in Event /\ DhcpEvent(sniffed).tag = "Dhcp"
      BY EventType DEF TypeOK, DhcpTypes, DhcpEvent
    <3> DEFINE m0 == DhcpEvent(sniffed)
    <3>2. toGui' = Append(toGui, m0)
      BY <1>20 DEF HelperRelaysDhcp
    <3> HIDE DEF m0
    <3>3. Values(toGui') = Values(toGui) \cup {m0} /\ m0.tag = "Dhcp"
      BY <1>t, <3>1, <3>2, ValuesMove DEF m0
    <3> QED BY <2>1, <3>3 DEF Heard
  <2> QED BY <1>a, <1>c, <2>1, <2>2, RouteLess
<1>21. ASSUME NEW m \in replies, TaskReplies(m) PROVE RouteInv'
  <2>1. UNCHANGED SentVars /\ UNCHANGED IdVars /\ events' = events
    BY <1>21 DEF TaskReplies, mgrVars, readVars, SentVars, IdVars
  <2>2. Heard' \subseteq Heard
    <3>1. toGui' = Append(toGui, m) /\ replies' = replies \ {m} /\ m \in Event
      BY <1>21, <1>t, EventType DEF TaskReplies
    <3>2. Values(toGui') = Values(toGui) \cup {m}
      BY <1>t, <3>1, ValuesMove
    <3> QED BY <2>1, <3>1, <3>2 DEF Heard
  <2> QED BY <1>a, <1>c, <2>1, <2>2, RouteLess
<1>22. ASSUME EngineStarts PROVE RouteInv'
  <2>1. Sent' \subseteq Sent
    <3>1. jobs # <<>> /\ engine' = Head(jobs) /\ jobs' = Tail(jobs)
          /\ UNCHANGED <<toHelper, held>>
      BY <1>22 DEF EngineStarts
    <3>2. Head(jobs) \in Values(jobs) /\ Values(jobs') \subseteq Values(jobs)
      BY <1>t, <3>1, ValuesMove
    <3> QED BY <3>1, <3>2 DEF Sent
  <2>2. Heard' = Heard
    BY <1>b, <1>22 DEF EngineStarts, HeardVars, readVars
  <2>3. IdsKept
    BY <1>c, <1>22 DEF EngineStarts, mgrVars, IdVars
  <2> QED BY <2>1, <2>2, <2>3, RouteLess
<1>23. ASSUME EngineFinishes PROVE RouteInv'
  <2>1. PICK j \in Job : j = engine
    BY <1>23, <1>t DEF EngineFinishes
  <2>2. UNCHANGED IdVars
    BY <1>23 DEF EngineFinishes, mgrVars, IdVars
  <2>3. Sent' \subseteq Sent
    BY <1>23 DEF EngineFinishes, Sent
  <2>4. \A m \in Heard' : m \in Heard \/ m = Response(j, Own(j.req))
    BY <1>23, <2>1 DEF EngineFinishes, readVars, Heard
  <2>5. ReplyFits(Response(j, Own(j.req)))'
    <3>1. JobFits(j)
      BY <2>1, NoJobIsNoJob DEF RouteInv, Sent
    <3> QED BY <2>2, <3>1, ResponseFits DEF IdVars
  <2> QED BY <1>c, <2>2, <2>3, <2>4, <2>5, RouteStep
<1>24. ASSUME EngineDies PROVE RouteInv'
  <2>1. UNCHANGED IdVars
    BY <1>24 DEF EngineDies, mgrVars, IdVars
  <2>2. Sent' \subseteq Sent
    BY <1>24, ValuesEmpty DEF EngineDies, Sent
  <2>3. ASSUME NEW m \in Heard', m \notin Heard PROVE ReplyFits(m)'
    <3>1. PICK j \in Sent : m = Response(j, Failed)
      BY <1>24, <2>3, <1>t, NoJobIsNoJob DEF EngineDies, readVars, Heard, Sent, Values
    <3>2. JobFits(j)
      BY DEF RouteInv
    <3> QED BY <2>1, <3>1, <3>2, ResponseFits DEF IdVars
  <2> QED BY <1>c, <2>1, <2>2, <2>3, RouteStep
<1>25. ASSUME HelperCrashes PROVE RouteInv'
  BY <1>15, <1>25 DEF HelperCrashes, mgrVars, readVars, IdVars
<1>26. ASSUME UNCHANGED SentVars, UNCHANGED HeardVars, UNCHANGED IdVars PROVE RouteInv'
  BY <1>c, <1>d, <1>26
<1>27. (\E r \in Requests : Submit(r)) \/ Click =>
         UNCHANGED SentVars /\ UNCHANGED HeardVars /\ UNCHANGED IdVars
  BY DEF Submit, Click, mgrVars, readVars, helperVars, engineVars, SentVars, HeardVars, IdVars
<1>28. ReaderEnds \/ UNCHANGED vars =>
         UNCHANGED SentVars /\ UNCHANGED HeardVars /\ UNCHANGED IdVars
  BY DEF ReaderEnds, vars, mgrVars, readVars, helperVars, engineVars, SentVars, HeardVars, IdVars
<1> QED
  BY <1>4, <1>5, <1>6, <1>7, <1>8, <1>9, <1>10, <1>11, <1>12, <1>13, <1>14, <1>16,
     <1>17, <1>18, <1>19, <1>20, <1>21, <1>22, <1>23, <1>24, <1>25, <1>26, <1>27, <1>28
  DEF Next, ManagerStep, HelperStep, EngineStep

-----------------------------------------------------------------------------
(* The refinement itself.  The verdict on a request is a function of its   *)
(* answer, and the three answers that can come are told apart.             *)
LEMMA Verdict ==
  ASSUME NEW r \in Requests
  PROVE  /\ VerdictOf(r) = "none" <=> answer[r] = None
         /\ answer[r] \in {Own(r), Failed} => VerdictOf(r) \in {"own", "failed"}
  BY DEF VerdictOf, None, Own, Failed

(* A step that answers some of the requests that were asked and have no    *)
(* answer yet, each with its own outcome or a local failure, and answers   *)
(* no other, is a step of the service.                                     *)
LEMMA Answering ==
  ASSUME NEW S \in SUBSET Requests, S # {}, S \subseteq asked,
         \A r \in S : answer[r] = None /\ answer'[r] \in {Own(r), Failed},
         \A r \in Requests \ S : answer'[r] = answer[r],
         asked' = asked
  PROVE  Service!Next
<1> DEFINE verdict == [r \in Requests |-> VerdictOf(r)]
<1>1. \A r \in S : VerdictOf(r) = "none" /\ VerdictOf(r)' \in {"own", "failed"}
  BY DEF VerdictOf, None, Own, Failed
<1>2. \A r \in Requests \ S : VerdictOf(r)' = VerdictOf(r)
  BY DEF VerdictOf
<1>3. PICK v \in [S -> Service!Verdicts] : \A r \in S : v[r] = VerdictOf(r)'
  <2> DEFINE w == [r \in S |-> VerdictOf(r)']
  <2>1. w \in [S -> Service!Verdicts] /\ \A r \in S : w[r] = VerdictOf(r)'
    BY <1>1 DEF Service!Verdicts
  <2> QED BY <2>1
<1>4. S \subseteq Service!Outstanding
  BY <1>1 DEF Service!Outstanding
<1>5. verdict' = [r \in Requests |-> IF r \in S THEN v[r] ELSE verdict[r]]
  BY <1>2, <1>3
<1>6. Service!Answer(S, v)
  BY <1>4, <1>5 DEF Service!Answer
<1> QED BY <1>3, <1>4, <1>6 DEF Service!Next

(* Nobody has asked at the start.                                          *)
LEMMA ServiceInit == Init => Service!Init
<1> SUFFICES ASSUME Init PROVE Service!Init
  OBVIOUS
<1>1. asked = {} /\ \A r \in Requests : answer[r] = None
  BY DEF Init
<1>2. \A r \in Requests : VerdictOf(r) = "none"
  BY <1>1, Verdict
<1> QED BY <1>1, <1>2 DEF Service!Init

(* Every step of the path is a step of the service, or none of it.         *)
LEMMA ServiceNext ==
  TypeOK /\ HandleInv /\ RouteInv /\ [Next]_vars => [Service!Next]_(Service!vars)
<1> SUFFICES ASSUME TypeOK, HandleInv, RouteInv, [Next]_vars
             PROVE  [Service!Next]_(Service!vars)
  OBVIOUS
<1>t. /\ CallTypes /\ ManagerTypes /\ WireTypes /\ HelperTypes
      /\ answer \in [Requests -> Outcomes \cup {None}] /\ jobQ \in Seq(Requests)
      /\ events \in Seq(Event)
  BY DEF TypeOK, CallTypes, WireTypes
<1>h. Places(Values(jobQ), Written, Values(pending), Answered)
  BY DEF HandleInv
<1>1. ASSUME UNCHANGED callVars PROVE [Service!Next]_(Service!vars)
  BY <1>1 DEF callVars, Service!vars, VerdictOf
<1>2. ASSUME NEW r \in Requests, Submit(r) PROVE Service!Next
  <2>1. r \notin asked /\ asked' = asked \cup {r} /\ answer' = answer
    BY <1>2 DEF Submit
  <2>2. Service!Ask(r)
    BY <2>1 DEF Service!Ask, VerdictOf
  <2> QED BY <2>2 DEF Service!Next
<1>3. ASSUME FailAll, asked' = asked PROVE [Service!Next]_(Service!vars)
  <2>1. Waiting \in SUBSET Requests /\ Waiting \subseteq asked /\ \A r \in Waiting : answer[r] = None
    BY <1>t, <1>h DEF ManagerTypes, Waiting, Places, Values, Answered
  <2>2. /\ \A r \in Waiting : answer'[r] = Failed
        /\ \A r \in Requests \ Waiting : answer'[r] = answer[r]
    BY <1>3, <2>1 DEF FailAll
  <2>3. CASE Waiting = {}
    <3>1. answer' = answer
      BY <1>3, <1>t, <2>3 DEF FailAll
    <3> QED BY <1>1, <1>3, <3>1 DEF callVars
  <2>4. CASE Waiting # {}
    <3> DEFINE S == Waiting
    <3>1. \E T \in SUBSET Requests : T = S
      BY <2>1
    <3> HIDE DEF S
    <3>2. PICK T \in SUBSET Requests : T = S
      BY <3>1
    <3>3. /\ T # {} /\ T \subseteq asked
          /\ \A r \in T : answer[r] = None /\ answer'[r] \in {Own(r), Failed}
          /\ \A r \in Requests \ T : answer'[r] = answer[r]
      BY <2>1, <2>2, <2>4, <3>2 DEF S
    <3> QED BY <1>3, <3>3, Answering
  <2> QED BY <2>3, <2>4
<1>4. ASSUME NEW r \in Requests, r \in Values(jobQ) \cup Written \cup Values(pending),
             NEW out \in {Own(r), Failed}, Reply(r, out), asked' = asked
      PROVE  Service!Next
  <2>1. r \in asked /\ answer[r] = None
    BY <1>4, <1>h DEF Places, Answered
  <2>2. answer'[r] = out /\ \A x \in Requests \ {r} : answer'[x] = answer[x]
    BY <1>4, <1>t DEF Reply
  <2>3. PICK S \in SUBSET Requests : S = {r}
    OBVIOUS
  <2>4. /\ S # {} /\ S \subseteq asked
        /\ \A x \in S : answer[x] = None /\ answer'[x] \in {Own(x), Failed}
        /\ \A x \in Requests \ S : answer'[x] = answer[x]
    BY <2>1, <2>2, <2>3
  <2> QED BY <1>4, <2>4, Answering
<1>5. ASSUME Deactivate PROVE [Service!Next]_(Service!vars)
  BY <1>1, <1>3, <1>5 DEF Deactivate, callVars
<1>6. ASSUME FinishDeactivate \/ HelperGone PROVE [Service!Next]_(Service!vars)
  BY <1>3, <1>6 DEF FinishDeactivate, HelperGone
<1>7. ASSUME TakeJob PROVE [Service!Next]_(Service!vars)
  <2>1. CASE session
    BY <1>1, <1>7, <2>1 DEF TakeJob, callVars
  <2>2. CASE ~session
    <3>1. jobQ # <<>> /\ Reply(Head(jobQ), Failed) /\ asked' = asked
      BY <1>7, <2>2 DEF TakeJob
    <3>2. PICK r \in Requests : r = Head(jobQ) /\ r \in Values(jobQ)
      BY <1>t, <3>1, SendReceive, ValuesMove
    <3> QED BY <1>4, <3>1, <3>2
  <2> QED BY <2>1, <2>2
<1>8. ASSUME WriteFails PROVE [Service!Next]_(Service!vars)
  <2>1. mgr = "writing" /\ Reply(writing.req, Failed) /\ asked' = asked
    BY <1>8 DEF WriteFails
  <2>2. PICK r \in Requests : r = writing.req /\ r \in Written
    BY <1>t, <2>1, WrittenValue
  <2> QED BY <1>4, <2>1, <2>2
<1>9. ASSUME TakeReply PROVE [Service!Next]_(Service!vars)
  <2> DEFINE m == Head(events)
  <2>1. events # <<>> /\ m.tag # "Dhcp" /\ asked' = asked
    BY <1>9 DEF TakeReply
  <2>2. m \in Heard
    BY <1>t, <2>1, ValuesMove DEF Heard
  <2>3. ReplyFits(m)
    BY <2>2 DEF RouteInv
  <2>4. CASE m.id \notin DOMAIN pending
    BY <1>1, <1>9, <2>4 DEF TakeReply, callVars
  <2>5. CASE m.id \in DOMAIN pending
    <3>1. Reply(pending[m.id], IF m.tag = SlotOf(pending[m.id]) THEN m.out ELSE Dropped)
      BY <1>9, <2>5 DEF TakeReply
    <3>2. PICK r \in Requests : r = pending[m.id] /\ r \in Values(pending)
      BY <1>t, <2>5 DEF ManagerTypes, Waiting, Values
    <3>3. PICK out \in {Own(r), Failed} : out = m.out
      BY <2>3, <2>5, <3>2 DEF ReplyFits
    <3>4. Reply(r, out)
      BY <2>3, <2>5, <3>1, <3>2, <3>3 DEF ReplyFits
    <3> QED BY <1>4, <2>1, <3>2, <3>3, <3>4
  <2> QED BY <2>4, <2>5
<1>10. Activate \/ StartOk \/ StartFail \/ SendShutdown \/ WriteRequest \/ TakeDhcp =>
         UNCHANGED callVars
  BY DEF Activate, StartOk, StartFail, SendShutdown, WriteRequest, TakeDhcp
<1>11. Click \/ ReaderForwards \/ ReaderEnds \/ HelperStep => UNCHANGED callVars
  BY DEF Click, ReaderForwards, ReaderEnds, HelperStep, HelperReads, HelperQueues,
         HelperRefuses, HelperTakesDhcp, HelperRelaysDhcp
<1>12. (\E m \in replies : TaskReplies(m)) \/ EngineStep \/ EngineDies \/ HelperCrashes =>
         UNCHANGED callVars
  BY DEF TaskReplies, EngineStep, EngineStarts, EngineFinishes, EngineDies, HelperCrashes
<1>13. UNCHANGED vars => UNCHANGED callVars
  BY DEF vars
<1> QED
  BY <1>1, <1>2, <1>5, <1>6, <1>7, <1>8, <1>9, <1>10, <1>11, <1>12, <1>13
  DEF Next, ManagerStep

(* The whole path, with its bounded channels, crashes and lost helpers,    *)
(* keeps the promise of JobService: each request is answered once at most, *)
(* by the outcome of its own job or by a local failure.                    *)
THEOREM RelayIsService == Spec => ImplementsJobService
<1>1. Init => TypeOK /\ HandleInv /\ RouteInv
  BY InitType, HandleInit, RouteInit
<1>2. TypeOK /\ HandleInv /\ RouteInv /\ [Next]_vars => (TypeOK /\ HandleInv /\ RouteInv)'
  BY NextType, HandleNext, RouteNext
<1> QED BY <1>1, <1>2, ServiceInit, ServiceNext, PTL DEF Spec, ImplementsJobService, Service!Spec

-----------------------------------------------------------------------------
(* DhcpInOrder: the log, the reader's channel and the connection, read in  *)
(* this order, list captured messages in capture order, and whatever the   *)
(* helper is about to relay comes after all of them.                       *)
Relays(q) == {m \in Values(q) : m.tag = "Dhcp"}
InTurn(q) ==
  \A i, j \in DOMAIN q :
    i < j /\ q[i].tag = "Dhcp" /\ q[j].tag = "Dhcp" => q[i].id < q[j].id
Captured(n) == n <= sniffed /\ (helper = "relaying" => n < sniffed)

DhcpInv ==
  /\ DhcpInOrder /\ InTurn(events) /\ InTurn(toGui)
  /\ \A m \in Relays(toGui) : Captured(m.id)
  /\ \A e \in Relays(events) : Captured(e.id) /\ \A m \in Relays(toGui) : e.id < m.id
  /\ \A n \in Values(recorded) :
       Captured(n) /\ \A m \in Relays(events) \cup Relays(toGui) : n < m.id

(* Sending and receiving keep a channel in turn.                           *)
LEMMA InTurnMove ==
  ASSUME NEW S, NEW q \in Seq(S), InTurn(q)
  PROVE  /\ \A e \in S : (e.tag = "Dhcp" => \A m \in Relays(q) : m.id < e.id) => InTurn(Append(q, e))
         /\ q # <<>> => /\ InTurn(Tail(q))
                        /\ Head(q).tag = "Dhcp" => \A m \in Relays(Tail(q)) : Head(q).id < m.id
<1>1. DOMAIN q = 1..Len(q) /\ Len(q) \in Nat
  OBVIOUS
<1>2. ASSUME NEW e \in S, e.tag = "Dhcp" => \A m \in Relays(q) : m.id < e.id
      PROVE  InTurn(Append(q, e))
  <2>1. /\ DOMAIN Append(q, e) = 1..(Len(q) + 1)
        /\ \A i \in 1..Len(q) : Append(q, e)[i] = q[i]
        /\ Append(q, e)[Len(q) + 1] = e
    OBVIOUS
  <2>2. ASSUME NEW i \in 1..(Len(q) + 1), NEW j \in 1..(Len(q) + 1), i < j,
               Append(q, e)[i].tag = "Dhcp", Append(q, e)[j].tag = "Dhcp"
        PROVE  Append(q, e)[i].id < Append(q, e)[j].id
    <3>1. i \in 1..Len(q) /\ Append(q, e)[i] = q[i]
      BY <1>1, <2>1, <2>2
    <3>2. CASE j \in 1..Len(q)
      BY <1>1, <2>1, <2>2, <3>1, <3>2 DEF InTurn
    <3>3. CASE j = Len(q) + 1
      BY <1>1, <1>2, <2>1, <2>2, <3>1, <3>3 DEF Relays, Values
    <3> QED BY <1>1, <3>2, <3>3
  <2> QED BY <2>1, <2>2 DEF InTurn
<1>3. ASSUME q # <<>>
      PROVE  /\ InTurn(Tail(q))
             /\ Head(q).tag = "Dhcp" => \A m \in Relays(Tail(q)) : Head(q).id < m.id
  <2>1. /\ Len(q) > 0 /\ Head(q) = q[1]
        /\ DOMAIN Tail(q) = 1..(Len(q) - 1)
        /\ \A i \in 1..(Len(q) - 1) : Tail(q)[i] = q[i + 1] /\ i + 1 \in DOMAIN q
    BY <1>3
  <2>2. InTurn(Tail(q))
    BY <1>1, <2>1 DEF InTurn
  <2>3. Head(q).tag = "Dhcp" => \A m \in Relays(Tail(q)) : Head(q).id < m.id
    BY <1>1, <2>1 DEF InTurn, Relays, Values
  <2> QED BY <2>2, <2>3
<1> QED BY <1>2, <1>3

(* The same for the log, which is a sequence of numbers.                   *)
LEMMA LogGrows ==
  ASSUME NEW n \in Nat, recorded \in Seq(Nat), DhcpInOrder, \A k \in Values(recorded) : k < n,
         recorded' = Append(recorded, n)
  PROVE  DhcpInOrder'
<1>1. DOMAIN recorded = 1..Len(recorded) /\ Len(recorded) \in Nat
  OBVIOUS
<1>2. /\ DOMAIN recorded' = 1..(Len(recorded) + 1)
      /\ \A i \in 1..Len(recorded) : recorded'[i] = recorded[i]
      /\ recorded'[Len(recorded) + 1] = n
  OBVIOUS
<1> QED BY <1>1, <1>2 DEF DhcpInOrder, Values

(* Nothing has been captured at the start.                                 *)
LEMMA DhcpInit == Init => DhcpInv
<1> SUFFICES ASSUME Init PROVE DhcpInv
  OBVIOUS
<1>1. Values(events) = {} /\ Values(toGui) = {} /\ Values(recorded) = {}
  BY ValuesEmpty DEF Init
<1>2. DOMAIN events = {} /\ DOMAIN toGui = {} /\ DOMAIN recorded = {}
  BY DEF Init
<1> QED BY <1>1, <1>2 DEF DhcpInv, DhcpInOrder, InTurn, Relays

(* A step that leaves the log alone and what is in transit too, or clears  *)
(* it, keeps the order.                                                    *)
LEMMA DhcpLess ==
  ASSUME TypeOK, DhcpInv, recorded' = recorded,
         events' \in {events, <<>>}, toGui' \in {toGui, <<>>},
         sniffed' = sniffed, helper' = "relaying" => helper = "relaying"
  PROVE  DhcpInv'
<1>1. InTurn(<<>>) /\ Relays(<<>>) = {}
  BY DEF InTurn, Relays, Values
<1>2. Relays(events') \subseteq Relays(events) /\ Relays(toGui') \subseteq Relays(toGui)
  BY <1>1
<1>3. InTurn(events)' /\ InTurn(toGui)'
  BY <1>1 DEF DhcpInv
<1>4. DhcpInOrder' /\ \A n \in Nat : Captured(n) => Captured(n)'
  BY DEF DhcpInv, DhcpInOrder, Captured
<1>5. /\ recorded \in Seq(Nat) /\ \A n \in Values(recorded) : n \in Nat
      /\ \A m \in Relays(events) \cup Relays(toGui) : m.id \in Nat
  <2>1. recorded \in Seq(Nat) /\ events \in Seq(Event) /\ toGui \in Seq(Event)
    BY DEF TypeOK, DhcpTypes, WireTypes
  <2>2. \A m \in Event : m.id \in Nat
    BY DEF Event, ReplyMsg
  <2> QED BY <2>1, <2>2 DEF Relays, Values
<1> QED BY <1>2, <1>3, <1>4, <1>5 DEF DhcpInv

(* Only the helper captures and relays, one message at a time, and only    *)
(* the reader and the manager move what it relayed.                        *)
LEMMA DhcpNext == TypeOK /\ DhcpInv /\ [Next]_vars => DhcpInv'
<1> SUFFICES ASSUME TypeOK, DhcpInv, [Next]_vars PROVE DhcpInv'
  OBVIOUS
<1>t. /\ events \in Seq(Event) /\ toGui \in Seq(Event) /\ replies \subseteq ReplyMsg
      /\ recorded \in Seq(Nat) /\ sniffed \in Nat /\ held \in Job \cup {NoJob}
  BY DEF TypeOK, WireTypes, HelperTypes, DhcpTypes
<1>n. /\ \A m \in Values(events) \cup Values(toGui) : m \in Event /\ m.id \in Nat
      /\ \A n \in Values(recorded) : n \in Nat
  <2>1. \A m \in Event : m.id \in Nat
    BY DEF Event, ReplyMsg
  <2> QED BY <1>t, <2>1 DEF Values
<1>1. ASSUME UNCHANGED <<events, toGui, helper, dhcpVars>> PROVE DhcpInv'
  BY <1>1, DhcpLess DEF dhcpVars
<1>2. ASSUME Disconnected \/ (HelperStops /\ UNCHANGED <<events, toGui>>), UNCHANGED dhcpVars
      PROVE  DhcpInv'
  BY <1>2, DhcpLess DEF Disconnected, HelperStops, dhcpVars
<1>3. ASSUME StartOk PROVE DhcpInv'
  BY <1>3, DhcpLess DEF StartOk, dhcpVars
<1>4. ASSUME FinishDeactivate \/ HelperGone PROVE DhcpInv'
  BY <1>2, <1>4 DEF FinishDeactivate, HelperGone
<1>5. ASSUME TakeReply PROVE DhcpInv'
  <2>1. events # <<>> /\ events' = Tail(events) /\ UNCHANGED <<toGui, helper, recorded, sniffed>>
    BY <1>5 DEF TakeReply, helperVars, dhcpVars
  <2>2. InTurn(events)' /\ Relays(events') \subseteq Relays(events)
    BY <1>t, <2>1, InTurnMove, ValuesMove DEF DhcpInv, Relays
  <2> QED BY <2>1, <2>2 DEF DhcpInv, DhcpInOrder, Captured, InTurn, Relays, Values
<1>6. ASSUME TakeDhcp PROVE DhcpInv'
  <2> DEFINE e == Head(events)
  <2>1. /\ events # <<>> /\ e.tag = "Dhcp" /\ events' = Tail(events)
        /\ recorded' = Append(recorded, e.id) /\ UNCHANGED <<toGui, helper, sniffed>>
    BY <1>6 DEF TakeDhcp, helperVars
  <2>2. e \in Relays(events) /\ e.id \in Nat
    BY <1>t, <1>n, <2>1, ValuesMove DEF Relays
  <2>3. /\ InTurn(events)' /\ Relays(events') \subseteq Relays(events)
        /\ \A m \in Relays(events') : e.id < m.id
    BY <1>t, <2>1, InTurnMove, ValuesMove DEF DhcpInv, Relays
  <2>4. DhcpInOrder' /\ Values(recorded') = Values(recorded) \cup {e.id}
    <3>1. PICK n \in Nat : n = e.id
      BY <2>2
    <3>2. recorded' = Append(recorded, n) /\ \A k \in Values(recorded) : k < n
      BY <2>1, <2>2, <3>1 DEF DhcpInv
    <3>3. DhcpInOrder'
      BY <1>t, <3>2, LogGrows DEF DhcpInv
    <3> QED BY <1>t, <3>1, <3>2, <3>3, ValuesMove
  <2> HIDE DEF e
  <2>5. Captured(e.id) /\ \A m \in Relays(toGui) : e.id < m.id
    BY <2>2 DEF DhcpInv
  <2>6. \A n \in Values(recorded') :
          Captured(n)' /\ \A m \in Relays(events') \cup Relays(toGui') : n < m.id
    BY <2>1, <2>3, <2>4, <2>5 DEF DhcpInv, Captured
  <2>7. /\ InTurn(toGui)' /\ \A m \in Relays(toGui') : Captured(m.id)'
        /\ \A x \in Relays(events') : Captured(x.id)' /\ \A m \in Relays(toGui') : x.id < m.id
    BY <2>1, <2>3 DEF DhcpInv, Captured
  <2> QED BY <2>3, <2>4, <2>6, <2>7 DEF DhcpInv
<1>7. ASSUME ReaderForwards PROVE DhcpInv'
  <2> DEFINE e == Head(toGui)
  <2>1. /\ toGui # <<>> /\ toGui' = Tail(toGui) /\ events' = Append(events, e)
        /\ UNCHANGED <<helper, recorded, sniffed>>
    BY <1>7 DEF ReaderForwards, helperVars, dhcpVars
  <2>2. e \in Values(toGui) /\ e \in Event
    BY <1>t, <1>n, <2>1, ValuesMove
  <2>3. /\ InTurn(toGui)' /\ Relays(toGui') \subseteq Relays(toGui)
        /\ e.tag = "Dhcp" => \A m \in Relays(toGui') : e.id < m.id
    BY <1>t, <2>1, InTurnMove, ValuesMove DEF DhcpInv, Relays
  <2>4. InTurn(events)' /\ Values(events') = Values(events) \cup {e}
    <3>1. e.tag = "Dhcp" => \A m \in Relays(events) : m.id < e.id
      BY <2>2 DEF DhcpInv, Relays
    <3>2. PICK x \in Event : x = e
      BY <2>2
    <3> HIDE DEF e
    <3>3. InTurn(Append(events, x)) /\ Values(Append(events, x)) = Values(events) \cup {x}
      BY <1>t, <3>1, <3>2, InTurnMove, ValuesMove DEF DhcpInv
    <3> QED BY <2>1, <3>2, <3>3
  <2> HIDE DEF e
  <2>5. \A x \in Relays(events') : x \in Relays(events) \/ (x = e /\ e \in Relays(toGui))
    BY <2>2, <2>4 DEF Relays
  <2>6. \A x \in Relays(events') : Captured(x.id)' /\ \A m \in Relays(toGui') : x.id < m.id
    BY <2>1, <2>3, <2>5 DEF DhcpInv, Captured, Relays
  <2>7. \A n \in Values(recorded') :
          Captured(n)' /\ \A m \in Relays(events') \cup Relays(toGui') : n < m.id
    BY <2>1, <2>3, <2>5 DEF DhcpInv, Captured
  <2>8. DhcpInOrder' /\ \A m \in Relays(toGui') : Captured(m.id)'
    BY <2>1, <2>3 DEF DhcpInv, DhcpInOrder, Captured
  <2> QED BY <2>3, <2>4, <2>6, <2>7, <2>8 DEF DhcpInv
<1>8. ASSUME HelperTakesDhcp PROVE DhcpInv'
  <2>1. /\ helper = "reading" /\ sniffed' = sniffed + 1
        /\ UNCHANGED <<events, toGui, recorded>>
    BY <1>8 DEF HelperTakesDhcp, readVars
  <2>2. \A n \in Nat : Captured(n) => Captured(n)'
    BY <1>t, <2>1 DEF Captured
  <2> QED BY <1>n, <2>1, <2>2 DEF DhcpInv, DhcpInOrder, InTurn, Relays, Values
<1>9. ASSUME HelperRelaysDhcp PROVE DhcpInv'
  <2>1. /\ helper = "relaying" /\ helper' = "reading"
        /\ toGui' = Append(toGui, DhcpEvent(sniffed)) /\ UNCHANGED <<events, recorded, sniffed>>
    BY <1>9 DEF HelperRelaysDhcp, readVars, dhcpVars
  <2>2. PICK x \in Event : x = DhcpEvent(sniffed) /\ x.tag = "Dhcp" /\ x.id = sniffed
    BY <1>t, EventType DEF DhcpEvent
  <2>3. /\ \A m \in Relays(events) \cup Relays(toGui) : m.id < sniffed
        /\ \A n \in Values(recorded) : n < sniffed
    BY <2>1 DEF DhcpInv, Captured
  <2>4. InTurn(toGui)' /\ Values(toGui') = Values(toGui) \cup {x}
    BY <1>t, <2>1, <2>2, <2>3, InTurnMove, ValuesMove DEF DhcpInv
  <2>5. \A m \in Relays(toGui') : m \in Relays(toGui) \/ m = x
    BY <2>4 DEF Relays
  <2>6. \A n \in Nat : n <= sniffed => Captured(n)'
    BY <2>1 DEF Captured
  <2>7. \A m \in Relays(toGui') : Captured(m.id)'
    BY <1>n, <1>t, <2>2, <2>3, <2>5, <2>6 DEF Relays
  <2>8. \A e \in Relays(events') : Captured(e.id)' /\ \A m \in Relays(toGui') : e.id < m.id
    BY <1>n, <1>t, <2>1, <2>2, <2>3, <2>5, <2>6 DEF DhcpInv, Relays
  <2>9. \A n \in Values(recorded') :
          Captured(n)' /\ \A m \in Relays(events') \cup Relays(toGui') : n < m.id
    BY <1>n, <1>t, <2>1, <2>2, <2>3, <2>5, <2>6 DEF DhcpInv
  <2>10. DhcpInOrder' /\ InTurn(events)'
    BY <2>1 DEF DhcpInv, DhcpInOrder
  <2> QED BY <2>4, <2>7, <2>8, <2>9, <2>10 DEF DhcpInv
<1>10. ASSUME NEW x \in Event, x.tag # "Dhcp", toGui' = Append(toGui, x),
              UNCHANGED <<events, dhcpVars>>, helper' = "relaying" => helper = "relaying"
       PROVE  DhcpInv'
  <2>1. InTurn(toGui)' /\ Values(toGui') = Values(toGui) \cup {x}
    BY <1>10, <1>t, InTurnMove, ValuesMove DEF DhcpInv
  <2>2. Relays(toGui') = Relays(toGui)
    BY <1>10, <2>1 DEF Relays
  <2> QED BY <1>10, <2>1, <2>2 DEF DhcpInv, DhcpInOrder, Captured, dhcpVars
<1>11. ASSUME HelperRefuses PROVE DhcpInv'
  <2>1. PICK x \in ReplyMsg : x = Response(held, Failed)
    <3>1. held \in Job
      BY <1>11 DEF HelperRefuses, TypeOK, HelperTypes
    <3> QED BY <3>1, LocalType, ResponseType
  <2>2. x \in Event /\ x.tag # "Dhcp"
    BY EventType DEF ReplyMsg
  <2> QED BY <1>10, <1>11, <2>1, <2>2 DEF HelperRefuses, readVars
<1>12. ASSUME NEW m \in replies, TaskReplies(m) PROVE DhcpInv'
  <2>1. m \in Event /\ m.tag # "Dhcp"
    BY <1>t, EventType DEF ReplyMsg
  <2> QED BY <1>10, <1>12, <2>1 DEF TaskReplies, readVars
<1>13. ASSUME HelperReads PROVE DhcpInv'
  <2>1. UNCHANGED <<events, toGui, dhcpVars>> /\ helper' # "relaying"
    BY <1>13 DEF HelperReads, HelperStops, readVars
  <2> QED BY <2>1, DhcpLess DEF dhcpVars
<1>14. ASSUME HelperQueues PROVE DhcpInv'
  BY <1>14, DhcpLess DEF HelperQueues, readVars, dhcpVars
<1>15. ASSUME HelperCrashes PROVE DhcpInv'
  BY <1>2, <1>15 DEF HelperCrashes, readVars
<1>16. Activate \/ StartFail \/ Deactivate \/ SendShutdown \/ TakeJob \/ WriteRequest \/ WriteFails
         => UNCHANGED <<events, toGui, helper, dhcpVars>>
  BY DEF Activate, StartFail, Deactivate, SendShutdown, TakeJob, WriteRequest, WriteFails,
         readVars, helperVars
<1>17. (\E r \in Requests : Submit(r)) \/ Click \/ ReaderEnds =>
         UNCHANGED <<events, toGui, helper, dhcpVars>>
  BY DEF Submit, Click, ReaderEnds, readVars, helperVars
<1>18. EngineStep \/ EngineDies => UNCHANGED <<events, toGui, helper, dhcpVars>>
  BY DEF EngineStep, EngineStarts, EngineFinishes, EngineDies, readVars
<1>19. UNCHANGED vars => UNCHANGED <<events, toGui, helper, dhcpVars>>
  BY DEF vars, readVars, helperVars
<1> QED
  BY <1>1, <1>3, <1>4, <1>5, <1>6, <1>7, <1>8, <1>9, <1>11, <1>12, <1>13, <1>14, <1>15,
     <1>16, <1>17, <1>18, <1>19
  DEF Next, ManagerStep, HelperStep

(* The DHCP log lists what was captured in capture order, although the     *)
(* messages share a connection with replies that overtake one another, and *)
(* however often that connection is replaced.                              *)
THEOREM DhcpLogged == Spec => []DhcpInOrder
<1>1. DhcpInv => DhcpInOrder
  BY DEF DhcpInv
<1>2. Init => TypeOK /\ DhcpInv
  BY InitType, DhcpInit
<1>3. TypeOK /\ DhcpInv /\ [Next]_vars => (TypeOK /\ DhcpInv)'
  BY NextType, DhcpNext
<1> QED BY <1>1, <1>2, <1>3, PTL DEF Spec
=============================================================================
