------------------------------- MODULE AppTabs -------------------------------
(***************************************************************************)
(* The window (app/mod.rs): which tab is on the screen, and the four tabs  *)
(* that keep a state of their own beside what the workers publish - the    *)
(* form of the L2 Ping tab (L2Form), the server list of the DNS tab        *)
(* (DnsServers), the list of the Interfaces tab (Interfaces) and the       *)
(* graphics section of the About tab (Graphics) - all drawn by one thread, *)
(* which the user may leave, quit and start again.                         *)
(*                                                                         *)
(* These four share the tab and the status of L2 mode and nothing else,   *)
(* so a behaviour in which all of them change shows no more of one than a  *)
(* behaviour in which only that one does.  Subjects bounds the runs by     *)
(* this: a behaviour is about one of them, chosen at its start.            *)
(***************************************************************************)
EXTENDS Naturals

CONSTANTS
  Sources, Addresses, VlanTexts, VlanIds, MaxEdits,
  Servers,
  Nics, MaxPanics,
  Adapters, Selectable,
  Subjects

VARIABLES
  tab,       \* active_tab
  active,    \* whether SharedL2Status is Active
  subject,   \* the bound named above
  source, vlan, validatedFor, light, check, known, edits, last,
  os, shared, manual, selected, step, drawn, file, off, crossed, added, restored,
  nics, listed, refresh, due, panics,
  machine, env, saved, choice, start, message, running, foreign

ASSUME FormAssumption ==
  /\ Addresses \subseteq Sources /\ VlanIds \subseteq VlanTexts
  /\ "" \in Sources \ Addresses /\ "" \in VlanTexts \ VlanIds
  /\ MaxEdits \in Nat

ASSUME GraphicsAssumption ==
  /\ Adapters # {} /\ \A a \in Adapters : a.backend # "any"
  /\ Selectable \subseteq {"auto", "vulkan", "opengl", "dx12"}
  /\ Selectable # {} => "auto" \in Selectable

ASSUME InterfacesAssumption == MaxPanics \in Nat

ASSUME SubjectsAssumption == Subjects \subseteq {"form", "servers", "interfaces", "graphics"}

F == INSTANCE L2Form
D == INSTANCE DnsServers
I == INSTANCE Interfaces
G == INSTANCE Graphics

formVars    == <<source, vlan, validatedFor, light, check, known, edits, last>>
serverVars  == <<os, shared, manual, selected, step, drawn, file, off, crossed, added, restored>>
nicVars     == <<nics, listed, refresh, due, panics>>
machineVars == <<machine, env, saved, choice, start, message, running, foreign>>
vars == <<tab, active, subject, formVars, serverVars, nicVars, machineVars>>

-----------------------------------------------------------------------------
Tabs     == {"ping", "l2", "dhcp", "interfaces", "dns", "about"}
L2Tabs   == {"l2", "dhcp"}

Init ==
  /\ tab = "ping" /\ active = FALSE
  /\ subject \in Subjects
  /\ F!Init /\ D!Init /\ I!Init /\ G!Init
  /\ subject # "servers" => os = {}
  /\ subject # "interfaces" => nics = {}
  /\ subject # "graphics" => machine = Adapters /\ env = FALSE /\ saved = "absent"

(* The thread that draws is between two frames. *)
Between == step = "none"

(* A behaviour is about the subject; the rest keeps its state. *)
Form     == subject = "form" /\ UNCHANGED <<subject, serverVars, nicVars, machineVars>>
ServerList == subject = "servers" /\ UNCHANGED <<active, subject, formVars, nicVars, machineVars>>
NicList  == subject = "interfaces" /\ UNCHANGED <<active, subject, formVars, serverVars, machineVars>>
Setting  == subject = "graphics" /\ UNCHANGED <<active, subject, formVars, serverVars, nicVars>>

-----------------------------------------------------------------------------
(* render_tab_bar *)
FallBack ==
  /\ ~active /\ tab \in L2Tabs /\ tab' = "ping"
  /\ UNCHANGED <<active, subject, formVars, serverVars, nicVars, machineVars>>

Select ==
  /\ Between
  /\ tab' \in Tabs \ {tab} /\ (tab' \in L2Tabs => active)
  /\ UNCHANGED <<active, subject, formVars, serverVars, nicVars, machineVars>>

(* The L2 manager publishes another status (L2Lifecycle).                  *)
L2Changes ==
  /\ active' = ~active
  /\ UNCHANGED <<tab, subject, formVars, serverVars, nicVars, machineVars>>

(* main, again: everything but the two files starts anew.                  *)
Restart ==
  /\ Between
  /\ \/ G!Restart
     \/ subject = "graphics" /\ G!Relaunch
     \/ subject # "graphics" /\ UNCHANGED machineVars
  /\ D!Restarted
  /\ I!Restarted
  /\ F!Restarted
  /\ tab' = "ping" /\ active' = FALSE
  /\ UNCHANGED subject

Next ==
  \/ FallBack \/ Select \/ L2Changes \/ Restart
  \/ Form /\ F!Next
  \/ ServerList /\ D!Next
  \/ NicList /\ I!Next
  \/ Setting /\ G!Next

Spec == Init /\ [][Next]_vars

(* A frame is drawn at least every 250 ms, the manager answers every check *)
(* (L2Relay!AnsweredUnlessClogged, but for its exception), and the thread  *)
(* that lists the interfaces comes to an end.                              *)
FairSpec ==
  /\ Spec
  /\ WF_vars(Form /\ F!Poll) /\ WF_vars(Form /\ F!Answer)
  /\ WF_vars(NicList /\ I!Frame) /\ WF_vars(NicList /\ I!SecondPasses)
  /\ WF_vars(NicList /\ (I!Enumerate \/ I!Panic))

-----------------------------------------------------------------------------
(* Every variable is of its type, and no frame of the DNS tab is drawn     *)
(* while another tab is on the screen.                                     *)
TypeOK ==
  /\ tab \in Tabs /\ active \in BOOLEAN /\ subject \in Subjects
  /\ (~Between => tab = "dns")
  /\ F!TypeOK /\ D!TypeOK /\ I!TypeOK /\ G!TypeOK

(* In every frame, green and red are about this very address and VLAN, and *)
(* yellow and black have their reason (L2Form).                            *)
LightIsTrue == F!LightIsTrue

(* It comes to rest when the user stops typing and looks at it (L2Form).   *)
LightSettles == subject = "form" => F!LightSettles

(* Nobody asks a server that was unchecked, its "x" apart (DnsServers).    *)
UncheckedStaysUnasked == D!UncheckedStaysUnasked

(* A load reproduces what was saved, in whichever run (DnsServers).        *)
LoadRestores == D!LoadRestores

(* A server that was added stays until its "x", or a load of a file that   *)
(* does not mention it (DnsServers).                                       *)
AddedStays == D!AddedStays

(* The list of interfaces comes to be that of the machine (Interfaces).    *)
ListCatchesUp == subject = "interfaces" => I!ListCatchesUp

(* The graphics section says what is and what will be (Graphics).          *)
PanelIsTrue == G!PanelIsTrue
=============================================================================
