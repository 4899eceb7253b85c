----------------------------- MODULE DnsServers -----------------------------
(***************************************************************************)
(* The server list of the DNS tab (app/dns_tab.rs) over the list that the  *)
(* DNS worker refreshes (net/dns.rs): who is asked, by the Query panel and *)
(* by the Ping tab.                                                        *)
(*                                                                         *)
(* A frame of the tab reads the list once, draws the fields and buttons    *)
(* above the list, then the list it read; the worker may refresh in        *)
(* between, and what the buttons do reads the list anew.  The order of the *)
(* servers and the messages beside the fields are left out; what is not    *)
(* an address is reported there and changes nothing.                       *)
(*                                                                         *)
(* A definition named Faulty... is a plausible mistake in the one after    *)
(* it; nothing uses it but the runs that show a property notices it.       *)
(***************************************************************************)
EXTENDS Naturals

CONSTANTS Servers   \* server addresses

VARIABLES
  tab,        \* the tab on the screen (AppTabs)
  os,         \* what the system is configured with
  shared,     \* SharedDnsServers
  manual,     \* dns_manual_servers
  selected,   \* dns_selected: "on", "off", or "none" where there is no entry
  step,       \* where the frame is: none, begun, or past the user's click
  drawn,      \* the list that this frame read
  file,       \* the .dns file
  off,        \* for the properties alone: what the user or a load unchecked
  crossed,    \* for the properties alone: those of them whose "x" was clicked
  added,      \* for the properties alone: what was added beside the system's
  restored    \* for the properties alone: the set that was loaded and holds

history == <<off, crossed, added, restored>>
vars == <<tab, os, shared, manual, selected, step, drawn, file, history>>

-----------------------------------------------------------------------------
NoFile == [saved |-> FALSE, servers |-> {}]
Holding(set) == [saved |-> TRUE, servers |-> set]
NoEntries == [s \in Servers |-> "none"]

(* combined_dns_servers *)
Combined == shared \cup manual

(* Whom the Query panel asks, and a name on the Ping tab: an entry that is *)
(* not there counts as checked.                                            *)
PanelServers == {s \in Combined : selected[s] # "off"}
PingServers  == {s \in shared : selected[s] # "off"}

Init ==
  /\ os \in SUBSET Servers /\ shared = os
  /\ manual = {} /\ selected = NoEntries
  /\ step = "none" /\ drawn = {}
  /\ file = NoFile
  /\ off = {} /\ crossed = {} /\ added = {} /\ restored = NoFile

-----------------------------------------------------------------------------
(* The system, and dns_worker's tick                                       *)

OsChanges ==
  /\ os' \in SUBSET Servers
  /\ UNCHANGED <<tab, shared, manual, selected, step, drawn, file, history>>

Refresh ==
  /\ shared # os /\ shared' = os
  /\ restored' = NoFile
  /\ UNCHANGED <<tab, os, manual, selected, step, drawn, file, off, crossed, added>>

-----------------------------------------------------------------------------
(* A frame: ui_dns_tab                                                     *)

(* Faulty: only what the system lists keeps its entry. *)
FaultyRetained == shared
Retained == Combined

BeginFrame ==
  /\ tab = "dns" /\ step = "none"
  /\ step' = "begun" /\ drawn' = Combined
  /\ selected' = [s \in Servers |-> IF s \in Retained THEN selected[s] ELSE "none"]
  /\ off' = off \cap Combined /\ crossed' = crossed \cap Combined
  /\ UNCHANGED <<tab, os, shared, manual, file, added, restored>>

Click == step = "begun" /\ step' = "clicked" /\ UNCHANGED <<tab, os, shared, drawn>>

(* try_add_manual_dns_server *)
Add ==
  /\ Click
  /\ \E s \in Servers :
       /\ manual' = manual \cup ({s} \ shared)
       /\ selected' = [selected EXCEPT ![s] = "on"]
       /\ off' = off \ {s} /\ crossed' = crossed \ {s}
       /\ added' = added \cup ({s} \ shared)
  /\ restored' = NoFile
  /\ UNCHANGED file

(* save_dns_servers: the file is written, or is left as it was or empty.   *)
Save ==
  /\ Click
  /\ file' \in {Holding(PanelServers), file, Holding({})}
  /\ UNCHANGED <<manual, selected, history>>

(* load_dns_servers.  Faulty: what was checked before stays so; a server   *)
(* added by hand that the system lists too is not kept twice.              *)
FaultyLoadSelection == [s \in Servers |-> IF s \in file.servers THEN "on" ELSE selected[s]]
LoadSelection ==
  [s \in Servers |-> IF s \in file.servers THEN "on"
                     ELSE IF selected[s] = "none" THEN "none" ELSE "off"]

FaultyLoadManual == (manual \cup file.servers) \ shared
LoadManual == manual \cup (file.servers \ shared)

Load ==
  /\ Click /\ file.saved
  /\ selected' = LoadSelection /\ manual' = LoadManual
  /\ off' = {s \in Servers : selected[s] # "none"} \ file.servers /\ crossed' = {}
  /\ added' = (added \cap file.servers) \cup (file.servers \ shared)
  /\ restored' = IF \A s \in Combined : selected[s] # "none" THEN file ELSE NoFile
  /\ UNCHANGED file

(* The list, with a click in it (if there was none in this frame) or not:  *)
(* every server that the frame read gets its entry.                        *)
Entered == [s \in Servers |-> IF s \in drawn /\ selected[s] = "none" THEN "on" ELSE selected[s]]

Toggle(s) ==
  LET now == IF Entered[s] = "on" THEN "off" ELSE "on" IN
    /\ selected' = [Entered EXCEPT ![s] = now]
    /\ off' = IF now = "off" THEN off \cup {s} ELSE off \ {s}
    /\ crossed' = crossed \ {s}
    /\ restored' = NoFile
    /\ UNCHANGED <<manual, added>>

Remove(s) ==
  /\ s \in manual
  /\ manual' = manual \ {s}
  /\ selected' = [Entered EXCEPT ![s] = "none"]
  /\ crossed' = crossed \cup (off \cap {s})
  /\ added' = added \ {s} /\ restored' = NoFile /\ UNCHANGED off

List ==
  /\ step # "none" /\ step' = "none" /\ drawn' = {}
  /\ \/ selected' = Entered /\ UNCHANGED <<manual, history>>
     \/ step = "begun" /\ \E s \in drawn : Toggle(s) \/ Remove(s)
  /\ UNCHANGED <<tab, os, shared, file>>

Next == OsChanges \/ Refresh \/ BeginFrame \/ Add \/ Save \/ Load \/ List

(* The program starts anew: main makes the list, StatoriusApp the rest.    *)
Restarted ==
  /\ shared' = os /\ manual' = {} /\ selected' = NoEntries
  /\ step' = "none" /\ drawn' = {}
  /\ off' = {} /\ crossed' = {} /\ added' = {} /\ restored' = NoFile
  /\ UNCHANGED <<os, file>>

-----------------------------------------------------------------------------
(* Every variable is of its type; nothing is drawn between two frames.     *)
TypeOK ==
  /\ {os, shared, manual, drawn, off, crossed, added} \subseteq SUBSET Servers
  /\ selected \in [Servers -> {"none", "on", "off"}]
  /\ step \in {"none", "begun", "clicked"} /\ (step = "none" => drawn = {})
  /\ {file, restored} \subseteq [saved : BOOLEAN, servers : SUBSET Servers]

(* A server that the user unchecked, or a load did, is asked by nobody     *)
(* until it is checked, added or loaded again, or a frame is drawn without *)
(* it: not after a refresh between the frame's first look at the list and  *)
(* its last, nor while the tab is not on the screen.  One exception: the   *)
(* "x" of a server that was added by hand takes away that it is unchecked, *)
(* so that it is asked where the system lists it too, or comes to before   *)
(* another frame is drawn.                                                 *)
UncheckedStaysUnasked == off \cap (PanelServers \cup PingServers) \subseteq crossed

(* A load reproduces the set that was saved, in this run of the program or *)
(* in another: "restores exactly the checked set it was saved with" - from *)
(* then on, until the user or a refresh changes the list.  (One exception: *)
(* a server that no frame has listed yet, one that a refresh has just      *)
(* brought, has no entry to uncheck.)                                      *)
LoadRestores == restored.saved => PanelServers = restored.servers

(* app/mod.rs:168-171 on the servers added by hand: "Never touched by the  *)
(* 10s background refresh - only removed by the user's own "x" button, or  *)
(* implicitly by loading a `.dns` file that doesn't mention them".  Until  *)
(* then such a server stays listed, whatever else the system comes to list *)
(* and drop and whatever other files are loaded, and the Query panel asks  *)
(* it unless it was unchecked.                                             *)
AddedStays == added \subseteq Combined /\ added \ off \subseteq PanelServers
=============================================================================
