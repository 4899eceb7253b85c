--------------------------- MODULE AppTabsProofs ---------------------------
(***************************************************************************)
(* Proofs about AppTabs and its four parts, for any field texts, servers,  *)
(* interfaces and adapters.                                                *)
(***************************************************************************)
EXTENDS AppTabs, TLAPS

(***************************************************************************)
(* The server list.  What the history says was unchecked, and had no "x"   *)
(* since, is what the entries say, and what was added is in the manual     *)
(* list.                                                                   *)
(***************************************************************************)
ServersInv ==
  /\ D!TypeOK
  /\ crossed \subseteq off /\ off \ crossed = {s \in Servers : selected[s] = "off"}
  /\ added \subseteq manual
  /\ LoadRestores

(* The set that was loaded is what is asked, unless every server has not   *)
(* got its entry (load_dns_servers).                                       *)
LEMMA LoadHolds ==
  ASSUME ServersInv, D!Load
  PROVE  ServersInv'
<1> USE DEF D!Load, D!Click, D!Combined
<1>1. /\ {os, shared, manual, drawn, off, crossed, added} \subseteq SUBSET Servers
      /\ selected \in [Servers -> {"none", "on", "off"}]
      /\ step \in {"none", "begun", "clicked"} /\ (step = "none" => drawn = {})
      /\ {file, restored} \subseteq [saved : BOOLEAN, servers : SUBSET Servers]
  BY DEF ServersInv, D!TypeOK
<1>2. /\ selected' = [s \in Servers |-> IF s \in file.servers THEN "on"
                                         ELSE IF selected[s] = "none" THEN "none" ELSE "off"]
      /\ manual' = manual \cup (file.servers \ shared)
      /\ off' = {s \in Servers : selected[s] # "none"} \ file.servers /\ crossed' = {}
      /\ added' = (added \cap file.servers) \cup (file.servers \ shared)
      /\ UNCHANGED <<os, shared, file, drawn>>
      /\ step = "begun" /\ step' = "clicked"
      /\ restored' = file \/ restored' = D!NoFile
  BY DEF D!LoadSelection, D!LoadManual
<1>3. file.servers \subseteq Servers
  BY <1>1
<1>4. selected' \in [Servers -> {"none", "on", "off"}]
  BY <1>2
<1>5. D!NoFile \in [saved : BOOLEAN, servers : SUBSET Servers] /\ D!NoFile.saved = FALSE
  BY DEF D!NoFile
<1>6. D!TypeOK'
  <2>1. {os, shared, manual, drawn, off, crossed, added}' \subseteq SUBSET Servers
    BY <1>1, <1>2, <1>3
  <2>2. {file, restored}' \subseteq [saved : BOOLEAN, servers : SUBSET Servers]
    BY <1>1, <1>2, <1>5
  <2>3. (step \in {"none", "begun", "clicked"} /\ (step = "none" => drawn = {}))'
    BY <1>2
  <2> QED BY <1>4, <2>1, <2>2, <2>3 DEF D!TypeOK
<1>7. crossed' \subseteq off' /\ off' \ crossed' = {s \in Servers : selected'[s] = "off"}
  BY <1>2, <1>3
<1>8. added' \subseteq manual'
  BY <1>2 DEF ServersInv
<1>9. LoadRestores'
  <2>1. ASSUME restored'.saved
        PROVE  D!PanelServers' = restored'.servers
    <3>1. restored' = file /\ \A s \in shared \cup manual : selected[s] # "none"
      BY <1>5, <2>1
    <3>2. D!PanelServers' = {s \in shared \cup manual \cup (file.servers \ shared) : selected'[s] # "off"}
      BY <1>2 DEF D!PanelServers
    <3>3. \A s \in Servers : selected'[s] # "off" <=> (s \in file.servers \/ selected[s] = "none")
      BY <1>2
    <3>4. shared \cup manual \subseteq Servers
      BY <1>1
    <3> QED BY <1>3, <3>1, <3>2, <3>3, <3>4
  <2> QED BY <2>1 DEF LoadRestores, D!LoadRestores
<1> QED BY <1>6, <1>7, <1>8, <1>9 DEF ServersInv

LEMMA AddHolds ==
  ASSUME ServersInv, D!Add
  PROVE  ServersInv'
<1>1. PICK s \in Servers :
       /\ manual' = manual \cup ({s} \ shared)
       /\ selected' = [selected EXCEPT ![s] = "on"]
       /\ off' = off \ {s} /\ crossed' = crossed \ {s}
       /\ added' = added \cup ({s} \ shared)
  BY DEF D!Add
<1>2. /\ restored' = D!NoFile /\ UNCHANGED <<os, shared, file, drawn>> /\ step' = "clicked"
  BY DEF D!Add, D!Click
<1>3. D!NoFile \in [saved : BOOLEAN, servers : SUBSET Servers] /\ D!NoFile.saved = FALSE
  BY DEF D!NoFile
<1>4. D!TypeOK'
  BY <1>1, <1>2, <1>3 DEF ServersInv, D!TypeOK
<1>5. crossed' \subseteq off' /\ off' \ crossed' = {x \in Servers : selected'[x] = "off"}
  BY <1>1 DEF ServersInv, D!TypeOK
<1>6. added' \subseteq manual'
  BY <1>1 DEF ServersInv
<1>7. LoadRestores'
  BY <1>2, <1>3 DEF LoadRestores, D!LoadRestores
<1> QED BY <1>4, <1>5, <1>6, <1>7 DEF ServersInv

(* What only looks at the list, or gives a server its entry.               *)
LEMMA LooksHold ==
  ASSUME ServersInv, UNCHANGED <<shared, manual, file, added, restored>>,
         os' \in SUBSET Servers, drawn' \in SUBSET Servers,
         step' \in {"none", "begun", "clicked"}, step' = "none" => drawn' = {},
         selected' \in [Servers -> {"none", "on", "off"}],
         \A s \in shared \cup manual : selected'[s] = "off" <=> selected[s] = "off",
         off' \subseteq Servers, crossed' \subseteq off',
         off' \ crossed' = {s \in Servers : selected'[s] = "off"}
  PROVE  ServersInv'
<1>1. D!TypeOK'
  BY DEF ServersInv, D!TypeOK
<1>2. D!PanelServers' = D!PanelServers
  BY DEF D!PanelServers, D!Combined
<1> QED BY <1>1, <1>2 DEF ServersInv, LoadRestores, D!LoadRestores

LEMMA BeginFrameHolds ==
  ASSUME ServersInv, D!BeginFrame
  PROVE  ServersInv'
<1>1. /\ step' = "begun" /\ drawn' = shared \cup manual
      /\ selected' = [s \in Servers |-> IF s \in shared \cup manual THEN selected[s] ELSE "none"]
      /\ off' = off \cap (shared \cup manual) /\ crossed' = crossed \cap (shared \cup manual)
      /\ UNCHANGED <<os, shared, manual, file, added, restored>>
  BY DEF D!BeginFrame, D!Combined, D!Retained
<1>2. /\ selected' \in [Servers -> {"none", "on", "off"}]
      /\ \A s \in shared \cup manual : selected'[s] = "off" <=> selected[s] = "off"
      /\ off' \subseteq Servers /\ crossed' \subseteq off'
      /\ off' \ crossed' = {s \in Servers : selected'[s] = "off"}
      /\ drawn' \in SUBSET Servers /\ os' \in SUBSET Servers
  BY <1>1 DEF ServersInv, D!TypeOK
<1> QED BY <1>1, <1>2, LooksHold

LEMMA SaveHolds ==
  ASSUME ServersInv, D!Save
  PROVE  ServersInv'
<1>1. /\ file' \in {D!Holding(D!PanelServers), file, D!Holding({})}
      /\ UNCHANGED <<os, shared, drawn, manual, selected, off, crossed, added, restored>> /\ step' = "clicked"
  BY DEF D!Save, D!Click, D!history
<1>2. D!PanelServers \subseteq Servers
  BY DEF D!PanelServers, D!Combined, ServersInv, D!TypeOK
<1>3. file' \in [saved : BOOLEAN, servers : SUBSET Servers]
  <2>1. file \in [saved : BOOLEAN, servers : SUBSET Servers]
    BY DEF ServersInv, D!TypeOK
  <2>2. \A set \in SUBSET Servers : D!Holding(set) \in [saved : BOOLEAN, servers : SUBSET Servers]
    BY DEF D!Holding
  <2> QED BY <1>1, <1>2, <2>1, <2>2
<1>4. D!TypeOK'
  BY <1>1, <1>3 DEF ServersInv, D!TypeOK
<1>5. D!PanelServers' = D!PanelServers
  BY <1>1 DEF D!PanelServers, D!Combined
<1> QED BY <1>1, <1>4, <1>5 DEF ServersInv, LoadRestores, D!LoadRestores

(* The list of this frame, with a click on a server or without.            *)
LEMMA ListHolds ==
  ASSUME ServersInv, D!List
  PROVE  ServersInv'
<1>1. /\ step' = "none" /\ drawn' = {} /\ UNCHANGED <<os, shared, file>>
  BY DEF D!List
<1>2. /\ {os, shared, manual, drawn, off, crossed, added} \subseteq SUBSET Servers
      /\ selected \in [Servers -> {"none", "on", "off"}]
      /\ crossed \subseteq off /\ off \ crossed = {s \in Servers : selected[s] = "off"}
      /\ added \subseteq manual
      /\ {file, restored} \subseteq [saved : BOOLEAN, servers : SUBSET Servers]
  BY DEF ServersInv, D!TypeOK
<1>3. /\ D!Entered \in [Servers -> {"none", "on", "off"}]
      /\ \A s \in Servers : D!Entered[s] = "off" <=> selected[s] = "off"
  BY <1>2 DEF D!Entered
<1>4. D!NoFile \in [saved : BOOLEAN, servers : SUBSET Servers] /\ D!NoFile.saved = FALSE
  BY DEF D!NoFile
<1>5. CASE selected' = D!Entered /\ UNCHANGED <<manual, off, crossed, added, restored>>
  <2>1. /\ \A s \in shared \cup manual : selected'[s] = "off" <=> selected[s] = "off"
        /\ off' \subseteq Servers /\ crossed' \subseteq off'
        /\ off' \ crossed' = {s \in Servers : selected'[s] = "off"}
        /\ selected' \in [Servers -> {"none", "on", "off"}]
    BY <1>2, <1>3, <1>5
  <2>2. os' \in SUBSET Servers /\ drawn' \in SUBSET Servers
    BY <1>1, <1>2
  <2> QED BY <1>1, <1>5, <2>1, <2>2, LooksHold
<1>6. ASSUME NEW s \in drawn, D!Toggle(s)
      PROVE  ServersInv'
  <2>1. s \in Servers
    BY <1>2
  <2>2. PICK now \in {"on", "off"} :
          /\ selected' = [D!Entered EXCEPT ![s] = now]
          /\ off' = (IF now = "off" THEN off \cup {s} ELSE off \ {s})
          /\ crossed' = crossed \ {s}
          /\ restored' = D!NoFile /\ UNCHANGED <<manual, added>>
    BY <1>6 DEF D!Toggle
  <2>3. selected' \in [Servers -> {"none", "on", "off"}]
    BY <1>3, <2>1, <2>2
  <2>4. crossed' \subseteq off' /\ off' \ crossed' = {x \in Servers : selected'[x] = "off"}
    BY <1>2, <1>3, <2>1, <2>2
  <2>5. D!TypeOK'
    BY <1>1, <1>2, <1>4, <2>1, <2>2, <2>3, <2>4 DEF D!TypeOK
  <2> QED BY <1>2, <1>4, <2>2, <2>4, <2>5 DEF ServersInv, LoadRestores, D!LoadRestores
<1>7. ASSUME NEW s \in drawn, D!Remove(s)
      PROVE  ServersInv'
  <2>1. /\ s \in Servers
        /\ manual' = manual \ {s} /\ selected' = [D!Entered EXCEPT ![s] = "none"]
        /\ off' = off /\ crossed' = crossed \cup (off \cap {s})
        /\ added' = added \ {s} /\ restored' = D!NoFile
    BY <1>2, <1>7 DEF D!Remove
  <2>2. selected' \in [Servers -> {"none", "on", "off"}]
    BY <1>3, <2>1
  <2>3. crossed' \subseteq off' /\ off' \ crossed' = {x \in Servers : selected'[x] = "off"}
    BY <1>2, <1>3, <2>1
  <2>4. D!TypeOK'
    BY <1>1, <1>2, <1>4, <2>1, <2>2, <2>3 DEF D!TypeOK
  <2> QED BY <1>2, <1>4, <2>1, <2>3, <2>4 DEF ServersInv, LoadRestores, D!LoadRestores
<1> QED BY <1>5, <1>6, <1>7 DEF D!List, D!history

LEMMA ServersNext ==
  ASSUME ServersInv, D!Next \/ D!Restarted \/ UNCHANGED serverVars
  PROVE  ServersInv'
<1>1. CASE D!OsChanges \/ UNCHANGED serverVars
  <2>1. /\ UNCHANGED <<shared, manual, selected, step, drawn, file, off, crossed, added, restored>>
        /\ os' \in SUBSET Servers
    BY <1>1 DEF D!OsChanges, D!history, serverVars, ServersInv, D!TypeOK
  <2>2. D!TypeOK'
    BY <2>1 DEF ServersInv, D!TypeOK
  <2>3. D!PanelServers' = D!PanelServers
    BY <2>1 DEF D!PanelServers, D!Combined
  <2> QED BY <2>1, <2>2, <2>3 DEF ServersInv, LoadRestores, D!LoadRestores
<1>2. CASE D!Refresh
  <2>1. /\ shared' = os /\ restored' = D!NoFile
        /\ UNCHANGED <<os, manual, selected, step, drawn, file, off, crossed, added>>
    BY <1>2 DEF D!Refresh
  <2>2. D!NoFile \in [saved : BOOLEAN, servers : SUBSET Servers] /\ D!NoFile.saved = FALSE
    BY DEF D!NoFile
  <2>3. D!TypeOK'
    BY <2>1, <2>2 DEF ServersInv, D!TypeOK
  <2> QED BY <2>1, <2>2, <2>3 DEF ServersInv, LoadRestores, D!LoadRestores
<1>3. CASE D!Restarted
  <2>1. /\ shared' = os /\ manual' = {} /\ selected' = D!NoEntries
        /\ step' = "none" /\ drawn' = {} /\ off' = {} /\ crossed' = {} /\ added' = {}
        /\ restored' = D!NoFile
        /\ UNCHANGED <<os, file>>
    BY <1>3 DEF D!Restarted
  <2>2. D!NoFile \in [saved : BOOLEAN, servers : SUBSET Servers] /\ D!NoFile.saved = FALSE
    BY DEF D!NoFile
  <2>3. /\ D!NoEntries \in [Servers -> {"none", "on", "off"}]
        /\ \A s \in Servers : D!NoEntries[s] # "off"
    BY DEF D!NoEntries
  <2>4. D!TypeOK'
    BY <2>1, <2>2, <2>3 DEF ServersInv, D!TypeOK
  <2>5. crossed' \subseteq off' /\ off' \ crossed' = {s \in Servers : selected'[s] = "off"}
    BY <2>1, <2>3
  <2> QED BY <2>1, <2>2, <2>4, <2>5 DEF ServersInv, LoadRestores, D!LoadRestores
<1> QED
  BY <1>1, <1>2, <1>3, BeginFrameHolds, AddHolds, SaveHolds, LoadHolds, ListHolds DEF D!Next

LEMMA ServersInit == D!Init => ServersInv
<1> SUFFICES ASSUME D!Init PROVE ServersInv
  OBVIOUS
<1>1. /\ D!NoEntries \in [Servers -> {"none", "on", "off"}]
      /\ \A s \in Servers : D!NoEntries[s] # "off"
  BY DEF D!NoEntries
<1>2. D!NoFile \in [saved : BOOLEAN, servers : SUBSET Servers] /\ D!NoFile.saved = FALSE
  BY DEF D!NoFile
<1>3. D!TypeOK
  BY <1>1, <1>2 DEF D!Init, D!TypeOK
<1>4. crossed \subseteq off /\ off \ crossed = {s \in Servers : selected[s] = "off"}
  BY <1>1 DEF D!Init
<1> QED BY <1>2, <1>3, <1>4 DEF D!Init, ServersInv, LoadRestores, D!LoadRestores

LEMMA ServersSafe == ServersInv => D!TypeOK /\ UncheckedStaysUnasked /\ LoadRestores /\ AddedStays
<1> SUFFICES ASSUME ServersInv PROVE D!TypeOK /\ UncheckedStaysUnasked /\ LoadRestores /\ AddedStays
  OBVIOUS
<1>1. D!TypeOK /\ LoadRestores
  BY DEF ServersInv
<1>2. UncheckedStaysUnasked
  BY DEF ServersInv, UncheckedStaysUnasked, D!UncheckedStaysUnasked, D!PanelServers, D!PingServers
<1>3. AddedStays
  BY DEF ServersInv, D!TypeOK, AddedStays, D!AddedStays, D!PanelServers, D!Combined
<1> QED BY <1>1, <1>2, <1>3

-----------------------------------------------------------------------------
(* The form of the L2 tab                                                  *)

VlanOf(v) == IF v \in VlanIds THEN v ELSE ""

(* What the light says of the fields it was last polled for.               *)
About(c, s, v) == c.ip = s /\ c.vlan = VlanOf(v)
SaysOf(s, v) ==
  /\ check # F!NoCheck => About(check, s, v)
  /\ light = "Invalid" => s \notin Addresses \/ (About(last, s, v) /\ last.reply \in {"closed", "full"})
  /\ light = "Checking" => check # F!NoCheck \/ (About(last, s, v) /\ last.reply = "Error")
  /\ light \in {"Clear", "Duplicate"} =>
       check = F!NoCheck /\ About(last, s, v) /\ last.reply = light

FormInv ==
  /\ F!TypeOK
  /\ check # F!NoCheck => validatedFor # F!NoKey
  /\ validatedFor # F!NoKey => SaysOf(validatedFor[1], validatedFor[2])

LEMMA CheckIs ==
  /\ F!NoCheck \in F!Check
  /\ F!NoCheck.reply = "none"
  /\ \A c \in F!Check : c # F!NoCheck => c.reply # "none" \/ c.ip # "" \/ c.vlan # ""
<1>1. F!NoCheck = [ip |-> "", vlan |-> "", reply |-> "none"]
  BY DEF F!NoCheck, F!NoText
<1>2. F!Check = [ip : Addresses \cup {""}, vlan : VlanIds \cup {""},
                 reply : {"Clear", "Duplicate", "Error"} \cup {"none", "empty", "closed", "full"}]
  BY DEF F!Check, F!NoText, F!Verdicts
<1>3. F!NoCheck \in F!Check /\ F!NoCheck.reply = "none"
  BY <1>1, <1>2
<1>4. ASSUME NEW c \in F!Check, c.reply = "none", c.ip = "", c.vlan = ""
      PROVE  c = F!NoCheck
  <2>1. c = [ip |-> c.ip, vlan |-> c.vlan, reply |-> c.reply]
    BY <1>2
  <2> QED BY <1>1, <1>4, <2>1
<1> QED BY <1>3, <1>4

(* The four ways a poll ends.                                              *)
LEMMA PollMoves ==
  ASSUME F!TypeOK, F!Poll
  PROVE  /\ F!Key = <<source, vlan>> /\ validatedFor' = <<source, vlan>>
         /\ UNCHANGED <<source, vlan, known, edits>>
         /\ \/ /\ validatedFor = <<source, vlan>> /\ check = F!NoCheck /\ check' = F!NoCheck
               /\ light' = light /\ last' = last
            \/ /\ validatedFor = <<source, vlan>> /\ check # F!NoCheck /\ check' = F!NoCheck
               /\ last' = check
               /\ \/ check.reply = "Error" /\ light' = "Checking"
                  \/ check.reply = "closed" /\ light' = "Invalid"
                  \/ check.reply \in {"Clear", "Duplicate"} /\ light' = check.reply
            \/ source \notin Addresses /\ light' = "Invalid" /\ check' = F!NoCheck /\ last' = F!NoCheck
            \/ /\ source \in Addresses /\ light' = "Checking" /\ last' = F!NoCheck
               /\ check' = [ip |-> source, vlan |-> VlanOf(vlan), reply |-> "empty"]
            \/ /\ source \in Addresses /\ light' = "Invalid" /\ check' = F!NoCheck
               /\ last' = [ip |-> source, vlan |-> VlanOf(vlan), reply |-> "full"]
<1>1. /\ F!Key = <<source, vlan>> /\ F!Vlan = VlanOf(vlan)
      /\ UNCHANGED <<source, vlan, known, edits>>
  BY DEF F!Key, F!Vlan, F!NoText, VlanOf, F!Poll, F!fields
<1>2. F!NoCheck.reply = "none"
  BY CheckIs
<1>3. CASE check = F!NoCheck /\ F!Keep(light)
  <2>1. ~F!Answered
    BY <1>2, <1>3 DEF F!Answered, F!Verdicts
  <2> QED BY <1>1, <1>3, <2>1 DEF F!Keep
<1>4. CASE F!Answered /\ F!Keep(F!LightOf(check.reply))
  <2>1. check # F!NoCheck
    BY <1>2, <1>4 DEF F!Answered, F!Verdicts
  <2>2. \/ check.reply = "Error" /\ F!LightOf(check.reply) = "Checking"
        \/ check.reply = "closed" /\ F!LightOf(check.reply) = "Invalid"
        \/ check.reply \in {"Clear", "Duplicate"} /\ F!LightOf(check.reply) = check.reply
    BY <1>4 DEF F!Answered, F!Verdicts, F!LightOf
  <2> QED BY <1>1, <1>4, <2>1, <2>2 DEF F!Keep
<1>5. CASE F!Recheck
  <2>1. [[ip |-> source, vlan |-> VlanOf(vlan), reply |-> "empty"] EXCEPT !.reply = "full"]
          = [ip |-> source, vlan |-> VlanOf(vlan), reply |-> "full"]
    OBVIOUS
  <2> QED BY <1>1, <1>5, <2>1 DEF F!Recheck
<1> QED BY <1>3, <1>4, <1>5 DEF F!Poll

LEMMA PollHolds ==
  ASSUME FormInv, F!Poll
  PROVE  FormInv'
<1>1. /\ F!TypeOK /\ source \in Sources /\ vlan \in VlanTexts
      /\ {check, last} \subseteq F!Check /\ VlanOf(vlan) \in VlanIds \cup {""}
  BY DEF FormInv, F!TypeOK, VlanOf
<1>2. /\ validatedFor' = <<source, vlan>>
      /\ UNCHANGED <<source, vlan, known, edits>>
  BY <1>1, PollMoves
<1>3. F!NoCheck \in F!Check /\ F!NoCheck.reply = "none"
  BY CheckIs
<1>4. <<source, vlan>> # F!NoKey /\ <<source, vlan>>[1] = source /\ <<source, vlan>>[2] = vlan
  BY DEF F!NoKey
<1>5. /\ validatedFor' \in Sources \X VlanTexts /\ validatedFor'[1] = source /\ validatedFor'[2] = vlan
      /\ validatedFor' # F!NoKey
  BY <1>1, <1>2, <1>4
<1>6. SUFFICES /\ light' \in {"Invalid", "Checking", "Duplicate", "Clear"}
               /\ {check, last}' \subseteq F!Check
               /\ check' # F!NoCheck => (check'.ip \in Addresses /\ light' = "Checking")
               /\ SaysOf(source, vlan)'
  <2>1. F!TypeOK'
    BY <1>1, <1>2, <1>5, <1>6 DEF F!TypeOK, F!Check
  <2>2. SaysOf(validatedFor[1], validatedFor[2])'
    BY <1>2, <1>5, <1>6 DEF SaysOf
  <2> QED BY <1>5, <1>6, <2>1, <2>2 DEF FormInv, F!NoKey, F!NoCheck
<1>7. CASE /\ validatedFor = <<source, vlan>> /\ check = F!NoCheck /\ check' = F!NoCheck
           /\ light' = light /\ last' = last
  <2>1. SaysOf(source, vlan)
    BY <1>4, <1>7 DEF FormInv
  <2> QED BY <1>1, <1>2, <1>3, <1>7, <2>1 DEF F!TypeOK, SaysOf, About, F!NoCheck
<1>8. CASE /\ validatedFor = <<source, vlan>> /\ check # F!NoCheck /\ check' = F!NoCheck
           /\ last' = check
           /\ \/ check.reply = "Error" /\ light' = "Checking"
              \/ check.reply = "closed" /\ light' = "Invalid"
              \/ check.reply \in {"Clear", "Duplicate"} /\ light' = check.reply
  <2>1. About(check, source, vlan)
    BY <1>4, <1>8 DEF FormInv, SaysOf
  <2> QED BY <1>1, <1>2, <1>3, <1>8, <2>1 DEF SaysOf, About, F!NoCheck
<1>9. CASE source \notin Addresses /\ light' = "Invalid" /\ check' = F!NoCheck /\ last' = F!NoCheck
  BY <1>1, <1>2, <1>3, <1>9 DEF SaysOf, About, F!NoCheck
<1>10. CASE /\ source \in Addresses /\ light' = "Checking" /\ last' = F!NoCheck
            /\ check' = [ip |-> source, vlan |-> VlanOf(vlan), reply |-> "empty"]
  <2>1. check' \in F!Check /\ check'.ip = source /\ check'.vlan = VlanOf(vlan) /\ check' # F!NoCheck
    <3>1. check'.ip = source /\ check'.vlan = VlanOf(vlan) /\ check'.reply = "empty"
      BY <1>10
    <3>2. check' \in F!Check
      BY <1>1, <1>10 DEF F!Check, F!NoText
    <3> QED BY <3>1, <3>2, <1>3
  <2> QED BY <1>1, <1>2, <1>3, <1>10, <2>1 DEF SaysOf, About, F!NoCheck
<1>11. CASE /\ source \in Addresses /\ light' = "Invalid" /\ check' = F!NoCheck
            /\ last' = [ip |-> source, vlan |-> VlanOf(vlan), reply |-> "full"]
  <2>1. /\ last' \in F!Check /\ last'.ip = source /\ last'.vlan = VlanOf(vlan)
        /\ last'.reply = "full"
    BY <1>1, <1>3, <1>11 DEF F!Check, F!NoText
  <2> QED BY <1>1, <1>2, <1>3, <1>11, <2>1 DEF SaysOf, About, F!NoCheck
<1> QED BY <1>1, <1>7, <1>8, <1>9, <1>10, <1>11, PollMoves

(* What leaves the light and what it is about alone. *)
LEMMA FieldsHold ==
  ASSUME FormInv, UNCHANGED <<validatedFor, light, check, last>>,
         source' \in Sources, vlan' \in VlanTexts, known' \subseteq VlanIds, edits' \in 0 .. MaxEdits
  PROVE  FormInv'
<1>1. F!TypeOK'
  BY DEF FormInv, F!TypeOK, F!Check, F!NoCheck, F!NoKey
<1>2. ASSUME validatedFor' # F!NoKey PROVE SaysOf(validatedFor[1], validatedFor[2])'
  BY <1>2 DEF FormInv, SaysOf, About, F!NoCheck, F!NoKey
<1> QED BY <1>1, <1>2 DEF FormInv, F!NoCheck, F!NoKey

LEMMA AnswerHolds ==
  ASSUME FormInv, F!Answer
  PROVE  FormInv'
<1>1. PICK reply \in F!Verdicts \cup {"closed"} : check' = [check EXCEPT !.reply = reply]
  BY DEF F!Answer
<1>2. /\ check \in F!Check /\ check.reply = "empty"
      /\ UNCHANGED <<source, vlan, validatedFor, light, last, known, edits>>
  BY DEF F!Answer, F!fields, FormInv, F!TypeOK
<1>3. check # F!NoCheck
  BY <1>2, CheckIs
<1>4. /\ check' \in F!Check /\ check'.ip = check.ip /\ check'.vlan = check.vlan
      /\ check'.reply = reply
  BY <1>1, <1>2 DEF F!Check
<1>5. check' # F!NoCheck
  BY <1>1, <1>4, CheckIs DEF F!Verdicts
<1>6. F!TypeOK'
  BY <1>2, <1>3, <1>4 DEF FormInv, F!TypeOK, F!Check, F!NoCheck, F!NoKey
<1>7. ASSUME validatedFor' # F!NoKey PROVE SaysOf(validatedFor[1], validatedFor[2])'
  BY <1>2, <1>3, <1>4, <1>5, <1>7 DEF FormInv, F!TypeOK, SaysOf, About, F!NoCheck, F!NoKey
<1> QED BY <1>2, <1>3, <1>6, <1>7 DEF FormInv, F!NoCheck, F!NoKey

LEMMA FormNext ==
  ASSUME FormInv, F!Next \/ F!Restarted \/ UNCHANGED formVars
  PROVE  FormInv'
<1>1. /\ source \in Sources /\ vlan \in VlanTexts /\ known \subseteq VlanIds /\ edits \in 0 .. MaxEdits
  BY DEF FormInv, F!TypeOK
<1>2. MaxEdits \in Nat /\ VlanIds \subseteq VlanTexts /\ "" \in Sources /\ "" \in VlanTexts
  BY FormAssumption
<1>3. CASE F!Change /\ (F!Edit \/ F!PickVlan)
  <2>1. /\ source' \in Sources /\ vlan' \in VlanTexts /\ known' \subseteq VlanIds
        /\ UNCHANGED <<validatedFor, light, check, last>>
    BY <1>1, <1>2, <1>3 DEF F!Change, F!Edit, F!PickVlan, F!form
  <2>2. edits' \in 0 .. MaxEdits
    <3>1. edits < MaxEdits /\ edits' = edits + 1
      BY <1>3 DEF F!Change
    <3>2. edits \in 0 .. MaxEdits /\ MaxEdits \in Nat
      BY <1>1, <1>2
    <3> QED BY <3>1, <3>2
  <2> QED BY <2>1, <2>2, FieldsHold
<1>4. CASE F!Submit \/ UNCHANGED formVars
  <2>1. /\ source' \in Sources /\ vlan' \in VlanTexts /\ known' \subseteq VlanIds
        /\ edits' \in 0 .. MaxEdits /\ UNCHANGED <<validatedFor, light, check, last>>
    BY <1>1, <1>4 DEF F!Submit, F!form, F!fields, formVars
  <2> QED BY <2>1, FieldsHold
<1>5. CASE F!Restarted
  <2>1. /\ source' = "" /\ vlan' = "" /\ validatedFor' = F!NoKey /\ light' = "Invalid"
        /\ check' = F!NoCheck /\ last' = F!NoCheck /\ known' = {} /\ edits' = edits
    BY <1>5 DEF F!Restarted, F!NoText
  <2>2. F!NoCheck \in F!Check
    BY CheckIs
  <2>3. F!TypeOK'
    BY <1>1, <1>2, <2>1, <2>2 DEF F!TypeOK, F!Check, F!NoCheck, F!NoKey
  <2> QED BY <2>1, <2>3 DEF FormInv, F!NoCheck, F!NoKey
<1> QED BY <1>3, <1>4, <1>5, PollHolds, AnswerHolds DEF F!Next, F!Edit, F!PickVlan

LEMMA FormInit == F!Init => FormInv
<1> SUFFICES ASSUME F!Init PROVE FormInv
  OBVIOUS
<1>1. F!NoCheck \in F!Check
  BY CheckIs
<1>2. /\ source = "" /\ vlan = "" /\ validatedFor = F!NoKey /\ light = "Invalid"
      /\ check = F!NoCheck /\ last = F!NoCheck /\ known = {} /\ edits = 0
  BY DEF F!Init, F!NoText
<1>3. edits \in 0 .. MaxEdits
  <2>1. edits = 0 /\ MaxEdits \in Nat
    BY <1>2, FormAssumption
  <2> QED BY <2>1
<1>4. F!TypeOK
  BY <1>1, <1>2, <1>3, FormAssumption DEF F!TypeOK
<1> QED BY <1>2, <1>4 DEF FormInv

(* What a poll leaves is a check under way of validatedFor, or no check    *)
(* and a light about the fields.                                           *)
LEMMA FormSafe == FormInv => LightIsTrue
<1> SUFFICES ASSUME FormInv, F!AfterPoll PROVE F!LightFits
  BY DEF LightIsTrue, F!LightIsTrue
<1>1. light \in {"Invalid", "Checking", "Duplicate", "Clear"}
  BY DEF FormInv, F!TypeOK
<1>2. CASE check.reply = "empty"
  <2>1. check # F!NoCheck
    BY <1>2, CheckIs
  <2>2. light = "Checking" /\ About(check, validatedFor[1], validatedFor[2])
    BY <2>1 DEF FormInv, F!TypeOK, SaysOf
  <2> QED BY <1>2, <2>2 DEF About, VlanOf, F!LightFits, F!UnderWay, F!NoText
<1>3. CASE check = F!NoCheck /\ F!Key = validatedFor
  <2>1. validatedFor # F!NoKey /\ validatedFor[1] = source /\ validatedFor[2] = vlan
    BY <1>3 DEF F!Key, F!NoKey
  <2>2. SaysOf(source, vlan)
    BY <2>1 DEF FormInv
  <2>3. F!Vlan = VlanOf(vlan)
    BY DEF F!Vlan, VlanOf, F!NoText
  <2> QED BY <1>1, <1>3, <2>2, <2>3 DEF SaysOf, About, F!LightFits, F!Present
<1> QED BY <1>2, <1>3 DEF F!AfterPoll

-----------------------------------------------------------------------------
(* The graphics setting                                                    *)

(* The adapter in use is one that the selector may have picked at the      *)
(* start; and the file says what the panel does, unless writing it failed  *)
(* or another instance wrote it.                                           *)
GraphicsInv ==
  /\ G!TypeOK
  /\ running \in G!Picked(start, machine, env)
  /\ message = "none" /\ ~foreign => G!Loaded(saved) = choice

LEMMA Loads == \A contents \in G!Contents : G!Loaded(contents) \in Selectable \cup {"auto"}
  BY DEF G!Loaded

LEMMA SelectableLoads == \A c \in Selectable : G!Loaded(c) = c /\ c \in G!Contents
  BY GraphicsAssumption DEF G!Loaded, G!Contents, G!Choices

LEMMA PicksFromMachine == \A c, adapters, override : G!Picked(c, adapters, override) \subseteq adapters
  BY DEF G!Picked

LEMMA StartedHolds ==
  ASSUME GraphicsInv, G!Started, saved' = saved,
         machine' \in G!Machines, env' \in BOOLEAN
  PROVE  GraphicsInv'
<1>1. /\ start' = G!Loaded(saved) /\ choice' = start' /\ message' = "none" /\ foreign' = FALSE
      /\ running' \in G!Picked(start', machine', env')
  BY DEF G!Started
<1>2. start' \in Selectable \cup {"auto"} /\ saved \in G!Contents
  BY <1>1, Loads DEF GraphicsInv, G!TypeOK
<1>3. running' \in machine'
  BY <1>1, PicksFromMachine
<1>4. G!TypeOK'
  BY <1>1, <1>2, <1>3 DEF G!TypeOK, G!Machines, G!Contents, G!Choices
<1>5. G!Loaded(saved)' = G!Loaded(saved)
  BY DEF G!Loaded
<1>6. G!Picked(start, machine, env)' = G!Picked(start', machine', env')
  BY DEF G!Picked, G!Better, G!BackendRank, G!DeviceRank, G!Wanted
<1> QED BY <1>1, <1>4, <1>5, <1>6 DEF GraphicsInv

LEMMA ChoiceHolds ==
  ASSUME GraphicsInv, UNCHANGED <<machine, env, start, running>>,
         saved' \in G!Contents, choice' \in Selectable \cup {"auto"},
         message' \in {"none", "save", "restart"}, foreign' \in BOOLEAN,
         message' = "none" /\ ~foreign' => G!Loaded(saved') = choice'
  PROVE  GraphicsInv'
<1>1. G!TypeOK'
  BY DEF GraphicsInv, G!TypeOK, G!Machines, G!Contents, G!Choices
<1>2. G!Loaded(saved)' = G!Loaded(saved')
  BY DEF G!Loaded
<1>3. G!Picked(start, machine, env)' = G!Picked(start, machine, env)
  BY DEF G!Picked, G!Better, G!BackendRank, G!DeviceRank, G!Wanted
<1> QED BY <1>1, <1>2, <1>3 DEF GraphicsInv

LEMMA GraphicsNext ==
  ASSUME GraphicsInv, G!Next \/ G!Restart \/ G!Relaunch \/ UNCHANGED machineVars
  PROVE  GraphicsInv'
<1>1. /\ machine \in G!Machines /\ env \in BOOLEAN /\ saved \in G!Contents /\ foreign \in BOOLEAN
      /\ choice \in Selectable \cup {"auto"} /\ message \in {"none", "save", "restart"}
      /\ (message = "none" /\ ~foreign => G!Loaded(saved) = choice)
  BY DEF GraphicsInv, G!TypeOK
<1>2. CASE G!Choose
  <2>1. /\ choice' \in Selectable /\ UNCHANGED <<machine, env, start, running>>
        /\ \/ saved' = choice' /\ message' = "none" /\ foreign' = FALSE
           \/ saved' \in {saved, "garbage"} /\ message' = "save" /\ UNCHANGED foreign
    BY <1>2 DEF G!Choose
  <2>2. saved' \in G!Contents
    BY <1>1, <2>1, SelectableLoads DEF G!Contents
  <2>3. message' = "none" /\ ~foreign' => G!Loaded(saved') = choice'
    BY <2>1, SelectableLoads
  <2> QED BY <1>1, <2>1, <2>2, <2>3, ChoiceHolds
<1>3. CASE G!RestartFails
  <2>1. message' = "restart" /\ UNCHANGED <<machine, env, saved, choice, start, running, foreign>>
    BY <1>3 DEF G!RestartFails
  <2> QED BY <1>1, <2>1, ChoiceHolds
<1>4. CASE G!OtherSaves
  <2>1. /\ saved' \in Selectable /\ foreign' = TRUE
        /\ UNCHANGED <<machine, env, choice, start, message, running>>
    BY <1>4 DEF G!OtherSaves
  <2> QED BY <1>1, <2>1, SelectableLoads, ChoiceHolds
<1>5. CASE UNCHANGED machineVars
  <2>1. UNCHANGED <<machine, env, saved, choice, start, message, running, foreign>>
    BY <1>5 DEF machineVars
  <2> QED BY <1>1, <2>1, ChoiceHolds
<1>6. CASE G!Restart
  <2>1. UNCHANGED <<machine, env, saved>> /\ G!Started
    BY <1>6 DEF G!Restart
  <2> QED BY <1>1, <2>1, StartedHolds
<1>7. CASE G!Relaunch
  BY <1>7, StartedHolds DEF G!Relaunch
<1> QED BY <1>2, <1>3, <1>4, <1>5, <1>6, <1>7 DEF G!Next

LEMMA GraphicsInit == G!Init => GraphicsInv
<1> SUFFICES ASSUME G!Init PROVE GraphicsInv
  OBVIOUS
<1>1. /\ machine \in G!Machines /\ env \in BOOLEAN /\ saved \in G!Contents
      /\ start = G!Loaded(saved) /\ choice = start /\ message = "none"
      /\ running \in G!Picked(start, machine, env) /\ foreign = FALSE
  BY DEF G!Init
<1>2. start \in Selectable \cup {"auto"} /\ running \in machine
  BY <1>1, Loads, PicksFromMachine
<1>3. G!TypeOK
  BY <1>1, <1>2 DEF G!TypeOK
<1> QED BY <1>1, <1>3 DEF GraphicsInv

(* The selector prefers the wanted backend to every other. *)
LEMMA WantedIsBetter ==
  ASSUME NEW c, NEW a, NEW b, a.backend = G!Wanted(c), b.backend # G!Wanted(c)
  PROVE  G!Better(c, a, b)
<1>1. G!BackendRank(c, a.backend) = 0
  BY DEF G!BackendRank
<1>2. G!BackendRank(c, b.backend) \in {1, 2, 3}
  BY DEF G!BackendRank
<1> QED BY <1>1, <1>2 DEF G!Better

LEMMA GraphicsSafe == GraphicsInv => PanelIsTrue
<1> SUFFICES ASSUME GraphicsInv PROVE G!PanelIsTrue
  BY DEF PanelIsTrue
<1>1. /\ machine \subseteq Adapters /\ running \in machine /\ start \in Selectable \cup {"auto"}
      /\ env \in BOOLEAN /\ foreign \in BOOLEAN
      /\ running \in G!Picked(start, machine, env)
      /\ (message = "none" /\ ~foreign => G!Loaded(saved) = choice)
  BY DEF GraphicsInv, G!TypeOK, G!Machines
<1>2. ASSUME ~env, G!Wanted(start) # "any", NEW a \in machine, a.backend = G!Wanted(start)
      PROVE  running.backend = G!Wanted(start)
  <2>1. start # "auto"
    BY <1>2 DEF G!Wanted
  <2>2. \A b \in machine : ~G!Better(start, b, running)
    BY <1>1, <1>2, <2>1 DEF G!Picked
  <2> QED BY <1>2, <2>2, WantedIsBetter
<1>3. G!Warned <=> /\ ~env /\ G!Wanted(start) # "any"
                   /\ \A a \in machine : a.backend # G!Wanted(start)
  BY <1>1, <1>2 DEF G!Warned
<1>4. message = "none" /\ ~foreign =>
        /\ G!Loaded(saved) = choice
        /\ G!Pending \/ env \/ G!Loaded(saved) = start
  BY <1>1 DEF G!Pending
<1> QED BY <1>3, <1>4 DEF G!PanelIsTrue

-----------------------------------------------------------------------------
(* The interfaces                                                          *)

LEMMA NicsNext ==
  ASSUME I!TypeOK, I!Next \/ I!Restarted \/ UNCHANGED nicVars
  PROVE  I!TypeOK'
<1> DEFINE R == [reply : {"none", "empty", "closed", "found"}, nics : SUBSET Nics]
<1>1. /\ nics \in SUBSET Nics /\ listed \in SUBSET Nics /\ refresh \in R
      /\ due \in BOOLEAN /\ panics \in 0 .. MaxPanics /\ MaxPanics \in Nat
  BY InterfacesAssumption DEF I!TypeOK
<1>2. /\ I!NoRefresh \in R /\ I!Running \in R /\ I!Closed \in R /\ I!Found \in R
      /\ refresh.nics \in SUBSET Nics
  BY <1>1 DEF I!NoRefresh, I!Running, I!Closed, I!Found
<1>3. SUFFICES /\ nics' \in SUBSET Nics /\ listed' \in SUBSET Nics /\ refresh' \in R
               /\ due' \in BOOLEAN /\ panics' \in 0 .. MaxPanics
  BY DEF I!TypeOK
<1> HIDE DEF R
<1>4. CASE I!NicsChange \/ I!SecondPasses \/ I!Enumerate
  BY <1>1, <1>2, <1>4 DEF I!NicsChange, I!SecondPasses, I!Enumerate
<1>5. CASE I!Panic
  <2>1. panics' \in 0 .. MaxPanics
    <3>1. panics < MaxPanics /\ panics' = panics + 1
      BY <1>5 DEF I!Panic
    <3> QED BY <1>1, <3>1
  <2> QED BY <1>1, <1>2, <1>5, <2>1 DEF I!Panic
<1>6. CASE I!Frame
  <2>1. listed' \in SUBSET Nics /\ due' \in BOOLEAN /\ UNCHANGED <<nics, panics>>
    BY <1>1, <1>2, <1>6 DEF I!Frame, I!Ended
  <2>2. refresh' \in {I!NoRefresh, refresh, I!Running}
    BY <1>6 DEF I!Frame
  <2> QED BY <1>1, <1>2, <2>1, <2>2
<1>7. CASE I!Restarted \/ UNCHANGED nicVars
  BY <1>1, <1>2, <1>7 DEF I!Restarted, nicVars
<1> QED BY <1>4, <1>5, <1>6, <1>7 DEF I!Next

LEMMA NicsInit == I!Init => I!TypeOK
<1> SUFFICES ASSUME I!Init PROVE I!TypeOK
  OBVIOUS
<1>1. I!NoRefresh \in [reply : {"none", "empty", "closed", "found"}, nics : SUBSET Nics]
  BY DEF I!NoRefresh
<1>2. panics \in 0 .. MaxPanics
  <2>1. panics = 0 /\ MaxPanics \in Nat
    BY InterfacesAssumption DEF I!Init
  <2> QED BY <2>1
<1> QED BY <1>1, <1>2 DEF I!Init, I!TypeOK

-----------------------------------------------------------------------------
(* The window                                                              *)

ShellInv ==
  /\ tab \in Tabs /\ active \in BOOLEAN /\ subject \in Subjects
  /\ ~Between => tab = "dns"

WindowInv == ShellInv /\ FormInv /\ ServersInv /\ I!TypeOK /\ GraphicsInv

(* In a step each part does one of its own, starts anew or rests.          *)
LEMMA PartsMove ==
  ASSUME [Next]_vars
  PROVE  /\ F!Next \/ F!Restarted \/ UNCHANGED formVars
         /\ D!Next \/ D!Restarted \/ UNCHANGED serverVars
         /\ I!Next \/ I!Restarted \/ UNCHANGED nicVars
         /\ G!Next \/ G!Restart \/ G!Relaunch \/ UNCHANGED machineVars
<1>1. CASE FallBack \/ Select \/ L2Changes
  BY <1>1 DEF FallBack, Select, L2Changes
<1>2. CASE Restart
  BY <1>2 DEF Restart
<1>3. CASE Form /\ F!Next
  BY <1>3 DEF Form
<1>4. CASE ServerList /\ D!Next
  BY <1>4 DEF ServerList
<1>5. CASE NicList /\ I!Next
  BY <1>5 DEF NicList
<1>6. CASE Setting /\ G!Next
  BY <1>6 DEF Setting
<1>7. CASE UNCHANGED vars
  BY <1>7 DEF vars
<1> QED BY <1>1, <1>2, <1>3, <1>4, <1>5, <1>6, <1>7 DEF Next

(* Only the shell changes the tab, and not in the middle of a frame.       *)
LEMMA ShellNext ==
  ASSUME ShellInv, [Next]_vars
  PROVE  ShellInv'
<1>1. CASE FallBack
  BY <1>1 DEF FallBack, ShellInv, Tabs, L2Tabs, Between, serverVars
<1>2. CASE Select \/ L2Changes
  BY <1>2 DEF Select, L2Changes, ShellInv, Between, serverVars
<1>3. CASE Restart
  BY <1>3 DEF Restart, D!Restarted, ShellInv, Tabs, Between
<1>4. CASE Form /\ F!Next
  <2>1. UNCHANGED <<tab, active>>
    BY <1>4 DEF F!Next, F!Poll, F!Answer, F!Edit, F!PickVlan, F!Change, F!Submit
  <2> QED BY <1>4, <2>1 DEF Form, ShellInv, Between, serverVars
<1>5. CASE ServerList /\ D!Next
  <2>1. /\ UNCHANGED tab
        /\ step' # "none" => tab = "dns" \/ step # "none"
    BY <1>5 DEF D!Next, D!OsChanges, D!Refresh, D!BeginFrame, D!Add, D!Save, D!Load, D!List, D!Click
  <2> QED BY <1>5, <2>1 DEF ServerList, ShellInv, Between
<1>6. CASE NicList /\ I!Next
  <2>1. UNCHANGED tab
    BY <1>6 DEF I!Next, I!NicsChange, I!SecondPasses, I!Enumerate, I!Panic, I!Frame
  <2> QED BY <1>6, <2>1 DEF NicList, ShellInv, Between, serverVars
<1>7. CASE Setting /\ G!Next
  <2>1. UNCHANGED tab
    BY <1>7 DEF G!Next, G!Choose, G!RestartFails, G!OtherSaves
  <2> QED BY <1>7, <2>1 DEF Setting, ShellInv, Between, serverVars
<1>8. CASE UNCHANGED vars
  BY <1>8 DEF vars, serverVars, ShellInv, Between
<1> QED BY <1>1, <1>2, <1>3, <1>4, <1>5, <1>6, <1>7, <1>8 DEF Next

LEMMA WindowInit == Init => WindowInv
<1> SUFFICES ASSUME Init PROVE WindowInv
  OBVIOUS
<1>1. F!Init /\ D!Init /\ I!Init /\ G!Init
  BY DEF Init
<1>2. ShellInv
  BY <1>1 DEF Init, D!Init, ShellInv, Tabs, Between
<1> QED BY <1>1, <1>2, FormInit, ServersInit, NicsInit, GraphicsInit DEF WindowInv

LEMMA WindowNext == WindowInv /\ [Next]_vars => WindowInv'
  BY PartsMove, ShellNext, FormNext, ServersNext, NicsNext, GraphicsNext DEF WindowInv

LEMMA SpecWindow == Spec => []WindowInv
  BY WindowInit, WindowNext, PTL DEF Spec

LEMMA WindowTypes == WindowInv => TypeOK
  BY ServersSafe DEF WindowInv, ShellInv, FormInv, GraphicsInv, TypeOK

LEMMA WindowSafe ==
  WindowInv => UncheckedStaysUnasked /\ LoadRestores /\ AddedStays /\ PanelIsTrue /\ LightIsTrue
  BY ServersSafe, GraphicsSafe, FormSafe DEF WindowInv

(* Every variable is of its type, and no frame of the DNS tab goes on      *)
(* while another tab is on the screen (app/mod.rs).                        *)
THEOREM TypeCorrect == Spec => []TypeOK
  BY SpecWindow, WindowTypes, PTL

(* For any servers: nobody asks one that was unchecked, whatever is        *)
(* refreshed, drawn, saved or loaded meanwhile, unless its "x" was clicked *)
(* (dns_tab.rs).                                                           *)
THEOREM UncheckedUnasked == Spec => []UncheckedStaysUnasked
  BY SpecWindow, WindowSafe, PTL

(* For any servers: a load asks exactly those that the file was saved with *)
(* (load_dns_servers).                                                     *)
THEOREM LoadsRestore == Spec => []LoadRestores
  BY SpecWindow, WindowSafe, PTL

(* For any servers: one that was added stays until its "x" or a load of a  *)
(* file that does not mention it, and the Query panel asks it unless it    *)
(* was unchecked (try_add_manual_dns_server, ui_dns_tab).                  *)
THEOREM AddedKept == Spec => []AddedStays
  BY SpecWindow, WindowSafe, PTL

(* For any adapters and platform: the graphics section warns exactly when  *)
(* no adapter has the wanted backend, and shows what the next start asks   *)
(* for (GraphicsPanel::ui, select_adapter).                                *)
THEOREM PanelTrue == Spec => []PanelIsTrue
  BY SpecWindow, WindowSafe, PTL

(* For any texts: what the light says in a frame is true of the fields, or *)
(* of those of the check that the frame still waits for                    *)
(* (update_l2_input_validation).                                           *)
THEOREM LightTrue == Spec => []LightIsTrue
  BY SpecWindow, WindowSafe, PTL
=============================================================================
