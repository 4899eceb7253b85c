------------------------------- MODULE L2Form -------------------------------
(***************************************************************************)
(* The add-form of the L2 Ping tab (app/l2_tab.rs): while it is on the     *)
(* screen, every frame polls the duplicate check that is under way for the *)
(* source field, and starts one when the fields are not those of the last  *)
(* check.  The user edits them meanwhile, or looks at another tab.         *)
(*                                                                         *)
(* The L2 manager answers a check at most once (JobService), with what the *)
(* engine found or, of its own, with an error.                             *)
(* The tab and the status belong to the shell (AppTabs).  Field texts are  *)
(* trimmed and have no bar in them, which the code's key joins them by.    *)
(*                                                                         *)
(* A definition named Faulty... is a plausible mistake in the one after    *)
(* it; nothing uses it but the runs that show a property notices it.       *)
(***************************************************************************)
EXTENDS Naturals

CONSTANTS
  Sources,     \* what the source field may say
  Addresses,   \* which of these are IP addresses
  VlanTexts,   \* what the VLAN field may say, NoText among it
  VlanIds,     \* which of these are numbers of 16 bits
  MaxEdits     \* bound: changes the user makes to the fields

VARIABLES
  tab,            \* the tab on the screen
  active,         \* whether SharedL2Status is Active
  source, vlan,   \* the fields
  validatedFor,   \* l2_input_validated_for
  light,          \* l2_input_validation
  check,          \* l2_input_check_rx, and what its oneshot holds
  known,          \* known_vlans
  edits,          \* bound: changes so far
  last            \* for the properties alone: the last check that ended, and how

fields == <<source, vlan>>
form == <<validatedFor, light, check, last>>
vars == <<tab, active, fields, form, known, edits>>

-----------------------------------------------------------------------------
NoText  == ""
NoKey   == <<>>
NoCheck == [ip |-> NoText, vlan |-> NoText, reply |-> "none"]

Verdicts == {"Clear", "Duplicate", "Error"}

(* parse_vlan: no number means no tag, whatever else is there. *)
Vlan == IF vlan \in VlanIds THEN vlan ELSE NoText

(* Faulty: the VLAN field is not looked at. *)
FaultyKey == <<source, NoText>>
Key == <<source, vlan>>

(* Is the form on the screen?  ui_l2_ping_tab looks at the status again.   *)
Drawn == tab = "l2" /\ active

Init ==
  /\ source = NoText /\ vlan = NoText
  /\ validatedFor = NoKey /\ light = "Invalid" /\ check = NoCheck /\ last = NoCheck
  /\ known = {}
  /\ edits = 0

-----------------------------------------------------------------------------
(* update_l2_input_validation.  The check that is under way, if it has its *)
(* answer by now; the first two are Ok and Closed, Empty ends the frame.   *)

(* Faulty: a oneshot without its sender is still waited for. *)
FaultyAnswered == check.reply \in Verdicts
Answered == check.reply \in Verdicts \cup {"closed"}

LightOf(reply) ==
  CASE reply = "Error"  -> "Checking"
    [] reply = "closed" -> "Invalid"
    [] OTHER            -> reply

(* The fields are those of the last check, or not.  Faulty: the check that *)
(* has its answer is not dropped.                                          *)
FaultyKeep(shown) ==
  /\ Key = validatedFor /\ UNCHANGED <<validatedFor, check>>
  /\ light' = shown
  /\ last' = IF Answered THEN check ELSE last
Keep(shown) ==
  /\ Key = validatedFor /\ UNCHANGED validatedFor
  /\ light' = shown /\ check' = NoCheck
  /\ last' = IF Answered THEN check ELSE last

(* No address; a check is queued; there is no room for it.                 *)
Recheck ==
  /\ Key # validatedFor /\ validatedFor' = Key
  /\ LET new == [ip |-> source, vlan |-> Vlan, reply |-> "empty"] IN
       \/ /\ source \notin Addresses
          /\ light' = "Invalid" /\ check' = NoCheck /\ last' = NoCheck
       \/ /\ source \in Addresses
          /\ light' = "Checking" /\ check' = new /\ last' = NoCheck
       \/ /\ source \in Addresses
          /\ light' = "Invalid" /\ check' = NoCheck /\ last' = [new EXCEPT !.reply = "full"]

Poll ==
  /\ Drawn
  /\ \/ check = NoCheck /\ (Keep(light) \/ Recheck)
     \/ Answered /\ (Keep(LightOf(check.reply)) \/ Recheck)
  /\ UNCHANGED <<tab, active, fields, known, edits>>

(* The manager, wherever the user looks.                                   *)
Answer ==
  /\ check.reply = "empty"
  /\ \E reply \in Verdicts \cup {"closed"} : check' = [check EXCEPT !.reply = reply]
  /\ UNCHANGED <<tab, active, fields, validatedFor, light, last, known, edits>>

-----------------------------------------------------------------------------
(* The user, in a frame that was polled before                             *)

Change ==
  /\ Drawn /\ edits < MaxEdits /\ edits' = edits + 1
  /\ UNCHANGED <<tab, active, form, known>>

Edit ==
  /\ Change
  /\ \/ source' \in Sources \ {source} /\ UNCHANGED vlan
     \/ vlan' \in VlanTexts \ {vlan} /\ UNCHANGED source

PickVlan == Change /\ vlan' \in known \ {vlan} /\ UNCHANGED source

(* submit_l2_pinger, once source, target and method are in order; it says  *)
(* so if they are not, or if L2PingerCommand::Start finds no room.  The    *)
(* light has no part in it.                                                *)
Submit ==
  /\ Drawn /\ source \in Addresses
  /\ known' = known \cup ({vlan} \cap VlanIds)
  /\ UNCHANGED <<tab, active, fields, form, edits>>

Next == Poll \/ Answer \/ Edit \/ PickVlan \/ Submit

(* The program starts anew. *)
Restarted ==
  /\ source' = NoText /\ vlan' = NoText
  /\ validatedFor' = NoKey /\ light' = "Invalid" /\ check' = NoCheck /\ last' = NoCheck
  /\ known' = {}
  /\ UNCHANGED edits

-----------------------------------------------------------------------------
Check == [ip : Addresses \cup {NoText}, vlan : VlanIds \cup {NoText},
          reply : Verdicts \cup {"none", "empty", "closed", "full"}]

(* Every variable is of its type, and a check is one of an address.        *)
TypeOK ==
  /\ source \in Sources /\ vlan \in VlanTexts
  /\ validatedFor = NoKey \/ validatedFor \in Sources \X VlanTexts
  /\ light \in {"Invalid", "Checking", "Duplicate", "Clear"}
  /\ {check, last} \subseteq Check
  /\ check # NoCheck => (check.ip \in Addresses /\ light = "Checking")
  /\ known \subseteq VlanIds
  /\ edits \in 0 .. MaxEdits

(* What every poll leaves: a check that is still under way, at which the   *)
(* frame's poll returns, or none and the fields of the last.               *)
AfterPoll == check.reply = "empty" \/ (check = NoCheck /\ Key = validatedFor)

(* What the light says of the fields in every frame                        *)
(* (render_l2_input_indicator).  Green and red, "Valid, and not currently  *)
(* in use" and "Duplicate IP!", are the answer to a check of this very     *)
(* address on this very VLAN, whatever was typed while it was under way,   *)
(* whoever looked away meanwhile and however late the answer came.  Black: *)
(* there is no address to check, or the check could not be made.  Yellow:  *)
(* the check of this address and VLAN was inconclusive, or one is under    *)
(* way - of what the fields said when it was started, so that yellow may   *)
(* stand beside fields edited since, and beside text that is no address.   *)
Present(c) == c.ip = source /\ c.vlan = Vlan
UnderWay ==
  /\ check.reply = "empty" /\ check.ip = validatedFor[1]
  /\ check.vlan = (IF validatedFor[2] \in VlanIds THEN validatedFor[2] ELSE NoText)
LightFits ==
  CASE light = "Invalid"  -> \/ source \notin Addresses
                             \/ Present(last) /\ last.reply \in {"closed", "full"}
    [] light = "Checking" -> UnderWay \/ (Present(last) /\ last.reply = "Error")
    [] OTHER              -> check = NoCheck /\ Present(last) /\ last.reply = light
LightIsTrue == AfterPoll => LightFits

(* A light that the user looks at comes to rest when he stops typing: no   *)
(* check is under way any more, the last was of these fields, and it is    *)
(* yellow only where that check was inconclusive - which nothing repeats.  *)
(* It supposes that the manager answers the check or drops it, which it    *)
(* does unless it ends up in the circular wait of L2Relay!Clogged.         *)
LightSettles ==
  <>[]Drawn =>
    <>[](check = NoCheck /\ Key = validatedFor /\ (light = "Checking" => last.reply = "Error"))
=============================================================================
