----------------------------- MODULE Interfaces -----------------------------
(***************************************************************************)
(* The list of the Interfaces tab (app/interfaces_tab.rs): made when the   *)
(* program starts, and while the tab is on the screen refreshed by a       *)
(* thread, a second after the last refresh has ended or on demand, one at  *)
(* a time.  Which headers of the list are unfolded is left out.            *)
(*                                                                         *)
(* The machine is external: interfaces come and go, and the call that      *)
(* lists them may panic.                                                   *)
(*                                                                         *)
(* A definition named Faulty... is a plausible mistake in the one after    *)
(* it; nothing uses it but the runs that show a property notices it.       *)
(***************************************************************************)
EXTENDS Naturals

CONSTANTS
  Nics,        \* interfaces a machine may have
  MaxPanics    \* bound: refreshes that panic

VARIABLES
  tab,         \* the tab on the screen (AppTabs)
  nics,        \* the interfaces of the machine
  listed,      \* interfaces
  refresh,     \* interfaces_refresh_rx, and what its oneshot holds
  due,         \* whether interface_update is a second ago
  panics       \* bound: panics so far

vars == <<tab, nics, listed, refresh, due, panics>>

-----------------------------------------------------------------------------
NoRefresh == [reply |-> "none", nics |-> {}]
Running   == [reply |-> "empty", nics |-> {}]
Closed    == [reply |-> "closed", nics |-> {}]
Found     == [reply |-> "found", nics |-> nics]

Init ==
  /\ nics \in SUBSET Nics /\ listed = nics
  /\ refresh = NoRefresh /\ due = FALSE
  /\ panics = 0

(* The machine, the clock and the thread *)

NicsChange ==
  /\ nics' \in SUBSET Nics
  /\ UNCHANGED <<tab, listed, refresh, due, panics>>

SecondPasses ==
  /\ ~due /\ due' = TRUE
  /\ UNCHANGED <<tab, nics, listed, refresh, panics>>

Enumerate ==
  /\ refresh = Running /\ refresh' = Found
  /\ UNCHANGED <<tab, nics, listed, due, panics>>

Panic ==
  /\ refresh = Running /\ refresh' = Closed
  /\ panics < MaxPanics /\ panics' = panics + 1
  /\ UNCHANGED <<tab, nics, listed, due>>

(* poll_interfaces_refresh.  Faulty: a thread that panicked is still       *)
(* waited for.                                                             *)
FaultyEnded == refresh.reply = "found"
Ended == refresh.reply \in {"found", "closed"}

(* A frame of the tab: the poll, and then a start, unless one is under way *)
(* (start_interfaces_refresh), on a click or when it is due.               *)
Frame ==
  /\ tab = "interfaces"
  /\ listed' = IF refresh.reply = "found" THEN refresh.nics ELSE listed
  /\ due' = (due /\ ~Ended)
  /\ LET polled == IF Ended THEN NoRefresh ELSE refresh IN
       \/ polled # NoRefresh /\ refresh' = polled
       \/ polled = NoRefresh /\ refresh' = Running
       \/ polled = NoRefresh /\ ~due' /\ refresh' = NoRefresh
  /\ UNCHANGED <<tab, nics, panics>>

Next == NicsChange \/ SecondPasses \/ Enumerate \/ Panic \/ Frame

(* The program starts anew. *)
Restarted ==
  /\ listed' = nics /\ refresh' = NoRefresh /\ due' = FALSE
  /\ UNCHANGED <<nics, panics>>

-----------------------------------------------------------------------------
(* Every variable is of its type. *)
TypeOK ==
  /\ {nics, listed} \subseteq SUBSET Nics
  /\ refresh \in [reply : {"none", "empty", "closed", "found"}, nics : SUBSET Nics]
  /\ due \in BOOLEAN
  /\ panics \in 0 .. MaxPanics

(* The list that the user looks at comes to be that of the machine, if the *)
(* machine lets it: whatever changed while no frame was drawn or while the *)
(* thread was at work, and also after a panic, which is not waited for.    *)
ListCatchesUp ==
  \A set \in SUBSET Nics :
    <>[](tab = "interfaces" /\ nics = set) => <>[](listed = set)
=============================================================================
