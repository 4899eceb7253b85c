------------------------------ MODULE Graphics ------------------------------
(***************************************************************************)
(* The graphics setting (graphics.rs): chosen on the About tab, saved at   *)
(* once, in force from the next start on, and compared with what wgpu      *)
(* really picked.                                                          *)
(*                                                                         *)
(* wgpu is external: it offers the adapters of the machine, all of which   *)
(* can present here, and asks the selector for one, unless WGPU_BACKEND is *)
(* set.  Another instance of the program may write the same file.          *)
(*                                                                         *)
(* A definition named Faulty... is a plausible mistake in the one after    *)
(* it; nothing uses it but the runs that show a property notices it.       *)
(***************************************************************************)
EXTENDS Naturals

CONSTANTS
  Adapters,     \* adapters a machine may have: [backend, device]
  Selectable    \* BackendChoice::selectable, on this platform

VARIABLES
  tab,        \* the tab on the screen (AppTabs)
  machine,    \* the adapters of the machine
  env,        \* whether WGPU_BACKEND is set
  saved,      \* what the file says
  choice, start, message,   \* GraphicsPanel: choice, choice_at_start, message
  running,    \* the adapter in use
  foreign     \* for the properties alone: another instance has written since

vars == <<tab, machine, env, saved, choice, start, message, running, foreign>>

-----------------------------------------------------------------------------
Choices   == {"auto", "vulkan", "opengl", "dx12"}
Contents  == Choices \cup {"absent", "garbage"}
Machines  == SUBSET Adapters \ {{}}

Wanted(c) == IF c = "auto" THEN "any" ELSE c     \* wanted_backend

BackendRank(c, backend) ==
  CASE Wanted(c) = backend  -> 0
    [] Wanted(c) # backend /\ backend = "vulkan" -> 1
    [] Wanted(c) # backend /\ backend = "opengl" -> 2
    [] OTHER -> 3

DeviceRank(device) ==
  CASE device = "discrete"   -> 0
    [] device = "integrated" -> 1
    [] device = "virtual"    -> 2
    [] device = "cpu"        -> 4
    [] OTHER                 -> 3

(* select_adapter: the least rank, of the backend before the device.       *)
(* Faulty: the device decides before the backend.                          *)
FaultyBetter(c, a, b) ==
  \/ DeviceRank(a.device) < DeviceRank(b.device)
  \/ /\ DeviceRank(a.device) = DeviceRank(b.device)
     /\ BackendRank(c, a.backend) < BackendRank(c, b.backend)
Better(c, a, b) ==
  \/ BackendRank(c, a.backend) < BackendRank(c, b.backend)
  \/ /\ BackendRank(c, a.backend) = BackendRank(c, b.backend)
     /\ DeviceRank(a.device) < DeviceRank(b.device)

(* apply: the selector is installed, or wgpu picks by its own rules.       *)
Picked(c, adapters, override) ==
  IF override \/ Selectable = {} THEN adapters
  ELSE {a \in adapters : \A b \in adapters : ~Better(c, b, a)}

(* BackendChoice::load *)
Loaded(contents) == IF contents \in Selectable THEN contents ELSE "auto"

(* main: the setting is loaded, the adapter picked, the panel made.        *)
Started ==
  /\ start' = Loaded(saved) /\ choice' = start' /\ message' = "none"
  /\ running' \in Picked(start', machine', env')
  /\ foreign' = FALSE

Init ==
  /\ machine \in Machines /\ env \in BOOLEAN /\ saved \in Contents
  /\ start = Loaded(saved) /\ choice = start /\ message = "none"
  /\ running \in Picked(start, machine, env)
  /\ foreign = FALSE

-----------------------------------------------------------------------------
(* A click on a radio button: the setting is saved, or is not, which may   *)
(* leave the file cut short.                                               *)
Choose ==
  /\ tab = "about" /\ ~env
  /\ choice' \in Selectable \ {choice}
  /\ \/ saved' = choice' /\ message' = "none" /\ foreign' = FALSE
     \/ saved' \in {saved, "garbage"} /\ message' = "save" /\ UNCHANGED foreign
  /\ UNCHANGED <<tab, machine, env, start, running>>

(* "Restart now": the new instance starts, on the same machine, before     *)
(* this one's window closes; or it does not, and this one stays.           *)
Offered == tab = "about" /\ choice # start /\ ~env /\ Selectable # {}
Restart == Offered /\ UNCHANGED <<machine, env, saved>> /\ Started
RestartFails ==
  /\ Offered /\ message' = "restart"
  /\ UNCHANGED <<tab, machine, env, saved, choice, start, running, foreign>>

(* The user quits and starts the program another day.                      *)
Relaunch ==
  /\ machine' \in Machines /\ env' \in BOOLEAN
  /\ Started /\ UNCHANGED saved

OtherSaves ==
  /\ saved' \in Selectable /\ foreign' = TRUE
  /\ UNCHANGED <<tab, machine, env, choice, start, message, running>>

Next == Choose \/ RestartFails \/ OtherSaves

-----------------------------------------------------------------------------
(* Every variable is of its type, and some adapter is in use.              *)
TypeOK ==
  /\ machine \in Machines /\ running \in machine
  /\ env \in BOOLEAN /\ foreign \in BOOLEAN
  /\ saved \in Contents
  /\ {choice, start} \subseteq Selectable \cup {"auto"}
  /\ message \in {"none", "save", "restart"}

(* What the panel says (GraphicsPanel::ui): "... was requested but is not  *)
(* available here", "Takes effect after a restart".                        *)
Warned  == ~env /\ Wanted(start) \notin {"any", running.backend}
Pending == choice # start /\ ~env

(* The panel tells the truth: it warns exactly when no adapter of the      *)
(* machine has the backend that was asked for - the setting is a           *)
(* preference, and keeps no window from opening - and, unless it reports a *)
(* failure or another instance has written since, what it shows as chosen  *)
(* is what the next start will ask for, so that without "Takes effect      *)
(* after a restart" that is what this one asked for, too.                  *)
PanelIsTrue ==
  /\ Warned <=> /\ ~env /\ Wanted(start) # "any"
                /\ \A a \in machine : a.backend # Wanted(start)
  /\ message = "none" /\ ~foreign =>
       /\ Loaded(saved) = choice
       /\ Pending \/ env \/ Loaded(saved) = start
=============================================================================
