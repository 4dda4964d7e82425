------------------------------- MODULE Requests -------------------------------
(***************************************************************************)
(* From the words of a command line to a request, and from a filter to the *)
(* tasks it selects: the operators without state that the frontend and the *)
(* backend share.  A text is a model value; all that is kept of its        *)
(* characters is the class the validation tells apart.                     *)
(***************************************************************************)
EXTENDS Integers

CONSTANTS
  Class,      \* "alphanumeric", "printable" or "control": the worst character
  EnvDisplay, \* DISPLAY and WAYLAND_DISPLAY of the frontend, "" for unset
  NoId        \* math.MaxInt, the id that stands for no filter

-----------------------------------------------------------------------------
(* Command line *)

Display(type, name) == [type |-> type, name |-> name]

NoDisplay == Display("none", "")

InvalidDisplay == Display("invalid", "")

DisplayType == [h |-> "headless", x |-> "xorg", w |-> "wayland"]

CurrentDisplay(type) ==
  IF EnvDisplay[type] = "" THEN InvalidDisplay ELSE Display(type, EnvDisplay[type])

(* An argument is its first letter, "" if it is empty, and the rest of it. *)
(* Whatever follows an h is ignored.  A lone x or w reads the environment. *)
ParseDisplaySelection(arg, allowNone) ==
  LET type == DisplayType[arg.letter]
  IN  IF arg.letter = "" THEN IF allowNone THEN NoDisplay ELSE InvalidDisplay
      ELSE IF arg.letter \notin DOMAIN DisplayType THEN InvalidDisplay
      ELSE IF type = "headless" THEN Display(type, "")
      ELSE IF arg.name # "" THEN Display(type, arg.name)
      ELSE CurrentDisplay(type)

ValidFormat(value) == value \in {"", "default", "detailed", "json"}

ValidStatus(value) == value \in {"", "all", "active", "inactive"}

Includes(status, value) == status \in {"", "all", value}

(* A command line that is turned down before anything is sent. *)
UsageError(line) ==
  \/ /\ line.cmd = "run"
     /\ ParseDisplaySelection(line.display, FALSE) = InvalidDisplay
  \/ /\ line.cmd = "list"
     /\ \/ ~ValidFormat(line.format)
        \/ ~ValidStatus(line.status)
        \/ ParseDisplaySelection(line.display, TRUE) = InvalidDisplay

-----------------------------------------------------------------------------
(* Requests *)

(* The friendly name defaults to the first word of the command. *)
FriendlyName(line) == IF line.name = "" THEN line.program ELSE line.name

RunRequestBody(line) ==
  [program |-> line.program, name |-> FriendlyName(line), tags |-> line.tags,
   display |-> ParseDisplaySelection(line.display, FALSE)]

ValidateString(text, allowed) == Class[text] \in allowed

ValidateRunRequestBody(body) ==
  /\ ValidateString(body.name, {"alphanumeric"})
  /\ ValidateString(body.program, {"alphanumeric", "printable"})
  /\ \A t \in body.tags : ValidateString(t, {"alphanumeric"})

ListFilter(line) ==
  [id |-> line.id, names |-> line.names, tags |-> line.tags,
   display |-> ParseDisplaySelection(line.display, TRUE),
   active |-> Includes(line.status, "active"),
   deactivated |-> Includes(line.status, "inactive")]

(* The fields the frontend does not set keep their zero values. *)
RefreshFilter(line) ==
  [id |-> line.id, names |-> line.names, tags |-> line.tags,
   display |-> NoDisplay, active |-> FALSE, deactivated |-> FALSE]

PeekFilter(id) ==
  [id |-> id, names |-> {}, tags |-> {}, display |-> NoDisplay,
   active |-> TRUE, deactivated |-> TRUE]

-----------------------------------------------------------------------------
(* Selection *)

(* Which fields of a filter count. *)
Derived(filter) ==
  [id |-> filter.id # NoId, names |-> filter.names # {},
   display |-> filter.display.type # "none", tags |-> filter.tags # {}]

(* The function that getSelectorFunc composes, for a task with this id and *)
(* body that is active or not.                                             *)
Selects(filter, id, body, active) ==
  LET has == Derived(filter)
  IN  /\ has.id => id = filter.id
      /\ has.names => body.name \in filter.names
      /\ has.display => body.display = filter.display
      /\ has.tags => filter.tags \subseteq body.tags
      /\ filter.active \/ ~active
      /\ filter.deactivated \/ active

(* Of the tasks of one name, only the one with the highest id. *)
UniqueNames(ids, name) ==
  {i \in ids : \A j \in ids : name[i] = name[j] => j <= i}

=============================================================================
