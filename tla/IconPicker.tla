----------------------------- MODULE IconPicker -----------------------------
(***************************************************************************)
(* The icon picker of the content type form (wwwroot/js/icon-picker.js): a   *)
(* hidden value, a trigger that shows it, and a popover with a debounced     *)
(* filter over the icons.  Pickers share nothing, so one is enough.          *)
(***************************************************************************)
EXTENDS Naturals

CONSTANTS
  Icon,          \* the icons
  NoIcon,        \* none chosen: the trigger shows the placeholder
  Filter,        \* texts of the filter
  NoFilter,      \* the empty text
  Passing        \* [Filter -> SUBSET Icon]: the icons whose name includes the text

IconPickerAssumption ==
  /\ NoIcon \notin Icon /\ NoFilter \in Filter
  /\ Passing \in [Filter -> SUBSET Icon] /\ Passing[NoFilter] = Icon

ASSUME IconPickerAssumption

VARIABLES
  ipValue,       \* .ip-value
  ipLabel,       \* .ip-trigger: the icon shown; with none, .ip-clear is hidden
  ipOpen,        \* .ip-popover
  ipText,        \* .ip-search
  ipTimer,       \* a debounced renderGrid is due
  ipGridFor,     \* the text .ip-grid was rendered for
  ipMark,        \* the icon it marks as selected
  ipCleared      \* history: the value was cleared since the grid was rendered

ipVars == <<ipValue, ipLabel, ipOpen, ipText, ipTimer, ipGridFor, ipMark, ipCleared>>

IpInit ==
  /\ ipValue \in Icon \cup {NoIcon}
  /\ ipLabel = ipValue
  /\ ipOpen = FALSE
  /\ ipText = NoFilter /\ ipTimer = FALSE
  /\ ipGridFor = NoFilter /\ ipMark = NoIcon /\ ipCleared = FALSE

RenderGrid(text) ==
  /\ ipGridFor' = text
  /\ ipMark' = ipValue
  /\ ipCleared' = FALSE

\* The trigger opens and closes the popover.  A filter that is due stays due.
\* (Variant: the grid is shown as it was left.)
ClickTrigger_GridKept ==
  \/ /\ ipOpen /\ ipOpen' = FALSE
     /\ UNCHANGED <<ipValue, ipLabel, ipText, ipTimer, ipGridFor, ipMark, ipCleared>>
  \/ /\ ~ipOpen /\ ipOpen' = TRUE
     /\ ipText' = NoFilter
     /\ UNCHANGED <<ipValue, ipLabel, ipTimer, ipGridFor, ipMark, ipCleared>>

ClickTrigger ==
  \/ /\ ipOpen /\ ipOpen' = FALSE
     /\ UNCHANGED <<ipValue, ipLabel, ipText, ipTimer, ipGridFor, ipMark, ipCleared>>
  \/ /\ ~ipOpen /\ ipOpen' = TRUE
     /\ RenderGrid(NoFilter)
     /\ ipText' = NoFilter
     /\ UNCHANGED <<ipValue, ipLabel, ipTimer>>

TypeFilter(t) ==
  /\ ipOpen /\ t # ipText
  /\ ipText' = t /\ ipTimer' = TRUE
  /\ UNCHANGED <<ipValue, ipLabel, ipOpen, ipGridFor, ipMark, ipCleared>>

FilterDue ==
  /\ ipTimer /\ ipTimer' = FALSE
  /\ RenderGrid(ipText)
  /\ UNCHANGED <<ipValue, ipLabel, ipOpen, ipText>>

ChooseIcon(i) ==
  /\ ipOpen /\ i \in Passing[ipGridFor]
  /\ ipValue' = i /\ ipLabel' = i
  /\ ipOpen' = FALSE
  /\ UNCHANGED <<ipText, ipTimer, ipGridFor, ipMark, ipCleared>>

\* The popover stays as it is: the click goes no further.
ClearIcon ==
  /\ ipLabel # NoIcon
  /\ ipValue' = NoIcon /\ ipLabel' = NoIcon
  /\ ipCleared' = TRUE
  /\ UNCHANGED <<ipOpen, ipText, ipTimer, ipGridFor, ipMark>>

\* A click outside the picker, or Escape in it.
ClosePopover ==
  /\ ipOpen /\ ipOpen' = FALSE
  /\ UNCHANGED <<ipValue, ipLabel, ipText, ipTimer, ipGridFor, ipMark, ipCleared>>

IpNext ==
  \/ ClickTrigger \/ FilterDue \/ ClearIcon \/ ClosePopover
  \/ \E t \in Filter : TypeFilter(t)
  \/ \E i \in Icon : ChooseIcon(i)

-----------------------------------------------------------------------------
(* Properties. *)

IpTypeOK ==
  /\ ipValue \in Icon \cup {NoIcon} /\ ipLabel = ipValue /\ ipMark \in Icon \cup {NoIcon}
  /\ ipOpen \in BOOLEAN /\ ipTimer \in BOOLEAN /\ ipCleared \in BOOLEAN
  /\ ipText \in Filter /\ ipGridFor \in Filter

\* An open popover with no filter due shows the icons of the text typed and marks the
\* icon chosen, although a filter may fall due after it was closed and opened again;
\* only clearing leaves the old mark (101-105 do not render the grid).
IconGridFitsText ==
  ipOpen /\ ~ipTimer => ipGridFor = ipText /\ (ipCleared \/ ipMark = ipValue)

=============================================================================
