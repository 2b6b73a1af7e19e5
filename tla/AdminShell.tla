----------------------------- MODULE AdminShell -----------------------------
(***************************************************************************)
(* The navigation of every admin page (wwwroot/js/site.js): the sidebar of   *)
(* small screens, and the groups of links, whose state all tabs of the       *)
(* browser share in localStorage.                                            *)
(***************************************************************************)
EXTENDS Naturals, Sequences, SequencesExt

CONSTANTS
  Group,         \* .cms-nav-group
  Path,          \* paths of pages, lower-cased
  Href,          \* links of the navigation
  GroupOf,       \* [Href -> Group, or NoGroup]
  NoGroup        \* the group of a link outside all

AdminShellAssumption ==
  /\ NoGroup \notin Group
  /\ GroupOf \in [Href -> Group \cup {NoGroup}]

ASSUME AdminShellAssumption

VARIABLES
  shSidebar,     \* the sidebar is open
  shStored,      \* localStorage: "absent", "true" or "false" for each group
  shCollapsed,   \* the groups this tab shows collapsed
  shElsewhere    \* history: groups another tab stored since this page was loaded

shNav == <<shStored, shCollapsed, shElsewhere>>
shVars == <<shSidebar, shNav>>

-----------------------------------------------------------------------------
\* The link whose href is the longest prefix of the path is active; its group is shown.
ActiveGroup(path) ==
  LET fit == {h \in Href : IsPrefix(h, path)} IN
  IF fit = {} THEN NoGroup
  ELSE GroupOf[CHOOSE h \in fit : \A k \in fit : Len(k) <= Len(h)]

ShowPage(path, stored) ==
  /\ shCollapsed' = {g \in Group : stored[g] = "false"} \ {ActiveGroup(path)}
  /\ shStored' = [g \in Group |-> IF g = ActiveGroup(path) THEN "true" ELSE stored[g]]
  /\ shElsewhere' = {}
  /\ shSidebar' = FALSE

ShInit ==
  /\ shSidebar = FALSE
  /\ shStored = [g \in Group |-> "absent"]
  /\ shCollapsed = {} /\ shElsewhere = {}

-----------------------------------------------------------------------------
ToggleSidebar ==
  /\ shSidebar' = ~shSidebar
  /\ UNCHANGED shNav

ClickBackdrop ==
  /\ shSidebar /\ shSidebar' = FALSE
  /\ UNCHANGED shNav

ToggleGroup(g) ==
  /\ shCollapsed' = IF g \in shCollapsed THEN shCollapsed \ {g} ELSE shCollapsed \cup {g}
  /\ shStored' = [shStored EXCEPT ![g] = IF g \in shCollapsed THEN "true" ELSE "false"]
  /\ shElsewhere' = shElsewhere \ {g}
  /\ UNCHANGED shSidebar

\* Another tab of the browser toggles a group or shows a page of it.
OtherTab(g, state) ==
  /\ shStored' = [shStored EXCEPT ![g] = state]
  /\ shElsewhere' = shElsewhere \cup {g}
  /\ UNCHANGED <<shSidebar, shCollapsed>>

GoTo(path) == ShowPage(path, shStored)

ShNext ==
  \/ ToggleSidebar \/ ClickBackdrop
  \/ \E g \in Group : ToggleGroup(g) \/ \E state \in {"true", "false"} : OtherTab(g, state)
  \/ \E path \in Path : GoTo(path)

-----------------------------------------------------------------------------
(* Properties. *)

ShTypeOK ==
  /\ shSidebar \in BOOLEAN
  /\ shStored \in [Group -> {"absent", "true", "false"}]
  /\ shCollapsed \subseteq Group /\ shElsewhere \subseteq Group

\* What is remembered is what the tab shows, so that the next page shows it too, but
\* for the groups that another tab stored meanwhile.
NavRemembered ==
  \A g \in Group \ shElsewhere : (g \in shCollapsed) = (shStored[g] = "false")

=============================================================================
