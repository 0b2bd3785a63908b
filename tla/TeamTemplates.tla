---------------------------- MODULE TeamTemplates ----------------------------
(***************************************************************************)
(* A team's private templates (devices/template_library, team_maps):       *)
(* published from a draft, saved from the confirmed map of a device,       *)
(* chosen in Guided Setup and retired by staff.  A page reads first; a      *)
(* family's listed revision is locked while the next one is made.  What     *)
(* Novena delivers (TemplateRequests) is a family of its own.               *)
(***************************************************************************)
EXTENDS Naturals, Sequences, FiniteSetsExt

CONSTANTS
    Equipment,       \* devices of one kind
    Page,            \* requests under way at once
    MaxTeamRows      \* bound on templates

ASSUME TeamTemplateAssumption == MaxTeamRows \in Nat

VARIABLES
    rows,     \* DeviceTemplate rows of the team; a family is named by its first row
    draft,    \* PrivateTemplateDraft.last_published_template, 0 before the first
    device,   \* the team's template of each device, 0 for one of the catalog; the template
              \* last saved from its map; whether the map was confirmed since
    page      \* what each request does, and what it read

templateVars == <<rows, draft, device, page>>

TeamRow(family, rev) == [family |-> family, rev |-> rev, listed |-> TRUE]
Free == [op |-> "free", on |-> CHOOSE e \in Equipment : TRUE, last |-> 0, listed |-> {}]

TemplatesTypeOK ==
    /\ Len(rows) <= MaxTeamRows
    /\ \A t \in DOMAIN rows : rows[t].family \in 0 .. MaxTeamRows /\ rows[t].rev \in 1 .. MaxTeamRows /\ rows[t].listed \in BOOLEAN
    /\ draft \in 0 .. Len(rows)
    /\ device \in [Equipment -> [template : 0 .. MaxTeamRows, saved : 0 .. MaxTeamRows, confirmed : BOOLEAN]]

TemplatesInit ==
    /\ rows = << >> /\ draft = 0
    /\ device = [e \in Equipment |-> [template |-> 0, saved |-> 0, confirmed |-> FALSE]]
    /\ page = [p \in Page |-> Free]

-----------------------------------------------------------------------------
BeginsPage(p, op, e, last, listed) ==
    /\ page[p].op = "free"
    /\ page' = [page EXCEPT ![p] = [op |-> op, on |-> e, last |-> last, listed |-> listed]]
EndsPage(p) == page' = [page EXCEPT ![p] = Free]
Anyone == CHOOSE e \in Equipment : TRUE

TeamListed == {t \in DOMAIN rows : rows[t].listed}
Family(f) == {t \in DOMAIN rows : rows[t].family = f}
Numbers(f) == {rows[t].rev : t \in Family(f)}
AddsRow(old, row) ==
    /\ Len(rows) < MaxTeamRows
    /\ rows' = Append([t \in DOMAIN rows |-> IF t \in old THEN [rows[t] EXCEPT !.listed = FALSE] ELSE rows[t]], row)
NextRow == Len(rows) + 1

(* private_draft: the draft is saved whole, as it was read with the page's  *)
(* changes; publishing goes on from the revision that copy remembers.       *)
OpensDraft(p) ==
    /\ BeginsPage(p, "draft", Anyone, draft, {})
    /\ UNCHANGED <<rows, draft, device>>

SavesDraftCopy(p) ==
    /\ page[p].op = "draft"
    /\ draft' = page[p].last
    /\ EndsPage(p)
    /\ UNCHANGED <<rows, device>>

LeavesBoth(t) == {}             \* mutated form
LeavesList(t) == {t}
PublishesDraft(p) ==
    LET old == page[p].last IN
    /\ page[p].op = "draft"
    /\ IF old = 0 THEN AddsRow({}, TeamRow(NextRow, 1))
       ELSE /\ rows[old].rev + 1 \notin Numbers(rows[old].family)
            /\ AddsRow(LeavesList(old), TeamRow(rows[old].family, rows[old].rev + 1))
    /\ draft' = NextRow
    /\ EndsPage(p)
    /\ UNCHANGED <<device>>

-----------------------------------------------------------------------------
(* use_in_setup: the device's map starts anew.                              *)
UsesTemplate(e, t) ==
    /\ t \in TeamListed
    /\ device' = [device EXCEPT ![e].template = t, ![e].confirmed = FALSE]
    /\ UNCHANGED <<rows, draft, page>>

\* The customer tests and confirms the device's readings (DatapointMap).
ConfirmsMap(e) ==
    /\ ~device[e].confirmed
    /\ device' = [device EXCEPT ![e].confirmed = TRUE]
    /\ UNCHANGED <<rows, draft, page>>

(* save_confirmed_team_map: the next revision of the family that this map,  *)
(* or the template it began with, belongs to; only the device's own map    *)
(* keeps two requests apart.                                               *)
FamilyOf(e) ==
    LET t == IF device[e].saved # 0 THEN device[e].saved ELSE device[e].template
    IN  IF t = 0 THEN 0 ELSE rows[t].family      \* 0: a catalog template, no family of the team's

SavesMap(p, e) ==
    /\ device[e].confirmed
    /\ ~\E q \in Page : page[q].op = "map" /\ page[q].on = e
    /\ BeginsPage(p, "map", e, FamilyOf(e), Family(FamilyOf(e)) \cap TeamListed)
    /\ UNCHANGED <<rows, draft, device>>

AddsMap(p) ==
    LET e == page[p].on
        f == page[p].last
        seen == page[p].listed \cap TeamListed     \* of those it waited for, the ones still listed
        old == IF seen = {} THEN {} ELSE {Min(seen)}
    IN  /\ page[p].op = "map"
        /\ IF f = 0 THEN AddsRow({}, TeamRow(NextRow, 1)) ELSE AddsRow(old, TeamRow(f, Max(Numbers(f)) + 1))
        /\ device' = [device EXCEPT ![e].saved = NextRow, ![e].confirmed = FALSE]
        /\ EndsPage(p)
        /\ UNCHANGED <<draft>>

\* A request is refused or fails: its transaction leaves nothing.
Fails(p) ==
    /\ page[p].op # "free"
    /\ EndsPage(p)
    /\ UNCHANGED <<rows, draft, device>>

(* retire_templates, for the customer.                                      *)
Retires(t) ==
    /\ t \in TeamListed
    /\ rows' = [rows EXCEPT ![t].listed = FALSE]
    /\ UNCHANGED <<draft, device, page>>

TemplatesNext ==
    \/ \E t \in DOMAIN rows : Retires(t)
    \/ \E e \in Equipment : ConfirmsMap(e) \/ \E t \in DOMAIN rows : UsesTemplate(e, t)
    \/ \E p \in Page : \/ OpensDraft(p) \/ SavesDraftCopy(p) \/ PublishesDraft(p)
                       \/ AddsMap(p) \/ Fails(p)
                       \/ \E e \in Equipment : SavesMap(p, e)

TemplatesSpec == TemplatesInit /\ [][TemplatesNext]_templateVars

-----------------------------------------------------------------------------
Forked(all) == \E t, u \in DOMAIN all : t # u /\ all[t].family = all[u].family /\ all[t].listed /\ all[u].listed

(* Two revisions of one family come to be listed together only when two     *)
(* devices' maps were saved at once, the second having waited for a          *)
(* revision that another replaced (team_maps.py:72); drafts, choices and    *)
(* retirements never bring it about.                                       *)
OnlyOverlappingSavesForkAFamily ==
    [][~Forked(rows) /\ Forked(rows') =>
        \E p \in Page : page[p].op = "map" /\ page'[p].op = "free" /\ page[p].listed # Family(page[p].last) \cap TeamListed]_templateVars

(* A family lists one revision.  The code does not keep this: README.md,    *)
(* "Known divergences".                                                    *)
FamiliesListOne == ~Forked(rows)

(* A kept draft can be published again.  The code does not keep this:       *)
(* README.md, "Known divergences".                                         *)
DraftsStayPublishable ==
    draft # 0 => rows[draft].rev + 1 \notin Numbers(rows[draft].family)
=============================================================================
