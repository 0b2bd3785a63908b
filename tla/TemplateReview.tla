---------------------------- MODULE TemplateReview ----------------------------
(***************************************************************************)
(* Novena's catalog of one model of equipment (devices/template_sharing,   *)
(* admin, management/commands/import_energy_catalog): customers' maps are  *)
(* reviewed and published, curated revisions come with a release, staff    *)
(* retire what is wrong.  A publication locks its submission and the map   *)
(* it replaces; forms and actions in the admin save what they read.        *)
(***************************************************************************)
EXTENDS Naturals, Sequences, FiniteSetsExt

CONSTANTS
    Submission,
    MaxShipped,     \* revisions a release may list
    MaxTemplates    \* bound on templates

ASSUME ReviewAssumption == /\ MaxShipped \in Nat /\ MaxTemplates \in Nat
                           /\ {"manifest", "none"} \cap Submission = {}

VARIABLES
    catalog,     \* DeviceTemplate rows, in the order they were created
    submission,  \* TemplateShareSubmission
    shipped,     \* the newest revision the deployed manifest lists
    publication, \* each submission: under way with the maps it found listed, or not
    form         \* the admin's open page and the row it read

reviewVars == <<catalog, submission, shipped, publication, form>>

\* A catalog key is the manifest's, or made of the submission's number.
Key == {"manifest", "none"} \cup Submission
CatalogRow(source, key, rev, evidence) == [source |-> source, key |-> key, rev |-> rev, evidence |-> evidence, current |-> TRUE]
Legacy == CatalogRow("curated", "none", 0, "legacy_unreviewed")
NewSubmission == [status |-> "none", published |-> 0]
Closed == [op |-> "closed", on |-> CHOOSE s \in Submission : TRUE, row |-> NewSubmission]
NotUnderWay == [on |-> FALSE, listed |-> {}]
Evidence == {"documented", "field_verified"}

ReviewTypeOK ==
    /\ Len(catalog) <= MaxTemplates /\ shipped \in 0 .. MaxShipped
    /\ \A t \in DOMAIN catalog : /\ catalog[t].key \in Key /\ catalog[t].rev \in 0 .. MaxTemplates /\ catalog[t].current \in BOOLEAN
                                /\ catalog[t].evidence \in Evidence \cup {"legacy_unreviewed", "retired"}
    /\ \A s \in Submission : /\ submission[s].status \in {"none", "awaiting", "published", "rejected"}
                           /\ submission[s].published \in 0 .. Len(catalog)

ReviewInit ==
    /\ catalog \in {<< >>, <<Legacy>>}
    /\ submission = [s \in Submission |-> NewSubmission]
    /\ shipped = 0
    /\ publication = [s \in Submission |-> NotUnderWay]
    /\ form = Closed

-----------------------------------------------------------------------------
Locked(s) == publication[s].on

Taken(key, rev) == \E t \in DOMAIN catalog : catalog[t].key = key /\ catalog[t].rev = rev
CatalogListed == {t \in DOMAIN catalog : catalog[t].current}

\* The catalog with old, if any, replaced by row.
Beside(old, row) == Append(catalog, row)      \* mutated form
Replacing(old, row) == Append([t \in DOMAIN catalog |-> IF t = old THEN [catalog[t] EXCEPT !.current = FALSE] ELSE catalog[t]], row)

(* submit_mapping_for_review: a confirmed revision, once.  Submitted and    *)
(* reviewing are one status here: nothing tells them apart.                *)
Submit(s) ==
    /\ submission[s].status = "none"
    /\ submission' = [submission EXCEPT ![s].status = "awaiting"]
    /\ UNCHANGED <<catalog, shipped, publication, form>>

(* The admin's change form records evidence and saves the whole row; the     *)
(* action that rejects saves the status alone.                             *)
Opens(s) ==
    /\ form.op = "closed" /\ submission[s].status # "none"
    /\ \/ form' = [op |-> "edit", on |-> s, row |-> submission[s]]
       \/ submission[s].status # "published" /\ form' = [op |-> "reject", on |-> s, row |-> NewSubmission]
    /\ UNCHANGED <<catalog, submission, shipped, publication>>
Saves ==
    /\ form.op # "closed" /\ ~Locked(form.on)
    /\ submission' = [submission EXCEPT ![form.on] = IF form.op = "edit" THEN form.row
                                                   ELSE [submission[form.on] EXCEPT !.status = "rejected"]]
    /\ form' = Closed
    /\ UNCHANGED <<catalog, shipped, publication>>

-----------------------------------------------------------------------------
(* publish_reviewed_submission: the submission is locked, then the map on   *)
(* the list; whoever waited for that lock finds the map no longer current  *)
(* and does not look for the one that replaced it.                         *)
PublishReads(s) ==
    /\ submission[s].status \in {"awaiting", "published"} /\ ~Locked(s)
    /\ publication' = [publication EXCEPT ![s] = [on |-> TRUE, listed |-> CatalogListed]]
    /\ UNCHANGED <<catalog, submission, shipped, form>>

FirstPublication(s, evidence) ==
    LET stillListed == publication[s].listed \cap CatalogListed
        old == IF stillListed = {} THEN 0 ELSE Min(stillListed)
        kept == old # 0 /\ catalog[old].key # "none"
        key == IF kept THEN catalog[old].key ELSE s
        rev == IF kept THEN catalog[old].rev + 1 ELSE 1
    IN  /\ submission[s].status = "awaiting" /\ ~Taken(key, rev)
        /\ catalog' = Replacing(old, CatalogRow("community", key, rev, evidence))

(* Field evidence for what was published as documented: a new revision of  *)
(* that map, whether or not it is still listed.                            *)
Promotion(s) ==
    LET old == submission[s].published
    IN  /\ submission[s].status = "published" /\ catalog[old].evidence = "documented"
        /\ ~Taken(catalog[old].key, catalog[old].rev + 1)
        /\ catalog' = Replacing(old, CatalogRow(catalog[old].source, catalog[old].key, catalog[old].rev + 1, "field_verified"))

Publishes(s) ==
    /\ Locked(s) /\ Len(catalog) < MaxTemplates
    /\ Promotion(s) \/ \E evidence \in Evidence : FirstPublication(s, evidence)
    /\ submission' = [submission EXCEPT ![s].status = "published", ![s].published = Len(catalog) + 1]
    /\ publication' = [publication EXCEPT ![s] = NotUnderWay]
    /\ UNCHANGED <<shipped, form>>

\* The number is taken (unique_device_template_catalog_revision), or the review is incomplete.
PublishFails(s) ==
    /\ Locked(s)
    /\ publication' = [publication EXCEPT ![s] = NotUnderWay]
    /\ UNCHANGED <<catalog, submission, shipped, form>>

(* retire_templates.                                                        *)
Retire(t) ==
    /\ t \in CatalogListed
    /\ catalog' = [catalog EXCEPT ![t].current = FALSE, ![t].evidence = "retired"]
    /\ UNCHANGED <<submission, shipped, publication, form>>

-----------------------------------------------------------------------------
Release ==
    /\ shipped < MaxShipped
    /\ shipped' = shipped + 1
    /\ UNCHANGED <<catalog, submission, publication, form>>

(* import_energy_catalog: refused when a listed revision differs from the   *)
(* one stored; else the old seeds are retired, what is missing is created  *)
(* and all but the newest revision leave the list.                         *)
Drifted(rev) == \E t \in DOMAIN catalog : catalog[t].key = "manifest" /\ catalog[t].rev = rev /\ catalog[t].source # "curated"
Newest(rows, key) == Max({rows[t].rev : t \in {u \in DOMAIN rows : rows[u].key = key}})
AllListed(rows) == rows                       \* mutated form
NewestListed(rows) ==
    [t \in DOMAIN rows |-> IF rows[t].key = "manifest" /\ rows[t].rev # Newest(rows, "manifest")
                           THEN [rows[t] EXCEPT !.current = FALSE] ELSE rows[t]]
Import ==
    LET missing == {rev \in 1 .. shipped : ~Taken("manifest", rev)}
        first == shipped - Cardinality(missing)
        created == [i \in 1 .. Cardinality(missing) |-> CatalogRow("curated", "manifest", first + i, "documented")]
        kept == [t \in DOMAIN catalog |-> IF catalog[t].key = "none" THEN [catalog[t] EXCEPT !.current = FALSE, !.evidence = "retired"]
                                          ELSE catalog[t]]
    IN  /\ shipped > 0 /\ Len(catalog) + Cardinality(missing) <= MaxTemplates
        /\ ~\E rev \in 1 .. shipped : Drifted(rev)
        /\ catalog' = NewestListed(kept \o created)
        /\ UNCHANGED <<submission, shipped, publication, form>>

ReviewNext ==
    \/ Release \/ Import
    \/ \E t \in DOMAIN catalog : Retire(t)
    \/ Saves
    \/ \E s \in Submission : \/ Submit(s) \/ Opens(s)
                            \/ PublishReads(s) \/ Publishes(s) \/ PublishFails(s)

ReviewSpec == ReviewInit /\ [][ReviewNext]_reviewVars

-----------------------------------------------------------------------------
(* Whatever reviewers publish and promote, staff retire and releases       *)
(* import, a map that customers may choose is the newest revision of its    *)
(* key, so no key offers two (devices/services.py, visible_templates_for_team). *)
OnlyTheNewestIsOffered ==
    \A t \in DOMAIN catalog : catalog[t].current /\ catalog[t].key # "none" => catalog[t].rev = Newest(catalog, catalog[t].key)

(* No two maps of the one model are offered at once.  The code does not    *)
(* keep this: README.md, "Known divergences".                              *)
OneMapPerModel == Cardinality(CatalogListed) <= 1

(* What a release lists can always be imported.  The code does not keep    *)
(* this: README.md, "Known divergences".                                   *)
ReleasesCanBeImported == ~\E rev \in 1 .. shipped : Drifted(rev)
=============================================================================
