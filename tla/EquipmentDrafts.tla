---------------------------- MODULE EquipmentDrafts ----------------------------
(***************************************************************************)
(* Step 3's rows before their deployment (onboarding/views.py              *)
(* step_3_discover, deployment_setup.create_or_update_candidate_item): the *)
(* customer answers a page that listed the latest scan, and names a row by *)
(* its place in that list, while later reports list other equipment in     *)
(* another order and other pages save the same rows from older copies.     *)
(*                                                                         *)
(* Endpoints are those of Modbus RTU: the interface comes from the report  *)
(* or the row, the unit from the form (the host of Modbus TCP is posted).   *)
(***************************************************************************)
EXTENDS Naturals, Sequences, FiniteSets

CONSTANTS
    Interface, Unit,
    Template,
    MaxRows,      \* bound on rows of the run
    MaxDevices,   \* bound on equipment created
    DeviceLimit,  \* what the plan allows
    DraftPage,    \* requests that can overlap
    Nil           \* no template, no key

ASSUME DraftAssumption ==
    /\ MaxRows \in Nat /\ MaxDevices \in Nat /\ DeviceLimit \in Nat
    /\ Unit # {} /\ Nil \notin Template \cup (Interface \X Unit)

VARIABLES
    listed,       \* endpoints in Gateway.discovery_data["devices"], in order
    draftRows,    \* DeploymentSetupItem, by creation
    made,         \* Devices created so far
    devices,      \* those that exist: the plan counts them
    draftPage     \* what each request shows, was posted and holds in memory

draftVars == <<listed, draftRows, made, devices, draftPage>>

Endpoint == Interface \X Unit
Own == "own"      \* the private template made from signals typed in by hand
UsableTemplate == Template \cup {Own}
RowId == 1 .. MaxRows
NoDevice == 0

DraftRow == [key: Endpoint, conn: Endpoint, template: UsableTemplate \cup {Nil}, device: 0 .. MaxDevices, removed: BOOLEAN,
             state: {"discovered", "template_selected", "validating", "needs_attention"}]

\* A row as the page names it: a place in the list (id 0), or a saved row.
Refs ==
    {[place |-> k, id |-> 0, key |-> listed[k]] : k \in DOMAIN listed}
        \cup {[place |-> 0, id |-> i, key |-> draftRows[i].key] :
                i \in {i \in DOMAIN draftRows : draftRows[i].device = NoDevice /\ ~draftRows[i].removed}}

\* What was posted, and the endpoint the customer saw (or wrote) when posting it.
NoPost == [kind |-> "none", conn |-> Nil, template |-> Nil, meant |-> Nil]
Away == [at |-> "away", ref |-> Nil, post |-> NoPost, id |-> 0, row |-> Nil]

DraftTypeOK ==
    /\ \A k \in DOMAIN listed : listed[k] \in Endpoint
    /\ Len(draftRows) <= MaxRows /\ \A i \in DOMAIN draftRows : draftRows[i] \in DraftRow
    /\ made \in 0 .. MaxDevices /\ devices \subseteq 1 .. made
    /\ \A p \in DraftPage : /\ draftPage[p].id \in 0 .. MaxRows
                            /\ draftPage[p].row \in DraftRow \cup {Nil}

DraftInit ==
    /\ listed = << >> /\ draftRows = << >> /\ made = 0 /\ devices = {}
    /\ draftPage = [p \in DraftPage |-> Away]

\* The consumer stores whatever the Gateway found, one entry per unit it sees.
ReportLists ==
    /\ \E n \in 0 .. 2 : \E found \in [1 .. n -> {<<i, CHOOSE u \in Unit : TRUE>> : i \in Interface}] :
         /\ Cardinality({found[k] : k \in 1 .. n}) = n
         /\ found # listed
         /\ listed' = found
    /\ UNCHANGED <<draftRows, made, devices, draftPage>>

-----------------------------------------------------------------------------
DraftAt(p, point) == draftPage[p].at = point
Stays(p, page) == draftPage' = [draftPage EXCEPT ![p] = page]
Answers(p) == Stays(p, Away)
Copy(p) == draftPage[p].row
Mine(p) == draftPage[p].id

\* The page is shown, and the customer looks at one row of it.
Shows(p) ==
    /\ DraftAt(p, "away")
    /\ \E ref \in Refs : Stays(p, [Away EXCEPT !.at = "shown", !.ref = ref])
    /\ UNCHANGED <<listed, draftRows, made, devices>>

(* _candidate_for_ref: the place must still hold the endpoint it was shown *)
(* with, the saved row must still be a draft; with it comes the row of that *)
(* endpoint, when it is a draft.                                           *)
StillListed(ref) == ref.place \in DOMAIN listed   \* mutated form of StillThere
StillThere(ref) == ref.place \in DOMAIN listed /\ listed[ref.place] = ref.key
StillDraft(ref) == ref.id \in DOMAIN draftRows /\ draftRows[ref.id].device = NoDevice /\ ~draftRows[ref.id].removed /\ draftRows[ref.id].key = ref.key

Found(ref) == IF ref.id # 0 THEN draftRows[ref.id].conn ELSE listed[ref.place]
DraftsOf(key) == {i \in DOMAIN draftRows : draftRows[i].key = key /\ draftRows[i].device = NoDevice /\ ~draftRows[i].removed}
RowsOf(key) == {i \in DOMAIN draftRows : draftRows[i].key = key}
Only(ids) == IF ids = {} THEN 0 ELSE CHOOSE i \in ids : TRUE   \* unique_setup_candidate_key_per_run

\* Post a draft, a live check or a removal of the row on show.
Posts(p) ==
    LET ref == draftPage[p].ref
        id == IF ref.id # 0 THEN ref.id ELSE Only(DraftsOf(listed[ref.place]))
    IN  /\ DraftAt(p, "shown")
        /\ IF ref.id # 0 THEN StillDraft(ref) ELSE StillThere(ref)
        /\ \E kind \in {"draft", "test"}, u \in Unit, t \in Template \cup {Nil} :
             /\ kind = "test" => ref.id = 0 /\ t # Nil
             /\ Stays(p, [Away EXCEPT !.at = "posted", !.id = id, !.row = IF id = 0 THEN Nil ELSE draftRows[id],
                     !.post = [kind |-> kind, conn |-> <<Found(ref)[1], u>>, template |-> t, meant |-> <<ref.key[1], u>>]])
        /\ UNCHANGED <<listed, draftRows, made, devices>>

Refuses(p) ==
    LET ref == draftPage[p].ref
    IN  /\ DraftAt(p, "shown")
        /\ ~(IF ref.id # 0 THEN StillDraft(ref) ELSE StillThere(ref))
        /\ Answers(p)
        /\ UNCHANGED <<listed, draftRows, made, devices>>

RemovesDraft(p) ==
    LET ref == draftPage[p].ref
    IN  /\ DraftAt(p, "shown") /\ ref.id # 0 /\ StillDraft(ref)
        /\ draftRows' = [draftRows EXCEPT ![ref.id].removed = TRUE]
        /\ Answers(p)
        /\ UNCHANGED <<listed, made, devices>>

(* create_or_update_candidate_item: the row found before, else the row of   *)
(* the posted endpoint whatever became of it, else a new one, unless        *)
(* another row has the endpoint; every column is saved.                     *)
Blank == [key |-> Nil, conn |-> Nil, template |-> Nil, device |-> NoDevice, removed |-> FALSE, state |-> "discovered"]

SavesRow(p) ==
    LET conn == draftPage[p].post.conn
        id == IF Mine(p) # 0 THEN Mine(p) ELSE Only(RowsOf(conn))
        old == IF Mine(p) # 0 THEN Copy(p) ELSE IF id # 0 THEN draftRows[id] ELSE Blank
        new == [old EXCEPT !.key = conn, !.conn = conn, !.removed = FALSE]
    IN  /\ DraftAt(p, "posted")
        /\ IF RowsOf(conn) \ {id} # {} \/ (id = 0 /\ Len(draftRows) = MaxRows)
           THEN Answers(p) /\ UNCHANGED draftRows
           ELSE /\ draftRows' = IF id = 0 THEN Append(draftRows, new) ELSE [draftRows EXCEPT ![id] = new]
                /\ Stays(p, [draftPage[p] EXCEPT !.at = "saved", !.id = IF id = 0 THEN Len(draftRows) + 1 ELSE id, !.row = new])
        /\ UNCHANGED <<listed, made, devices>>

\* A draft: the second save, of four columns.
SavesDraft(p) ==
    LET post == draftPage[p].post
    IN  /\ DraftAt(p, "saved") /\ post.kind = "draft"
        /\ draftRows' = [draftRows EXCEPT ![Mine(p)].conn = post.conn, ![Mine(p)].template = post.template,
                       ![Mine(p)].state = IF post.template = Nil THEN "discovered" ELSE "template_selected"]
        /\ Answers(p)
        /\ UNCHANGED <<listed, made, devices>>

\* A row cannot refer to equipment that was deleted (its foreign key).
Storable(row) == row.device \in devices \cup {NoDevice}

\* A live check: the equipment, within the plan's limit ...
Prepares(p) ==
    LET kept == [Copy(p) EXCEPT !.device = IF @ = NoDevice THEN made + 1 ELSE @]
    IN  /\ DraftAt(p, "saved") /\ draftPage[p].post.kind = "test"
        /\ IF Copy(p).device = NoDevice
           THEN IF Cardinality(devices) >= DeviceLimit
                THEN Answers(p) /\ UNCHANGED <<draftRows, made, devices>>
                ELSE /\ made < MaxDevices
                     /\ made' = made + 1 /\ devices' = devices \cup {made'}
                     /\ draftRows' = [draftRows EXCEPT ![Mine(p)].device = made', ![Mine(p)].conn = kept.conn]
                     /\ Stays(p, [draftPage[p] EXCEPT !.at = "prepared", !.row = kept])
           ELSE /\ Stays(p, [draftPage[p] EXCEPT !.at = "prepared"])
                /\ UNCHANGED <<draftRows, made, devices>>
        /\ UNCHANGED <<listed>>

\* ... and start_validation, which saves the whole row and asks for the check.
Tests(p) ==
    LET row == [Copy(p) EXCEPT !.template = draftPage[p].post.template, !.state = "validating"]
    IN  /\ DraftAt(p, "prepared")
        /\ IF Storable(row)
           THEN draftRows' = [draftRows EXCEPT ![Mine(p)] = row]
           ELSE UNCHANGED draftRows
        /\ Answers(p)
        /\ UNCHANGED <<listed, made, devices>>

-----------------------------------------------------------------------------
Unsettled(row) == row.device # NoDevice /\ ~row.removed /\ row.state # "validating"

\* save_setup_item, retry_setup_item, clear_setup_template: the row is read ...
Edits(p) ==
    /\ DraftAt(p, "away")
    /\ \E i \in DOMAIN draftRows, u \in Unit, t \in Template \cup {Nil}, kind \in {"edit", "retry"} :
         /\ Unsettled(draftRows[i]) /\ (kind = "retry" => t # Nil)
         /\ LET conn == <<draftRows[i].conn[1], u>>
            IN  Stays(p, [Away EXCEPT !.at = "editing", !.id = i, !.row = [draftRows[i] EXCEPT !.conn = conn],
                             !.post = [kind |-> kind, conn |-> conn, template |-> t, meant |-> conn]])
    /\ UNCHANGED <<listed, draftRows, made, devices>>

\* ... and saved whole; without a template its equipment is deleted.
SavesEdit(p) ==
    LET t == draftPage[p].post.template
        row == [Copy(p) EXCEPT !.template = t, !.device = IF t = Nil THEN NoDevice ELSE @,
                               !.state = IF t = Nil THEN "discovered" ELSE "template_selected"]
    IN  /\ DraftAt(p, "editing")
        /\ IF Storable(row)
           THEN /\ draftRows' = [draftRows EXCEPT ![Mine(p)] = row]
                /\ devices' = IF t = Nil THEN devices \ {Copy(p).device} ELSE devices
                /\ IF draftPage[p].post.kind = "retry" THEN Stays(p, [draftPage[p] EXCEPT !.at = "prepared", !.row = row])
                                                       ELSE Answers(p)
           ELSE Answers(p) /\ UNCHANGED <<draftRows, devices>>
        /\ UNCHANGED <<listed, made>>

\* restart_setup_item, under the row's lock.
Restarts(i) ==
    /\ i \in DOMAIN draftRows /\ Unsettled(draftRows[i])
    /\ draftRows' = [draftRows EXCEPT ![i] = [@ EXCEPT !.device = NoDevice, !.template = Nil, !.state = "discovered", !.removed = TRUE]]
    /\ devices' = devices \ {draftRows[i].device}
    /\ UNCHANGED <<listed, made, draftPage>>

\* Signals typed in by hand, for any endpoint: the checks and the equipment with
\* its own template ...
TypesIn(p) ==
    /\ DraftAt(p, "shown")
    /\ LET ref == draftPage[p].ref
       IN  IF ref.id # 0 THEN StillDraft(ref) ELSE StillThere(ref)
    /\ \E conn \in Endpoint :
         LET ref == draftPage[p].ref
             draft == IF ref.id # 0 THEN ref.id ELSE Only(DraftsOf(listed[ref.place]))
             id == IF draft # 0 THEN draft ELSE Only({i \in RowsOf(conn) : ~draftRows[i].removed})
             device == IF id = 0 THEN NoDevice ELSE draftRows[id].device
         IN  /\ RowsOf(conn) \ {id} = {}
             /\ device = NoDevice => Cardinality(devices) < DeviceLimit /\ made < MaxDevices
             /\ made' = IF device = NoDevice THEN made + 1 ELSE made
             /\ devices' = IF device = NoDevice THEN devices \cup {made'} ELSE devices
             /\ Stays(p, [Away EXCEPT !.at = "typed", !.id = id,
                     !.row = [IF id = 0 THEN Blank ELSE draftRows[id] EXCEPT
                                !.key = conn, !.conn = conn, !.device = IF device = NoDevice THEN made' ELSE device,
                                !.template = Own, !.state = "template_selected", !.removed = FALSE]])
    /\ UNCHANGED <<listed, draftRows>>

\* ... then the whole row, unless its endpoint was taken in between.
SavesTyped(p) ==
    LET id == IF Mine(p) # 0 THEN Mine(p) ELSE Only(RowsOf(Copy(p).key))
    IN  /\ DraftAt(p, "typed")
        /\ draftRows' = IF RowsOf(Copy(p).key) \ {id} # {} \/ ~Storable(Copy(p)) \/ (id = 0 /\ Len(draftRows) = MaxRows) THEN draftRows
                   ELSE IF id = 0 THEN Append(draftRows, Copy(p)) ELSE [draftRows EXCEPT ![id] = Copy(p)]
        /\ Answers(p)
        /\ UNCHANGED <<listed, made, devices>>

\* sync_setup_run judges the check (GuidedSetup).
CheckFails(i) ==
    /\ i \in DOMAIN draftRows /\ draftRows[i].state = "validating"
    /\ draftRows' = [draftRows EXCEPT ![i].state = "needs_attention"]
    /\ UNCHANGED <<listed, made, devices, draftPage>>

DraftNext ==
    \/ ReportLists
    \/ \E p \in DraftPage :
         \/ Shows(p) \/ Posts(p) \/ Refuses(p) \/ RemovesDraft(p)
         \/ SavesRow(p) \/ SavesDraft(p) \/ Prepares(p) \/ Tests(p)
         \/ TypesIn(p) \/ SavesTyped(p) \/ Edits(p) \/ SavesEdit(p)
    \/ \E i \in RowId : Restarts(i) \/ CheckFails(i)

DraftSpec == DraftInit /\ [][DraftNext]_draftVars

-----------------------------------------------------------------------------
(* A live check reads an equipment with the template the customer chose for *)
(* it: "The equipment list changed after this page loaded. Review it again  *)
(* before saving." (_candidate_for_ref), whatever was scanned, saved or     *)
(* edited since the page was shown.                                        *)
ChecksUseChosenTemplates ==
    \A p \in DraftPage : DraftAt(p, "prepared") => Copy(p).conn = draftPage[p].post.meant

(* One row, one equipment, and no more than the plan allows.                *)
(* The code does not keep this: README.md, "Known divergences".            *)
PlanLimitHolds == Cardinality(devices) <= DeviceLimit
=============================================================================
