----------------------------- MODULE DatapointMap -----------------------------
(***************************************************************************)
(* The signal map of programmable equipment (datapoint_maps.py) and the    *)
(* customer's side of its live test (deployment_setup.start_validation,    *)
(* devices/views.py device_datapoint_mapping, onboarding step 3).          *)
(*                                                                         *)
(* A checksum covers the map's signals and the equipment's connection, so  *)
(* it is the pair of the two.  The Gateway reads what a command lists and  *)
(* returns the checksum it was sent.  Folding the answer into the map is   *)
(* the setup page's work: GuidedSetup.                                     *)
(***************************************************************************)
EXTENDS Naturals, Sequences

CONSTANTS
    Equipment,     \* site-defined equipment of the run
    Points,        \* what a signal map may list
    Starter,       \* what the template lists
    Connection,    \* connection settings of equipment
    NoSum,         \* the empty checksum
    MaxCommands    \* bound on live tests

ASSUME MapAssumption == MaxCommands \in Nat /\ Starter \in Points

Checksum == Points \X Connection

VARIABLES
    device,     \* [conn, ready]: connection_config; metadata guided_setup_validation = "validated"
    map,        \* DeviceDatapointMap: points, status, tested and confirmed checksum
    row,        \* DeploymentSetupItem: state, mode of its test, validation_command,
                \* customer_confirmed_at, first_telemetry_at
    asking,     \* a validation whose row is saved and whose command is not
    commands    \* deployment_validate commands with the checksum sent and the answer

mapVars == <<device, map, row, asking, commands>>

Mode == {"connection", "datapoints"}
Editable == {"template_selected", "needs_attention", "failed", "validated", "awaiting_confirmation"}
RowState == Editable \cup {"validating", "queued", "applied", "live", "rolled_back"}

MapRecord == [points: Points, status: {"draft", "testing", "awaiting", "needs_attention", "confirmed"},
              tested: Checksum \cup {NoSum}, confirmed: Checksum \cup {NoSum}]
RowRecord == [state: RowState, mode: Mode, command: 0..MaxCommands, reviewed: BOOLEAN, first: BOOLEAN]

MapTypeOK ==
    /\ device \in [Equipment -> [conn: Connection, ready: BOOLEAN]]
    /\ map \in [Equipment -> MapRecord]
    /\ row \in [Equipment -> RowRecord]
    /\ asking \in [Equipment -> [mode: Mode, sum: Checksum] \cup {NoSum}]
    /\ commands \in Seq([of: Equipment, mode: Mode, sum: Checksum, answer: {"none", "success", "failed"}])

MapInit ==
    /\ device \in [Equipment -> [conn: Connection, ready: {FALSE}]]
    /\ map \in [Equipment -> [points: {Starter}, status: {"draft"}, tested: {NoSum}, confirmed: {NoSum}]]
    /\ row = [i \in Equipment |-> [state |-> "template_selected", mode |-> "datapoints", command |-> 0,
                                   reviewed |-> FALSE, first |-> FALSE]]
    /\ asking = [i \in Equipment |-> NoSum]
    /\ commands = << >>

ChecksumAt(m, conn) == <<m.points, conn>>
Current(i) == ChecksumAt(map[i], device[i].conn)

(***************************************************************************)
(* record_device_datapoint_validation, given the map row it read, the      *)
(* connection it believes in and the answer.                               *)
(***************************************************************************)
Covers(tested, current) == tested = current

Recorded(m, conn, command) ==
    LET tested == command.answer = "success" /\ Covers(command.sum, ChecksumAt(m, conn))
    IN  [m EXCEPT !.status = IF tested THEN "awaiting" ELSE "needs_attention",
                  !.tested = IF tested THEN command.sum ELSE NoSum,
                  !.confirmed = NoSum]

\* What effective_register_map lets into a connector configuration.
DeployableOnceConfirmed(i) == map[i].status = "confirmed"
Deployable(i) == map[i].status = "confirmed" /\ map[i].confirmed = Current(i)

-----------------------------------------------------------------------------
\* save, import, clone and rollback of the mapping page: a draft again, with
\* the connection the form sent.
EditMap(i, points, conn) ==
    /\ device' = [device EXCEPT ![i] = [conn |-> conn, ready |-> FALSE]]
    /\ map' = [map EXCEPT ![i] = [points |-> points, status |-> "draft", tested |-> NoSum, confirmed |-> NoSum]]
    /\ row' = [row EXCEPT ![i].state = "template_selected", ![i].mode = "datapoints", ![i].reviewed = FALSE]
    /\ UNCHANGED <<asking, commands>>

\* save_setup_item and retry_setup_item of step 3 touch the equipment, not its map.
EditConnection(i, conn) ==
    /\ row[i].state \in Editable
    /\ device' = [device EXCEPT ![i] = [conn |-> conn, ready |-> FALSE]]
    /\ row' = [row EXCEPT ![i].state = "template_selected", ![i].mode = "datapoints",
                        ![i].command = 0, ![i].reviewed = FALSE]
    /\ UNCHANGED <<map, asking, commands>>

\* start_validation up to its command request: the row and the map are saved.
BeginTest(i, mode) ==
    /\ Len(commands) < MaxCommands
    /\ asking' = [asking EXCEPT ![i] = [mode |-> mode, sum |-> Current(i)]]
    /\ row' = [row EXCEPT ![i].state = "validating", ![i].mode = mode, ![i].reviewed = FALSE]
    /\ map' = IF mode = "datapoints" THEN [map EXCEPT ![i].status = "testing"] ELSE map
    /\ UNCHANGED <<device, commands>>

\* The command is requested with what the row held, and noted in the row.
SendTest(i) ==
    /\ asking[i] # NoSum
    /\ Len(commands) < MaxCommands
    /\ commands' = Append(commands, [of |-> i, mode |-> asking[i].mode, sum |-> asking[i].sum, answer |-> "none"])
    /\ row' = [row EXCEPT ![i].command = Len(commands')]
    /\ asking' = [asking EXCEPT ![i] = NoSum]
    /\ UNCHANGED <<device, map>>

\* request_remote_command raises: the row stays as it was saved.
TestRefused(i) ==
    /\ asking[i] # NoSum
    /\ asking' = [asking EXCEPT ![i] = NoSum]
    /\ UNCHANGED <<device, map, row, commands>>

GatewayAnswers(k) ==
    /\ commands[k].answer = "none"
    /\ \E answer \in {"success", "failed"}: commands' = [commands EXCEPT ![k].answer = answer]
    /\ UNCHANGED <<device, map, row, asking>>

\* confirm_device_datapoint_map; what is confirmed already is left as it is.
Confirmable(i) ==
    \/ Deployable(i)
    \/ map[i].status = "awaiting" /\ Covers(map[i].tested, Current(i))

MapConfirmed(i) == [map EXCEPT ![i].status = "confirmed", ![i].confirmed = Current(i)]

\* confirm of the mapping page does not look at the row's state.
ConfirmMap(i) ==
    /\ Confirmable(i)
    /\ map' = MapConfirmed(i)
    /\ device' = [device EXCEPT ![i].ready = @ \/ ~Deployable(i)]
    /\ row' = [row EXCEPT ![i].state = "validated", ![i].reviewed = FALSE]
    /\ UNCHANGED <<asking, commands>>

\* confirm_setup_item of step 3 does, and notes that the customer confirmed.
ConfirmItem(i) ==
    /\ row[i].state = "awaiting_confirmation"
    /\ Confirmable(i)
    /\ map' = MapConfirmed(i)
    /\ device' = [device EXCEPT ![i].ready = TRUE]
    /\ row' = [row EXCEPT ![i].state = "validated", ![i].reviewed = TRUE]
    /\ UNCHANGED <<asking, commands>>

\* One customer acts at a time: nobody edits while a test is being requested.
\* Equipment that has sent telemetry is no longer edited in step 3.
CustomerActs(heard) ==
    \E i \in Equipment:
        \/ SendTest(i) \/ TestRefused(i)
        \/ /\ \A j \in Equipment: asking[j] = NoSum
           /\ \/ \E p \in Points, c \in Connection: EditMap(i, p, c)
              \/ i \notin heard /\ \E c \in Connection: EditConnection(i, c)
              \/ \E mode \in Mode: BeginTest(i, mode)
              \/ ConfirmMap(i) \/ ConfirmItem(i)

\* The checksums whose signals were read live, all of them, at that connection.
ReadLive == {commands[k].sum: k \in {k \in DOMAIN commands:
                commands[k].mode = "datapoints" /\ commands[k].answer = "success"}}
=============================================================================
