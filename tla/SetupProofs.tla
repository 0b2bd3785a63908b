------------------------------ MODULE SetupProofs -----------------------------
(***************************************************************************)
(* What Guided Setup sends to a gateway, for any equipment, signal maps,   *)
(* connections, live tests, revisions and overlapping pages; and which     *)
(* settings a change of plan leaves the gateways with.                     *)
(***************************************************************************)
EXTENDS GuidedSetup, PlanReconciliation, FiniteSetTheorems, SequenceTheorems, TLAPS

DeviceRecord == [conn: Connection, ready: BOOLEAN]
Asked == [mode: Mode, sum: Checksum] \cup {NoSum}
CommandRecord == [of: Equipment, mode: Mode, sum: Checksum, answer: {"none", "success", "failed"}]

(* A map is awaiting its confirmation, and confirmed, with the checksum of *)
(* signals that were read live.                                            *)
WasRead(m) ==
    /\ m.status = "awaiting" => m.tested \in ReadLive
    /\ m.status = "confirmed" => m.confirmed \in ReadLive

MapInvariant ==
    /\ MapTypeOK
    /\ \A i \in Equipment : WasRead(map[i])
    /\ \A i \in Equipment : row[i].command <= Len(commands)

(* The fields of a page's memory, and what it holds of the tests: rows     *)
(* name commands that were sent, and a map is read for the answer of a     *)
(* test of signals.                                                        *)
PagePoint == {"idle", "restore", "rows", "test", "conclude", "review", "mark"}
ConfigSeen == [status: ConfigStatus \cup {"none"}, overdue: BOOLEAN]
RowsHeld == UNION {[D -> LoadedRow] : D \in SUBSET Equipment}
ReadMap == [of: Equipment, map: MapRecord]
MapHeld == ReadMap \cup {NoSum}
SetsHeld == SUBSET Equipment

PageRecord == [at: PagePoint, run: RunState, config: ConfigSeen, rows: RowsHeld, left: SetsHeld,
               test: MapHeld, taken: SetsHeld]

TestsSignals(r) == r.command # 0 /\ commands[r.command].mode = "datapoints"

HoldsSent(x) ==
    /\ x.left \subseteq DOMAIN x.rows
    /\ \A i \in DOMAIN x.rows : x.rows[i].row.command <= Len(commands)
    /\ x.at = "test" => x.test \in ReadMap /\ x.test.of \in DOMAIN x.rows /\ TestsSignals(x.rows[x.test.of].row)

PagesInvariant ==
    /\ page \in [Page -> PageRecord]
    /\ \A p \in Page : HoldsSent(page[p])

Payloads == UNION {[D -> Checksum] : D \in SUBSET Equipment}
ConfigRecord == [status: ConfigStatus, payload: Payloads, overdue: BOOLEAN]

ConfigsInvariant ==
    /\ run \in RunState
    /\ configs \in Seq(ConfigRecord)
    /\ DeployedWasReadLive

SetupInvariant == MapInvariant /\ PagesInvariant /\ ConfigsInvariant

-----------------------------------------------------------------------------
(* Saving some of a record's fields.                                       *)
LEMMA RowFields ==
  ASSUME NEW S, NEW M, NEW N, NEW B, NEW r \in [state: S, mode: M, command: N, reviewed: B, first: B],
         NEW s \in S, NEW m \in M, NEW n \in N, NEW b \in B, NEW f \in B
  PROVE  /\ [r EXCEPT !.state = s] \in [state: S, mode: M, command: N, reviewed: B, first: B]
         /\ [r EXCEPT !.state = s].command = r.command
         /\ [r EXCEPT !.state = s, !.mode = m, !.reviewed = b] \in [state: S, mode: M, command: N, reviewed: B, first: B]
         /\ [r EXCEPT !.state = s, !.mode = m, !.reviewed = b].command = r.command
         /\ [r EXCEPT !.state = s, !.mode = m, !.command = n, !.reviewed = b] \in [state: S, mode: M, command: N, reviewed: B, first: B]
         /\ [r EXCEPT !.state = s, !.mode = m, !.command = n, !.reviewed = b].command = n
         /\ [r EXCEPT !.state = s, !.reviewed = b] \in [state: S, mode: M, command: N, reviewed: B, first: B]
         /\ [r EXCEPT !.state = s, !.reviewed = b].command = r.command
         /\ [r EXCEPT !.command = n] \in [state: S, mode: M, command: N, reviewed: B, first: B]
         /\ [r EXCEPT !.command = n].command = n
         /\ [r EXCEPT !.state = s, !.first = f] \in [state: S, mode: M, command: N, reviewed: B, first: B]
         /\ [r EXCEPT !.state = s, !.first = f].command = r.command
  OBVIOUS

LEMMA MapFields ==
  ASSUME NEW P, NEW S, NEW C, NEW m \in [points: P, status: S, tested: C, confirmed: C],
         NEW s \in S, NEW t \in C, NEW c \in C
  PROVE  /\ [m EXCEPT !.status = s] \in [points: P, status: S, tested: C, confirmed: C]
         /\ [m EXCEPT !.status = s].status = s
         /\ [m EXCEPT !.status = s, !.tested = t, !.confirmed = c] \in [points: P, status: S, tested: C, confirmed: C]
         /\ [m EXCEPT !.status = s, !.tested = t, !.confirmed = c].status = s
         /\ [m EXCEPT !.status = s, !.tested = t, !.confirmed = c].tested = t
         /\ [m EXCEPT !.status = s, !.confirmed = c] \in [points: P, status: S, tested: C, confirmed: C]
         /\ [m EXCEPT !.status = s, !.confirmed = c].status = s
         /\ [m EXCEPT !.status = s, !.confirmed = c].confirmed = c
  OBVIOUS

LEMMA PageFields ==
  ASSUME NEW A, NEW R, NEW C, NEW W, NEW L, NEW T,
         NEW x \in [at: A, run: R, config: C, rows: W, left: L, test: T, taken: L],
         NEW a \in A, NEW u \in R, NEW c \in C, NEW w \in W, NEW l \in L, NEW t \in T
  PROVE  /\ [x EXCEPT !.at = a] \in [at: A, run: R, config: C, rows: W, left: L, test: T, taken: L]
         /\ [x EXCEPT !.at = a].at = a
         /\ [x EXCEPT !.at = a].rows = x.rows
         /\ [x EXCEPT !.at = a].left = x.left
         /\ [x EXCEPT !.at = a, !.run = u, !.config = c] \in [at: A, run: R, config: C, rows: W, left: L, test: T, taken: L]
         /\ [x EXCEPT !.at = a, !.run = u, !.config = c].at = a
         /\ [x EXCEPT !.at = a, !.run = u, !.config = c].rows = x.rows
         /\ [x EXCEPT !.at = a, !.run = u, !.config = c].left = x.left
         /\ [x EXCEPT !.at = a, !.left = l, !.rows = w] \in [at: A, run: R, config: C, rows: W, left: L, test: T, taken: L]
         /\ [x EXCEPT !.at = a, !.left = l, !.rows = w].at = a
         /\ [x EXCEPT !.at = a, !.left = l, !.rows = w].rows = w
         /\ [x EXCEPT !.at = a, !.left = l, !.rows = w].left = l
         /\ [x EXCEPT !.left = l] \in [at: A, run: R, config: C, rows: W, left: L, test: T, taken: L]
         /\ [x EXCEPT !.left = l].at = x.at
         /\ [x EXCEPT !.left = l].rows = x.rows
         /\ [x EXCEPT !.left = l].left = l
         /\ [x EXCEPT !.at = a, !.test = t] \in [at: A, run: R, config: C, rows: W, left: L, test: T, taken: L]
         /\ [x EXCEPT !.at = a, !.test = t].test = t
         /\ [x EXCEPT !.at = a, !.test = t].rows = x.rows
         /\ [x EXCEPT !.at = a, !.test = t].left = x.left
         /\ [x EXCEPT !.at = a, !.test = t, !.left = l] \in [at: A, run: R, config: C, rows: W, left: L, test: T, taken: L]
         /\ [x EXCEPT !.at = a, !.test = t, !.left = l].at = a
         /\ [x EXCEPT !.at = a, !.test = t, !.left = l].rows = x.rows
         /\ [x EXCEPT !.at = a, !.test = t, !.left = l].left = l
         /\ [x EXCEPT !.at = a, !.taken = l] \in [at: A, run: R, config: C, rows: W, left: L, test: T, taken: L]
         /\ [x EXCEPT !.at = a, !.taken = l].at = a
         /\ [x EXCEPT !.at = a, !.taken = l].rows = x.rows
         /\ [x EXCEPT !.at = a, !.taken = l].left = x.left
  OBVIOUS

-----------------------------------------------------------------------------
(* A command keeps what it was sent with, and its answer once it has one.  *)
CommandsKept ==
    /\ Len(commands') \in Nat /\ Len(commands') >= Len(commands)
    /\ \A k \in DOMAIN commands :
          /\ k \in DOMAIN commands'
          /\ commands'[k].mode = commands[k].mode /\ commands'[k].sum = commands[k].sum
          /\ commands[k].answer # "none" => commands'[k].answer = commands[k].answer

LEMMA ReadLiveGrows == ASSUME CommandsKept PROVE ReadLive \subseteq ReadLive'
  BY DEF CommandsKept, ReadLive

LEMMA CommandsAre ==
  ASSUME MapTypeOK
  PROVE  /\ commands \in Seq(CommandRecord) /\ Len(commands) \in Nat /\ DOMAIN commands = 1 .. Len(commands)
         /\ \A k \in DOMAIN commands : commands[k] \in CommandRecord
  <1>1. commands \in Seq(CommandRecord)
    BY DEF MapTypeOK, CommandRecord
  <1> HIDE DEF CommandRecord
  <1>2. Len(commands) \in Nat /\ DOMAIN commands = 1 .. Len(commands)
    BY <1>1, LenProperties
  <1>3. \A k \in DOMAIN commands : commands[k] \in CommandRecord
    BY <1>1, <1>2, ElementOfSeq
  <1> QED BY <1>1, <1>2, <1>3

(* Pages and configurations that nobody touches, while commands are sent   *)
(* and answered.                                                           *)
LEMMA CommandsKeepPages ==
  ASSUME MapTypeOK, PagesInvariant, CommandsKept, page' = page PROVE PagesInvariant'
  <1>1. Len(commands) \in Nat /\ DOMAIN commands = 1 .. Len(commands)
    BY CommandsAre
  <1>2. ASSUME NEW p \in Page PROVE HoldsSent(page[p])'
    <2> PICK x \in PageRecord : x = page[p]
      BY DEF PagesInvariant
    <2>1. HoldsSent(x)
      BY DEF PagesInvariant
    <2>2. \A i \in DOMAIN x.rows : x.rows[i] \in LoadedRow
      BY DEF PageRecord, RowsHeld
    <2>3. \A i \in DOMAIN x.rows : x.rows[i].row.command \in 0 .. MaxCommands
      BY <2>2 DEF LoadedRow, RowRecord
    <2>4. \A i \in DOMAIN x.rows : x.rows[i].row.command <= Len(commands')
      BY <1>1, <2>1, <2>3, MapAssumption DEF HoldsSent, CommandsKept
    <2>5. ASSUME NEW i \in DOMAIN x.rows, TestsSignals(x.rows[i].row) PROVE TestsSignals(x.rows[i].row)'
      <3>1. x.rows[i].row.command \in DOMAIN commands
        <4>1. x.rows[i].row.command <= Len(commands)
          BY <2>1 DEF HoldsSent
        <4>2. x.rows[i].row.command \in Nat
          BY <2>3, MapAssumption
        <4>3. x.rows[i].row.command # 0
          BY <2>5 DEF TestsSignals
        <4>4. QED BY <1>1, <4>1, <4>2, <4>3
      <3> QED BY <2>5, <3>1 DEF TestsSignals, CommandsKept
    <2>6. x.at = "test" => TestsSignals(x.rows[x.test.of].row)'
      BY <2>1, <2>5 DEF HoldsSent
    <2>7. HoldsSent(x)'
      BY <2>1, <2>4, <2>6 DEF HoldsSent, TestsSignals
    <2> QED BY <2>7 DEF HoldsSent, TestsSignals
  <1> QED BY <1>2 DEF PagesInvariant

LEMMA CommandsKeepConfigs ==
  ASSUME ConfigsInvariant, CommandsKept, UNCHANGED <<run, configs>> PROVE ConfigsInvariant'
  BY ReadLiveGrows DEF ConfigsInvariant, DeployedWasReadLive

LEMMA UnchangedKept == ASSUME MapTypeOK, commands' = commands PROVE CommandsKept /\ ReadLive' = ReadLive
  BY CommandsAre DEF CommandsKept, ReadLive

(* What one request saves of one piece of equipment.                       *)
LEMMA SavesKeepMaps ==
  ASSUME MapInvariant, NEW i \in Equipment,
         NEW d \in DeviceRecord, NEW m \in MapRecord, WasRead(m), NEW r \in RowRecord, r.command <= Len(commands),
         device' = [device EXCEPT ![i] = d], map' = [map EXCEPT ![i] = m], row' = [row EXCEPT ![i] = r],
         asking' \in [Equipment -> Asked], commands' = commands
  PROVE  MapInvariant'
  <1>1. MapTypeOK'
    BY DEF MapInvariant, MapTypeOK, Asked, DeviceRecord
  <1>2. ReadLive' = ReadLive
    BY DEF ReadLive
  <1>3. \A k \in Equipment : WasRead(map[k])'
    BY <1>2 DEF MapInvariant, MapTypeOK, WasRead
  <1>4. \A k \in Equipment : row'[k].command <= Len(commands')
    BY DEF MapInvariant, MapTypeOK
  <1> QED BY <1>1, <1>3, <1>4 DEF MapInvariant

-----------------------------------------------------------------------------
(* The customer's side and the Gateway's answers.                          *)
LEMMA CurrentIsChecksum ==
  ASSUME MapTypeOK, NEW i \in Equipment PROVE Current(i) \in Checksum
  BY DEF MapTypeOK, MapRecord, Current, ChecksumAt, Checksum

LEMMA CustomerKeepsMaps ==
  ASSUME MapInvariant, NEW i \in Equipment,
         \/ TestRefused(i) \/ ConfirmMap(i) \/ ConfirmItem(i)
         \/ \E p \in Points, c \in Connection : EditMap(i, p, c)
         \/ \E c \in Connection : EditConnection(i, c)
         \/ \E mode \in Mode : BeginTest(i, mode)
  PROVE  MapInvariant' /\ commands' = commands
  <1>1. /\ device \in [Equipment -> DeviceRecord] /\ device[i] \in DeviceRecord
        /\ map \in [Equipment -> MapRecord] /\ map[i] \in MapRecord
        /\ row \in [Equipment -> RowRecord] /\ row[i] \in RowRecord /\ row[i].command <= Len(commands)
        /\ asking \in [Equipment -> Asked] /\ WasRead(map[i])
        /\ device = [device EXCEPT ![i] = device[i]] /\ map = [map EXCEPT ![i] = map[i]] /\ row = [row EXCEPT ![i] = row[i]]
    BY DEF MapInvariant, MapTypeOK, DeviceRecord, Asked
  <1>2. Len(commands) \in Nat /\ commands' = commands
    BY CommandsAre DEF MapInvariant, TestRefused, ConfirmMap, ConfirmItem, EditMap, EditConnection, BeginTest
  <1>3. /\ {"template_selected", "validating", "validated"} \subseteq RowState /\ Mode = {"connection", "datapoints"}
        /\ 0 \in 0 .. MaxCommands /\ NoSum \in Checksum \cup {NoSum}
    BY MapAssumption DEF RowState, Editable, Mode
  <1>4. CASE TestRefused(i)
    <2>1. asking' \in [Equipment -> Asked] /\ UNCHANGED <<device, map, row>>
      BY <1>1, <1>4 DEF TestRefused, Asked
    <2> QED BY <1>1, <1>2, <2>1, SavesKeepMaps
  <1>5. ASSUME NEW p \in Points, NEW c \in Connection, EditMap(i, p, c) PROVE MapInvariant'
    <2>1. PICK d : d = [conn |-> c, ready |-> FALSE]
      OBVIOUS
    <2>2. PICK m : m = [points |-> p, status |-> "draft", tested |-> NoSum, confirmed |-> NoSum]
      OBVIOUS
    <2>3. PICK r : r = [row[i] EXCEPT !.state = "template_selected", !.mode = "datapoints", !.reviewed = FALSE]
      OBVIOUS
    <2>4. d \in DeviceRecord /\ m \in MapRecord /\ WasRead(m)
      BY <2>1, <2>2 DEF DeviceRecord, MapRecord, WasRead
    <2>5. r \in RowRecord /\ r.command = row[i].command
      BY <1>1, <1>3, <2>3, RowFields DEF RowRecord
    <2>6. device' = [device EXCEPT ![i] = d] /\ map' = [map EXCEPT ![i] = m] /\ asking' = asking
      BY <1>5, <2>1, <2>2 DEF EditMap
    <2>7. row' = [row EXCEPT ![i] = r]
      BY <1>1, <1>5, <2>3 DEF EditMap
    <2> QED BY <1>1, <1>2, <2>4, <2>5, <2>6, <2>7, SavesKeepMaps
  <1>6. ASSUME NEW c \in Connection, EditConnection(i, c) PROVE MapInvariant'
    <2>1. PICK d : d = [conn |-> c, ready |-> FALSE]
      OBVIOUS
    <2>2. PICK r : r = [row[i] EXCEPT !.state = "template_selected", !.mode = "datapoints", !.command = 0, !.reviewed = FALSE]
      OBVIOUS
    <2>3. d \in DeviceRecord
      BY <2>1 DEF DeviceRecord
    <2>4. r \in RowRecord /\ r.command = 0
      BY <1>1, <1>3, <2>2, RowFields DEF RowRecord
    <2>5. r.command <= Len(commands)
      BY <1>2, <2>4
    <2>6. device' = [device EXCEPT ![i] = d] /\ map' = map /\ asking' = asking
      BY <1>6, <2>1 DEF EditConnection
    <2>7. row' = [row EXCEPT ![i] = r]
      BY <1>1, <1>6, <2>2 DEF EditConnection
    <2> QED BY <1>1, <1>2, <2>3, <2>4, <2>5, <2>6, <2>7, SavesKeepMaps
  <1>7. ASSUME NEW mode \in Mode, BeginTest(i, mode) PROVE MapInvariant'
    <2>1. PICK m : m = IF mode = "datapoints" THEN [map[i] EXCEPT !.status = "testing"] ELSE map[i]
      OBVIOUS
    <2>2. PICK r : r = [row[i] EXCEPT !.state = "validating", !.mode = mode, !.reviewed = FALSE]
      OBVIOUS
    <2>3. m \in MapRecord /\ (m = map[i] \/ m.status = "testing")
      BY <1>1, <2>1, MapFields DEF MapRecord
    <2>4. WasRead(m)
      BY <1>1, <2>3 DEF WasRead
    <2>5. r \in RowRecord /\ r.command = row[i].command
      BY <1>1, <1>3, <2>2, RowFields DEF RowRecord
    <2>6. map' = [map EXCEPT ![i] = m]
      BY <1>1, <1>7, <2>1 DEF BeginTest
    <2>7. row' = [row EXCEPT ![i] = r] /\ device' = device
      <3>1. row' = [row EXCEPT ![i].state = "validating", ![i].mode = mode, ![i].reviewed = FALSE] /\ device' = device
        BY <1>7, Zenon DEF BeginTest
      <3>2. [row EXCEPT ![i].state = "validating", ![i].mode = mode, ![i].reviewed = FALSE] = [row EXCEPT ![i] = r]
        BY <1>1, <2>2
      <3> QED BY <3>1, <3>2
    <2>8. asking' \in [Equipment -> Asked]
      BY <1>1, <1>7, CurrentIsChecksum DEF BeginTest, Asked, MapInvariant
    <2> QED BY <1>1, <1>2, <2>3, <2>4, <2>5, <2>6, <2>7, <2>8, SavesKeepMaps
  <1>8. CASE ConfirmMap(i) \/ ConfirmItem(i)
    <2>1. PICK m : m = [map[i] EXCEPT !.status = "confirmed", !.confirmed = Current(i)]
      OBVIOUS
    <2>2. m \in MapRecord /\ m.status = "confirmed" /\ m.confirmed = Current(i)
      BY <1>1, <2>1, MapFields, CurrentIsChecksum DEF MapRecord, MapInvariant
    <2>3. Current(i) \in ReadLive
      BY <1>1, <1>8 DEF ConfirmMap, ConfirmItem, Confirmable, Deployable, Covers, WasRead
    <2>4. WasRead(m)
      BY <2>2, <2>3 DEF WasRead
    <2>5. map' = [map EXCEPT ![i] = m] /\ asking' = asking
      BY <1>1, <1>8, <2>1 DEF ConfirmMap, ConfirmItem, MapConfirmed
    <2>6. PICK b \in BOOLEAN : device' = [device EXCEPT ![i].ready = b]
      BY <1>1, <1>8 DEF ConfirmMap, ConfirmItem, DeviceRecord, Deployable
    <2>7. PICK d : d = [device[i] EXCEPT !.ready = b]
      OBVIOUS
    <2>8. d \in DeviceRecord /\ device' = [device EXCEPT ![i] = d]
      BY <1>1, <2>6, <2>7 DEF DeviceRecord
    <2>9. PICK b2 \in BOOLEAN : row' = [row EXCEPT ![i].state = "validated", ![i].reviewed = b2]
      BY <1>8 DEF ConfirmMap, ConfirmItem
    <2>10. PICK r : r = [row[i] EXCEPT !.state = "validated", !.reviewed = b2]
      OBVIOUS
    <2>11. r \in RowRecord /\ r.command = row[i].command
      BY <1>1, <1>3, <2>10, RowFields DEF RowRecord
    <2>12. row' = [row EXCEPT ![i] = r]
      BY <1>1, <2>9, <2>10
    <2> QED BY <1>1, <1>2, <2>2, <2>4, <2>5, <2>8, <2>11, <2>12, SavesKeepMaps
  <1> QED BY <1>2, <1>4, <1>5, <1>6, <1>7, <1>8

LEMMA SendKeepsMaps ==
  ASSUME MapInvariant, NEW i \in Equipment, SendTest(i)
  PROVE  MapInvariant' /\ CommandsKept
  <1>1. /\ row \in [Equipment -> RowRecord] /\ row[i] \in RowRecord
        /\ asking \in [Equipment -> Asked] /\ asking[i] \in [mode: Mode, sum: Checksum]
        /\ \A k \in Equipment : row[k].command \in Nat /\ row[k].command <= Len(commands)
    <2>1. row \in [Equipment -> RowRecord] /\ asking \in [Equipment -> Asked]
      BY DEF MapInvariant, MapTypeOK, Asked
    <2>2. asking[i] # NoSum
      BY DEF SendTest
    <2> QED BY <2>1, <2>2, MapAssumption DEF MapInvariant, RowRecord, Asked
  <1>2. commands \in Seq(CommandRecord) /\ Len(commands) \in Nat /\ DOMAIN commands = 1 .. Len(commands)
    BY CommandsAre DEF MapInvariant
  <1>3. PICK c : c = [of |-> i, mode |-> asking[i].mode, sum |-> asking[i].sum, answer |-> "none"]
    OBVIOUS
  <1>4. c \in CommandRecord
    BY <1>1, <1>3 DEF CommandRecord
  <1> HIDE DEF CommandRecord
  <1>5. commands' = Append(commands, c)
    BY <1>3 DEF SendTest
  <1>6. /\ commands' \in Seq(CommandRecord) /\ Len(commands') = Len(commands) + 1
        /\ DOMAIN commands' = 1 .. Len(commands) + 1
        /\ \A k \in 1 .. Len(commands) : commands'[k] = commands[k]
    BY <1>2, <1>4, <1>5, AppendProperties
  <1>7. CommandsKept
    BY <1>2, <1>6 DEF CommandsKept
  <1>8. Len(commands') \in 0 .. MaxCommands
    BY <1>2, <1>6, MapAssumption DEF SendTest
  <1>9. PICK r : r = [row[i] EXCEPT !.command = Len(commands')]
    OBVIOUS
  <1>10. r \in RowRecord /\ r.command = Len(commands')
    BY <1>1, <1>8, <1>9, RowFields DEF RowRecord
  <1>11. row' = [row EXCEPT ![i] = r] /\ UNCHANGED <<device, map>>
    BY <1>9 DEF SendTest
  <1>12. asking' \in [Equipment -> Asked]
    BY <1>1 DEF SendTest, Asked
  <1>13. MapTypeOK'
    BY <1>1, <1>6, <1>10, <1>11, <1>12 DEF MapInvariant, MapTypeOK, Asked, CommandRecord
  <1>14. \A k \in Equipment : WasRead(map[k])'
    BY <1>7, <1>11, ReadLiveGrows DEF MapInvariant, WasRead
  <1>15. \A k \in Equipment : row'[k].command <= Len(commands')
    BY <1>1, <1>2, <1>6, <1>10, <1>11
  <1> QED BY <1>7, <1>13, <1>14, <1>15 DEF MapInvariant

LEMMA AnswersKeepMaps ==
  ASSUME MapInvariant, NEW k \in DOMAIN commands, GatewayAnswers(k)
  PROVE  MapInvariant' /\ CommandsKept
  <1>1. /\ commands \in Seq(CommandRecord) /\ Len(commands) \in Nat /\ DOMAIN commands = 1 .. Len(commands)
        /\ \A n \in DOMAIN commands : commands[n] \in CommandRecord
    BY CommandsAre DEF MapInvariant
  <1>2. PICK answer \in {"success", "failed"} : commands' = [commands EXCEPT ![k].answer = answer]
    BY DEF GatewayAnswers
  <1>3. PICK c : c = [commands[k] EXCEPT !.answer = answer]
    OBVIOUS
  <1>4. c \in CommandRecord /\ c.mode = commands[k].mode /\ c.sum = commands[k].sum
    BY <1>1, <1>3 DEF CommandRecord
  <1>5. commands' = [commands EXCEPT ![k] = c]
    BY <1>2, <1>3
  <1> HIDE DEF CommandRecord
  <1>6. commands' \in Seq(CommandRecord) /\ Len(commands') = Len(commands) /\ DOMAIN commands' = DOMAIN commands
    BY <1>1, <1>4, <1>5, ExceptSeq
  <1>7. \A n \in DOMAIN commands : commands'[n] = IF n = k THEN c ELSE commands[n]
    BY <1>1, <1>5
  <1>8. CommandsKept
    BY <1>1, <1>4, <1>6, <1>7 DEF CommandsKept, GatewayAnswers
  <1>9. UNCHANGED <<device, map, row, asking>>
    BY DEF GatewayAnswers
  <1>10. MapTypeOK'
    BY <1>6, <1>9 DEF MapInvariant, MapTypeOK, CommandRecord
  <1>11. \A n \in Equipment : WasRead(map[n])'
    BY <1>8, <1>9, ReadLiveGrows DEF MapInvariant, WasRead
  <1>12. \A n \in Equipment : row'[n].command <= Len(commands')
    BY <1>6, <1>9 DEF MapInvariant
  <1> QED BY <1>8, <1>10, <1>11, <1>12 DEF MapInvariant

-----------------------------------------------------------------------------
(* The pages.                                                              *)
LEMMA RowsKeepMaps ==
  ASSUME MapInvariant, row' \in [Equipment -> RowRecord], \A k \in Equipment : row'[k].command <= Len(commands),
         device' \in [Equipment -> DeviceRecord],
         map' \in [Equipment -> MapRecord], \A k \in Equipment : WasRead(map'[k]),
         UNCHANGED <<asking, commands>>
  PROVE  MapInvariant'
  <1>1. MapTypeOK'
    BY DEF MapInvariant, MapTypeOK, DeviceRecord
  <1>2. \A k \in Equipment : WasRead(map[k])'
    BY DEF WasRead, ReadLive
  <1> QED BY <1>1, <1>2 DEF MapInvariant

LEMMA MemoryKeepsPages ==
  ASSUME PagesInvariant, NEW p \in Page, NEW x \in PageRecord, HoldsSent(x),
         page' = [page EXCEPT ![p] = x], commands' = commands
  PROVE  PagesInvariant'
  <1>1. page' \in [Page -> PageRecord]
    BY DEF PagesInvariant
  <1>2. \A q \in Page : page'[q] = IF q = p THEN x ELSE page[q]
    BY DEF PagesInvariant
  <1>3. \A q \in Page : HoldsSent(page'[q])
    BY <1>2 DEF PagesInvariant
  <1>4. \A q \in Page : HoldsSent(page[q])'
    BY <1>3 DEF HoldsSent, TestsSignals
  <1> QED BY <1>1, <1>4 DEF PagesInvariant

LEMMA Pages ==
  ASSUME SetupInvariant, NEW p \in Page
  PROVE  /\ page[p] \in PageRecord /\ HoldsSent(page[p])
         /\ page[p].config \in ConfigSeen /\ page[p].run \in RunState /\ page[p].at \in PagePoint
         /\ page[p].rows \in RowsHeld /\ page[p].left \in SetsHeld /\ page[p].test \in MapHeld
  BY DEF SetupInvariant, PagesInvariant, PageRecord

LEMMA Rows ==
  ASSUME SetupInvariant
  PROVE  /\ row \in [Equipment -> RowRecord] /\ map \in [Equipment -> MapRecord] /\ device \in [Equipment -> DeviceRecord]
         /\ \A k \in Equipment : WasRead(map[k]) /\ row[k].command <= Len(commands)
  BY DEF SetupInvariant, MapInvariant, MapTypeOK, DeviceRecord

LEMMA LoadedRows ==
  ASSUME SetupInvariant, NEW p \in Page, NEW i \in DOMAIN page[p].rows
  PROVE  /\ i \in Equipment /\ page[p].rows[i].row \in RowRecord
         /\ page[p].rows[i].row.command <= Len(commands)
         /\ page[p].rows[i].row.command \in Nat
  <1>1. page[p].rows[i] \in LoadedRow /\ i \in Equipment
    BY Pages DEF RowsHeld
  <1>2. page[p].rows[i].row \in RowRecord
    BY <1>1 DEF LoadedRow
  <1>3. page[p].rows[i].row.command \in Nat
    BY <1>2, MapAssumption DEF RowRecord
  <1> QED BY <1>1, <1>2, <1>3, Pages DEF HoldsSent

LEMMA ForgottenPage == Idle \in PageRecord /\ HoldsSent(Idle)
                         /\ \A a \in PagePoint \ {"test"} : [Idle EXCEPT !.at = a] \in PageRecord /\ HoldsSent([Idle EXCEPT !.at = a])
  <1>1. NoConfig \in ConfigSeen /\ "configuring" \in RunState /\ "idle" \in PagePoint /\ NoSum \in MapHeld
    BY DEF NoConfig, ConfigSeen, RunState, PagePoint, MapHeld
  <1>2. [i \in {} |-> << >>] \in RowsHeld /\ {} \in SetsHeld
    <2>1. [i \in {} |-> << >>] \in [{} -> LoadedRow]
      OBVIOUS
    <2> QED BY <2>1 DEF RowsHeld, SetsHeld
  <1>3. Idle \in PageRecord /\ Idle.rows = [i \in {} |-> << >>] /\ Idle.left = {} /\ Idle.at = "idle"
    BY <1>1, <1>2 DEF Idle, PageRecord
  <1>4. HoldsSent(Idle)
    BY <1>3 DEF HoldsSent
  <1>5. ASSUME NEW a \in PagePoint \ {"test"}
        PROVE  [Idle EXCEPT !.at = a] \in PageRecord /\ HoldsSent([Idle EXCEPT !.at = a])
    <2>1. [Idle EXCEPT !.at = a] \in PageRecord /\ [Idle EXCEPT !.at = a].at = a
          /\ [Idle EXCEPT !.at = a].rows = [i \in {} |-> << >>] /\ [Idle EXCEPT !.at = a].left = {}
      BY <1>3, PageFields DEF PageRecord
    <2> QED BY <2>1 DEF HoldsSent
  <1> QED BY <1>3, <1>4, <1>5

LEMMA RowsToKeep ==
  ASSUME SetupInvariant, NEW from, NEW to \in RowState
  PROVE  RowsTo(from, to) \in [Equipment -> RowRecord] /\ \A k \in Equipment : RowsTo(from, to)[k].command = row[k].command
  <1>1. ASSUME NEW k \in Equipment
        PROVE  /\ row[k] \in RowRecord /\ [row[k] EXCEPT !.state = to] \in RowRecord
               /\ [row[k] EXCEPT !.state = to].command = row[k].command
    <2>1. row[k] \in RowRecord
      BY Rows
    <2>2. "connection" \in Mode /\ 0 \in 0 .. MaxCommands /\ TRUE \in BOOLEAN
      BY MapAssumption DEF Mode
    <2> QED BY <2>1, <2>2, RowFields, Zenon DEF RowRecord
  <1> QED BY <1>1 DEF RowsTo

(* sync_setup_run, before it folds anything.                               *)
LEMMA LoadingKeeps ==
  ASSUME SetupInvariant, NEW p \in Page, SyncLoads(p) PROVE SetupInvariant'
  <1>1. Latest \in ConfigSeen
    <2>1. CASE configs = << >>
      BY <2>1 DEF Latest, NoConfig, ConfigSeen
    <2>2. CASE configs # << >>
      <3>1. configs \in Seq(ConfigRecord)
        BY DEF SetupInvariant, ConfigsInvariant
      <3> HIDE DEF ConfigRecord
      <3>2. configs[Len(configs)] \in ConfigRecord
        <4>1. Len(configs) \in 1 .. Len(configs)
          BY <2>2, <3>1, LenProperties, EmptySeq
        <4> QED BY <3>1, <4>1, ElementOfSeq
      <3>3. configs[Len(configs)].status \in ConfigStatus /\ configs[Len(configs)].overdue \in BOOLEAN
        BY <3>2 DEF ConfigRecord
      <3> QED BY <2>2, <3>3 DEF Latest, ConfigSeen
    <2> QED BY <2>1, <2>2
  <1>2. PICK u, l : u = (IF configs = << >> THEN run ELSE page[p].run) /\ l = Latest
    OBVIOUS
  <1>3. u \in RunState /\ l \in ConfigSeen /\ "restore" \in PagePoint
    BY <1>1, <1>2, Pages DEF SetupInvariant, ConfigsInvariant, PagePoint
  <1>4. PICK x : x = [page[p] EXCEPT !.at = "restore", !.run = u, !.config = l]
    OBVIOUS
  <1>5. x \in PageRecord /\ x.at = "restore" /\ x.rows = page[p].rows /\ x.left = page[p].left
    <2>1. /\ page[p] \in PageRecord /\ page[p].rows \in RowsHeld /\ page[p].left \in SetsHeld
          /\ page[p].test \in MapHeld
      BY Pages
    <2> QED BY <1>3, <1>4, <2>1, PageFields, Zenon DEF PageRecord
  <1>6. HoldsSent(x)
    BY <1>5, Pages DEF HoldsSent
  <1>7. page' = [page EXCEPT ![p] = x]
    BY <1>2, <1>4 DEF SyncLoads
  <1>8. UNCHANGED <<device, map, row, asking, commands, run, configs>>
    BY DEF SyncLoads, mapVars
  <1>9. MapInvariant'
    BY <1>8, Rows, RowsKeepMaps DEF SetupInvariant
  <1>10. PagesInvariant'
    BY <1>5, <1>6, <1>7, <1>8, MemoryKeepsPages DEF SetupInvariant
  <1>11. ConfigsInvariant'
    BY <1>8, UnchangedKept, CommandsKeepConfigs DEF SetupInvariant, MapInvariant
  <1> QED BY <1>9, <1>10, <1>11 DEF SetupInvariant

LEMMA ReadingKeeps ==
  ASSUME SetupInvariant, NEW p \in Page, SyncReadsRows(p) PROVE SetupInvariant'
  <1>1. row' \in [Equipment -> RowRecord] /\ \A k \in Equipment : row'[k].command <= Len(commands)
    <2>1. "applied" \in RowState
      BY DEF RowState
    <2>2. row' \in {row, RowsTo(Restorable, "applied")}
      BY DEF SyncReadsRows
    <2> QED BY <2>1, <2>2, Rows, RowsToKeep
  <1>2. PICK due : due = {i \in Equipment: row'[i].state \in {"validating", "applied"}}
    OBVIOUS
  <1>3. PICK rows : rows = [i \in due |-> [row |-> row'[i], conn |-> device[i].conn, telemetry |-> i \in telemetry]]
    OBVIOUS
  <1>4. due \in SetsHeld /\ rows \in RowsHeld /\ DOMAIN rows = due /\ \A i \in due : rows[i].row = row'[i]
    <2>1. \A i \in due : rows[i] = [row |-> row'[i], conn |-> device[i].conn, telemetry |-> i \in telemetry]
      BY <1>3
    <2>2. \A i \in due : row'[i] \in RowRecord /\ device[i].conn \in Connection
      BY <1>1, <1>2, Rows DEF DeviceRecord
    <2>3. ASSUME NEW i \in due PROVE \E b \in BOOLEAN : b = (i \in telemetry)
      <3>1. (i \in telemetry) \in BOOLEAN
        OBVIOUS
      <3> QED BY <3>1, Zenon
    <2>4. ASSUME NEW i \in due PROVE rows[i] \in LoadedRow
      <3>1. PICK b \in BOOLEAN : b = (i \in telemetry)
        BY <2>3, Zenon
      <3>2. rows[i] = [row |-> row'[i], conn |-> device[i].conn, telemetry |-> b]
        BY <2>1, <3>1, Zenon
      <3> QED BY <2>2, <3>2 DEF LoadedRow
    <2>5. rows \in [due -> LoadedRow] /\ due \in SUBSET Equipment
      BY <1>2, <1>3, <2>4
    <2> QED BY <1>3, <2>1, <2>5 DEF RowsHeld, SetsHeld
  <1>5. PICK x : x = [page[p] EXCEPT !.at = "rows", !.left = due, !.rows = rows]
    OBVIOUS
  <1>6. x \in PageRecord /\ x.at = "rows" /\ x.rows = rows /\ x.left = due
    <2>1. "rows" \in PagePoint
      BY DEF PagePoint
    <2>2. /\ page[p] \in PageRecord /\ page[p].run \in RunState /\ page[p].config \in ConfigSeen
          /\ page[p].test \in MapHeld
      BY Pages
    <2> QED BY <1>4, <1>5, <2>1, <2>2, PageFields, Zenon DEF PageRecord
  <1>7. HoldsSent(x)
    BY <1>1, <1>2, <1>4, <1>6 DEF HoldsSent
  <1>8. page' = [page EXCEPT ![p] = x]
    <2>1. page' = [page EXCEPT ![p].at = "rows", ![p].left = due, ![p].rows = rows]
      BY <1>2, <1>3, Zenon DEF SyncReadsRows
    <2> QED BY <1>5, <2>1
  <1>9. UNCHANGED <<device, map, asking, commands, run, configs>>
    BY DEF SyncReadsRows
  <1>10. MapInvariant'
    BY <1>1, <1>9, Rows, RowsKeepMaps DEF SetupInvariant
  <1>11. PagesInvariant'
    BY <1>6, <1>7, <1>8, <1>9, MemoryKeepsPages DEF SetupInvariant
  <1>12. ConfigsInvariant'
    BY <1>9, UnchangedKept, CommandsKeepConfigs DEF SetupInvariant, MapInvariant
  <1> QED BY <1>10, <1>11, <1>12 DEF SetupInvariant

(* What a page's statement saves: rows that name commands that were sent,  *)
(* and maps that were read.                                                *)
LEMMA PageStepKeeps ==
  ASSUME SetupInvariant, NEW p \in Page, NEW x \in PageRecord, HoldsSent(x),
         page' = [page EXCEPT ![p] = x],
         row' \in [Equipment -> RowRecord], \A k \in Equipment : row'[k].command <= Len(commands),
         device' \in [Equipment -> DeviceRecord],
         map' \in [Equipment -> MapRecord], \A k \in Equipment : WasRead(map'[k]),
         run' \in RunState, UNCHANGED <<asking, commands, configs>>
  PROVE  SetupInvariant'
  <1>1. MapInvariant'
    BY RowsKeepMaps DEF SetupInvariant
  <1>2. PagesInvariant'
    BY MemoryKeepsPages DEF SetupInvariant
  <1>3. ReadLive' = ReadLive
    BY DEF ReadLive
  <1>4. ConfigsInvariant'
    BY <1>3 DEF SetupInvariant, ConfigsInvariant, DeployedWasReadLive
  <1> QED BY <1>1, <1>2, <1>4 DEF SetupInvariant

LEMMA OneRowSaved ==
  ASSUME SetupInvariant, NEW i \in Equipment, NEW r \in RowRecord, r.command <= Len(commands), row' = [row EXCEPT ![i] = r]
  PROVE  row' \in [Equipment -> RowRecord] /\ \A k \in Equipment : row'[k].command <= Len(commands)
  BY Rows

LEMMA AnsweredWasSent ==
  ASSUME SetupInvariant, NEW p \in Page, NEW i \in DOMAIN page[p].rows, page[p].rows[i].row.command # 0
  PROVE  /\ page[p].rows[i].row.command \in DOMAIN commands
         /\ commands[page[p].rows[i].row.command] \in CommandRecord
  <1>1. Len(commands) \in Nat /\ DOMAIN commands = 1 .. Len(commands) /\ \A k \in DOMAIN commands : commands[k] \in CommandRecord
    BY CommandsAre DEF SetupInvariant, MapInvariant
  <1>2. page[p].rows[i].row.command \in DOMAIN commands
    BY <1>1, LoadedRows
  <1> QED BY <1>1, <1>2

LEMMA WholeRowKeeps ==
  ASSUME NEW r \in RowRecord
  PROVE  WholeRow(r) \in RowRecord /\ WholeRow(r).command = r.command
  <1>1. Judged(r) \in RowState
    BY DEF Judged, RowState, Editable
  <1>2. "datapoints" \in Mode /\ 0 \in 0 .. MaxCommands /\ FALSE \in BOOLEAN
    BY MapAssumption DEF Mode
  <1> QED BY <1>1, <1>2, RowFields, Zenon DEF WholeRow, RowRecord

(* The pages' rows, once one of them is done.                              *)
LEMMA OneRowDone ==
  ASSUME SetupInvariant, NEW p \in Page, page[p].at = "rows", NEW i \in page[p].left,
         NEW x, x = [page[p] EXCEPT !.left = page[p].left \ {i}]
  PROVE  x \in PageRecord /\ HoldsSent(x) /\ i \in DOMAIN page[p].rows
  <1>1. /\ page[p] \in PageRecord /\ page[p].rows \in RowsHeld /\ page[p].left \in SetsHeld
        /\ page[p].test \in MapHeld /\ page[p].at \in PagePoint /\ page[p].run \in RunState /\ page[p].config \in ConfigSeen
        /\ HoldsSent(page[p])
    BY Pages
  <1>2. PICK l : l = page[p].left \ {i}
    OBVIOUS
  <1>3. l \in SetsHeld
    BY <1>1, <1>2 DEF SetsHeld
  <1>4. x \in PageRecord /\ x.at = "rows" /\ x.rows = page[p].rows /\ x.left = l
    BY <1>1, <1>2, <1>3, PageFields, Zenon DEF PageRecord
  <1>5. i \in DOMAIN page[p].rows /\ l \subseteq DOMAIN page[p].rows
    BY <1>1, <1>2 DEF HoldsSent
  <1>6. HoldsSent(x)
    BY <1>1, <1>4, <1>5 DEF HoldsSent
  <1> QED BY <1>4, <1>5, <1>6

LEMMA ConnectionKeeps ==
  ASSUME SetupInvariant, NEW p \in Page, NEW i \in Equipment, SyncFoldsConnection(p, i) PROVE SetupInvariant'
  <1>1. PICK x : x = [page[p] EXCEPT !.left = page[p].left \ {i}]
    OBVIOUS
  <1>2. page[p].at = "rows" /\ i \in page[p].left
    BY DEF SyncFoldsConnection
  <1>3. x \in PageRecord /\ HoldsSent(x) /\ i \in DOMAIN page[p].rows
    BY <1>1, <1>2, OneRowDone
  <1>4. PICK r : r = page[p].rows[i].row
    OBVIOUS
  <1>5. r \in RowRecord /\ r.command <= Len(commands)
    BY <1>3, <1>4, LoadedRows
  <1>6. WholeRow(r) \in RowRecord /\ WholeRow(r).command <= Len(commands)
    BY <1>5, WholeRowKeeps
  <1>7. row' = [row EXCEPT ![i] = WholeRow(r)] /\ UNCHANGED <<device, map, asking, commands, run, configs>>
    BY <1>4, Zenon DEF SyncFoldsConnection
  <1>8. page' = [page EXCEPT ![p] = x]
    BY <1>1 DEF SyncFoldsConnection
  <1>9. row' \in [Equipment -> RowRecord] /\ \A k \in Equipment : row'[k].command <= Len(commands)
    BY <1>6, <1>7, OneRowSaved
  <1>10. run' \in RunState
    BY <1>7 DEF SetupInvariant, ConfigsInvariant
  <1> QED BY <1>3, <1>7, <1>8, <1>9, <1>10, Rows, PageStepKeeps

LEMMA MapReadKeeps ==
  ASSUME SetupInvariant, NEW p \in Page, NEW i \in Equipment, SyncReadsMap(p, i) PROVE SetupInvariant'
  <1>1. /\ page[p] \in PageRecord /\ page[p].rows \in RowsHeld /\ page[p].left \in SetsHeld
        /\ page[p].test \in MapHeld /\ page[p].run \in RunState /\ page[p].config \in ConfigSeen
        /\ HoldsSent(page[p])
    BY Pages
  <1>2. PICK t : t = [of |-> i, map |-> map[i]]
    OBVIOUS
  <1>3. t \in ReadMap /\ t.of = i /\ t \in MapHeld /\ "test" \in PagePoint
    BY <1>2, Rows DEF ReadMap, MapHeld, PagePoint
  <1>4. PICK x : x = [page[p] EXCEPT !.at = "test", !.test = t]
    OBVIOUS
  <1>5. x \in PageRecord /\ x.test = t /\ x.rows = page[p].rows /\ x.left = page[p].left
    BY <1>1, <1>3, <1>4, PageFields, Zenon DEF PageRecord
  <1>6. i \in DOMAIN page[p].rows
    BY <1>1 DEF SyncReadsMap, HoldsSent
  <1>7. TestsSignals(page[p].rows[i].row)
    <2>1. page[p].rows[i].row.command # 0 /\ commands[page[p].rows[i].row.command].mode # "connection"
      BY DEF SyncReadsMap, Answered, ConnectionOnly
    <2>2. commands[page[p].rows[i].row.command].mode \in Mode
      BY <1>6, <2>1, AnsweredWasSent DEF CommandRecord
    <2> QED BY <2>1, <2>2 DEF TestsSignals, Mode
  <1>8. HoldsSent(x)
    BY <1>1, <1>3, <1>5, <1>6, <1>7 DEF HoldsSent
  <1>9. page' = [page EXCEPT ![p] = x] /\ UNCHANGED <<device, map, row, asking, commands, run, configs>>
    BY <1>2, <1>4 DEF SyncReadsMap, mapVars
  <1>10. run' \in RunState
    BY <1>9 DEF SetupInvariant, ConfigsInvariant
  <1> QED BY <1>5, <1>8, <1>9, <1>10, Rows, PageStepKeeps

(* A recorded test: its map awaits confirmation only with the checksum of  *)
(* a test of signals that succeeded.                                       *)
LEMMA RecordedWasRead ==
  ASSUME NEW m \in MapRecord, NEW conn, NEW k \in DOMAIN commands, commands[k] \in CommandRecord,
         commands[k].mode = "datapoints"
  PROVE  Recorded(m, conn, commands[k]) \in MapRecord /\ WasRead(Recorded(m, conn, commands[k]))
  <1>1. PICK b : b = (commands[k].answer = "success" /\ Covers(commands[k].sum, ChecksumAt(m, conn)))
    OBVIOUS
  <1>2. PICK s : s = IF b THEN "awaiting" ELSE "needs_attention"
    OBVIOUS
  <1>3. PICK t : t = IF b THEN commands[k].sum ELSE NoSum
    OBVIOUS
  <1>4. Recorded(m, conn, commands[k]) = [m EXCEPT !.status = s, !.tested = t, !.confirmed = NoSum]
    BY <1>1, <1>2, <1>3, Zenon DEF Recorded
  <1>5. commands[k].sum \in Checksum
    BY DEF CommandRecord
  <1>6. /\ s \in {"draft", "testing", "awaiting", "needs_attention", "confirmed"}
        /\ t \in Checksum \cup {NoSum} /\ NoSum \in Checksum \cup {NoSum}
    BY <1>2, <1>3, <1>5
  <1>7. /\ Recorded(m, conn, commands[k]) \in MapRecord
        /\ Recorded(m, conn, commands[k]).status = s /\ Recorded(m, conn, commands[k]).tested = t
    <2>1. PICK S, C : S = {"draft", "testing", "awaiting", "needs_attention", "confirmed"} /\ C = Checksum \cup {NoSum}
      OBVIOUS
    <2>2. MapRecord = [points: Points, status: S, tested: C, confirmed: C]
      BY <2>1 DEF MapRecord
    <2>3. m \in [points: Points, status: S, tested: C, confirmed: C] /\ s \in S /\ t \in C /\ NoSum \in C
      BY <1>6, <2>1, <2>2, Zenon
    <2>4. PICK n : n = [m EXCEPT !.status = s, !.tested = t, !.confirmed = NoSum]
      OBVIOUS
    <2>5. n \in [points: Points, status: S, tested: C, confirmed: C] /\ n.status = s /\ n.tested = t
      BY <2>3, <2>4, MapFields
    <2> QED BY <1>4, <2>2, <2>4, <2>5, Zenon
  <1>8. s = "awaiting" => t \in ReadLive
    BY <1>1, <1>2, <1>3 DEF ReadLive
  <1>9. s # "confirmed"
    BY <1>2
  <1> QED BY <1>7, <1>8, <1>9 DEF WasRead

LEMMA RecordingKeeps ==
  ASSUME SetupInvariant, NEW p \in Page, SyncRecords(p) PROVE SetupInvariant'
  <1>1. /\ page[p] \in PageRecord /\ page[p].rows \in RowsHeld /\ page[p].left \in SetsHeld
        /\ page[p].test \in MapHeld /\ page[p].run \in RunState /\ page[p].config \in ConfigSeen
        /\ HoldsSent(page[p]) /\ page[p].at = "test"
    BY Pages DEF SyncRecords
  <1>2. PICK i : i = page[p].test.of
    OBVIOUS
  <1>3. page[p].test \in ReadMap /\ i \in DOMAIN page[p].rows /\ TestsSignals(page[p].rows[i].row)
    BY <1>1, <1>2 DEF HoldsSent
  <1>4. PICK r, m, k : r = page[p].rows[i].row /\ m = page[p].test.map /\ k = page[p].rows[i].row.command
    OBVIOUS
  <1>5. i \in Equipment /\ m \in MapRecord /\ r \in RowRecord /\ r.command <= Len(commands)
    BY <1>2, <1>3, <1>4, LoadedRows DEF ReadMap
  <1>6. k \in DOMAIN commands /\ commands[k] \in CommandRecord /\ commands[k].mode = "datapoints"
    BY <1>3, <1>4, AnsweredWasSent DEF TestsSignals
  <1>7. PICK n : n = Recorded(m, page[p].rows[i].conn, commands[k])
    OBVIOUS
  <1>8. n \in MapRecord /\ WasRead(n)
    BY <1>5, <1>6, <1>7, RecordedWasRead
  <1>9. PICK l : l = page[p].left \ {i}
    OBVIOUS
  <1>10. PICK x : x = [page[p] EXCEPT !.at = "rows", !.test = NoSum, !.left = l]
    OBVIOUS
  <1>11. l \in SetsHeld /\ "rows" \in PagePoint /\ NoSum \in MapHeld
    BY <1>1, <1>9 DEF SetsHeld, PagePoint, MapHeld
  <1>12. x \in PageRecord /\ x.at = "rows" /\ x.rows = page[p].rows /\ x.left = l
    BY <1>1, <1>10, <1>11, PageFields, Zenon DEF PageRecord
  <1>13. HoldsSent(x)
    BY <1>1, <1>9, <1>12 DEF HoldsSent
  <1>14. /\ map' = [map EXCEPT ![i] = n] /\ row' = [row EXCEPT ![i] = WholeRow(r)]
         /\ UNCHANGED <<device, asking, commands, run, configs>>
    BY <1>2, <1>4, <1>7, Zenon DEF SyncRecords
  <1>15. page' = [page EXCEPT ![p] = x]
    BY <1>2, <1>9, <1>10 DEF SyncRecords
  <1>16. WholeRow(r) \in RowRecord /\ WholeRow(r).command <= Len(commands)
    BY <1>5, WholeRowKeeps
  <1>17. row' \in [Equipment -> RowRecord] /\ \A q \in Equipment : row'[q].command <= Len(commands)
    BY <1>5, <1>14, <1>16, OneRowSaved
  <1>18. map' \in [Equipment -> MapRecord] /\ \A q \in Equipment : WasRead(map'[q])
    BY <1>5, <1>8, <1>14, Rows
  <1>19. run' \in RunState
    BY <1>14 DEF SetupInvariant, ConfigsInvariant
  <1> QED BY <1>12, <1>13, <1>14, <1>15, <1>17, <1>18, <1>19, Rows, PageStepKeeps

LEMMA ConfirmingKeeps ==
  ASSUME SetupInvariant, NEW p \in Page, NEW i \in Equipment, SyncConfirms(p, i) PROVE SetupInvariant'
  <1>1. PICK x : x = [page[p] EXCEPT !.left = page[p].left \ {i}]
    OBVIOUS
  <1>2. page[p].at = "rows" /\ i \in page[p].left
    BY DEF SyncConfirms
  <1>3. x \in PageRecord /\ HoldsSent(x)
    BY <1>1, <1>2, OneRowDone
  <1>4. PICK r : r = [row[i] EXCEPT !.state = "live", !.first = TRUE]
    OBVIOUS
  <1>5. row[i] \in RowRecord /\ row[i].command <= Len(commands)
    BY Rows
  <1>6. "live" \in RowState /\ "datapoints" \in Mode /\ 0 \in 0 .. MaxCommands /\ TRUE \in BOOLEAN
    BY MapAssumption DEF Mode, RowState
  <1>7. r \in RowRecord /\ r.command = row[i].command
    BY <1>4, <1>5, <1>6, RowFields, Zenon DEF RowRecord
  <1>8. row' = [row EXCEPT ![i] = r] /\ UNCHANGED <<device, map, asking, commands, run, configs>>
    BY <1>4, <1>5 DEF SyncConfirms
  <1>9. page' = [page EXCEPT ![p] = x]
    BY <1>1 DEF SyncConfirms
  <1>10. row' \in [Equipment -> RowRecord] /\ \A k \in Equipment : row'[k].command <= Len(commands)
    BY <1>5, <1>7, <1>8, OneRowSaved
  <1>11. run' \in RunState
    BY <1>8 DEF SetupInvariant, ConfigsInvariant
  <1> QED BY <1>3, <1>8, <1>9, <1>10, <1>11, Rows, PageStepKeeps

(* The end of a sync: the rows and the run, from the status it loaded.     *)
LEMMA RowsAfterKeep ==
  ASSUME SetupInvariant, NEW config \in ConfigSeen
  PROVE  RowsAfter(config) \in [Equipment -> RowRecord] /\ \A k \in Equipment : RowsAfter(config)[k].command = row[k].command
  <1>1. "rolled_back" \in RowState /\ "failed" \in RowState /\ "needs_attention" \in RowState
    BY DEF RowState, Editable
  <1>2. \A from : \A to \in RowState :
          RowsTo(from, to) \in [Equipment -> RowRecord] /\ \A k \in Equipment : RowsTo(from, to)[k].command = row[k].command
    BY RowsToKeep
  <1>3. PICK overdue : overdue = [i \in Equipment |-> IF row[i].state = "applied" /\ ~row[i].first
                                THEN [row[i] EXCEPT !.state = "needs_attention"] ELSE row[i]]
    OBVIOUS
  <1>4. overdue \in [Equipment -> RowRecord] /\ \A k \in Equipment : overdue[k].command = row[k].command
    <2>1. ASSUME NEW k \in Equipment
          PROVE  /\ row[k] \in RowRecord /\ [row[k] EXCEPT !.state = "needs_attention"] \in RowRecord
                 /\ [row[k] EXCEPT !.state = "needs_attention"].command = row[k].command
      <3>1. row[k] \in RowRecord
        BY Rows
      <3>2. "connection" \in Mode /\ 0 \in 0 .. MaxCommands /\ TRUE \in BOOLEAN
        BY MapAssumption DEF Mode
      <3> QED BY <1>1, <3>1, <3>2, RowFields, Zenon DEF RowRecord
    <2> QED BY <1>3, <2>1
  <1>5. RowsAfter(config) \in {RowsTo({"queued", "applied"}, "rolled_back"), RowsTo({"queued"}, "failed"), overdue, row}
    <2>1. config.status \in ConfigStatus \cup {"none"} /\ config.overdue \in BOOLEAN
      BY DEF ConfigSeen
    <2>2. CASE config.status = "rolled_back"
      BY <2>2 DEF RowsAfter, Unapplied
    <2>3. CASE config.status \in Unapplied
      BY <2>3 DEF RowsAfter, Unapplied
    <2>4. CASE config.status = "active" /\ config.overdue
      BY <1>3, <2>4 DEF RowsAfter, Unapplied, InProgress
    <2>5. CASE config.status \in {"none", InProgress} \/ (config.status = "active" /\ ~config.overdue)
      BY <2>5 DEF RowsAfter, Unapplied, InProgress
    <2> QED BY <2>1, <2>2, <2>3, <2>4, <2>5, Zenon DEF ConfigStatus
  <1> QED BY <1>1, <1>2, <1>4, <1>5, Rows

LEMMA RunAfterIsRun ==
  ASSUME NEW config \in ConfigSeen, NEW loaded \in RunState, NEW rows
  PROVE  Overall(rows, config, RunAfter(config, loaded)) \in RunState
  <1>1. config.status \in {InProgress, "active", "rolled_back", "none"} \cup Unapplied
    BY DEF ConfigSeen, ConfigStatus
  <1>2. RunAfter(config, loaded) \in {loaded, "deploying", "verifying", "failed"}
    <2>1. CASE config.status = "none"
      BY <2>1 DEF RunAfter
    <2>2. CASE config.status = InProgress
      BY <2>2 DEF RunAfter, InProgress
    <2>3. CASE config.status = "active"
      BY <2>3 DEF RunAfter, InProgress
    <2>4. CASE config.status \in Unapplied \cup {"rolled_back"}
      BY <2>4 DEF RunAfter, InProgress, Unapplied
    <2> QED BY <1>1, <2>1, <2>2, <2>3, <2>4
  <1>3. RunAfter(config, loaded) \in RunState
    BY <1>2 DEF RunState, Terminal
  <1> QED BY <1>3 DEF Overall, RunState, Terminal

LEMMA ConcludingKeeps ==
  ASSUME SetupInvariant, NEW p \in Page, SyncConcludes(p) PROVE SetupInvariant'
  <1>1. page[p].config \in ConfigSeen /\ page[p].run \in RunState
    BY Pages
  <1>2. /\ row' = RowsAfter(page[p].config) /\ run' = Overall(row', page[p].config, RunAfter(page[p].config, page[p].run))
        /\ UNCHANGED <<device, map, asking, commands, configs>>
    BY DEF SyncConcludes
  <1>3. PICK next \in {"review", "idle"} : page' = [page EXCEPT ![p] = [Idle EXCEPT !.at = next]]
    BY DEF SyncConcludes
  <1>4. next \in PagePoint \ {"test"}
    BY DEF PagePoint
  <1>5. [Idle EXCEPT !.at = next] \in PageRecord /\ HoldsSent([Idle EXCEPT !.at = next])
    BY <1>4, ForgottenPage
  <1>6. row' \in [Equipment -> RowRecord] /\ \A k \in Equipment : row'[k].command <= Len(commands)
    BY <1>1, <1>2, RowsAfterKeep, Rows
  <1>7. run' \in RunState
    BY <1>1, <1>2, RunAfterIsRun
  <1> QED BY <1>2, <1>3, <1>5, <1>6, <1>7, Rows, PageStepKeeps

-----------------------------------------------------------------------------
(* Step 3: the confirmations it asks for, and the deployment.              *)
LEMMA ReviewKeeps ==
  ASSUME SetupInvariant, NEW p \in Page, Review(p) PROVE SetupInvariant'
  <1>1. page[p] \in PageRecord /\ HoldsSent(page[p]) /\ page' = [page EXCEPT ![p] = page[p]]
    BY Pages DEF Review, SetupInvariant, PagesInvariant
  <1>2. "awaiting_confirmation" \in RowState /\ "connection" \in Mode /\ 0 \in 0 .. MaxCommands /\ TRUE \in BOOLEAN
    BY MapAssumption DEF RowState, Editable, Mode
  <1>3. ASSUME NEW k \in Equipment
        PROVE  /\ row[k] \in RowRecord /\ [row[k] EXCEPT !.state = "awaiting_confirmation"] \in RowRecord
               /\ [row[k] EXCEPT !.state = "awaiting_confirmation"].command = row[k].command
    <2>1. row[k] \in RowRecord
      BY Rows
    <2> QED BY <1>2, <2>1, RowFields, Zenon DEF RowRecord
  <1>4. row' \in [Equipment -> RowRecord] /\ \A k \in Equipment : row'[k].command <= Len(commands)
    <2>1. row' = [i \in Equipment |-> IF i \in Unreviewed THEN [row[i] EXCEPT !.state = "awaiting_confirmation"] ELSE row[i]]
      BY DEF Review
    <2> HIDE DEF Unreviewed
    <2>2. \A k \in Equipment : row'[k] \in RowRecord /\ row'[k].command = row[k].command
      BY <1>3, <2>1
    <2> QED BY <2>1, <2>2, Rows
  <1>5. device' \in [Equipment -> DeviceRecord]
    <2>1. device' = [i \in Equipment |-> IF i \in Unreviewed THEN [device[i] EXCEPT !.ready = FALSE] ELSE device[i]]
      BY DEF Review
    <2>2. \A k \in Equipment : device[k] \in DeviceRecord /\ [device[k] EXCEPT !.ready = FALSE] \in DeviceRecord
      BY Rows DEF DeviceRecord
    <2> QED BY <2>1, <2>2
  <1>6. UNCHANGED <<map, asking, commands, run, configs>> /\ run' \in RunState
    BY DEF Review, SetupInvariant, ConfigsInvariant
  <1> QED BY <1>1, <1>4, <1>5, <1>6, Rows, PageStepKeeps

LEMMA LeavingKeeps ==
  ASSUME SetupInvariant, NEW p \in Page, LeavesStep3(p) PROVE SetupInvariant'
  <1>1. page' = [page EXCEPT ![p] = Idle] /\ UNCHANGED <<device, map, row, asking, commands, run, configs>>
    BY DEF LeavesStep3, mapVars
  <1>2. run' \in RunState
    BY <1>1 DEF SetupInvariant, ConfigsInvariant
  <1> QED BY <1>1, <1>2, ForgottenPage, Rows, PageStepKeeps

LEMMA MarkingKeeps ==
  ASSUME SetupInvariant, NEW p \in Page, Marks(p) PROVE SetupInvariant'
  <1>1. "queued" \in RowState /\ "connection" \in Mode /\ 0 \in 0 .. MaxCommands /\ TRUE \in BOOLEAN
    BY MapAssumption DEF RowState, Mode
  <1>2. ASSUME NEW k \in Equipment
        PROVE  /\ row[k] \in RowRecord /\ [row[k] EXCEPT !.state = "queued"] \in RowRecord
               /\ [row[k] EXCEPT !.state = "queued"].command = row[k].command
    <2>1. row[k] \in RowRecord
      BY Rows
    <2> QED BY <1>1, <2>1, RowFields, Zenon DEF RowRecord
  <1>3. row' \in [Equipment -> RowRecord] /\ \A k \in Equipment : row'[k].command <= Len(commands)
    <2>1. row' = [i \in Equipment |-> IF i \in page[p].taken THEN [row[i] EXCEPT !.state = "queued"] ELSE row[i]]
      BY DEF Marks
    <2>2. \A k \in Equipment : row'[k] \in RowRecord /\ row'[k].command = row[k].command
      BY <1>2, <2>1
    <2> QED BY <2>1, <2>2, Rows
  <1>4. page' = [page EXCEPT ![p] = Idle] /\ UNCHANGED <<device, map, asking, commands, configs>> /\ run' \in RunState
    BY DEF Marks, RunState
  <1> QED BY <1>3, <1>4, ForgottenPage, Rows, PageStepKeeps

-----------------------------------------------------------------------------
(* The revisions: a signal keeps the checksum it was queued with.          *)
LEMMA ConfigFields ==
  ASSUME NEW S, NEW P, NEW B, NEW c \in [status: S, payload: P, overdue: B], NEW s \in S, NEW b \in B
  PROVE  /\ [c EXCEPT !.status = s] \in [status: S, payload: P, overdue: B]
         /\ [c EXCEPT !.status = s].payload = c.payload
         /\ [c EXCEPT !.overdue = b] \in [status: S, payload: P, overdue: B]
         /\ [c EXCEPT !.overdue = b].payload = c.payload
  OBVIOUS

LEMMA Revisions ==
  ASSUME SetupInvariant
  PROVE  /\ configs \in Seq(ConfigRecord) /\ Len(configs) \in Nat /\ DOMAIN configs = 1 .. Len(configs)
         /\ \A k \in DOMAIN configs : configs[k] \in ConfigRecord
         /\ configs # << >> => Len(configs) \in DOMAIN configs
  <1>1. configs \in Seq(ConfigRecord)
    BY DEF SetupInvariant, ConfigsInvariant
  <1> HIDE DEF ConfigRecord
  <1>2. Len(configs) \in Nat /\ DOMAIN configs = 1 .. Len(configs)
    BY <1>1, LenProperties
  <1>3. \A k \in DOMAIN configs : configs[k] \in ConfigRecord
    BY <1>1, <1>2, ElementOfSeq
  <1>4. configs # << >> => Len(configs) \in DOMAIN configs
    BY <1>1, <1>2, EmptySeq
  <1> QED BY <1>1, <1>2, <1>3, <1>4

SentReadLive(payload) == \A i \in DOMAIN payload : payload[i] \in ReadLive

(* A revision whose status or deadline changes.                            *)
LEMMA RevisionKept ==
  ASSUME SetupInvariant, NEW n \in DOMAIN configs, NEW c \in ConfigRecord, c.payload = configs[n].payload,
         configs' = [configs EXCEPT ![n] = c], UNCHANGED <<mapVars, run, page>>
  PROVE  SetupInvariant'
  <1>1. UNCHANGED <<device, map, row, asking, commands>>
    BY DEF mapVars
  <1>2. ReadLive' = ReadLive
    BY <1>1 DEF ReadLive
  <1>3. MapInvariant'
    BY <1>1, Rows, RowsKeepMaps DEF SetupInvariant
  <1>4. PagesInvariant'
    BY <1>1 DEF SetupInvariant, PagesInvariant, HoldsSent, TestsSignals
  <1>5. configs \in Seq(ConfigRecord)
    BY Revisions
  <1> HIDE DEF ConfigRecord
  <1>6. configs' \in Seq(ConfigRecord) /\ DOMAIN configs' = DOMAIN configs
    BY <1>5, ExceptSeq
  <1>7. \A k \in DOMAIN configs : configs'[k].payload = configs[k].payload
    BY <1>5
  <1>8. DeployedWasReadLive'
    BY <1>2, <1>6, <1>7 DEF SetupInvariant, ConfigsInvariant, DeployedWasReadLive
  <1> QED BY <1>3, <1>4, <1>6, <1>8 DEF SetupInvariant, ConfigsInvariant

LEMMA StatusKept ==
  ASSUME SetupInvariant, configs # << >>, NEW s \in ConfigStatus,
         configs' = [configs EXCEPT ![Len(configs)].status = s], UNCHANGED <<mapVars, run, page>>
  PROVE  SetupInvariant'
  <1>1. PICK n : n = Len(configs)
    OBVIOUS
  <1>2. n \in DOMAIN configs /\ configs[n] \in ConfigRecord
    BY <1>1, Revisions
  <1>3. PICK c : c = [configs[n] EXCEPT !.status = s]
    OBVIOUS
  <1>4. c \in ConfigRecord /\ c.payload = configs[n].payload
    <2>1. TRUE \in BOOLEAN
      OBVIOUS
    <2> QED BY <1>2, <1>3, <2>1, ConfigFields, Zenon DEF ConfigRecord
  <1>5. configs' = [configs EXCEPT ![n] = c]
    BY <1>1, <1>3
  <1> QED BY <1>2, <1>4, <1>5, RevisionKept

(* A queued revision supersedes those that have not settled.               *)
LEMMA QueueingKeeps ==
  ASSUME SetupInvariant, NEW payload \in Payloads, SentReadLive(payload), configs' = Queued(payload), UNCHANGED <<run, commands>>
  PROVE  ConfigsInvariant'
  <1>1. /\ configs \in Seq(ConfigRecord) /\ Len(configs) \in Nat /\ DOMAIN configs = 1 .. Len(configs)
        /\ \A k \in DOMAIN configs : configs[k] \in ConfigRecord
    BY Revisions
  <1>2. ReadLive' = ReadLive
    BY DEF ReadLive
  <1>3. PICK old : old = [k \in DOMAIN configs |-> IF configs[k].status \in {InProgress, "timed_out"}
                                     THEN [configs[k] EXCEPT !.status = "superseded"] ELSE configs[k]]
    OBVIOUS
  <1>4. PICK c : c = [status |-> InProgress, payload |-> payload, overdue |-> FALSE]
    OBVIOUS
  <1>5. configs' = Append(old, c)
    BY <1>3, <1>4 DEF Queued
  <1>6. c \in ConfigRecord /\ c.payload = payload
    BY <1>4 DEF ConfigRecord, ConfigStatus
  <1>7. \A k \in DOMAIN configs : old[k] \in ConfigRecord /\ old[k].payload = configs[k].payload
    <2> TAKE k \in DOMAIN configs
    <2>1. configs[k] \in ConfigRecord /\ "superseded" \in ConfigStatus /\ TRUE \in BOOLEAN
      BY <1>1 DEF ConfigStatus, Unapplied
    <2>2. /\ [configs[k] EXCEPT !.status = "superseded"] \in ConfigRecord
          /\ [configs[k] EXCEPT !.status = "superseded"].payload = configs[k].payload
      BY <2>1, ConfigFields, Zenon DEF ConfigRecord
    <2> QED BY <1>3, <2>1, <2>2
  <1> HIDE DEF ConfigRecord
  <1>8. old \in Seq(ConfigRecord) /\ Len(old) = Len(configs)
    <2>1. old \in [1 .. Len(configs) -> ConfigRecord]
      BY <1>1, <1>3, <1>7
    <2> QED BY <1>1, <2>1
  <1>9. /\ configs' \in Seq(ConfigRecord) /\ DOMAIN configs' = 1 .. Len(configs) + 1
        /\ configs'[Len(configs) + 1] = c /\ \A k \in 1 .. Len(configs) : configs'[k] = old[k]
    BY <1>1, <1>5, <1>6, <1>8, AppendProperties
  <1>10. ASSUME NEW k \in DOMAIN configs' PROVE SentReadLive(configs'[k].payload)
    <2>1. k \in DOMAIN configs \/ k = Len(configs) + 1
      BY <1>1, <1>9
    <2>2. CASE k \in DOMAIN configs
      <3>1. configs'[k].payload = configs[k].payload
        BY <1>1, <1>7, <1>9, <2>2
      <3> QED BY <2>2, <3>1 DEF SetupInvariant, ConfigsInvariant, DeployedWasReadLive, SentReadLive
    <2>3. CASE k = Len(configs) + 1
      BY <1>6, <1>9, <2>3
    <2> QED BY <2>1, <2>2, <2>3
  <1>11. DeployedWasReadLive'
    BY <1>2, <1>10 DEF DeployedWasReadLive, SentReadLive
  <1> QED BY <1>9, <1>11 DEF SetupInvariant, ConfigsInvariant

LEMMA DeployingKeeps ==
  ASSUME SetupInvariant, NEW p \in Page, Deploy(p) PROVE SetupInvariant'
  <1>1. UNCHANGED <<device, map, row, asking, commands, run>> /\ configs' = Queued(Payload)
    BY DEF Deploy, mapVars
  <1>2. Payload \in Payloads /\ SentReadLive(Payload)
    <2>1. PICK D : D = {i \in Equipment: device[i].ready /\ Deployable(i)}
      OBVIOUS
    <2>2. D \in SUBSET Equipment /\ Payload = [i \in D |-> Current(i)]
      BY <2>1 DEF Payload
    <2>3. \A i \in D : Current(i) \in Checksum
      BY <2>2, CurrentIsChecksum DEF SetupInvariant, MapInvariant
    <2>4. \A i \in D : Current(i) \in ReadLive
      BY <2>1, Rows DEF Deployable, WasRead
    <2>5. Payload \in [D -> Checksum]
      BY <2>2, <2>3
    <2> QED BY <2>2, <2>4, <2>5 DEF Payloads, SentReadLive
  <1>3. ConfigsInvariant'
    BY <1>1, <1>2, QueueingKeeps
  <1>4. MapInvariant'
    BY <1>1, Rows, RowsKeepMaps DEF SetupInvariant
  <1>5. PICK taken : taken = {i \in Equipment: row[i].state \in {"validated", "live"}}
    OBVIOUS
  <1>6. PICK x : x = [page[p] EXCEPT !.at = "mark", !.taken = taken]
    OBVIOUS
  <1>7. /\ page[p] \in PageRecord /\ page[p].rows \in RowsHeld /\ page[p].left \in SetsHeld
        /\ page[p].test \in MapHeld /\ page[p].run \in RunState /\ page[p].config \in ConfigSeen
        /\ HoldsSent(page[p]) /\ "mark" \in PagePoint /\ taken \in SetsHeld
    BY <1>5, Pages DEF PagePoint, SetsHeld
  <1>8. x \in PageRecord /\ x.at = "mark" /\ x.rows = page[p].rows /\ x.left = page[p].left
    BY <1>6, <1>7, PageFields, Zenon DEF PageRecord
  <1>9. HoldsSent(x)
    BY <1>7, <1>8 DEF HoldsSent
  <1>10. page' = [page EXCEPT ![p] = x]
    BY <1>5, <1>6 DEF Deploy
  <1>11. PagesInvariant'
    BY <1>1, <1>8, <1>9, <1>10, MemoryKeepsPages DEF SetupInvariant
  <1> QED BY <1>3, <1>4, <1>11 DEF SetupInvariant

LEMMA RetryKeeps ==
  ASSUME SetupInvariant, Retry PROVE SetupInvariant'
  <1>1. /\ configs # << >> /\ configs' = Queued(configs[Len(configs)].payload)
        /\ UNCHANGED <<device, map, row, asking, commands, run, page>>
    BY DEF Retry, mapVars
  <1>2. PICK n : n = Len(configs)
    OBVIOUS
  <1>3. n \in DOMAIN configs /\ configs[n] \in ConfigRecord
    BY <1>1, <1>2, Revisions
  <1>4. configs[n].payload \in Payloads
    BY <1>3 DEF ConfigRecord
  <1>5. SentReadLive(configs[n].payload)
    BY <1>3 DEF SetupInvariant, ConfigsInvariant, DeployedWasReadLive, SentReadLive
  <1>6. ConfigsInvariant'
    BY <1>1, <1>2, <1>4, <1>5, QueueingKeeps
  <1>7. MapInvariant'
    BY <1>1, Rows, RowsKeepMaps DEF SetupInvariant
  <1>8. PagesInvariant'
    BY <1>1 DEF SetupInvariant, PagesInvariant, HoldsSent, TestsSignals
  <1> QED BY <1>6, <1>7, <1>8 DEF SetupInvariant

(* The Gateway settles a revision, and its telemetry is late or arrives.   *)
LEMMA GatewayKeeps ==
  ASSUME SetupInvariant, ConfigSettles \/ LateAnswer \/ TelemetryOverdue \/ \E i \in Equipment : TelemetryArrives(i)
  PROVE  SetupInvariant'
  <1>1. CASE ConfigSettles \/ LateAnswer
    <2>1. configs # << >>
      BY <1>1 DEF ConfigSettles, LateAnswer, Latest, NoConfig, InProgress
    <2>2. PICK outcome \in {"active", "failed", "rolled_back", "timed_out"} :
            configs' = [configs EXCEPT ![Len(configs)].status = outcome]
      BY <1>1 DEF ConfigSettles, LateAnswer
    <2>3. outcome \in ConfigStatus /\ UNCHANGED <<mapVars, run, page>>
      BY <1>1 DEF ConfigSettles, LateAnswer, ConfigStatus, Unapplied
    <2> QED BY <2>1, <2>2, <2>3, StatusKept
  <1>2. CASE TelemetryOverdue
    <2>1. configs # << >> /\ configs' = [configs EXCEPT ![Len(configs)].overdue = TRUE] /\ UNCHANGED <<mapVars, run, page>>
      BY <1>2 DEF TelemetryOverdue, Latest, NoConfig
    <2>2. PICK n : n = Len(configs)
      OBVIOUS
    <2>3. n \in DOMAIN configs /\ configs[n] \in ConfigRecord
      BY <2>1, <2>2, Revisions
    <2>4. PICK c : c = [configs[n] EXCEPT !.overdue = TRUE]
      OBVIOUS
    <2>5. c \in ConfigRecord /\ c.payload = configs[n].payload
      <3>1. TRUE \in BOOLEAN /\ "active" \in ConfigStatus
        BY DEF ConfigStatus
      <3> QED BY <2>3, <2>4, <3>1, ConfigFields, Zenon DEF ConfigRecord
    <2>6. configs' = [configs EXCEPT ![n] = c]
      BY <2>1, <2>2, <2>4
    <2> QED BY <2>1, <2>3, <2>5, <2>6, RevisionKept
  <1>3. CASE \E i \in Equipment : TelemetryArrives(i)
    <2>1. UNCHANGED <<device, map, row, asking, commands, run, configs, page>>
      BY <1>3 DEF TelemetryArrives, mapVars
    <2>2. MapInvariant'
      BY <2>1, Rows, RowsKeepMaps DEF SetupInvariant
    <2>3. PagesInvariant'
      BY <2>1 DEF SetupInvariant, PagesInvariant, HoldsSent, TestsSignals
    <2>4. ConfigsInvariant'
      BY <2>1, UnchangedKept, CommandsKeepConfigs DEF SetupInvariant, MapInvariant
    <2> QED BY <2>2, <2>3, <2>4 DEF SetupInvariant
  <1> QED BY <1>1, <1>2, <1>3

-----------------------------------------------------------------------------
LEMMA SetupInitially == SetupInit => SetupInvariant
  <1> SUFFICES ASSUME SetupInit PROVE SetupInvariant
    OBVIOUS
  <1>1. /\ device \in [Equipment -> [conn: Connection, ready: BOOLEAN]] /\ map \in [Equipment -> MapRecord]
        /\ \A i \in Equipment : map[i].status = "draft"
    <2>1. device \in [Equipment -> [conn: Connection, ready: BOOLEAN]]
      BY DEF SetupInit, MapInit
    <2>2. map \in [Equipment -> [points: {Starter}, status: {"draft"}, tested: {NoSum}, confirmed: {NoSum}]]
      BY DEF SetupInit, MapInit
    <2>3. ASSUME NEW i \in Equipment PROVE map[i] \in MapRecord /\ map[i].status = "draft"
      <3>1. map[i] \in [points: {Starter}, status: {"draft"}, tested: {NoSum}, confirmed: {NoSum}]
        BY <2>2
      <3> QED BY <3>1, MapAssumption DEF MapRecord
    <2> QED BY <2>1, <2>2, <2>3
  <1>2. row \in [Equipment -> RowRecord] /\ \A i \in Equipment : row[i].command = 0
    BY MapAssumption DEF SetupInit, MapInit, RowRecord, RowState, Editable, Mode
  <1>3. asking \in [Equipment -> [mode: Mode, sum: Checksum] \cup {NoSum}]
    BY DEF SetupInit, MapInit
  <1>4. commands = << >> /\ Len(commands) = 0 /\ commands \in Seq([of: Equipment, mode: Mode, sum: Checksum, answer: {"none", "success", "failed"}])
    BY EmptySeq DEF SetupInit, MapInit
  <1>5. MapInvariant
    BY <1>1, <1>2, <1>3, <1>4 DEF MapInvariant, MapTypeOK, WasRead
  <1>6. PagesInvariant
    BY ForgottenPage DEF SetupInit, PagesInvariant
  <1>7. ConfigsInvariant
    BY EmptySeq DEF SetupInit, ConfigsInvariant, RunState, DeployedWasReadLive
  <1> QED BY <1>5, <1>6, <1>7 DEF SetupInvariant

LEMMA SetupInductive == SetupInvariant /\ [SetupNext]_setupVars => SetupInvariant'
  <1> SUFFICES ASSUME SetupInvariant, [SetupNext]_setupVars PROVE SetupInvariant'
    OBVIOUS
  <1>1. CASE UNCHANGED setupVars
    <2>1. UNCHANGED <<device, map, row, asking, commands, run, configs, page>>
      BY <1>1 DEF setupVars, mapVars
    <2>2. MapInvariant'
      BY <2>1, Rows, RowsKeepMaps DEF SetupInvariant
    <2>3. PagesInvariant'
      BY <2>1 DEF SetupInvariant, PagesInvariant, HoldsSent, TestsSignals
    <2>4. ConfigsInvariant'
      BY <2>1, UnchangedKept, CommandsKeepConfigs DEF SetupInvariant, MapInvariant
    <2> QED BY <2>2, <2>3, <2>4 DEF SetupInvariant
  <1>2. ASSUME CustomerActs(telemetry), UNCHANGED <<run, configs, telemetry, page>> PROVE SetupInvariant'
    <2>1. MapInvariant' /\ CommandsKept
      <3>1. PICK i \in Equipment : \/ SendTest(i) \/ TestRefused(i) \/ ConfirmMap(i) \/ ConfirmItem(i)
                                   \/ \E q \in Points, c \in Connection : EditMap(i, q, c)
                                   \/ \E c \in Connection : EditConnection(i, c)
                                   \/ \E mode \in Mode : BeginTest(i, mode)
        BY <1>2, Zenon DEF CustomerActs
      <3>2. CASE SendTest(i)
        BY <3>2, SendKeepsMaps DEF SetupInvariant
      <3>3. ASSUME \/ TestRefused(i) \/ ConfirmMap(i) \/ ConfirmItem(i)
                   \/ \E q \in Points, c \in Connection : EditMap(i, q, c)
                   \/ \E c \in Connection : EditConnection(i, c)
                   \/ \E mode \in Mode : BeginTest(i, mode)
            PROVE  MapInvariant' /\ CommandsKept
        <4>1. MapInvariant' /\ commands' = commands
          BY <3>3, CustomerKeepsMaps DEF SetupInvariant
        <4> QED BY <4>1, UnchangedKept DEF SetupInvariant, MapInvariant
      <3> QED BY <3>1, <3>2, <3>3
    <2> QED BY <1>2, <2>1, CommandsKeepPages, CommandsKeepConfigs DEF SetupInvariant, MapInvariant
  <1>3. ASSUME NEW k \in DOMAIN commands, GatewayAnswers(k), UNCHANGED <<run, configs, telemetry, page>> PROVE SetupInvariant'
    <2>1. MapInvariant' /\ CommandsKept
      BY <1>3, AnswersKeepMaps DEF SetupInvariant
    <2> QED BY <1>3, <2>1, CommandsKeepPages, CommandsKeepConfigs DEF SetupInvariant, MapInvariant
  <1>4. ASSUME NEW p \in Page, PageStep(p) PROVE SetupInvariant'
    <2>1. CASE SyncLoads(p) \/ SyncReadsRows(p)
      BY <2>1, LoadingKeeps, ReadingKeeps
    <2>2. ASSUME NEW i \in Equipment, RowStep(p, i) PROVE SetupInvariant'
      BY <2>2, ConnectionKeeps, MapReadKeeps, ConfirmingKeeps DEF RowStep
    <2>3. CASE SyncRecords(p) \/ SyncConcludes(p)
      BY <2>3, RecordingKeeps, ConcludingKeeps
    <2>4. CASE Review(p) \/ LeavesStep3(p) \/ Deploy(p) \/ Marks(p)
      BY <2>4, ReviewKeeps, LeavingKeeps, DeployingKeeps, MarkingKeeps
    <2> QED BY <1>4, <2>1, <2>2, <2>3, <2>4 DEF PageStep
  <1>5. CASE Retry \/ ConfigSettles \/ LateAnswer \/ TelemetryOverdue \/ \E i \in Equipment : TelemetryArrives(i)
    BY <1>5, RetryKeeps, GatewayKeeps
  <1> QED BY <1>1, <1>2, <1>3, <1>4, <1>5, Zenon DEF SetupNext

(* The invariant of the whole setup run: its typed state, the maps that    *)
(* await confirmation or are confirmed with what was read live, and the    *)
(* rows and answers each page still holds while others go on               *)
(* (deployment_setup.sync_setup_run, step 3, the mapping page).            *)
THEOREM SetupKeepsItsMaps == SetupSpec => []SetupInvariant
  BY SetupInitially, SetupInductive, PTL DEF SetupSpec

(* Whatever is edited, tested, answered and confirmed in whatever order by *)
(* however many pages, a revision sent to a gateway lists only signals that*)
(* were read live, all of them, at that connection                         *)
(* (effective_register_map, the checksums, retry_gateway_config).          *)
THEOREM DeployedSignalsWereRead == SetupSpec => []DeployedWasReadLive
  <1>1. SetupInvariant => DeployedWasReadLive
    BY DEF SetupInvariant, ConfigsInvariant
  <1> QED BY <1>1, SetupKeepsItsMaps, PTL


-----------------------------------------------------------------------------
(* Plan changes (PlanReconciliation): as long as nothing excuses it, one   *)
(* worker is at work at most, and whatever gateway does not have the limit *)
(* in force is still to be visited.                                        *)
Busy(x) == runner[x].event # NoEvent

RunnerRecord == [event : PlanEvent \cup {NoEvent}, todo : SUBSET Gateway, failed : BOOLEAN,
                 gateway : Gateway \cup {NoGateway}, limit : Limit]

Known == {e \in PlanEvent : rec[e] # "none"}

IdleHasNothing == \A x \in Runner : ~Busy(x) => runner[x] = IdleRunner

OneBusy ==
    /\ \A x, y \in Runner : Busy(x) /\ Busy(y) => x = y
    /\ \A x \in Runner : Busy(x) => rec[runner[x].event] = "running"

Waiting == \E e \in PlanEvent : rec[e] = "queued"
Abandoned(e) == rec[e] = "running" /\ \A x \in Runner : runner[x].event # e
VisitedBy(x, g) == Busy(x) /\ (g \in runner[x].todo \/ (runner[x].gateway = g /\ runner[x].limit = plan))

WillBeApplied(g) ==
    \/ AppliedOn(g) \/ Waiting
    \/ \E e \in PlanEvent : Abandoned(e)
    \/ \E x \in Runner : VisitedBy(x, g)

LimitsAreCurrent == \A x \in Runner : runner[x].gateway # NoGateway => runner[x].limit = plan \/ Waiting

NothingMissed == OneBusy /\ LimitsAreCurrent /\ \A g \in Gateway \ Unsupported : WillBeApplied(g)

TakenWereQueued == \A x \in Runner : Busy(x) => rec[runner[x].event] # "none"

PlanInv ==
    /\ PlanTypeOK /\ plan = Cardinality(Known) /\ IdleHasNothing /\ TakenWereQueued
    /\ ~excused => NothingMissed

LEMMA IdleRunnerTyped == IdleRunner \in RunnerRecord /\ IdleRunner.event = NoEvent /\ 0 \in Limit
<1>1. Cardinality(PlanEvent) \in Nat
  BY PlanAssumption, FS_CardinalityType
<1>2. 0 \in Limit
  BY <1>1 DEF Limit
<1> QED BY <1>2 DEF IdleRunner, RunnerRecord

LEMMA PlanInitially == PlanInit => PlanInv
<1> SUFFICES ASSUME PlanInit PROVE PlanInv
  OBVIOUS
<1>1. PlanTypeOK
  <2>1. runner \in [Runner -> RunnerRecord]
    BY IdleRunnerTyped DEF PlanInit
  <2>2. 0 \in 0 .. MaxDeaths
    BY PlanAssumption
  <2> QED BY <2>1, <2>2, IdleRunnerTyped DEF PlanInit, PlanTypeOK, RunnerRecord
<1>2. Known = {}
  BY DEF PlanInit, Known
<1>3. plan = Cardinality(Known)
  BY <1>2, FS_EmptySet DEF PlanInit
<1>4. \A x \in Runner : runner[x] = IdleRunner /\ ~Busy(x) /\ runner[x].gateway = NoGateway
  BY IdleRunnerTyped DEF PlanInit, Busy, IdleRunner
<1>5. NothingMissed
  BY <1>4 DEF PlanInit, NothingMissed, OneBusy, LimitsAreCurrent, WillBeApplied, AppliedOn
<1> QED BY <1>1, <1>3, <1>4, <1>5 DEF PlanInv, IdleHasNothing, TakenWereQueued

(* A new plan is waited for, whatever workers are doing.                   *)
LEMMA PlanChangeKeeps == ASSUME PlanInv, NEW e \in PlanEvent, PlanChanges(e) PROVE PlanInv'
<1>1. PlanTypeOK /\ rec \in [PlanEvent -> {"none", "queued", "running"} \union Settled]
      /\ runner \in [Runner -> RunnerRecord] /\ plan \in Nat
  <2>1. PlanTypeOK
    BY DEF PlanInv
  <2>2. Limit \subseteq Nat
    BY DEF Limit
  <2> QED BY <2>1, <2>2 DEF PlanTypeOK, RunnerRecord
<1>2. rec[e] = "none" /\ rec' = [rec EXCEPT ![e] = "queued"] /\ plan' = plan + 1
      /\ UNCHANGED <<fresh, runner, newest, deaths, excused>>
  BY DEF PlanChanges
<1>3. plan' = Cardinality(Known') /\ plan' \in Limit
  <2>1. Known' = Known \cup {e} /\ e \notin Known /\ Known' \subseteq PlanEvent
    BY <1>1, <1>2 DEF Known
  <2>2. IsFiniteSet(Known) /\ Cardinality(Known') <= Cardinality(PlanEvent) /\ Cardinality(PlanEvent) \in Nat
    BY <2>1, PlanAssumption, FS_Subset, FS_CardinalityType
  <2>3. Cardinality(Known') = Cardinality(Known) + 1
    BY <2>1, <2>2, FS_AddElement
  <2>4. plan = Cardinality(Known)
    BY DEF PlanInv
  <2> QED BY <1>1, <1>2, <2>2, <2>3, <2>4 DEF Limit
<1>4. PlanTypeOK'
  BY <1>1, <1>2, <1>3 DEF PlanTypeOK
<1>5. Waiting'
  BY <1>1, <1>2 DEF Waiting
<1>6. OneBusy => OneBusy'
  <2> SUFFICES ASSUME OneBusy PROVE OneBusy'
    OBVIOUS
  <2>1. \A x \in Runner : Busy(x) => runner[x].event \in PlanEvent /\ runner[x].event # e
    BY <1>1, <1>2 DEF OneBusy, Busy, RunnerRecord
  <2> QED BY <1>1, <1>2, <2>1 DEF OneBusy, Busy
<1>7. IdleHasNothing'
  BY <1>2 DEF PlanInv, IdleHasNothing, Busy
<1>8. ~excused' => NothingMissed'
  BY <1>2, <1>5, <1>6 DEF PlanInv, NothingMissed, LimitsAreCurrent, WillBeApplied
<1>9. TakenWereQueued'
  <2>1. \A d \in PlanEvent : rec[d] # "none" => rec'[d] # "none"
    BY <1>1, <1>2
  <2>2. \A x \in Runner : Busy(x) => runner[x].event \in PlanEvent
    BY <1>1 DEF Busy, RunnerRecord
  <2> QED BY <1>2, <2>1, <2>2 DEF PlanInv, TakenWereQueued, Busy
<1> QED BY <1>3, <1>4, <1>7, <1>8, <1>9 DEF PlanInv

(* A step of one worker, as the rest of the invariant sees it.             *)
LEMMA RunnerTyped ==
    ASSUME PlanInv, NEW x \in Runner, NEW r \in RunnerRecord, runner' = [runner EXCEPT ![x] = r],
           r.event = NoEvent => r = IdleRunner, r.event # NoEvent => rec[r.event] # "none",
           rec' \in [PlanEvent -> {"none", "queued", "running"} \union Settled],
           \A e \in PlanEvent : rec'[e] = "none" <=> rec[e] = "none",
           fresh' \in [PlanEvent -> BOOLEAN], newest' \in [Gateway -> Limit],
           deaths' \in 0 .. MaxDeaths, excused' \in BOOLEAN, plan' = plan
    PROVE  /\ PlanTypeOK' /\ plan' = Cardinality(Known') /\ IdleHasNothing' /\ TakenWereQueued'
           /\ runner'[x] = r /\ \A y \in Runner \ {x} : runner'[y] = runner[y]
<1>1. runner \in [Runner -> RunnerRecord]
  BY DEF PlanInv, PlanTypeOK, RunnerRecord
<1>2. runner'[x] = r /\ \A y \in Runner \ {x} : runner'[y] = runner[y]
  BY <1>1
<1>3. PlanTypeOK'
  <2>1. runner' \in [Runner -> RunnerRecord]
    BY <1>1
  <2> QED BY <2>1 DEF PlanInv, PlanTypeOK, RunnerRecord
<1>4. Known' = Known
  BY DEF Known
<1>5. IdleHasNothing'
  BY <1>2 DEF PlanInv, IdleHasNothing, Busy
<1>6. TakenWereQueued'
  <2> SUFFICES ASSUME NEW y \in Runner, runner'[y].event # NoEvent PROVE rec'[runner'[y].event] # "none"
    BY DEF TakenWereQueued, Busy
  <2>1. runner'[y].event \in PlanEvent /\ rec[runner'[y].event] # "none"
    BY <1>1, <1>2 DEF PlanInv, TakenWereQueued, Busy, RunnerRecord
  <2> QED BY <2>1
<1> QED BY <1>2, <1>3, <1>4, <1>5, <1>6 DEF PlanInv

LEMMA BeginKeeps == ASSUME PlanInv, NEW x \in Runner, NEW e \in PlanEvent, Begin(x, e) PROVE PlanInv'
<1> DEFINE r == [IdleRunner EXCEPT !.event = e, !.todo = Gateway]
<1>1. PlanTypeOK /\ e # NoEvent
  BY PlanAssumption DEF PlanInv, NoEvent
<1>2. r \in RunnerRecord /\ r.event = e /\ r.todo = Gateway /\ r.gateway = NoGateway
  BY IdleRunnerTyped DEF RunnerRecord, IdleRunner
<1> HIDE DEF r
<1>3. rec' = [rec EXCEPT ![e] = "running"] /\ runner' = [runner EXCEPT ![x] = r] /\ rec[e] # "none"
      /\ UNCHANGED <<plan, newest, deaths>> /\ fresh' = [fresh EXCEPT ![e] = TRUE] /\ runner[x] = IdleRunner
      /\ excused' = (excused \/ \E y \in Runner : runner[y] # IdleRunner)
  BY DEF Begin, Due, r
<1>4. /\ PlanTypeOK' /\ plan' = Cardinality(Known') /\ IdleHasNothing' /\ TakenWereQueued'
      /\ runner'[x] = r /\ \A y \in Runner \ {x} : runner'[y] = runner[y]
  <2>1. rec' \in [PlanEvent -> {"none", "queued", "running"} \union Settled]
        /\ \A d \in PlanEvent : rec'[d] = "none" <=> rec[d] = "none"
    BY <1>1, <1>3 DEF PlanTypeOK
  <2>2. fresh' \in [PlanEvent -> BOOLEAN] /\ newest' \in [Gateway -> Limit] /\ deaths' \in 0 .. MaxDeaths
        /\ excused' \in BOOLEAN
    BY <1>1, <1>3 DEF PlanTypeOK
  <2>3. r.event # NoEvent /\ rec[r.event] # "none"
    BY <1>1, <1>2, <1>3
  <2> QED BY <1>2, <1>3, <2>1, <2>2, <2>3, RunnerTyped
<1>5. ASSUME ~excused' PROVE NothingMissed'
  <2>1. \A y \in Runner \ {x} : runner'[y] = IdleRunner
    BY <1>3, <1>4, <1>5
  <2>2. \A y \in Runner \ {x} : ~Busy(y)' /\ runner'[y].gateway = NoGateway
    BY <2>1 DEF Busy, IdleRunner
  <2>3. rec'[e] = "running"
    BY <1>1, <1>3 DEF PlanTypeOK
  <2>4. OneBusy'
    BY <1>2, <1>4, <2>2, <2>3 DEF OneBusy, Busy
  <2>5. LimitsAreCurrent'
    BY <1>2, <1>4, <2>2 DEF LimitsAreCurrent
  <2>6. \A g \in Gateway : VisitedBy(x, g)'
    BY <1>1, <1>2, <1>4 DEF VisitedBy, Busy
  <2> QED BY <2>4, <2>5, <2>6 DEF NothingMissed, WillBeApplied
<1> QED BY <1>4, <1>5 DEF PlanInv

(* The steps of a worker on the gateways: it looks at one, and queues.     *)
LEMMA GenerateKeeps == ASSUME PlanInv, NEW x \in Runner, GenerateSettings(x) PROVE PlanInv'
<1>1. PlanTypeOK /\ runner \in [Runner -> RunnerRecord] /\ Busy(x) /\ runner[x].gateway = NoGateway /\ plan \in Limit
  BY DEF PlanInv, PlanTypeOK, RunnerRecord, GenerateSettings, Working, Busy
<1>2. UNCHANGED <<plan, rec, fresh, newest, deaths, excused>>
  BY DEF GenerateSettings
<1>3. PICK h \in runner[x].todo : runner' = [runner EXCEPT ![x] = LookedAt(runner[x], h)]
  BY DEF GenerateSettings
<1>4. h \in Gateway /\ runner[x] \in RunnerRecord
  BY <1>1 DEF RunnerRecord
<1>5. PICK r \in RunnerRecord :
        /\ runner' = [runner EXCEPT ![x] = r] /\ r.event = runner[x].event /\ r.todo = runner[x].todo \ {h}
        /\ h \in Unsupported \/ AppliedOn(h) \/ (r.gateway = h /\ r.limit = plan)
        /\ r.gateway # NoGateway => r.limit = plan
  <2>1. CASE h \in Unsupported
    <3> DEFINE r == [runner[x] EXCEPT !.todo = @ \ {h}, !.failed = TRUE]
    <3>1. r \in RunnerRecord /\ r.event = runner[x].event /\ r.todo = runner[x].todo \ {h} /\ r.gateway = NoGateway
      BY <1>1, <1>4 DEF RunnerRecord
    <3>2. r = LookedAt(runner[x], h)
      BY <2>1 DEF LookedAt
    <3> QED BY <1>3, <2>1, <3>1, <3>2
  <2>2. CASE h \notin Unsupported /\ newest[h] = plan
    <3> DEFINE r == [runner[x] EXCEPT !.todo = @ \ {h}]
    <3>1. r \in RunnerRecord /\ r.event = runner[x].event /\ r.todo = runner[x].todo \ {h} /\ r.gateway = NoGateway
      BY <1>1, <1>4 DEF RunnerRecord
    <3>2. r = LookedAt(runner[x], h)
      BY <2>2 DEF LookedAt
    <3> QED BY <1>3, <2>2, <3>1, <3>2 DEF AppliedOn
  <2>3. CASE h \notin Unsupported /\ newest[h] # plan
    <3> DEFINE r == [runner[x] EXCEPT !.todo = @ \ {h}, !.gateway = h, !.limit = plan]
    <3>1. r \in RunnerRecord /\ r.event = runner[x].event /\ r.todo = runner[x].todo \ {h}
          /\ r.gateway = h /\ r.limit = plan
      BY <1>1, <1>4 DEF RunnerRecord
    <3>2. r = LookedAt(runner[x], h)
      BY <2>3 DEF LookedAt
    <3> QED BY <1>3, <3>1, <3>2
  <2> QED BY <2>1, <2>2, <2>3
<1>6. /\ PlanTypeOK' /\ plan' = Cardinality(Known') /\ IdleHasNothing' /\ TakenWereQueued'
      /\ runner'[x] = r /\ \A y \in Runner \ {x} : runner'[y] = runner[y]
  <2>1. r.event # NoEvent /\ rec[r.event] # "none"
    BY <1>1, <1>5 DEF PlanInv, TakenWereQueued, Busy
  <2> QED BY <1>1, <1>2, <1>5, <2>1, RunnerTyped DEF PlanTypeOK
<1>7. \A y \in Runner : runner'[y].event = runner[y].event
  BY <1>5, <1>6
<1>8. ASSUME NothingMissed PROVE NothingMissed'
  <2>1. OneBusy'
    BY <1>2, <1>7, <1>8 DEF NothingMissed, OneBusy, Busy
  <2>2. Waiting' <=> Waiting
    BY <1>2 DEF Waiting
  <2>3. LimitsAreCurrent'
    BY <1>2, <1>5, <1>6, <1>8, <2>2 DEF NothingMissed, LimitsAreCurrent
  <2>4. ASSUME NEW g \in Gateway \ Unsupported PROVE WillBeApplied(g)'
    <3>1. AppliedOn(g)' <=> AppliedOn(g)
      BY <1>2 DEF AppliedOn
    <3>2. \A e \in PlanEvent : Abandoned(e) => Abandoned(e)'
      BY <1>2, <1>7 DEF Abandoned
    <3>3. ASSUME NEW y \in Runner, VisitedBy(y, g) PROVE AppliedOn(g) \/ VisitedBy(y, g)'
      <4>1. CASE y # x
        BY <1>2, <1>6, <3>3, <4>1 DEF VisitedBy, Busy
      <4>2. CASE y = x
        <5>1. g \in runner[x].todo /\ Busy(x)
          BY <1>1, <3>3, <4>2, PlanAssumption DEF VisitedBy, NoGateway
        <5>2. Busy(x)'
          BY <1>7, <5>1 DEF Busy
        <5>3. AppliedOn(g) \/ g \in r.todo \/ (r.gateway = g /\ r.limit = plan')
          BY <1>2, <1>5, <5>1, <2>4
        <5> QED BY <1>6, <4>2, <5>2, <5>3 DEF VisitedBy
      <4> QED BY <4>1, <4>2
    <3>4. WillBeApplied(g)
      BY <1>8 DEF NothingMissed
    <3> QED BY <2>2, <3>1, <3>2, <3>3, <3>4 DEF WillBeApplied
  <2> QED BY <2>1, <2>3, <2>4 DEF NothingMissed
<1> QED BY <1>2, <1>6, <1>8 DEF PlanInv

LEMMA SettingsQueuedKeeps == ASSUME PlanInv, NEW x \in Runner, QueueSettings(x) PROVE PlanInv'
<1> DEFINE h == runner[x].gateway
<1>1. PlanTypeOK /\ runner \in [Runner -> RunnerRecord] /\ h \in Gateway /\ Busy(x) /\ runner[x] \in RunnerRecord
  <2>1. PlanTypeOK /\ runner \in [Runner -> RunnerRecord]
    BY DEF PlanInv, PlanTypeOK, RunnerRecord
  <2>2. h \in Gateway
    BY <2>1 DEF QueueSettings, RunnerRecord
  <2>3. Busy(x)
    BY DEF PlanInv, IdleHasNothing, IdleRunner, QueueSettings
  <2> QED BY <2>1, <2>2, <2>3
<1>2. UNCHANGED <<plan, rec, fresh, deaths>>
  BY DEF QueueSettings
<1>3. PICK r \in RunnerRecord :
        /\ runner' = [runner EXCEPT ![x] = r] /\ r.event = runner[x].event /\ r.todo = runner[x].todo
        /\ r.gateway = NoGateway
        /\ \/ newest' = [newest EXCEPT ![h] = runner[x].limit] /\ UNCHANGED excused
           \/ excused' = TRUE /\ UNCHANGED newest
  <2>1. CASE newest' = [newest EXCEPT ![h] = runner[x].limit] /\ UNCHANGED excused
             /\ runner' = [runner EXCEPT ![x].gateway = NoGateway, ![x].limit = 0]
    <3> DEFINE r == [runner[x] EXCEPT !.gateway = NoGateway, !.limit = 0]
    <3>1. r \in RunnerRecord /\ r.event = runner[x].event /\ r.todo = runner[x].todo /\ r.gateway = NoGateway
      BY <1>1, IdleRunnerTyped DEF RunnerRecord
    <3>2. runner' = [runner EXCEPT ![x] = r]
      BY <1>1, <2>1
    <3> QED BY <2>1, <3>1, <3>2
  <2>2. CASE excused' = TRUE /\ UNCHANGED newest
             /\ runner' = [runner EXCEPT ![x].gateway = NoGateway, ![x].limit = 0, ![x].failed = TRUE]
    <3> DEFINE r == [runner[x] EXCEPT !.gateway = NoGateway, !.limit = 0, !.failed = TRUE]
    <3>1. r \in RunnerRecord /\ r.event = runner[x].event /\ r.todo = runner[x].todo /\ r.gateway = NoGateway
      BY <1>1, IdleRunnerTyped DEF RunnerRecord
    <3>2. runner' = [runner EXCEPT ![x] = r]
      BY <1>1, <2>2
    <3> QED BY <2>2, <3>1, <3>2
  <2> QED BY <2>1, <2>2 DEF QueueSettings
<1>4. /\ PlanTypeOK' /\ plan' = Cardinality(Known') /\ IdleHasNothing' /\ TakenWereQueued'
      /\ runner'[x] = r /\ \A y \in Runner \ {x} : runner'[y] = runner[y]
  <2>1. newest' \in [Gateway -> Limit] /\ excused' \in BOOLEAN
    BY <1>1, <1>3 DEF PlanTypeOK, RunnerRecord
  <2>2. r.event # NoEvent /\ rec[r.event] # "none"
    BY <1>1, <1>3 DEF PlanInv, TakenWereQueued, Busy
  <2> QED BY <1>1, <1>2, <1>3, <2>1, <2>2, RunnerTyped DEF PlanTypeOK
<1>5. \A y \in Runner : runner'[y].event = runner[y].event /\ runner'[y].todo = runner[y].todo
  BY <1>3, <1>4
<1>6. ASSUME NothingMissed, ~excused' PROVE NothingMissed'
  <2>1. OneBusy'
    BY <1>2, <1>5, <1>6 DEF NothingMissed, OneBusy, Busy
  <2>2. Waiting' <=> Waiting
    BY <1>2 DEF Waiting
  <2>3. LimitsAreCurrent'
    BY <1>2, <1>3, <1>4, <1>6, <2>2 DEF NothingMissed, LimitsAreCurrent
  <2>4. newest' = [newest EXCEPT ![h] = runner[x].limit] /\ newest \in [Gateway -> Limit]
    BY <1>1, <1>3, <1>6 DEF PlanTypeOK
  <2>5. runner[x].limit = plan \/ Waiting
    BY <1>1, <1>6, PlanAssumption DEF NothingMissed, LimitsAreCurrent, NoGateway
  <2>6. ASSUME NEW g \in Gateway \ Unsupported PROVE WillBeApplied(g)'
    <3>1. CASE Waiting
      BY <2>2, <3>1 DEF WillBeApplied
    <3>2. CASE ~Waiting /\ g = h
      <4>1. newest'[g] = plan'
        BY <1>2, <2>4, <2>5, <3>2
      <4> QED BY <4>1 DEF WillBeApplied, AppliedOn
    <3>3. CASE ~Waiting /\ g # h
      <4>1. AppliedOn(g)' <=> AppliedOn(g)
        BY <1>2, <2>4, <3>3 DEF AppliedOn
      <4>2. \A e \in PlanEvent : Abandoned(e) => Abandoned(e)'
        BY <1>2, <1>5 DEF Abandoned
      <4>3. ASSUME NEW y \in Runner, VisitedBy(y, g) PROVE VisitedBy(y, g)'
        BY <1>2, <1>4, <1>5, <3>3, <4>3 DEF VisitedBy, Busy
      <4>4. WillBeApplied(g)
        BY <1>6 DEF NothingMissed
      <4> QED BY <3>3, <4>1, <4>2, <4>3, <4>4 DEF WillBeApplied
    <3> QED BY <3>1, <3>2, <3>3
  <2> QED BY <2>1, <2>3, <2>6 DEF NothingMissed
<1>7. ~excused' => ~excused
  BY <1>1, <1>3 DEF PlanTypeOK
<1> QED BY <1>4, <1>6, <1>7 DEF PlanInv

(* A worker that ends has visited every gateway; one that dies leaves its  *)
(* event to be taken over.                                                 *)
LEMMA EndKeeps == ASSUME PlanInv, NEW x \in Runner, Finish(x) \/ RunnerDies(x) PROVE PlanInv'
<1> DEFINE e == runner[x].event
<1>1. PlanTypeOK /\ runner \in [Runner -> RunnerRecord] /\ Busy(x) /\ e \in PlanEvent
  <2>1. PlanTypeOK /\ runner \in [Runner -> RunnerRecord]
    BY DEF PlanInv, PlanTypeOK, RunnerRecord
  <2>2. Busy(x)
    BY DEF PlanInv, IdleHasNothing, Finish, RunnerDies, Working, Busy
  <2> QED BY <2>1, <2>2 DEF Busy, RunnerRecord
<1>2. runner' = [runner EXCEPT ![x] = IdleRunner] /\ UNCHANGED <<plan, fresh, newest, excused>>
      /\ deaths' \in 0 .. MaxDeaths
  BY <1>1, PlanAssumption DEF Finish, RunnerDies, PlanTypeOK
<1>3. rec \in [PlanEvent -> {"none", "queued", "running"} \union Settled]
  BY <1>1 DEF PlanTypeOK
<1>4. /\ rec' \in [PlanEvent -> {"none", "queued", "running"} \union Settled]
      /\ \A d \in PlanEvent \ {e} : rec'[d] = rec[d]
      /\ rec'[e] # rec[e] => rec'[e] \in Settled /\ runner[x].gateway = NoGateway /\ runner[x].todo = {}
  BY <1>1, <1>3 DEF Finish, RunnerDies, Settled, Working
<1>5. /\ PlanTypeOK' /\ plan' = Cardinality(Known') /\ IdleHasNothing' /\ TakenWereQueued'
      /\ runner'[x] = IdleRunner /\ \A y \in Runner \ {x} : runner'[y] = runner[y]
  <2>1. \A d \in PlanEvent : rec'[d] = "none" <=> rec[d] = "none"
    <3>1. rec[e] # "none"
      BY <1>1 DEF PlanInv, TakenWereQueued
    <3>2. rec'[e] # "none"
      BY <1>4, <3>1 DEF Settled
    <3> QED BY <1>4, <3>1, <3>2
  <2>2. IdleRunner \in RunnerRecord /\ IdleRunner.event = NoEvent
    BY IdleRunnerTyped
  <2> QED BY <1>1, <1>2, <1>4, <2>1, <2>2, RunnerTyped DEF PlanTypeOK
<1>6. ASSUME NothingMissed PROVE NothingMissed'
  <2>1. \A y \in Runner : ~Busy(y)' /\ runner'[y] = IdleRunner
    <3>1. \A y \in Runner \ {x} : ~Busy(y)
      BY <1>1, <1>6 DEF NothingMissed, OneBusy
    <3>2. \A y \in Runner \ {x} : runner[y] = IdleRunner
      BY <3>1 DEF PlanInv, IdleHasNothing
    <3> QED BY <1>5, <3>2, IdleRunnerTyped DEF Busy
  <2>2. OneBusy' /\ LimitsAreCurrent'
    BY <2>1 DEF OneBusy, LimitsAreCurrent, IdleRunner
  <2>3. rec[e] = "running"
    BY <1>1, <1>6 DEF NothingMissed, OneBusy
  <2>4. ASSUME NEW g \in Gateway \ Unsupported PROVE WillBeApplied(g)'
    <3>1. WillBeApplied(g)
      BY <1>6 DEF NothingMissed
    <3>2. CASE AppliedOn(g)
      BY <1>2, <3>2 DEF WillBeApplied, AppliedOn
    <3>3. CASE Waiting
      <4>1. PICK d \in PlanEvent : rec[d] = "queued"
        BY <3>3 DEF Waiting
      <4>2. rec'[d] = "queued"
        BY <1>4, <2>3, <4>1
      <4> QED BY <4>2 DEF WillBeApplied, Waiting
    <3>4. ASSUME NEW d \in PlanEvent, rec'[d] = "running" PROVE WillBeApplied(g)'
      <4>1. \A y \in Runner : runner'[y].event = NoEvent
        BY <2>1, IdleRunnerTyped
      <4>2. Abandoned(d)'
        BY <3>4, <4>1, PlanAssumption DEF Abandoned, NoEvent
      <4> QED BY <4>2 DEF WillBeApplied
    <3>5. ASSUME NEW d \in PlanEvent, Abandoned(d) PROVE rec'[d] = "running"
      BY <1>4, <3>5 DEF Abandoned
    <3>6. ASSUME NEW y \in Runner, VisitedBy(y, g) PROVE rec'[e] = "running"
      <4>1. y = x
        BY <1>1, <1>6, <3>6 DEF NothingMissed, OneBusy, VisitedBy
      <4>2. ~(runner[x].gateway = NoGateway /\ runner[x].todo = {})
        BY <3>6, <4>1, PlanAssumption DEF VisitedBy, NoGateway
      <4> QED BY <1>4, <2>3, <4>2
    <3> QED BY <1>1, <3>1, <3>2, <3>3, <3>4, <3>5, <3>6 DEF WillBeApplied
  <2> QED BY <2>2, <2>4 DEF NothingMissed
<1> QED BY <1>2, <1>5, <1>6 DEF PlanInv

LEMMA PlanStepKeeps == PlanInv /\ [PlanNext]_planVars => PlanInv'
<1> SUFFICES ASSUME PlanInv, [PlanNext]_planVars PROVE PlanInv'
  OBVIOUS
<1>1. ASSUME UNCHANGED <<plan, rec, runner, newest, deaths, excused>>, fresh' \in [PlanEvent -> BOOLEAN] PROVE PlanInv'
  BY <1>1 DEF PlanInv, PlanTypeOK, Known, IdleHasNothing, TakenWereQueued, NothingMissed, OneBusy, LimitsAreCurrent,
              WillBeApplied, AppliedOn, Waiting, Abandoned, VisitedBy, Busy
<1>2. ASSUME NEW e \in PlanEvent, FiveMinutesPass(e) PROVE PlanInv'
  <2>1. fresh \in [PlanEvent -> BOOLEAN]
    BY DEF PlanInv, PlanTypeOK
  <2> QED BY <1>1, <1>2, <2>1 DEF FiveMinutesPass
<1>3. CASE UNCHANGED planVars
  <2>1. fresh \in [PlanEvent -> BOOLEAN]
    BY DEF PlanInv, PlanTypeOK
  <2> QED BY <1>1, <1>3, <2>1 DEF planVars
<1> QED
  BY <1>2, <1>3, PlanChangeKeeps, BeginKeeps, GenerateKeeps, SettingsQueuedKeeps, EndKeeps DEF PlanNext, Proceed

LEMMA PlanInvariant == PlanSpec => []PlanInv
BY PlanInitially, PlanStepKeeps, PTL DEF PlanSpec

(* The variables of plan reconciliation keep their types.                  *)
THEOREM PlanTypeCorrect == PlanSpec => []PlanTypeOK
BY PlanInvariant, PTL DEF PlanInv

(* reconcile_team_gateway_polling applies every plan change in the end:    *)
(* only workers that overlapped, or settings that could not be queued,     *)
(* leave a gateway with an old limit (plan_reconciliation.py:81, :92).     *)
THEOREM PlansAreApplied == PlanSpec => []OnlyOverlapsKeepAnOldLimit
<1>1. PlanInv => OnlyOverlapsKeepAnOldLimit
  <2> SUFFICES ASSUME PlanInv, AllSettled, ~excused, NEW g \in Gateway \ Unsupported PROVE AppliedOn(g)
    BY DEF OnlyOverlapsKeepAnOldLimit
  <2>1. OneBusy /\ WillBeApplied(g)
    BY DEF PlanInv, NothingMissed
  <2>2. \A e \in PlanEvent : rec[e] \notin {"queued", "running"}
    BY DEF AllSettled, Settled
  <2>3. \A x \in Runner : ~Busy(x)
    <3>1. \A x \in Runner : Busy(x) => runner[x].event \in PlanEvent
      BY DEF PlanInv, PlanTypeOK, Busy
    <3> QED BY <2>1, <2>2, <3>1 DEF OneBusy
  <2> QED BY <2>1, <2>2, <2>3 DEF WillBeApplied, Waiting, Abandoned, VisitedBy
<1> QED BY <1>1, PlanInvariant, PTL
=============================================================================
