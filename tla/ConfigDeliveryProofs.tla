------------------------ MODULE ConfigDeliveryProofs ------------------------
(***************************************************************************)
(* What GatewayConfigDelivery guarantees for any number of revisions and   *)
(* any set of overlapping dispatchers, and that it implements the register *)
(* of settings that SettingsRegister promises.                             *)
(***************************************************************************)
EXTENDS GatewayConfigDelivery, TLAPS

(* An acknowledgement that carries an outcome is true of its revision, and *)
(* stays true: the edge settles a revision once.                           *)
ReceiptsAreTrue ==
    \A r \in Revision, o \in Outcome : <<r, o>> \in receipts => edge[r] = o

ConfigInv == ConfigTypeOK /\ ReceiptsAreTrue /\ ShownOutcomeIsReal /\ NoStrandedConfig

-----------------------------------------------------------------------------
(* What writing one row of the two tables preserves.                       *)
LEMMA RowTyped ==
    ASSUME ConfigTypeOK, NEW r \in Revision, NEW s \in Status, NEW o \in OutboxStatus,
           NEW l \in BOOLEAN, SetRow(r, s, o, l)
    PROVE  /\ status' \in [Revision -> Status]
           /\ outbox' \in [Revision -> OutboxStatus]
           /\ leased' \in [Revision -> BOOLEAN]
           /\ status'[r] = s /\ outbox'[r] = o
           /\ \A q \in Revision \ {r} : status'[q] = status[q] /\ outbox'[q] = outbox[q]
BY DEF ConfigTypeOK, SetRow

LEMMA Vocabulary ==
    /\ Terminal \subseteq Status /\ Replaceable \subseteq Status /\ Answer \subseteq Status
    /\ InProgress \subseteq Status /\ Outcome \subseteq Terminal /\ Outcome \subseteq Answer
    /\ Unclaimed \subseteq OutboxStatus
    /\ Outcome \cap InProgress = {} /\ Terminal \cap InProgress = {}
    /\ {"none", "queued", "waiting_for_gateway", "published", "timed_out", "superseded"} \subseteq Status
    /\ {"none", "claimed", "completed", "dead_letter"} \subseteq OutboxStatus
    /\ {"pending", "retry", "waiting_gateway", "awaiting_ack"} \subseteq Unclaimed
BY DEF Terminal, Replaceable, Answer, InProgress, Outcome, Status, Unclaimed, OutboxStatus

-----------------------------------------------------------------------------
LEMMA InitConfig == Init => ConfigInv
BY ConfigAssumption
   DEF Init, ConfigInv, ConfigTypeOK, ReceiptsAreTrue, ShownOutcomeIsReal, NoStrandedConfig,
       Revision, Status, OutboxStatus, Answer, Outcome, InProgress, Replaceable, Idle

(* A row written with an outcome must carry the edge's own, and one in     *)
(* progress an open outbox row.                                            *)
LEMMA RowSafe ==
    ASSUME ConfigInv, NEW r \in Revision, NEW s \in Status, NEW o \in OutboxStatus,
           NEW l \in BOOLEAN, SetRow(r, s, o, l),
           UNCHANGED edge,
           s \in Outcome => edge[r] = s,
           s \in InProgress => o \in Unclaimed \cup {"claimed"}
    PROVE  ShownOutcomeIsReal' /\ NoStrandedConfig'
BY RowTyped DEF ConfigInv, ShownOutcomeIsReal, NoStrandedConfig

LEMMA DecideSafe == ConfigInv /\ (\E r \in Revision : Decide(r)) => ConfigInv'
<1> SUFFICES ASSUME ConfigInv, NEW r \in Revision, Decide(r) PROVE ConfigInv'
  OBVIOUS
<1>1. ConfigTypeOK /\ status[r] \in Status /\ outbox[r] \in OutboxStatus /\ leased[r] \in BOOLEAN
  BY DEF ConfigInv, ConfigTypeOK
<1>2. UNCHANGED <<latest, expired, at, gatewayVars>>
  BY DEF Decide
<1>3. ReceiptsAreTrue'
  BY <1>2 DEF ConfigInv, ReceiptsAreTrue, gatewayVars
<1>4. ASSUME NEW s \in Status, NEW o \in OutboxStatus, NEW l \in BOOLEAN, SetRow(r, s, o, l),
             s \in Outcome => s = status[r],
             s \in InProgress => o \in Unclaimed \cup {"claimed"}
      PROVE  ConfigInv'
  <2>1. ConfigTypeOK'
    BY <1>1, <1>2, <1>4, RowTyped DEF ConfigTypeOK, gatewayVars
  <2>2. s \in Outcome => edge[r] = s
    BY <1>4 DEF ConfigInv, ShownOutcomeIsReal
  <2>3. ShownOutcomeIsReal' /\ NoStrandedConfig'
    BY <1>2, <1>4, <2>2, RowSafe DEF gatewayVars
  <2> QED BY <1>3, <2>1, <2>3 DEF ConfigInv
<1>5. CASE CompleteSettled(r)
  BY <1>1, <1>4, <1>5, Vocabulary DEF CompleteSettled
<1>6. CASE TimeOut(r)
  BY <1>1, <1>4, <1>6, Vocabulary DEF TimeOut, Outcome, InProgress, Replaceable
<1>7. CASE DropForRelease(r)
  BY <1>1, <1>4, <1>7, Vocabulary DEF DropForRelease, Outcome, InProgress, Replaceable
<1>8. CASE WaitForGateway(r)
  BY <1>1, <1>4, <1>8, Vocabulary DEF WaitForGateway, Outcome
<1> QED BY <1>5, <1>6, <1>7, <1>8 DEF Decide

LEMMA ClaimSafe == ConfigInv /\ (\E r \in Revision, d \in Dispatcher : Claim(d, r)) => ConfigInv'
<1> SUFFICES ASSUME ConfigInv, NEW r \in Revision, NEW d \in Dispatcher, Claim(d, r)
             PROVE  ConfigInv'
  OBVIOUS
<1>1. ConfigTypeOK /\ status[r] \in Status
  BY DEF ConfigInv, ConfigTypeOK
<1>2. SetRow(r, status[r], "claimed", TRUE) /\ "claimed" \in OutboxStatus
  BY Vocabulary DEF Claim
<1>3. ConfigTypeOK'
  BY <1>1, <1>2, RowTyped DEF Claim, ConfigTypeOK, gatewayVars
<1>4. ReceiptsAreTrue'
  BY DEF Claim, ConfigInv, ReceiptsAreTrue, gatewayVars
<1>5. UNCHANGED edge /\ (status[r] \in Outcome => edge[r] = status[r])
  BY DEF Claim, ConfigInv, ShownOutcomeIsReal, gatewayVars
<1>6. ShownOutcomeIsReal' /\ NoStrandedConfig'
  BY <1>1, <1>2, <1>5, RowSafe
<1> QED BY <1>3, <1>4, <1>6 DEF ConfigInv

LEMMA RecordSafe == ConfigInv /\ (\E d \in Dispatcher : Record(d)) => ConfigInv'
<1> SUFFICES ASSUME ConfigInv, NEW d \in Dispatcher, Record(d) PROVE ConfigInv'
  OBVIOUS
<1> DEFINE r == at[d]
<1>1. ConfigTypeOK /\ r \in Revision /\ status[r] \in Status
  BY DEF ConfigInv, ConfigTypeOK, Record
<1>2. UNCHANGED <<latest, expired, gatewayVars>> /\ at' \in [Dispatcher -> {Idle} \cup Revision]
  BY <1>1 DEF Record, ConfigTypeOK
<1>3. ReceiptsAreTrue'
  BY <1>2 DEF ConfigInv, ReceiptsAreTrue, gatewayVars
<1>4. CASE UNCHANGED <<status, outbox, leased>>
  BY <1>1, <1>2, <1>3, <1>4
     DEF ConfigInv, ConfigTypeOK, ShownOutcomeIsReal, NoStrandedConfig, gatewayVars
<1>5. ASSUME NEW s \in Status, NEW o \in Unclaimed, SetRow(r, s, o, FALSE),
             s \in Outcome => s = status[r]
      PROVE  ConfigInv'
  <2>1. o \in OutboxStatus
    BY Vocabulary
  <2>2. ConfigTypeOK'
    BY <1>1, <1>2, <1>5, <2>1, RowTyped DEF ConfigTypeOK, gatewayVars
  <2>3. UNCHANGED edge /\ (s \in Outcome => edge[r] = s)
    BY <1>1, <1>2, <1>5 DEF ConfigInv, ShownOutcomeIsReal, gatewayVars
  <2>4. ShownOutcomeIsReal' /\ NoStrandedConfig'
    BY <1>1, <1>5, <2>1, <2>3, RowSafe
  <2> QED BY <1>3, <2>2, <2>4 DEF ConfigInv
<1>6. CASE SetRow(r, "published", "awaiting_ack", FALSE)
  BY <1>5, <1>6, Vocabulary DEF Outcome
<1>7. CASE SetRow(r, status[r], "retry", FALSE)
  BY <1>1, <1>5, <1>7, Vocabulary
<1> QED BY <1>4, <1>6, <1>7 DEF Record

LEMMA AcknowledgeSafe == ConfigInv /\ (\E m \in receipts : Acknowledge(m)) => ConfigInv'
<1> SUFFICES ASSUME ConfigInv, NEW m \in receipts, Acknowledge(m) PROVE ConfigInv'
  OBVIOUS
<1> DEFINE r == m[1]
           a == m[2]
<1>1. ConfigTypeOK /\ r \in Revision /\ a \in Answer /\ m = <<r, a>>
  BY DEF ConfigInv, ConfigTypeOK
<1>2. outbox[r] \in OutboxStatus /\ leased[r] \in BOOLEAN /\ lifecycle' \in {lifecycle, "active"}
  BY <1>1 DEF ConfigTypeOK, Acknowledge
<1>3. UNCHANGED <<latest, expired, at, edge, receipts, release>>
  BY DEF Acknowledge
<1>4. ReceiptsAreTrue'
  BY <1>3 DEF ConfigInv, ReceiptsAreTrue
<1>5. ASSUME NEW s \in Status, NEW o \in OutboxStatus, NEW l \in BOOLEAN, SetRow(r, s, o, l),
             s \in Outcome => s = a,
             s \in InProgress => o \in Unclaimed
      PROVE  ConfigInv'
  <2>1. ConfigTypeOK'
    BY <1>1, <1>2, <1>3, <1>5, RowTyped DEF ConfigTypeOK
  <2>2. s \in Outcome => edge[r] = s
    BY <1>1, <1>5 DEF ConfigInv, ReceiptsAreTrue
  <2>3. ShownOutcomeIsReal' /\ NoStrandedConfig'
    BY <1>1, <1>3, <1>5, <2>2, RowSafe
  <2> QED BY <1>4, <2>1, <2>3 DEF ConfigInv
<1>6. CASE SetRow(r, "superseded", outbox[r], leased[r])
  BY <1>2, <1>5, <1>6, Vocabulary DEF Outcome, InProgress, Replaceable
<1>7. CASE SetRow(r, a, OutboxAfter(a), leased[r] /\ a = "accepted")
  <2>1. CASE a = "accepted"
    BY <1>2, <1>5, <1>7, <2>1, Vocabulary DEF OutboxAfter, Outcome, Answer
  <2>2. CASE a \in Outcome
    <3>1. SetRow(r, a, "completed", FALSE)
      BY <1>7, <2>2 DEF OutboxAfter, Outcome, SetRow
    <3> QED BY <1>5, <2>2, <3>1, Vocabulary
  <2> QED BY <1>1, <2>1, <2>2 DEF Answer
<1> QED BY <1>6, <1>7 DEF Acknowledge, RecordOf

LEMMA QueueSafe == ConfigInv /\ Queue => ConfigInv'
<1> SUFFICES ASSUME ConfigInv, Queue PROVE ConfigInv'
  OBVIOUS
<1>1. latest' = latest + 1 /\ latest' \in Revision /\ latest' \in 0..MaxRevision
  BY ConfigAssumption DEF Queue, ConfigInv, ConfigTypeOK, Revision
<1>2. ConfigTypeOK'
  BY <1>1, Vocabulary DEF Queue, ConfigInv, ConfigTypeOK, gatewayVars
<1>3. ReceiptsAreTrue'
  BY DEF Queue, ConfigInv, ReceiptsAreTrue, gatewayVars
<1>4. ShownOutcomeIsReal'
  BY DEF Queue, ConfigInv, ConfigTypeOK, ShownOutcomeIsReal, Outcome, gatewayVars
<1>5. ASSUME NEW r \in Revision, status'[r] \in InProgress
      PROVE  outbox'[r] \in Unclaimed \cup {"claimed"}
  <2>1. CASE r = latest'
    BY <1>1, <2>1 DEF Queue, Unclaimed
  <2>2. CASE r # latest'
    <3>1. ~Replaced(r) /\ status'[r] = status[r] /\ outbox'[r] = outbox[r]
      BY <1>5, <2>2 DEF Queue, InProgress, Replaceable
    <3> QED BY <1>5, <3>1 DEF ConfigInv, NoStrandedConfig
  <2> QED BY <2>1, <2>2
<1> QED BY <1>2, <1>3, <1>4, <1>5 DEF ConfigInv, NoStrandedConfig

(* The steps that leave the two tables alone, and the release that empties *)
(* them.                                                                   *)
LEMMA QuietSafe ==
    ASSUME ConfigInv, UNCHANGED <<status, outbox>>, ConfigTypeOK', ReceiptsAreTrue',
           \A r \in Revision : edge[r] \in Outcome => edge'[r] = edge[r]
    PROVE  ConfigInv'
BY DEF ConfigInv, ShownOutcomeIsReal, NoStrandedConfig

LEMMA NextSafe == ConfigInv /\ [Next]_vars => ConfigInv'
<1> SUFFICES ASSUME ConfigInv, [Next]_vars PROVE ConfigInv'
  OBVIOUS
<1> USE DEF gatewayVars, recordVars
<1>1. CASE Queue
  BY <1>1, QueueSafe
<1>2. ASSUME NEW r \in Revision, Dispatch(r) PROVE ConfigInv'
  BY <1>2, DecideSafe, ClaimSafe DEF Dispatch
<1>3. ASSUME NEW r \in Revision, LeaseExpires(r) \/ IntentExpires(r) PROVE ConfigInv'
  <2>1. ConfigTypeOK' /\ ReceiptsAreTrue'
    BY <1>3 DEF LeaseExpires, IntentExpires, ConfigInv, ConfigTypeOK, ReceiptsAreTrue
  <2> QED BY <1>3, <2>1, QuietSafe DEF LeaseExpires, IntentExpires
<1>4. ASSUME NEW d \in Dispatcher, DispatcherStep(d) PROVE ConfigInv'
  <2>1. CASE Publish(d)
    <3>1. at[d] \in Revision
      BY <2>1 DEF Publish, ConfigInv, ConfigTypeOK
    <3>2. ConfigTypeOK' /\ ReceiptsAreTrue'
      BY <2>1, <3>1 DEF Publish, ConfigInv, ConfigTypeOK, ReceiptsAreTrue, Outcome
    <3> QED BY <2>1, <3>1, <3>2, QuietSafe DEF Publish, ConfigInv, ConfigTypeOK, Outcome
  <2>2. CASE Record(d)
    BY <2>2, RecordSafe
  <2>3. CASE DispatcherDies(d)
    <3>1. ConfigTypeOK' /\ ReceiptsAreTrue'
      BY <2>3 DEF DispatcherDies, ConfigInv, ConfigTypeOK, ReceiptsAreTrue
    <3> QED BY <2>3, <3>1, QuietSafe DEF DispatcherDies
  <2> QED BY <1>4, <2>1, <2>2, <2>3 DEF DispatcherStep
<1>5. ASSUME NEW r \in Revision, NEW answer \in Answer, EdgeAnswers(r, answer) PROVE ConfigInv'
  <2>1. edge[r] \notin Outcome /\ \A q \in Revision \ {r} : edge'[q] = edge[q]
    BY <1>5 DEF EdgeAnswers, ConfigInv, ConfigTypeOK, Outcome
  <2>2. ConfigTypeOK'
    BY <1>5 DEF EdgeAnswers, ConfigInv, ConfigTypeOK
  <2>3. ReceiptsAreTrue'
    BY <1>5, <2>1 DEF EdgeAnswers, ConfigInv, ConfigTypeOK, ReceiptsAreTrue
  <2>4. \A q \in Revision : edge[q] \in Outcome => edge'[q] = edge[q]
    BY <2>1
  <2> QED BY <1>5, <2>2, <2>3, <2>4, QuietSafe DEF EdgeAnswers
<1>6. CASE \E m \in receipts : Acknowledge(m)
  BY <1>6, AcknowledgeSafe
<1>7. CASE RequestRelease
  <2>1. ConfigTypeOK' /\ ReceiptsAreTrue'
    BY <1>7 DEF RequestRelease, ConfigInv, ConfigTypeOK, ReceiptsAreTrue
  <2> QED BY <1>7, <2>1, QuietSafe DEF RequestRelease
<1>8. CASE FinalizeRelease
  <2>1. ConfigTypeOK' /\ ReceiptsAreTrue'
    BY <1>8, Vocabulary DEF FinalizeRelease, ConfigInv, ConfigTypeOK, ReceiptsAreTrue
  <2>2. ShownOutcomeIsReal' /\ NoStrandedConfig'
    BY <1>8 DEF FinalizeRelease, ShownOutcomeIsReal, NoStrandedConfig, Outcome, InProgress, Replaceable
  <2> QED BY <2>1, <2>2 DEF ConfigInv
<1>9. CASE UNCHANGED vars
  BY <1>9 DEF vars, ConfigInv, ConfigTypeOK, ReceiptsAreTrue, ShownOutcomeIsReal, NoStrandedConfig
<1> QED BY <1>1, <1>2, <1>3, <1>4, <1>5, <1>6, <1>7, <1>8, <1>9 DEF Next

(* Every reachable state satisfies the invariant.                          *)
THEOREM ConfigInvariant == Spec => []ConfigInv
BY InitConfig, NextSafe, PTL DEF Spec

(* The variables keep their types.                                         *)
THEOREM ConfigTypeCorrect == Spec => []ConfigTypeOK
BY ConfigInvariant, PTL DEF ConfigInv

(* No outcome is shown that the gateway did not report of that revision    *)
(* (gateway_config_delivery.py:301-346).                                   *)
THEOREM OutcomesAreReal == Spec => []ShownOutcomeIsReal
BY ConfigInvariant, PTL DEF ConfigInv

(* No revision in progress is without an outbox row the scanner finds.     *)
THEOREM NoConfigStranded == Spec => []NoStrandedConfig
BY ConfigInvariant, PTL DEF ConfigInv

-----------------------------------------------------------------------------
(* What a step may make of a revision's status: an older one is never      *)
(* given an acceptance or an outcome.                                      *)
NewestOnly ==
    \A r \in Revision : status'[r] # status[r] /\ status'[r] \in {"accepted"} \cup Outcome =>
        r = latest

LEMMA StepNewestOnly == ConfigTypeOK /\ [Next]_vars => NewestOnly
<1> SUFFICES ASSUME ConfigTypeOK, [Next]_vars, NEW r \in Revision,
                    status'[r] # status[r], status'[r] \in {"accepted"} \cup Outcome
             PROVE  r = latest
  BY DEF NewestOnly
<1>1. status \in [Revision -> Status]
  BY DEF ConfigTypeOK
<1>2. ASSUME NEW q, NEW s, NEW o, NEW l, SetRow(q, s, o, l) PROVE r = q /\ status'[r] = s
  BY <1>1, <1>2 DEF SetRow
<1>3. ~Queue
  BY <1>1 DEF Queue, Outcome
<1>4. ASSUME NEW q \in Revision, Dispatch(q) PROVE FALSE
  <2>1. ~SetRow(q, "timed_out", "dead_letter", FALSE)
    BY <1>1 DEF SetRow, Outcome
  <2>2. ~SetRow(q, "superseded", "completed", leased[q])
    BY <1>1 DEF SetRow, Outcome
  <2>3. ~SetRow(q, "waiting_for_gateway", "waiting_gateway", FALSE)
    BY <1>1 DEF SetRow, Outcome
  <2>4. ~SetRow(q, status[q], "completed", FALSE) /\ ~SetRow(q, status[q], "claimed", TRUE)
    BY <1>1 DEF SetRow
  <2> QED
    BY <1>4, <2>1, <2>2, <2>3, <2>4
       DEF Dispatch, Decide, Claim, CompleteSettled, TimeOut, DropForRelease, WaitForGateway
<1>5. ASSUME NEW d \in Dispatcher, DispatcherStep(d) PROVE FALSE
  BY <1>2, <1>5 DEF DispatcherStep, Publish, Record, DispatcherDies, recordVars, Outcome
<1>6. ASSUME NEW m \in receipts, Acknowledge(m) PROVE r = latest
  BY <1>2, <1>6 DEF Acknowledge, RecordOf, Old, Outcome
<1>7. ~FinalizeRelease
  BY DEF FinalizeRelease, Outcome
<1>8. UNCHANGED status => FALSE
  OBVIOUS
<1> QED
  BY <1>3, <1>4, <1>5, <1>6, <1>7, <1>8
     DEF Next, LeaseExpires, IntentExpires, EdgeAnswers, RequestRelease, recordVars, vars

(* Only the newest revision is ever accepted or settled                    *)
(* (tests/test_managed_gateway_hardening.py:533).                          *)
THEOREM NewestTakesEffect == Spec => OnlyNewestTakesEffect
<1>1. ConfigTypeOK /\ [Next]_vars => [NewestOnly]_vars
  BY StepNewestOnly
<1> QED BY <1>1, ConfigTypeCorrect, PTL DEF Spec, OnlyNewestTakesEffect, NewestOnly

-----------------------------------------------------------------------------
(* The refinement: delivery implements SettingsRegister.  An acceptance, as *)
(* well as an outcome, is answered only by a gateway that decided.         *)
AnswersAreGiven == \A m \in receipts : edge[m[1]] \in Answer

LEMMA AnswersStayGiven == ConfigInv /\ AnswersAreGiven /\ [Next]_vars => AnswersAreGiven'
<1> SUFFICES ASSUME ConfigInv, AnswersAreGiven, [Next]_vars PROVE AnswersAreGiven'
  OBVIOUS
<1>1. edge \in [Revision -> {"none", "delivered"} \cup Answer] /\ receipts \subseteq Revision \X Answer
  BY DEF ConfigInv, ConfigTypeOK
<1>2. ASSUME NEW d \in Dispatcher, Publish(d) PROVE AnswersAreGiven'
  BY <1>1, <1>2 DEF Publish, AnswersAreGiven, Answer, Outcome
<1>3. ASSUME NEW r \in Revision, NEW answer \in Answer, EdgeAnswers(r, answer) PROVE AnswersAreGiven'
  BY <1>1, <1>3 DEF EdgeAnswers, AnswersAreGiven
<1>4. ASSUME UNCHANGED <<edge, receipts>> PROVE AnswersAreGiven'
  BY <1>4 DEF AnswersAreGiven
<1> QED
  BY <1>2, <1>3, <1>4
     DEF Next, Queue, Dispatch, Decide, Claim, LeaseExpires, IntentExpires, DispatcherStep, Record,
         DispatcherDies, Acknowledge, RequestRelease, FinalizeRelease, vars, gatewayVars

LEMMA AnswersInvariant == Spec => [](ConfigInv /\ AnswersAreGiven)
<1>1. Init => AnswersAreGiven
  BY DEF Init, AnswersAreGiven
<1> QED BY <1>1, AnswersStayGiven, ConfigInvariant, PTL DEF Spec

(* The register as it is seen, and what writing a row makes of it.          *)
Seen == [r \in Revision |-> ShownAs(status[r], outbox[r])]
Decided == [r \in Revision |-> IF edge[r] \in Answer THEN edge[r] ELSE "nothing"]
Sending == {at[d] : d \in Dispatcher} \ {Idle}

LEMMA ShownInWords ==
    /\ \A s \in Outcome \cup {"none", "accepted"} : \A o : ShownAs(s, o) = s
    /\ \A o : ShownAs("superseded", o) = "over"
    /\ \A s \in {"queued", "waiting_for_gateway", "published"} : \A o : ShownAs(s, o) = "open"
    /\ \A o \in Unclaimed \cup {"claimed"} : ShownAs("timed_out", o) = "open"
    /\ \A o : o \notin Unclaimed \cup {"claimed"} => ShownAs("timed_out", o) = "over"
BY DEF ShownAs, Outcome

LEMMA RowSeen ==
    ASSUME ConfigTypeOK, NEW r \in Revision, NEW s \in Status, NEW o \in OutboxStatus,
           NEW l \in BOOLEAN, SetRow(r, s, o, l)
    PROVE  Seen' = [Seen EXCEPT ![r] = ShownAs(s, o)]
<1>1. /\ status'[r] = s /\ outbox'[r] = o
      /\ \A q \in Revision \ {r} : status'[q] = status[q] /\ outbox'[q] = outbox[q]
  BY RowTyped
<1> QED BY <1>1 DEF Seen

LEMMA OnlyNoneIsUnseen ==
    ASSUME NEW s \in Status, NEW o PROVE (ShownAs(s, o) = "none" <=> s = "none")
                                      /\ (ShownAs(s, o) \in Outcome => s \in Outcome)
<1>1. s \in Outcome \cup {"none", "accepted", "superseded", "queued", "waiting_for_gateway", "published", "timed_out"}
  BY DEF Status, Replaceable, Terminal
<1>2. CASE s \in Outcome \cup {"none", "accepted"}
  BY <1>2, ShownInWords
<1>3. CASE s \notin Outcome \cup {"none", "accepted"}
  <2>1. ShownAs(s, o) \in {"over", "open"}
    BY <1>1, <1>3, ShownInWords
  <2> QED BY <2>1, <1>3 DEF Outcome
<1> QED BY <1>2, <1>3

LEMMA RegisterInitially == Init => Register!RegisterInit
BY DEF Init, Register!RegisterInit, Register!Asked, Revision, ShownAs, Answer, Outcome, Idle

(* What a claim, a wait and a time-out find and leave.                      *)
LEMMA DispatchRefines ==
    ASSUME ConfigInv, NEW r \in Revision, Dispatch(r)
    PROVE  Register!StartSending(r) \/ Register!GiveUp(r) \/ UNCHANGED <<latest, Decided, Seen, Sending>>
<1> USE DEF gatewayVars, recordVars
<1>1. ConfigTypeOK /\ status[r] \in Status /\ outbox[r] \in OutboxStatus /\ leased[r] \in BOOLEAN
      /\ at \in [Dispatcher -> {Idle} \cup Revision]
  BY DEF ConfigInv, ConfigTypeOK
<1>2. Seen[r] = ShownAs(status[r], outbox[r]) /\ UNCHANGED <<latest, Decided>>
  BY DEF Seen, Decided, Dispatch, Decide, Claim
<1>3. ASSUME NEW s \in Status, NEW o \in OutboxStatus, NEW l \in BOOLEAN, SetRow(r, s, o, l),
             ShownAs(s, o) = Seen[r]
      PROVE  UNCHANGED Seen
  <2>1. Seen' = [Seen EXCEPT ![r] = Seen[r]]
    BY <1>1, <1>3, RowSeen
  <2> QED BY <2>1 DEF Seen
<1>4. ASSUME NEW s \in Status, NEW o \in OutboxStatus, NEW l \in BOOLEAN, SetRow(r, s, o, l),
             ShownAs(s, o) = "over", UNCHANGED at, status[r] \in Replaceable
      PROVE  Register!GiveUp(r)
  <2>1. Seen' = [Seen EXCEPT ![r] = "over"]
    BY <1>1, <1>4, RowSeen
  <2>2. Seen[r] # "none" /\ Seen[r] \notin Outcome
    BY <1>1, <1>2, <1>4, OnlyNoneIsUnseen DEF Replaceable, Outcome
  <2>3. UNCHANGED Sending
    BY <1>4 DEF Sending
  <2> QED BY <1>2, <2>1, <2>2, <2>3 DEF Register!GiveUp, Register!Show, Register!Decision, Seen, Decided, Sending, Outcome
<1>5. ASSUME CompleteSettled(r), UNCHANGED at PROVE UNCHANGED <<Seen, Sending>>
  <2>1. status[r] \in Outcome \cup {"superseded"} /\ SetRow(r, status[r], "completed", FALSE)
    BY <1>5 DEF CompleteSettled, Terminal
  <2>2. ShownAs(status[r], "completed") = Seen[r]
    BY <1>2, <2>1, ShownInWords
  <2> QED BY <1>1, <1>3, <1>5, <2>1, <2>2, Vocabulary DEF Sending
<1>6. ASSUME TimeOut(r), UNCHANGED at PROVE Register!GiveUp(r)
  <2>1. "dead_letter" \notin Unclaimed \cup {"claimed"}
    BY DEF Unclaimed
  <2>2. ShownAs("timed_out", "dead_letter") = "over"
    BY <2>1, ShownInWords
  <2> QED BY <1>4, <1>6, <2>2, Vocabulary DEF TimeOut
<1>7. ASSUME DropForRelease(r), UNCHANGED at PROVE Register!GiveUp(r)
  <2>1. ShownAs("superseded", "completed") = "over" /\ status[r] \in Replaceable
    BY <1>7, ShownInWords DEF DropForRelease, Pending
  <2> QED BY <1>1, <1>4, <1>7, <2>1, Vocabulary DEF DropForRelease
<1>8. ASSUME Pending(r) PROVE Seen[r] = "open"
  <2>1. status[r] \in {"queued", "waiting_for_gateway", "published", "timed_out"}
        /\ outbox[r] \in Unclaimed \cup {"claimed"}
    BY <1>8 DEF Pending, Claimable, Replaceable
  <2> QED BY <1>2, <2>1, ShownInWords
<1>9. ASSUME WaitForGateway(r), UNCHANGED at PROVE UNCHANGED <<Seen, Sending>>
  <2>1. ShownAs("waiting_for_gateway", "waiting_gateway") = Seen[r]
    BY <1>8, <1>9, ShownInWords DEF WaitForGateway
  <2> QED BY <1>3, <1>9, <2>1, Vocabulary DEF WaitForGateway, Sending
<1>10. ASSUME NEW d \in Dispatcher, Claim(d, r) PROVE Register!StartSending(r)
  <2>1. Pending(r) /\ at[d] = Idle /\ SetRow(r, status[r], "claimed", TRUE) /\ at' = [at EXCEPT ![d] = r]
    BY <1>10 DEF Claim
  <2>2. ShownAs(status[r], "claimed") = Seen[r]
    <3>1. status[r] \in {"queued", "waiting_for_gateway", "published", "timed_out"}
      BY <2>1 DEF Pending, Replaceable
    <3> QED BY <1>8, <2>1, <3>1, ShownInWords
  <2>3. UNCHANGED Seen
    BY <1>1, <1>3, <2>1, <2>2, Vocabulary
  <2>4. r # Idle
    BY DEF Revision, Idle
  <2>5. Sending' = Sending \cup {r}
    BY <1>1, <2>1, <2>4 DEF Sending
  <2> QED BY <1>2, <1>8, <2>1, <2>3, <2>5 DEF Register!StartSending, Seen, Decided, Sending
<1>11. ASSUME Decide(r) PROVE UNCHANGED at
  BY <1>11 DEF Decide
<1> QED
  BY <1>2, <1>5, <1>6, <1>7, <1>9, <1>10, <1>11 DEF Dispatch, Decide

(* A dispatcher that ends may leave others at the same revision.            *)
LEMMA EndOfSending ==
    ASSUME ConfigTypeOK, NEW d \in Dispatcher, at[d] # Idle, at' = [at EXCEPT ![d] = Idle]
    PROVE  at[d] \in Sending /\ Sending' \in {Sending, Sending \ {at[d]}}
<1>1. at \in [Dispatcher -> {Idle} \cup Revision]
  BY DEF ConfigTypeOK
<1>2. at[d] \in Sending
  BY DEF Sending
<1>3. at'[d] = Idle /\ \A e \in Dispatcher \ {d} : at'[e] = at[e]
  BY <1>1
<1>4. \A x : x \in Sending' <=> x # Idle /\ \E e \in Dispatcher \ {d} : x = at[e]
  BY <1>3 DEF Sending
<1>5. CASE \E e \in Dispatcher \ {d} : at[e] = at[d]
  <2>1. \A x : x \in Sending' <=> x \in Sending
    BY <1>4, <1>5 DEF Sending
  <2> QED BY <1>2, <2>1
<1>6. CASE ~\E e \in Dispatcher \ {d} : at[e] = at[d]
  <2>1. \A x : x \in Sending' <=> x \in Sending \ {at[d]}
    BY <1>4, <1>6 DEF Sending
  <2>2. Sending' = Sending \ {at[d]}
    BY <2>1
  <2> QED BY <1>2, <2>2
<1> QED BY <1>5, <1>6

LEMMA RecordRefines ==
    ASSUME ConfigInv, NEW d \in Dispatcher, NEW r \in Revision, r = at[d], Record(d) \/ DispatcherDies(d)
    PROVE  Register!StopSending(r)
<1> USE DEF gatewayVars, recordVars
<1>1. ConfigTypeOK /\ status[r] \in Status /\ outbox[r] \in OutboxStatus
  BY DEF ConfigInv, ConfigTypeOK
<1>2. r \in Sending /\ Sending' \in {Sending, Sending \ {r}}
  BY <1>1, EndOfSending DEF Record, DispatcherDies
<1>3. UNCHANGED <<latest, Decided>>
  BY DEF Record, DispatcherDies, Decided
<1>4. Seen[r] = ShownAs(status[r], outbox[r])
  BY <1>1 DEF Seen
<1>5. (Seen[r] # "none" /\ Seen' = [Seen EXCEPT ![r] = "open"]) \/ UNCHANGED Seen
  <2>1. CASE UNCHANGED <<status, outbox>>
    BY <2>1 DEF Seen
  <2>2. CASE status[r] # "none" /\ SetRow(r, "published", "awaiting_ack", FALSE)
    <3>1. Seen' = [Seen EXCEPT ![r] = ShownAs("published", "awaiting_ack")]
      <4>1. "awaiting_ack" \in OutboxStatus /\ "published" \in Status
        BY Vocabulary
      <4> QED BY <1>1, <2>2, <4>1, RowSeen, Zenon
    <3>2. Seen[r] # "none"
      BY <1>1, <1>4, <2>2, OnlyNoneIsUnseen
    <3> QED BY <3>1, <3>2, ShownInWords
  <2>3. CASE status[r] # "none" /\ SetRow(r, status[r], "retry", FALSE)
    <3>1. Seen' = [Seen EXCEPT ![r] = ShownAs(status[r], "retry")]
      <4>1. "retry" \in OutboxStatus
        BY Vocabulary
      <4>2. ASSUME NEW s \in Status, SetRow(r, s, "retry", FALSE)
            PROVE  Seen' = [Seen EXCEPT ![r] = ShownAs(s, "retry")]
        BY <1>1, <4>1, <4>2, RowSeen, Zenon
      <4> QED BY <1>1, <2>3, <4>2
    <3>2. Seen[r] # "none" /\ "retry" \in Unclaimed
      <4>1. Seen[r] # "none"
        BY <1>1, <1>4, <2>3, OnlyNoneIsUnseen
      <4> QED BY <4>1 DEF Unclaimed
    <3>3. CASE status[r] = "timed_out"
      <4>1. ShownAs(status[r], "retry") = "open"
        BY <3>2, <3>3, ShownInWords
      <4> QED BY <3>1, <3>2, <4>1
    <3>4. CASE status[r] # "timed_out"
      <4>1. status[r] \in Outcome \cup {"accepted", "superseded", "queued", "waiting_for_gateway", "published"}
        BY <1>1, <2>3, <3>4 DEF Status, Replaceable, Terminal
      <4>2. ShownAs(status[r], "retry") = Seen[r]
        BY <1>4, <4>1, ShownInWords
      <4> QED BY <3>1, <4>2 DEF Seen
    <3> QED BY <3>3, <3>4
  <2> QED BY <2>1, <2>2, <2>3 DEF Record, DispatcherDies
<1> QED BY <1>2, <1>3, <1>5 DEF Register!StopSending, Register!Show, Seen, Decided, Sending

LEMMA AcknowledgeRefines ==
    ASSUME ConfigInv, AnswersAreGiven, NEW m \in receipts, Acknowledge(m)
    PROVE  \E r \in Revision : Register!Learn(r) \/ Register!GiveUp(r)
<1> DEFINE r == m[1]
           a == m[2]
<1>1. ConfigTypeOK /\ r \in Revision /\ a \in Answer /\ m = <<r, a>> /\ status[r] \in Status
      /\ outbox[r] \in OutboxStatus /\ leased[r] \in BOOLEAN
  BY DEF ConfigInv, ConfigTypeOK
<1>2. UNCHANGED <<latest, Decided, Sending>> /\ status[r] # "none"
  BY DEF Acknowledge, Decided, Sending, RecordOf
<1>3. Seen[r] = ShownAs(status[r], outbox[r]) /\ Seen[r] # "none" /\ (Seen[r] \in Outcome => status[r] \in Outcome)
  BY <1>1, <1>2, OnlyNoneIsUnseen DEF Seen
<1>4. Decided[r] = edge[r] /\ edge[r] \in Answer /\ (a \in Outcome => edge[r] = a)
  BY <1>1 DEF Decided, AnswersAreGiven, ConfigInv, ReceiptsAreTrue
<1>5. CASE Old(r) /\ SetRow(r, "superseded", outbox[r], leased[r])
  <2>1. Seen' = [Seen EXCEPT ![r] = "over"] /\ r # latest
    BY <1>1, <1>5, RowSeen, ShownInWords, Vocabulary DEF Old
  <2>2. Register!GiveUp(r)
    BY <1>2, <1>3, <2>1 DEF Register!GiveUp, Register!Show, Seen, Decided, Sending
  <2> QED BY <1>1, <2>2
<1>6. CASE ~Old(r) /\ ~LateAcceptance(r, a) /\ SetRow(r, a, OutboxAfter(a), leased[r] /\ a = "accepted")
  <2>1. a \in Status /\ OutboxAfter(a) \in OutboxStatus /\ (leased[r] /\ a = "accepted") \in BOOLEAN
    BY <1>1, Vocabulary DEF OutboxAfter
  <2>2. a \in Outcome \cup {"accepted"}
    BY <1>1 DEF Answer
  <2>3. ShownAs(a, OutboxAfter(a)) = a
    BY <2>2, ShownInWords
  <2>4. Seen' = [Seen EXCEPT ![r] = a]
    BY <1>1, <1>6, <2>1, <2>3, RowSeen
  <2>5. r = latest
    BY <1>6 DEF Old
  <2>6. CASE a \in Outcome
    <3>1. Register!Learn(r)
      BY <1>2, <1>3, <1>4, <2>4, <2>5, <2>6
         DEF Register!Learn, Register!Show, Register!Decision, Outcome, Seen, Decided, Sending
    <3> QED BY <1>1, <3>1
  <2>7. CASE a = "accepted"
    <3>1. Seen[r] \notin Outcome /\ Decided[r] # "nothing"
      BY <1>3, <1>4, <1>6, <2>7 DEF LateAcceptance, Answer, Outcome
    <3>2. Register!Learn(r)
      BY <1>2, <1>3, <2>4, <2>5, <2>7, <3>1
         DEF Register!Learn, Register!Show, Register!Decision, Outcome, Seen, Decided, Sending
    <3> QED BY <1>1, <3>2
  <2> QED BY <2>2, <2>6, <2>7
<1> QED BY <1>5, <1>6 DEF Acknowledge, RecordOf

LEMMA QueueRefines == ASSUME ConfigInv, Queue PROVE Register!Ask
<1>1. ConfigTypeOK /\ latest' = latest + 1 /\ latest < MaxRevision /\ UNCHANGED <<Decided, Sending>>
  BY DEF ConfigInv, Queue, Decided, Sending, gatewayVars
<1>2. ASSUME NEW r \in Revision
      PROVE  Seen'[r] = IF r = latest' THEN "open"
                        ELSE IF Seen[r] \in Outcome \cup {"none"} THEN Seen[r] ELSE "over"
  <2>1. status'[r] = (IF r = latest' THEN "queued" ELSE IF Replaced(r) THEN "superseded" ELSE status[r])
        /\ Seen[r] = ShownAs(status[r], outbox[r]) /\ Seen'[r] = ShownAs(status'[r], outbox'[r])
        /\ status[r] \in Status
    BY <1>1 DEF Queue, Seen, ConfigTypeOK
  <2>2. CASE r = latest'
    BY <2>1, <2>2, ShownInWords
  <2>3. CASE r # latest' /\ Replaced(r)
    BY <2>1, <2>3, ShownInWords, OnlyNoneIsUnseen DEF Replaced, Replaceable, Outcome
  <2>4. CASE r # latest' /\ ~Replaced(r)
    <3>1. status[r] \in Outcome \cup {"none", "superseded"} /\ status'[r] = status[r]
      BY <2>1, <2>4 DEF Replaced, Status, Terminal
    <3> QED BY <2>1, <2>4, <3>1, ShownInWords DEF Outcome
  <2> QED BY <2>2, <2>3, <2>4
<1>3. Seen' = [r \in Revision |-> IF r = latest' THEN "open"
                                  ELSE IF Seen[r] \in Outcome \cup {"none"} THEN Seen[r] ELSE "over"]
  BY <1>2 DEF Seen
<1> QED BY <1>1, <1>3 DEF Register!Ask, Register!Asked, Register!Decision, Revision, Outcome, Seen, Decided, Sending

LEMMA StepRefines == ConfigInv /\ AnswersAreGiven /\ [Next]_vars => [Register!RegisterNext]_(Register!registerVars)
<1> SUFFICES ASSUME ConfigInv, AnswersAreGiven, [Next]_vars
             PROVE  Register!RegisterNext \/ UNCHANGED <<latest, Decided, Seen, Sending>>
  BY DEF Register!registerVars, Seen, Decided, Sending
<1> USE DEF gatewayVars, recordVars
<1>1. Register!Asked = Revision /\ {"accepted"} \cup Register!Decision = Answer
  BY DEF Register!Asked, Revision, Register!Decision, Answer, Outcome
<1>2. edge \in [Revision -> {"none", "delivered"} \cup Answer]
  BY DEF ConfigInv, ConfigTypeOK
<1>3. CASE Queue
  BY <1>3, QueueRefines DEF Register!RegisterNext
<1>4. ASSUME NEW r \in Revision, Dispatch(r) PROVE Register!RegisterNext \/ UNCHANGED <<latest, Decided, Seen, Sending>>
  BY <1>1, <1>4, DispatchRefines DEF Register!RegisterNext
<1>5. ASSUME NEW r \in Revision, LeaseExpires(r) \/ IntentExpires(r) PROVE UNCHANGED <<latest, Decided, Seen, Sending>>
  BY <1>5 DEF LeaseExpires, IntentExpires, Decided, Seen, Sending
<1>6. ASSUME NEW d \in Dispatcher, Record(d) \/ DispatcherDies(d) PROVE Register!RegisterNext
  <2>1. PICK r \in Revision : r = at[d]
    BY <1>6 DEF Record, DispatcherDies, ConfigInv, ConfigTypeOK
  <2>2. Register!StopSending(r)
    BY <1>6, <2>1, RecordRefines
  <2> QED BY <1>1, <2>2 DEF Register!RegisterNext
<1>7. ASSUME NEW d \in Dispatcher, Publish(d) PROVE UNCHANGED <<latest, Decided, Seen, Sending>>
  <2>1. UNCHANGED <<latest, Seen, Sending>>
    BY <1>7 DEF Publish, Seen, Sending
  <2>2. UNCHANGED Decided
    BY <1>2, <1>7 DEF Publish, Decided, Answer, Outcome
  <2> QED BY <2>1, <2>2
<1>8. ASSUME NEW r \in Revision, NEW answer \in Answer, EdgeAnswers(r, answer) PROVE Register!RegisterNext
  <2>1. UNCHANGED <<latest, Seen, Sending>>
    BY <1>8 DEF EdgeAnswers, Seen, Sending
  <2>2. Decided' = [Decided EXCEPT ![r] = answer]
    BY <1>2, <1>8 DEF EdgeAnswers, Decided
  <2>3. Decided[r] = "nothing" \/ (Decided[r] = "accepted" /\ answer # "accepted")
    BY <1>2, <1>8 DEF EdgeAnswers, Decided, Answer, Outcome
  <2>4. Register!DecideOn(r, answer)
    BY <2>1, <2>2, <2>3 DEF Register!DecideOn, Seen, Decided, Sending
  <2> QED BY <1>1, <2>4 DEF Register!RegisterNext
<1>9. ASSUME NEW m \in receipts, Acknowledge(m) PROVE Register!RegisterNext
  BY <1>1, <1>9, AcknowledgeRefines DEF Register!RegisterNext
<1>10. CASE RequestRelease
  BY <1>10 DEF RequestRelease, Decided, Seen, Sending
<1>11. CASE FinalizeRelease
  <2>1. Seen' = [r \in Revision |-> "none"]
    BY <1>11, ShownInWords DEF FinalizeRelease, Seen
  <2>2. UNCHANGED <<latest, Decided, Sending>>
    BY <1>11 DEF FinalizeRelease, Decided, Sending
  <2> QED BY <1>1, <2>1, <2>2 DEF Register!RegisterNext, Register!Forget, Seen, Decided, Sending
<1>12. CASE UNCHANGED vars
  BY <1>12 DEF vars, Decided, Seen, Sending
<1> QED
  BY <1>3, <1>4, <1>5, <1>6, <1>7, <1>8, <1>9, <1>10, <1>11, <1>12 DEF Next, DispatcherStep

(* Delivery implements the register, for any revisions and dispatchers:    *)
(* whatever overlaps, only the newest revision is shown with a decision,   *)
(* the gateway's own, and only late senders open a settled one again       *)
(* (gateway_config_delivery.py:101, :165, :301).                           *)
THEOREM DeliveryImplementsRegister == Spec => ImplementsRegister
<1> QED
  BY RegisterInitially, StepRefines, AnswersInvariant, PTL
     DEF Spec, ImplementsRegister, Register!RegisterSpec
=============================================================================
