---------------------------- MODULE RouteApproval ----------------------------
(***************************************************************************)
(* Approving a route incident control                                      *)
(* (qdata/gamma6_route_incident_approval_api.py,                           *)
(* delta6_route_incident_approval_governance.py,                           *)
(* epsilon6_route_incident_approval_resilience.py, and what                *)
(* beta6_route_incident_ops.py, omega5_route_incident_control.py and       *)
(* omega_control.py write to the same rows).                               *)
(*                                                                         *)
(* A signed callback takes an advisory lock named after the selector it    *)
(* uses, checks that the control is not decided, passes delta6 (signature, *)
(* replay, role) and runs a gamma6 command; the command API runs the same  *)
(* command without lock and guard.  A command inserts its row under a      *)
(* unique idempotency key and then, for each control still pending when it *)
(* read them, records a signature, counts, decides the Omega approval and  *)
(* copies the decision to the control: a transaction each.                 *)
(*                                                                         *)
(* Beside the commands a beta6 run decides what it read as pending, by     *)
(* itself, without signatures and without lock; an operator cancels or     *)
(* decides by hand; the omega5 task asks for the approval again; and the   *)
(* Omega executor reopens a cancelled approval.  Lock events, transitions, *)
(* audit entries, escalations and the items of commands and batches are    *)
(* written and not read by a step below, and are left out.                 *)
(***************************************************************************)
EXTENDS Naturals, FiniteSets

CONSTANTS
  Control,       \* route incident controls, each with its Omega approval
  Signer,        \* principals that sign
  Process,       \* request handlers that may run at the same time
  Batch,         \* beta6 runs with decisions to apply, likewise
  Nobody,        \* no process, and no key
  GivenKey,      \* idempotency keys that requests bring themselves
  Selector,      \* values of control_code, approval_code and batch_code
  Covers,        \* [Selector -> controls it finds]
  Message,       \* requests that may arrive, any number of times each
  PolicyMin,     \* min_approvals of the policy in force
  MaxRequests,   \* bound on deliveries in one behaviour
  MaxDisturbances \* bound on crashes, beta6 and omega5 runs, and on what
                 \*  operators do

Verdict == {"approved", "rejected"}
Decision == Verdict \cup {"hold"}
Status == Verdict \cup {"pending", "cancelled"}

\* entry: through the signed callback, or straight to the command API.
MessageType == [entry : {"callback", "command"}, selector : Selector,
                decision : Decision, signer : Signer, required : Nat \ {0},
                given : GivenKey \cup {Nobody}]

ASSUME ApprovalAssumption ==
  /\ IsFiniteSet(Signer)
  /\ Nobody \notin Process /\ Nobody \notin GivenKey
  /\ Covers \in [Selector -> SUBSET Control]
  /\ Message \subseteq MessageType
  /\ Message # {} /\ Control # {}
  /\ PolicyMin \in Nat \ {0}
  /\ MaxRequests \in Nat /\ MaxDisturbances \in Nat

\* The key that the request brings, which others may bring too, or one made
\* of the nonce of a callback and the control found first, or of a command
\* and the time it arrived at.  A message stands for its nonce.
Key == GivenKey \cup (Message \X (Control \cup 1 .. MaxRequests))

\* A command row, by its key and the request that it was inserted for.
Row == Key \X Message

\* An item of a beta6 run.
Item == [control : Control, decision : Verdict]

VARIABLES
  approval,    \* [Control -> status of the Omega approval row]
  counted,     \* approvals that a quorum decided, by their decision_reason
  control,     \* [Control -> approval_status of the control row]
  mirrored,    \* history: controls whose status a command wrote last
  signatures,  \* [Control -> active signature rows, as <<decision, signer>>]
  commands,    \* command rows
  settled,     \* command rows that were given their final status
  callbacks,   \* messages whose nonce has a callback row
  holder,      \* [Selector -> process holding its advisory lock]
  pc,          \* [Process -> control point]
  msg,         \* [Process -> message in hand]
  key,         \* [Process -> idempotency key of its command]
  todo,        \* [Process -> controls it read as pending and has not done]
  at,          \* [Process -> control in hand]
  rerun,       \* [Control -> status an omega5 run is about to write]
  queue,       \* [Batch -> items a beta6 run read as pending and has not done]
  applied,     \* [Batch -> of these the one whose approval it has decided]
  deliveries, disturbances   \* how often so far

decisions == <<approval, counted, control, mirrored>>
rows == <<decisions, signatures, commands, settled, callbacks>>
locals == <<pc, msg, key, todo, at>>
others == <<rerun, queue, applied>>
vars == <<rows, holder, locals, others, deliveries, disturbances>>

Point == {"idle", "guard", "delta", "lookup", "insert", "items", "sign",
          "count", "decide", "mirror", "record"}

\* p has inserted a command row and is working on it.
Working(p) == pc[p] \in {"items", "sign", "count", "decide", "mirror"}

\* Controls that all messages reach through one selector, and only through
\* the signed callback: one lock covers all that can be decided on them.
Guarded ==
  {c \in Control : \A m, n \in Message :
     c \in Covers[m.selector] /\ c \in Covers[n.selector] =>
       m.entry = "callback" /\ m.selector = n.selector}

TypeOK ==
  /\ approval \in [Control -> Status]
  /\ counted \subseteq Control
  /\ control \in [Control -> Status]
  /\ mirrored \subseteq Control
  /\ signatures \in [Control -> SUBSET (Decision \X Signer)]
  /\ commands \subseteq Row
  /\ settled \subseteq commands
  /\ callbacks \subseteq Message
  /\ holder \in [Selector -> Process \cup {Nobody}]
  /\ pc \in [Process -> Point]
  /\ msg \in [Process -> Message]
  /\ key \in [Process -> Key]
  /\ todo \in [Process -> SUBSET Control]
  /\ at \in [Process -> Control]
  /\ rerun \in [Control -> {"none", "pending", "approved"}]
  /\ queue \in [Batch -> SUBSET Item]
  /\ applied \in [Batch -> SUBSET Item]
  /\ deliveries \in Nat /\ disturbances \in Nat

\* Both rows are pending, as the first omega5 run left them.  What a handler
\* has in hand means nothing while it is idle.
NoMsg == CHOOSE m \in Message : TRUE
NoKey == CHOOSE k \in Key : TRUE
NoControl == CHOOSE c \in Control : TRUE

Init ==
  /\ approval = [c \in Control |-> "pending"]
  /\ counted = {}
  /\ control = [c \in Control |-> "pending"]
  /\ mirrored = {}
  /\ signatures = [c \in Control |-> {}]
  /\ commands = {} /\ settled = {} /\ callbacks = {}
  /\ holder = [s \in Selector |-> Nobody]
  /\ pc = [p \in Process |-> "idle"]
  /\ msg = [p \in Process |-> NoMsg]
  /\ key = [p \in Process |-> NoKey]
  /\ todo = [p \in Process |-> {}]
  /\ at = [p \in Process |-> NoControl]
  /\ rerun = [c \in Control |-> "none"]
  /\ queue = [b \in Batch |-> {}]
  /\ applied = [b \in Batch |-> {}]
  /\ deliveries = 0 /\ disturbances = 0

-----------------------------------------------------------------------------
(***************************************************************************)
(* Helpers.                                                                *)
(***************************************************************************)
Goto(p, point) == pc' = [pc EXCEPT ![p] = point]

\* A callback may raise required_approvals, never lower it below the policy.
Required(m) ==
  IF m.entry = "callback" /\ m.required < PolicyMin THEN PolicyMin ELSE m.required

Disturb ==
  /\ disturbances < MaxDisturbances
  /\ disturbances' = disturbances + 1

KeyOf(m, rest) == IF m.given # Nobody THEN m.given ELSE <<m, rest>>

Rows(k) == {r \in commands : r[1] = k}
RowOf(p) == <<key[p], msg[p]>>

\* _signature_count: the signers of verdict d on control c.
SignersOf(c, d) == {s \in Signer : <<d, s>> \in signatures[c]}

\* The handler returns or ends; the lock goes with it or with its session.
Leave(p) ==
  /\ Goto(p, "idle")
  /\ holder' = [s \in Selector |-> IF holder[s] = p THEN Nobody ELSE holder[s]]
  /\ msg' = [msg EXCEPT ![p] = NoMsg]
  /\ key' = [key EXCEPT ![p] = NoKey]
  /\ todo' = [todo EXCEPT ![p] = {}]
  /\ at' = [at EXCEPT ![p] = NoControl]

\* p is through with the control in hand.
NextItem(p) ==
  /\ Goto(p, "items")
  /\ todo' = [todo EXCEPT ![p] = @ \ {at[p]}]
  /\ at' = [at EXCEPT ![p] = NoControl]

-----------------------------------------------------------------------------
(***************************************************************************)
(* A request arrives.                                                      *)
(***************************************************************************)
Arrive(p, m, point) ==
  /\ pc[p] = "idle"
  /\ deliveries < MaxRequests
  /\ deliveries' = deliveries + 1
  /\ msg' = [msg EXCEPT ![p] = m]
  /\ Goto(p, point)
  /\ UNCHANGED <<rows, todo, at, others, disturbances>>

\* Mutant: the lock is named after the request, not after its target.
MutantReceiveCallback(p) ==
  \E m \in Message :
    /\ m.entry = "callback"
    /\ Arrive(p, m, "guard")
    /\ UNCHANGED key
    /\ holder' = [holder EXCEPT ![m.selector] = p]

\* pg_try_advisory_lock; a busy callback leaves its lock event and returns,
\* which changes nothing here.
ReceiveCallback(p) ==
  \E m \in Message :
    /\ m.entry = "callback"
    /\ holder[m.selector] = Nobody
    /\ Arrive(p, m, "guard")
    /\ UNCHANGED key
    /\ holder' = [holder EXCEPT ![m.selector] = p]

ReceiveCommand(p) ==
  \E m \in Message :
    /\ m.entry = "command"
    /\ Arrive(p, m, "lookup")
    /\ key' = [key EXCEPT ![p] = KeyOf(m, deliveries + 1)]
    /\ UNCHANGED holder

-----------------------------------------------------------------------------
(***************************************************************************)
(* The callback, before its command (epsilon6, delta6).                    *)
(***************************************************************************)
\* evaluate_approval_state_transition on the control found first: none found,
\* or a decided or cancelled one, ends the callback.
StateGuard(p) ==
  /\ pc[p] = "guard"
  /\ \/ /\ \E c \in Covers[msg[p].selector] : control[c] = "pending"
        /\ Goto(p, "delta")
        /\ UNCHANGED <<holder, msg, key, todo, at>>
     \/ /\ \/ Covers[msg[p].selector] = {}
           \/ \E c \in Covers[msg[p].selector] : control[c] # "pending"
        /\ Leave(p)
  /\ UNCHANGED <<rows, others, deliveries, disturbances>>

\* verify_wecom_callback_signature, _fetch_callback_replay and RBAC: a nonce
\* with a callback row ends here, a refused signature or role goes to the
\* callback row at once, and the control found first, now, gives the key.
Govern(p) ==
  /\ pc[p] = "delta"
  /\ \/ /\ msg[p] \in callbacks
        /\ Leave(p)
     \/ /\ Goto(p, "record")
        /\ UNCHANGED <<holder, msg, key, todo, at>>
     \/ /\ msg[p] \notin callbacks
        /\ \E c \in Covers[msg[p].selector] :
             key' = [key EXCEPT ![p] = KeyOf(msg[p], c)]
        /\ Goto(p, "lookup")
        /\ UNCHANGED <<holder, msg, todo, at>>
  /\ UNCHANGED <<rows, others, deliveries, disturbances>>

\* UNIQUE (provider_code, nonce): a second row for the nonce raises.
RecordCallback(p) ==
  /\ pc[p] = "record"
  /\ callbacks' = callbacks \cup {msg[p]}
  /\ Leave(p)
  /\ UNCHANGED <<decisions, signatures, commands, settled, others,
                 deliveries, disturbances>>

-----------------------------------------------------------------------------
(***************************************************************************)
(* The command (gamma6).                                                   *)
(***************************************************************************)
\* What follows the command: the callback row, or the answer.
EndCommand(p) ==
  IF msg[p].entry = "callback"
  THEN Goto(p, "record") /\ UNCHANGED <<holder, msg, key, todo, at>>
  ELSE Leave(p)

\* A key that has a row is answered with that row, whatever its status.
LookUpKey(p) ==
  /\ pc[p] = "lookup"
  /\ IF Rows(key[p]) # {}
     THEN EndCommand(p)
     ELSE Goto(p, "insert") /\ UNCHANGED <<holder, msg, key, todo, at>>
  /\ UNCHANGED <<rows, others, deliveries, disturbances>>

\* Mutant: without the UNIQUE key.
MutantInsertCommand(p) ==
  /\ pc[p] = "insert"
  /\ commands' = commands \cup {RowOf(p)}
  /\ todo' = [todo EXCEPT ![p] =
                {c \in Covers[msg[p].selector] : control[c] = "pending"}]
  /\ Goto(p, "items")
  /\ UNCHANGED <<decisions, signatures, settled, callbacks, holder, msg,
                 key, at, others, deliveries, disturbances>>

\* The targets are read, and the row is inserted.  Of the targets only those
\* whose control row says pending are worked on; the others are skipped.
InsertCommand(p) ==
  /\ pc[p] = "insert"
  /\ Rows(key[p]) = {}
  /\ commands' = commands \cup {RowOf(p)}
  /\ todo' = [todo EXCEPT ![p] =
                {c \in Covers[msg[p].selector] : control[c] = "pending"}]
  /\ Goto(p, "items")
  /\ UNCHANGED <<decisions, signatures, settled, callbacks, holder, msg,
                 key, at, others, deliveries, disturbances>>

\* Mutant: the second of two inserts goes on with the row of the first.
MutantKeyConflict(p) ==
  /\ pc[p] = "insert"
  /\ Rows(key[p]) \ settled # {}
  /\ todo' = [todo EXCEPT ![p] = Covers[msg[p].selector]]
  /\ Goto(p, "items")
  /\ UNCHANGED <<rows, holder, msg, key, at, others, deliveries, disturbances>>

\* UNIQUE (idempotency_key): the second of two inserts raises.
KeyConflict(p) ==
  /\ pc[p] = "insert"
  /\ Rows(key[p]) # {}
  /\ Leave(p)
  /\ UNCHANGED <<rows, others, deliveries, disturbances>>

\* The next target; a signer who has signed this decision does not again.
TakeItem(p) ==
  /\ pc[p] = "items"
  /\ \E c \in todo[p] :
       /\ at' = [at EXCEPT ![p] = c]
       /\ Goto(p, IF <<msg[p].decision, msg[p].signer>> \in signatures[c]
                  THEN "count" ELSE "sign")
  /\ UNCHANGED <<rows, holder, msg, key, todo, others, deliveries, disturbances>>

RecordSignature(p) ==
  /\ pc[p] = "sign"
  /\ <<msg[p].decision, msg[p].signer>> \notin signatures[at[p]]
  /\ signatures' = [signatures EXCEPT
                      ![at[p]] = @ \cup {<<msg[p].decision, msg[p].signer>>}]
  /\ Goto(p, "count")
  /\ UNCHANGED <<decisions, commands, settled, callbacks, holder, msg, key,
                 todo, at, others, deliveries, disturbances>>

\* UNIQUE (control_id, decision, signer_code): the signer was faster in
\* another request.  The error is not caught: the command stays open.
SignatureConflict(p) ==
  /\ pc[p] = "sign"
  /\ <<msg[p].decision, msg[p].signer>> \in signatures[at[p]]
  /\ Leave(p)
  /\ UNCHANGED <<rows, others, deliveries, disturbances>>

\* Mutant: an off-by-one in the quorum.
MutantCountSignatures(p) ==
  /\ pc[p] = "count"
  /\ IF /\ msg[p].decision # "hold"
        /\ Cardinality(SignersOf(at[p], msg[p].decision)) + 1 >= Required(msg[p])
     THEN Goto(p, "decide") /\ UNCHANGED <<todo, at>>
     ELSE NextItem(p)
  /\ UNCHANGED <<rows, holder, msg, key, others, deliveries, disturbances>>

\* evaluate_approval_quorum; a hold decides nothing.
CountSignatures(p) ==
  /\ pc[p] = "count"
  /\ IF /\ msg[p].decision # "hold"
        /\ Cardinality(SignersOf(at[p], msg[p].decision)) >= Required(msg[p])
     THEN Goto(p, "decide") /\ UNCHANGED <<todo, at>>
     ELSE NextItem(p)
  /\ UNCHANGED <<rows, holder, msg, key, others, deliveries, disturbances>>

\* decide_automation_approval, whatever status the approval has by now.
DecideApproval(p) ==
  /\ pc[p] = "decide"
  /\ approval' = [approval EXCEPT ![at[p]] = msg[p].decision]
  /\ counted' = counted \cup {at[p]}
  /\ Goto(p, "mirror")
  /\ UNCHANGED <<control, mirrored, signatures, commands, settled, callbacks,
                 holder, msg, key, todo, at, others, deliveries, disturbances>>

\* _update_control_after_decision, whatever status the control has by now.
MirrorDecision(p) ==
  /\ pc[p] = "mirror"
  /\ control' = [control EXCEPT ![at[p]] = msg[p].decision]
  /\ mirrored' = mirrored \cup {at[p]}
  /\ NextItem(p)
  /\ UNCHANGED <<approval, counted, signatures, commands, settled, callbacks,
                 holder, msg, key, others, deliveries, disturbances>>

\* One of the two raises: the item is failed, the command goes on.
FailItem(p) ==
  /\ pc[p] \in {"decide", "mirror"}
  /\ NextItem(p)
  /\ UNCHANGED <<rows, holder, msg, key, others, deliveries, disturbances>>

FinalizeCommand(p) ==
  /\ pc[p] = "items"
  /\ todo[p] = {}
  /\ settled' = settled \cup {RowOf(p)}
  /\ EndCommand(p)
  /\ UNCHANGED <<decisions, signatures, commands, callbacks, others,
                 deliveries, disturbances>>

\* The handler dies, or a statement of it fails outside the try block.
Crash(p) ==
  /\ pc[p] # "idle"
  /\ Disturb
  /\ Leave(p)
  /\ UNCHANGED <<rows, others, deliveries>>

-----------------------------------------------------------------------------
(***************************************************************************)
(* Others that write the two rows.                                         *)
(***************************************************************************)
\* The approval is given a status by anybody but a command.
SetApproval(c, status) ==
  /\ approval' = [approval EXCEPT ![c] = status]
  /\ counted' = counted \ {c}

\* The control row likewise.
SetControl(c, status) ==
  /\ control' = [control EXCEPT ![c] = status]
  /\ mirrored' = mirrored \ {c}

\* cancel_route_incident_approval: one transaction, no lock, two guarded
\* updates.
CancelApproval(c) ==
  /\ approval[c] = "pending" \/ control[c] = "pending"
  /\ Disturb
  /\ approval' = [approval EXCEPT ![c] = IF @ = "pending" THEN "cancelled" ELSE @]
  /\ control' = [control EXCEPT ![c] = IF @ = "pending" THEN "cancelled" ELSE @]
  /\ UNCHANGED <<counted, mirrored, signatures, commands, settled, callbacks,
                 holder, locals, others, deliveries>>

\* _process_action of the Omega executor asks again for an approval that is
\* cancelled (or expired, which it turns to pending in the same transaction).
ReopenApproval(c) ==
  /\ approval[c] = "cancelled"
  /\ SetApproval(c, "pending")
  /\ UNCHANGED <<control, mirrored, signatures, commands, settled, callbacks,
                 holder, locals, others, deliveries, disturbances>>

\* An omega5 run over the control: it asks for the approval, which resets
\* any earlier decision, may approve by itself, and writes the control row
\* last, with the status it got then.  One that dies before that does what an
\* operator's request by hand does.
RequestAgain(c) ==
  /\ rerun[c] = "none"
  /\ Disturb
  /\ SetApproval(c, "pending")
  /\ rerun' = [rerun EXCEPT ![c] = "pending"]
  /\ UNCHANGED <<control, mirrored, signatures, commands, settled, callbacks,
                 holder, locals, queue, applied, deliveries>>

AutoApprove(c) ==
  /\ rerun[c] = "pending"
  /\ SetApproval(c, "approved")
  /\ rerun' = [rerun EXCEPT ![c] = "approved"]
  /\ UNCHANGED <<control, mirrored, signatures, commands, settled, callbacks,
                 holder, locals, queue, applied, deliveries, disturbances>>

\* Mutant: the control is written without its status (no COALESCE).
MutantUpsertControl(c) ==
  /\ SetControl(c, rerun[c])
  /\ rerun' = [rerun EXCEPT ![c] = "none"]
  /\ UNCHANGED <<approval, counted, signatures, commands, settled, callbacks,
                 holder, locals, queue, applied, deliveries, disturbances>>

UpsertControl(c) ==
  /\ rerun[c] # "none"
  /\ SetControl(c, rerun[c])
  /\ rerun' = [rerun EXCEPT ![c] = "none"]
  /\ UNCHANGED <<approval, counted, signatures, commands, settled, callbacks,
                 holder, locals, queue, applied, deliveries, disturbances>>

\* An operator, by report_omega_control.py: the control row is not told.
DecideByHand(c) ==
  /\ Disturb
  /\ \E decision \in Verdict : SetApproval(c, decision)
  /\ UNCHANGED <<control, mirrored, signatures, commands, settled, callbacks,
                 holder, locals, others, deliveries>>

\* A beta6 run reads the queue: of the controls of its time and up to its
\* limit those that are pending are to be decided, all in the same way.
ReadQueue(b) ==
  /\ queue[b] = {}
  /\ Disturb
  /\ \E found \in SUBSET {c \in Control : control[c] = "pending"} \ {{}} :
       \E decision \in Verdict :
         queue' = [queue EXCEPT ![b] =
                     {[control |-> c, decision |-> decision] : c \in found}]
  /\ UNCHANGED <<rows, holder, locals, rerun, applied, deliveries>>

\* _apply_approval_decisions, a transaction for the approval and one for the
\* control, whatever both have become and whoever holds a lock.
DecideQueued(b) ==
  /\ applied[b] = {}
  /\ \E i \in queue[b] :
       /\ SetApproval(i.control, i.decision)
       /\ applied' = [applied EXCEPT ![b] = {i}]
  /\ UNCHANGED <<control, mirrored, signatures, commands, settled, callbacks,
                 holder, locals, rerun, queue, deliveries, disturbances>>

UpdateQueued(b) ==
  /\ \E i \in applied[b] :
       /\ SetControl(i.control, i.decision)
       /\ queue' = [queue EXCEPT ![b] = @ \ {i}]
  /\ applied' = [applied EXCEPT ![b] = {}]
  /\ UNCHANGED <<approval, counted, signatures, commands, settled, callbacks,
                 holder, locals, rerun, deliveries, disturbances>>

\* One of the two raises: the run goes on with the next item.  A run that
\* dies fails all that are left.
FailQueued(b) ==
  /\ \E i \in queue[b] :
       /\ applied[b] \subseteq {i}
       /\ queue' = [queue EXCEPT ![b] = @ \ {i}]
  /\ applied' = [applied EXCEPT ![b] = {}]
  /\ UNCHANGED <<rows, holder, locals, rerun, deliveries, disturbances>>

Next ==
  \/ \E p \in Process :
       \/ ReceiveCallback(p)
       \/ ReceiveCommand(p)
       \/ StateGuard(p)
       \/ Govern(p)
       \/ RecordCallback(p)
       \/ LookUpKey(p)
       \/ InsertCommand(p)
       \/ KeyConflict(p)
       \/ TakeItem(p)
       \/ RecordSignature(p)
       \/ SignatureConflict(p)
       \/ CountSignatures(p)
       \/ DecideApproval(p)
       \/ MirrorDecision(p)
       \/ FailItem(p)
       \/ FinalizeCommand(p)
       \/ Crash(p)
  \/ \E c \in Control :
       \/ CancelApproval(c)
       \/ ReopenApproval(c)
       \/ RequestAgain(c)
       \/ AutoApprove(c)
       \/ UpsertControl(c)
       \/ DecideByHand(c)
  \/ \E b \in Batch :
       \/ ReadQueue(b)
       \/ DecideQueued(b)
       \/ UpdateQueued(b)
       \/ FailQueued(b)

Spec == Init /\ [][Next]_vars

-----------------------------------------------------------------------------
(***************************************************************************)
(* Properties.                                                             *)
(***************************************************************************)
\* A decision that is said to rest on a quorum carries the signatures of as
\* many different signers as a request that can have made it demands, a
\* callback at least the policy's (evaluate_approval_quorum,
\* api-contract.md:1523), also after others have decided or reopened the
\* approval.  Those of beta6, omega5 and operators need none.
DecidedByQuorum ==
  \A c \in counted :
    approval[c] \in Verdict =>
      \E m \in Message :
        /\ c \in Covers[m.selector]
        /\ m.decision = approval[c]
        /\ Cardinality(SignersOf(c, approval[c])) >= Required(m)

\* On a control that only one lock leads to no callback touches what another
\* has decided: neither is the decision turned round nor are signatures added,
\* and only an omega5 run or a beta6 run with an item for it write it again
\* (api-contract.md:1591 says that nobody does).
DecisionStands ==
  [][\A c \in Guarded \cap mirrored :
       /\ control[c] \in Verdict
       /\ signatures'[c] = signatures[c]
       /\ \/ control'[c] = control[c]
          \/ rerun[c] # "none" /\ control'[c] = rerun[c]
          \/ \E b \in Batch :
               [control |-> c, decision |-> control'[c]] \in applied[b]]_vars

\* However often a request is delivered, and two deliveries or two requests
\* under the same key at once included, one handler at most works on a command
\* row, and none on one that has its final status (UNIQUE idempotency_key,
\* api-contract.md:1522).
OneWorkerPerCommand ==
  /\ \A p, q \in Process :
       Working(p) /\ Working(q) /\ key[p] = key[q] => p = q
  /\ \A p \in Process : Working(p) => Rows(key[p]) \cap settled = {}

\* Refinement: under a key at most one request is worked on, once, however
\* often it or others with the same key are received, and one that was given up
\* is never taken up again; signatures come from commands at work alone, in the
\* name of their sender and on controls they reach (_insert_command,
\* _record_signature).
AtWork == {RowOf(p) : p \in {q \in Process : Working(q)}}
ReachOf(m) == Covers[m.selector]
MarkOf(m) == <<m.decision, m.signer>>

Commands == INSTANCE CommandOnce
  WITH Request <- Message, begun <- commands, working <- AtWork,
       Reach <- ReachOf, Mark <- MarkOf
CommandsRunOnce == Commands!Spec
=============================================================================
