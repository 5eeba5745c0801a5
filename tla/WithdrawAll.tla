---------------------------- MODULE WithdrawAll ----------------------------
(***************************************************************************)
(* WithdrawAllService: the operator's "withdraw everything".  Its state is *)
(* one JSON file.  Every handler loads the whole file, may await the RPC   *)
(* node many times, and then saves its whole copy: there is no lock, so a  *)
(* handler that saves late puts back everything it once loaded.            *)
(*                                                                         *)
(* A call is cut at its awaits; what runs between two of them is one       *)
(* action.  Preview and execute both build a plan by reading the balances  *)
(* token by token; execute must find the plan it was shown.  The digest of *)
(* a plan is the plan (SHA-256 is taken to be injective).  The age of a    *)
(* preview is whether it is in expired.  The statuses pending, sent and    *)
(* receipt_unavailable, all of them refreshable, are "pending".  The       *)
(* refresh counters and the cooldown of state() only feed the answer.      *)
(***************************************************************************)
EXTENDS Naturals, Sequences, FiniteSets, Functions

CONSTANTS
    Calls,         \* the HTTP requests that may be in progress at a time
    Tokens,        \* withdraw_tokens, a sequence
    Destinations,  \* well-formed addresses
    Allowlist,     \* execution.withdraw_allowlist; empty allows every address
    None,
    Backend,       \* withdraw_mode = "backend"; otherwise only calldata is made
    MaxPreviews,   \* bound: preview identifiers
    MaxBalance,    \* bound: the balance of a token
    MaxTxs,        \* bound: transactions
    MaxChanges,    \* bound: configurations and moves of the environment
    Faults         \* which failures the environment may inject

ASSUME WithdrawAllAssumption ==
    /\ Tokens \in Seq(Range(Tokens))
    /\ Allowlist \subseteq Destinations
    /\ None \notin Destinations
    /\ Backend \in BOOLEAN
    /\ {MaxPreviews, MaxBalance, MaxTxs, MaxChanges} \subseteq Nat
    /\ Faults \subseteq {"save", "torn", "crash", "abort", "truth", "owner",
                         "reject", "lost", "lookup", "expire", "ledger"}

VARIABLES
    file,       \* the JSON file
    calls,      \* the requests in progress
    paused,     \* _cc.controls.paused in memory
    pausedFile, \* ... and in the controls file
    truthOk,    \* capital_truth_state: ok, and a withdrawal is available
    balances,   \* the executor's balance of each token, at the latest block
    txs,        \* the accepted transactions; the position is the nonce
    expired,    \* the previews older than five minutes
    changes,    \* configurations and environment moves so far
    plans,      \* history: the plan shown with each preview
    asked,      \* history: the configuration last saved by configure
    overwritten,\* history: a call saved a copy older than the file
    disturbed,  \* history: previews whose outcome was not recorded as it should
    resumed,    \* history: the pause was lifted, by the operator or a restart
    unpaused    \* history: previews whose execute ended between save and pause

vars == <<file, calls, paused, pausedFile, truthOk, balances, txs, expired,
          changes, plans, asked, overwritten, disturbed, resumed, unpaused>>
chainVars == <<balances, txs>>
envVars == <<paused, pausedFile, truthOk, expired, resumed, unpaused>>
history == <<plans, asked, overwritten, disturbed>>

Previews == 1 .. MaxPreviews
NoPreview == 0
TokenSet == Range(Tokens)

NoPlan == [reason |-> "none", destination |-> None, items |-> << >>]
NoResult == [status |-> "none", items |-> << >>]

(* _default_state *)
DefaultState ==
    [enabled |-> FALSE, approved |-> None, pending |-> None,
     preview |-> NoPreview, digest |-> NoPlan, status |-> "idle",
     items |-> << >>, executed |-> NoPreview, result |-> NoResult]

Torn == [DefaultState EXCEPT !.status = "torn"]

(* _load: an unreadable file reads as the default state. *)
Load == IF file.status = "torn"
        THEN [DefaultState EXCEPT !.status = "degraded"]
        ELSE file

NoCall == [op |-> "none", at |-> "none", st |-> DefaultState, preview |-> NoPreview,
           dry |-> FALSE, reason |-> "none", seen |-> 0, read |-> << >>,
           nonce |-> 0, items |-> << >>, stale |-> FALSE]

Free(c) == calls[c].op = "none"

Init ==
    /\ file = DefaultState
    /\ calls = [c \in Calls |-> NoCall]
    /\ paused = FALSE
    /\ pausedFile = FALSE
    /\ truthOk = TRUE
    /\ balances \in [TokenSet -> 0 .. MaxBalance]
    /\ txs = << >>
    /\ expired = {}
    /\ changes = 0
    /\ plans = [p \in Previews |-> NoPlan]
    /\ asked = [enabled |-> FALSE, approved |-> None]
    /\ overwritten = FALSE
    /\ disturbed = {}
    /\ resumed = FALSE
    /\ unpaused = {}

-----------------------------------------------------------------------------
(* Saving: the file becomes the caller's copy, and every other call now    *)
(* holds a copy that is older than the file.                               *)

Others(c) == [d \in Calls |-> IF d = c THEN NoCall
                              ELSE [calls[d] EXCEPT !.stale = ~Free(d)]]

Dropped(c) == [calls EXCEPT ![c] = NoCall]

(* A failure that the environment may repeat only so often. *)
Spend(f) == f \in Faults /\ changes < MaxChanges /\ changes' = changes + 1

(* An OSError in _save, which the handlers turn into a degraded answer:    *)
(* the file could not be opened, or was cut off by opening it.             *)
SaveFails ==
    /\ Spend("save")
    /\ \/ UNCHANGED <<file, overwritten>>
       \/ file' = Torn /\ overwritten' = TRUE

(* _save of the copy new by call c, which ends. *)
Saved(c, new) ==
    /\ file' = new
    /\ calls' = Others(c)
    /\ overwritten' = (overwritten \/ calls[c].stale)
    /\ UNCHANGED <<changes, disturbed>>

(* kept is the preview whose outcome is lost when the save fails. *)
SaveAndEnd(c, new, kept) ==
    \/ Saved(c, new)
    \/ /\ SaveFails
       /\ calls' = Dropped(c)
       /\ disturbed' = disturbed \union kept

-----------------------------------------------------------------------------
(* configure runs without an await. *)

Allowlisted(d) == Allowlist = {} \/ d \in Allowlist

(* _clear_preview_state *)
ClearPreviewState(st) ==
    [st EXCEPT !.preview = NoPreview, !.digest = NoPlan,
               !.executed = NoPreview, !.result = NoResult]

(* The state asked for by a payload: d is None when it has no destination. *)
Configured(st, d, activate, enabled) ==
    [st EXCEPT !.enabled = enabled,
               !.approved = IF activate THEN d ELSE @,
               !.pending = IF d = None THEN @ ELSE IF activate THEN None ELSE d]

(* config_changed looks at the destination that the payload sets: to       *)
(* activate the approved destination again is not a change, even when a    *)
(* pending one would be cleared.                                           *)
ConfigChanged(st, d, activate, enabled) ==
    \/ d # None /\ activate /\ d # st.approved
    \/ d # None /\ ~activate /\ d # st.pending
    \/ enabled # st.enabled

Configure(d, activate, enabled) ==
    LET st == Load IN
    /\ changes < MaxChanges
    /\ activate => d # None /\ Allowlisted(d)
    /\ ConfigChanged(st, d, activate, enabled)
    /\ \/ /\ file' = ClearPreviewState(Configured(st, d, activate, enabled))
          /\ calls' = [c \in Calls |-> [calls[c] EXCEPT !.stale = ~Free(c)]]
          /\ asked' = [enabled |-> file'.enabled, approved |-> file'.approved]
          /\ UNCHANGED overwritten
       \/ SaveFails /\ UNCHANGED <<calls, asked>>
    /\ changes' = changes + 1
    /\ UNCHANGED <<envVars, chainVars, plans, disturbed>>

-----------------------------------------------------------------------------
(* The plan of preview and execute.                                        *)

(* _block_reason, evaluated before the first balance is read. *)
BlockReason(st) ==
    CASE ~st.enabled -> "withdraw_all_disabled"
      [] st.approved = None -> "approved_destination_missing"
      [] ~Allowlisted(st.approved) -> "destination_not_allowlisted"
      [] ~truthOk -> "capital_truth_degraded"
      [] paused -> "command_center_paused"
      [] OTHER -> "ok"

PlanRead(c) == calls[c].at = "plan" /\ calls[c].seen = Len(Tokens)

(* The next row is read with this amount.  Of the rows, the plan keeps as  *)
(* its items the ones with a positive balance.                             *)
ReadRow(c, token, amount) ==
    calls' = [calls EXCEPT
        ![c].seen = @ + 1,
        ![c].read = IF amount > 0
                    THEN Append(@, [token |-> token, amount |-> amount])
                    ELSE @]

(* _token_balances: one eth_call per token, in order; one that fails reads *)
(* as a balance of 0.                                                      *)
ReadBalance(c) ==
    LET token == Tokens[calls[c].seen + 1] IN
    /\ calls[c].at = "plan"
    /\ calls[c].seen < Len(Tokens)
    /\ \/ ReadRow(c, token, balances[token]) /\ UNCHANGED changes
       \/ Spend("lookup") /\ ReadRow(c, token, 0)
    /\ UNCHANGED <<file, chainVars, envVars, history>>

(* _plan *)
Plan(c) ==
    [reason |-> IF calls[c].reason = "ok" /\ calls[c].read = << >>
                THEN "no_token_balances" ELSE calls[c].reason,
     destination |-> calls[c].st.approved,
     items |-> calls[c].read]

-----------------------------------------------------------------------------
(* preview *)

(* The bound on previews counts the ones in progress. *)
PreviewLeft ==
    Cardinality({p \in Previews : plans[p] # NoPlan})
        + Cardinality({d \in Calls : calls[d].op = "preview"}) < MaxPreviews

StartPreview(c) ==
    /\ Free(c) /\ PreviewLeft
    /\ calls' = [calls EXCEPT ![c] =
           [NoCall EXCEPT !.op = "preview", !.at = "plan", !.st = Load,
                          !.reason = BlockReason(Load)]]
    /\ UNCHANGED <<file, chainVars, envVars, changes, history>>

Previewed(c, p) ==
    [calls[c].st EXCEPT !.preview = p, !.digest = Plan(c),
                        !.executed = NoPreview, !.result = NoResult,
                        !.status = IF Plan(c).reason = "ok" THEN "preview_ready"
                                   ELSE "preview_blocked"]

(* Mutant: the preview is saved into the default state. *)
FinishPreviewForgetsConfig(c, p) ==
    /\ calls[c].op = "preview" /\ PlanRead(c)
    /\ plans[p] = NoPlan /\ \A q \in Previews : q < p => plans[q] # NoPlan
    /\ plans' = [plans EXCEPT ![p] = Plan(c)]
    /\ SaveAndEnd(c, [DefaultState EXCEPT !.preview = p, !.digest = Plan(c)], {})
    /\ UNCHANGED <<chainVars, envVars, asked>>

FinishPreview(c, p) ==
    /\ calls[c].op = "preview" /\ PlanRead(c)
    /\ plans[p] = NoPlan /\ \A q \in Previews : q < p => plans[q] # NoPlan
    /\ plans' = [plans EXCEPT ![p] = Plan(c)]
    /\ SaveAndEnd(c, Previewed(c, p), {})
    /\ UNCHANGED <<chainVars, envVars, asked>>

-----------------------------------------------------------------------------
(* execute *)

(* _persist_execute_outcome without a preview_id: last_result is replaced, *)
(* the record of what was executed is not.                                 *)
Blocked(st) == [st EXCEPT !.status = "execute_blocked", !.items = << >>]

(* ... and with one. *)
Recorded(st, status, items, p) ==
    [st EXCEPT !.status = status, !.items = items, !.executed = p,
               !.result = [status |-> status, items |-> items]]

Replayed(st, p) == p = st.executed /\ st.result # NoResult

(* The previews of which an execute is in progress. *)
Executing == {calls[c].preview : c \in {d \in Calls : calls[d].op = "execute"}}

(* Refused before the first await: another preview, a wrong confirmation   *)
(* text, or a preview that has expired.                                    *)
RefuseExecute(c, p, confirmed) ==
    /\ Free(c)
    /\ p # Load.preview \/ p = NoPreview \/ ~confirmed \/ p \in expired
    /\ SaveAndEnd(c, Blocked(Load), {})
    /\ UNCHANGED <<chainVars, envVars, plans, asked>>

(* Mutant: the stored outcome is not looked at. *)
StartExecuteAgain(c, p, dry) ==
    /\ Free(c)
    /\ p = Load.preview /\ p # NoPreview /\ p \notin expired
    /\ calls' = [calls EXCEPT ![c] =
           [NoCall EXCEPT !.op = "execute", !.at = "plan", !.st = Load, !.preview = p,
                          !.dry = dry, !.reason = BlockReason(Load)]]
    /\ disturbed' = disturbed \union ({p} \intersect Executing)
    /\ UNCHANGED <<file, chainVars, envVars, changes, plans, asked, overwritten>>

(* The replay of a recorded outcome answers at once and changes nothing. *)
StartExecute(c, p, dry) ==
    /\ Free(c)
    /\ p = Load.preview /\ p # NoPreview /\ p \notin expired
    /\ ~Replayed(Load, p)
    /\ calls' = [calls EXCEPT ![c] =
           [NoCall EXCEPT !.op = "execute", !.at = "plan", !.st = Load, !.preview = p,
                          !.dry = dry, !.reason = BlockReason(Load)]]
    /\ disturbed' = disturbed \union ({p} \intersect Executing)
    /\ UNCHANGED <<file, chainVars, envVars, changes, plans, asked, overwritten>>

(* Mutant: the plan is not compared with the digest of the preview. *)
PlanIsCurrentUnchecked(c) == Plan(c).reason = "ok"

(* Neither preview_stale nor a reason to block. *)
PlanIsCurrent(c) == Plan(c) = calls[c].st.digest /\ Plan(c).reason = "ok"

(* Only calldata is prepared in a dry run and outside backend mode. *)
PrepareOnly(c) == calls[c].dry \/ ~Backend

ExecutePlanned(c) ==
    /\ calls[c].op = "execute" /\ PlanRead(c)
    /\ \/ /\ ~PlanIsCurrent(c)
          /\ SaveAndEnd(c, Blocked(calls[c].st), {})
       \/ /\ PlanIsCurrent(c) /\ PrepareOnly(c)
          /\ SaveAndEnd(c, Recorded(calls[c].st, "prepared", << >>, calls[c].preview),
                        {})
       \/ /\ PlanIsCurrent(c) /\ ~PrepareOnly(c)
          /\ calls' = [calls EXCEPT ![c].at = "owner"]
          /\ UNCHANGED <<file, changes, overwritten, disturbed>>
    /\ UNCHANGED <<chainVars, envVars, plans, asked>>

(* The key, the endpoints and the executor are looked up, the owner of the *)
(* executor is compared with the signer, and the nonce is read.            *)
ExecuteOwnerProof(c) ==
    /\ calls[c].at = "owner"
    /\ \/ /\ calls' = [calls EXCEPT ![c].at = "send", ![c].nonce = Len(txs)]
          /\ UNCHANGED <<file, changes, overwritten, disturbed>>
       \/ /\ "owner" \in Faults
          /\ SaveAndEnd(c, Blocked(calls[c].st), {})
    /\ UNCHANGED <<chainVars, envVars, plans, asked>>

NextItem(c) == Plan(c).items[Len(calls[c].items) + 1]

Accept(c) ==
    txs' = Append(txs, [token |-> NextItem(c).token, amount |-> NextItem(c).amount,
                        destination |-> calls[c].st.approved,
                        preview |-> calls[c].preview,
                        item |-> Len(calls[c].items) + 1, state |-> "pending"])

ItemNonce(c) == calls[c].nonce + Len(calls[c].items)

SendFailed(c) ==
    SaveAndEnd(c, Recorded(calls[c].st, "execute_failed", calls[c].items,
                           calls[c].preview),
               {calls[c].preview})

(* One item is signed and sent; the node accepts the next nonce only, and  *)
(* its answer may be lost.                                                 *)
Send(c) ==
    /\ calls[c].at = "send"
    /\ \/ /\ ItemNonce(c) = Len(txs) /\ Len(txs) < MaxTxs
          /\ Accept(c)
          /\ \/ calls' = [calls EXCEPT ![c].at = "assess"]
                /\ UNCHANGED <<file, changes, overwritten, disturbed>>
             \/ "lost" \in Faults /\ SendFailed(c)
       \/ /\ ItemNonce(c) # Len(txs) \/ "reject" \in Faults \/ Len(txs) = MaxTxs
          /\ SendFailed(c)
          /\ UNCHANGED txs
    /\ UNCHANGED <<balances, envVars, plans, asked>>

(* assess_submitted_tx: a lookup that fails leaves the status refreshable. *)
Proofs(n) == {txs[n].state} \union (IF "lookup" \in Faults THEN {"pending"} ELSE {})

AllMined(items) ==
    items # << >> /\ \A i \in DOMAIN items : items[i].status = "mined_success"

(* Mutant: only a completed wipe pauses trading. *)
ControlsPausedIfCompleted(items) == AllMined(items)

(* The command centre is paused after every execute that sent all items. *)
ControlsPaused(items) == TRUE

(* Mutant: a sent item counts as mined. *)
ExecutedStatusOnSend(items) == "completed"

ExecutedStatus(items) == IF AllMined(items) THEN "completed" ELSE "submitted"

(* The execute ends after its save and before its pause: writing the       *)
(* ledger event raised a database error, which no handler contains, or the *)
(* process died there (then Restart follows).                              *)
EndsUnpaused(c, new) ==
    /\ Faults \intersect {"ledger", "crash"} # {}
    /\ Saved(c, new)
    /\ unpaused' = unpaused \union {calls[c].preview}
    /\ UNCHANGED paused

(* An execute that sent everything saves and pauses. *)
AssessEnds(c, new) ==
    \/ /\ SaveAndEnd(c, new, {calls[c].preview})
       /\ paused' = (paused \/ ControlsPaused(new.items))
       /\ UNCHANGED unpaused
    \/ EndsUnpaused(c, new)

Assess(c) ==
    /\ calls[c].at = "assess"
    /\ \E proof \in Proofs(ItemNonce(c) + 1) :
         LET items == Append(calls[c].items,
                             [tx |-> ItemNonce(c) + 1, status |-> proof])
             p == calls[c].preview IN
         \/ /\ proof = "mined_reverted"
            /\ SaveAndEnd(c, Recorded(calls[c].st, "execute_failed",
                                      calls[c].items, p), {p})
            /\ UNCHANGED <<paused, unpaused>>
         \/ /\ proof # "mined_reverted" /\ Len(items) < Len(Plan(c).items)
            /\ calls' = [calls EXCEPT ![c].at = "send", ![c].items = items]
            /\ UNCHANGED <<file, changes, overwritten, disturbed, paused, unpaused>>
         \/ /\ proof # "mined_reverted" /\ Len(items) = Len(Plan(c).items)
            /\ AssessEnds(c, Recorded(calls[c].st, ExecutedStatus(items), items, p))
    /\ UNCHANGED <<chainVars, pausedFile, truthOk, expired, resumed, plans, asked>>

-----------------------------------------------------------------------------
(* state() refreshes a submitted result. *)

Refreshable(items) == \E i \in DOMAIN items : items[i].status = "pending"

StartState(c) ==
    /\ Free(c)
    /\ Load.status = "submitted" /\ Refreshable(Load.items)
    /\ calls' = [calls EXCEPT ![c] =
           [NoCall EXCEPT !.op = "state", !.at = "refresh", !.st = Load]]
    /\ UNCHANGED <<file, chainVars, envVars, changes, history>>

(* Mutant: an item already proven is looked up and merged like the others. *)
RefreshProofsAll(item) == Proofs(item.tx)

(* _merge_tx_progress: what is already proven is not looked up again. *)
RefreshProofs(item) ==
    IF item.status = "pending" THEN {txs[item.tx].state} ELSE {item.status}

RefreshItem(c) ==
    LET k == Len(calls[c].items) + 1 IN
    /\ calls[c].at = "refresh" /\ k <= Len(calls[c].st.items)
    /\ \E proof \in RefreshProofs(calls[c].st.items[k]) :
         calls' = [calls EXCEPT ![c].items =
             Append(@, [tx |-> calls[c].st.items[k].tx, status |-> proof])]
    /\ UNCHANGED <<file, chainVars, envVars, changes, history>>

(* _submitted_result_status *)
SubmittedResultStatus(items) ==
    IF \E i \in DOMAIN items : items[i].status = "mined_reverted"
    THEN "execute_failed" ELSE ExecutedStatus(items)

(* Mutant: the items are refreshed, the status is not. *)
RefreshedKeepsStatus(st, items) == [st EXCEPT !.items = items]

Refreshed(st, items) ==
    LET status == SubmittedResultStatus(items) IN
    IF items = st.items THEN st
    ELSE [st EXCEPT !.status = status, !.items = items,
                    !.result = IF st.executed = NoPreview THEN @
                               ELSE [status |-> status, items |-> items]]

(* A lookup that finds nothing leaves the item as it is; one that raises   *)
(* leaves the whole copy as it was loaded.                                 *)
RefreshFails(c) ==
    LET k == Len(calls[c].items) + 1
        old == calls[c].st.items IN
    /\ calls[c].at = "refresh" /\ k <= Len(old) /\ old[k].status = "pending"
    /\ Spend("lookup")
    /\ \E items \in {Append(calls[c].items, old[k]), old} :
           calls' = [calls EXCEPT ![c].items = items]
    /\ UNCHANGED <<file, chainVars, envVars, history>>

(* The copy is saved whether or not anything changed. *)
FinishState(c) ==
    /\ calls[c].at = "refresh"
    /\ Len(calls[c].items) = Len(calls[c].st.items)
    /\ SaveAndEnd(c, Refreshed(calls[c].st, calls[c].items), {})
    /\ UNCHANGED <<chainVars, envVars, plans, asked>>

-----------------------------------------------------------------------------
(* The environment. *)

(* The first pending transaction is mined; the transfer reverts when the   *)
(* balance does not cover it.                                              *)
Mine(n) ==
    /\ txs[n].state = "pending" /\ \A m \in 1 .. n - 1 : txs[m].state # "pending"
    /\ IF balances[txs[n].token] >= txs[n].amount
       THEN /\ txs' = [txs EXCEPT ![n].state = "mined_success"]
            /\ balances' = [balances EXCEPT ![txs[n].token] = @ - txs[n].amount]
       ELSE /\ txs' = [txs EXCEPT ![n].state = "mined_reverted"]
            /\ UNCHANGED balances
    /\ UNCHANGED <<file, calls, envVars, changes, history>>

(* Trading adds to a balance. *)
Deposit(t) ==
    /\ changes < MaxChanges /\ balances[t] < MaxBalance
    /\ balances' = [balances EXCEPT ![t] = @ + 1]
    /\ changes' = changes + 1
    /\ UNCHANGED <<file, calls, envVars, txs, history>>

TruthMoves ==
    /\ "truth" \in Faults /\ changes < MaxChanges
    /\ truthOk' = ~truthOk
    /\ changes' = changes + 1
    /\ UNCHANGED <<file, calls, paused, pausedFile, expired, resumed, unpaused,
                   chainVars, history>>

Expire(p) ==
    /\ "expire" \in Faults /\ plans[p] # NoPlan /\ p \notin expired
    /\ expired' = expired \union {p}
    /\ UNCHANGED <<file, calls, paused, pausedFile, truthOk, changes, resumed,
                   unpaused, chainVars, history>>

(* CommandCenterOverlay.set_controls persists the controls, then applies   *)
(* them.                                                                   *)
SetPaused(b) ==
    /\ changes < MaxChanges /\ b # paused
    /\ paused' = b
    /\ pausedFile' = b
    /\ resumed' = (resumed \/ ~b)
    /\ changes' = changes + 1
    /\ UNCHANGED <<file, calls, truthOk, expired, unpaused, chainVars, history>>

(* A request ends with an exception or is cancelled: nothing is saved. *)
Abort(c) ==
    /\ Spend("abort") /\ ~Free(c)
    /\ calls' = Dropped(c)
    /\ disturbed' = disturbed \union {calls[c].preview}
    /\ UNCHANGED <<file, chainVars, envVars, plans, asked, overwritten>>

(* The process ends and starts again: the controls come from their file.   *)
(* A write that was under way leaves the file unreadable.                  *)
Restart ==
    /\ "crash" \in Faults /\ changes < MaxChanges
    /\ \/ UNCHANGED <<file, overwritten>>
       \/ "torn" \in Faults /\ file' = Torn /\ overwritten' = TRUE
    /\ calls' = [c \in Calls |-> NoCall]
    /\ disturbed' = disturbed \union Executing
    /\ paused' = pausedFile
    /\ resumed' = (resumed \/ (paused /\ ~pausedFile))
    /\ changes' = changes + 1
    /\ UNCHANGED <<pausedFile, truthOk, expired, unpaused, chainVars, plans, asked>>

Next ==
    \/ \E d \in Destinations \union {None}, activate, enabled \in BOOLEAN :
           Configure(d, activate, enabled)
    \/ \E c \in Calls :
           \/ StartPreview(c) \/ ReadBalance(c)
           \/ \E p \in Previews : FinishPreview(c, p)
           \/ \E p \in Previews \union {NoPreview}, confirmed \in BOOLEAN :
                  RefuseExecute(c, p, confirmed)
           \/ \E p \in Previews, dry \in BOOLEAN : StartExecute(c, p, dry)
           \/ ExecutePlanned(c) \/ ExecuteOwnerProof(c) \/ Send(c) \/ Assess(c)
           \/ StartState(c) \/ RefreshItem(c) \/ RefreshFails(c) \/ FinishState(c)
           \/ Abort(c)
    \/ \E n \in DOMAIN txs : Mine(n)
    \/ \E t \in TokenSet : Deposit(t)
    \/ TruthMoves
    \/ \E p \in Previews : Expire(p)
    \/ \E b \in BOOLEAN : SetPaused(b)
    \/ Restart

Spec == Init /\ [][Next]_vars

(* The node mines what it accepted, an event loop resumes every request,   *)
(* and the off-ramp screen keeps asking for the state.                     *)
CallSteps(c) ==
    ReadBalance(c) \/ ExecutePlanned(c) \/ ExecuteOwnerProof(c) \/ Send(c)
        \/ Assess(c) \/ RefreshItem(c) \/ FinishState(c)
        \/ \E p \in Previews : FinishPreview(c, p)

FairSpec ==
    /\ Spec
    /\ WF_vars(\E n \in DOMAIN txs : Mine(n))
    /\ \A c \in Calls : WF_vars(CallSteps(c)) /\ WF_vars(StartState(c))

-----------------------------------------------------------------------------
(* Properties. *)

Statuses == {"idle", "degraded", "torn", "preview_ready", "preview_blocked",
             "execute_blocked", "execute_failed", "prepared", "submitted", "completed"}
TxStates == {"pending", "mined_success", "mined_reverted"}

ItemSet == [token : TokenSet, amount : Nat]
Reasons == {"none", "withdraw_all_disabled", "approved_destination_missing",
            "destination_not_allowlisted", "capital_truth_degraded",
            "command_center_paused", "no_token_balances", "ok"}
PlanSet == [reason : Reasons, destination : Destinations \union {None},
            items : Seq(ItemSet)]
ProofSet == [tx : Nat, status : TxStates]
ResultSet == [status : Statuses \union {"none"}, items : Seq(ProofSet)]
StateSet ==
    [enabled : BOOLEAN, approved : Destinations \union {None},
     pending : Destinations \union {None}, preview : Previews \union {NoPreview},
     digest : PlanSet, status : Statuses, items : Seq(ProofSet),
     executed : Previews \union {NoPreview}, result : ResultSet]
CallSet ==
    [op : {"none", "preview", "execute", "state"},
     at : {"none", "plan", "owner", "send", "assess", "refresh"},
     st : StateSet, preview : Previews \union {NoPreview}, dry : BOOLEAN,
     reason : Reasons, seen : 0 .. Len(Tokens),
     read : Seq(ItemSet), nonce : Nat, items : Seq(ProofSet), stale : BOOLEAN]
TxSet ==
    [token : TokenSet, amount : Nat, destination : Destinations \union {None},
     preview : Previews, item : Nat, state : TxStates]

(* Every variable has its type. *)
TypeOK ==
    /\ file \in StateSet
    /\ calls \in [Calls -> CallSet]
    /\ {paused, pausedFile, truthOk, overwritten, resumed} \subseteq BOOLEAN
    /\ balances \in [TokenSet -> 0 .. MaxBalance]
    /\ txs \in Seq(TxSet)
    /\ expired \subseteq Previews /\ unpaused \subseteq Previews \union {NoPreview}
    /\ changes \in 0 .. MaxChanges
    /\ plans \in [Previews -> PlanSet]
    /\ asked \in [enabled : BOOLEAN, approved : Destinations \union {None}]
    /\ disturbed \subseteq Previews \union {NoPreview}

(* What is sent is what the operator was shown: token, amount and          *)
(* destination of an item of the preview that was confirmed, although      *)
(* balances, configuration and file may all move while execute awaits.     *)
SentAsPreviewed ==
    \A n \in DOMAIN txs :
        LET plan == plans[txs[n].preview] IN
        /\ plan.reason = "ok"
        /\ txs[n].destination = plan.destination
        /\ txs[n].item \in DOMAIN plan.items
        /\ plan.items[txs[n].item] = [token |-> txs[n].token, amount |-> txs[n].amount]

(* A wipe is reported completed only when every item of its preview was    *)
(* mined successfully.                                                     *)
CompletedIsMined ==
    file.status = "completed" =>
        \E p \in Previews :
            /\ Len(file.items) = Len(plans[p].items) /\ plans[p].items # << >>
            /\ \A i \in DOMAIN file.items :
                   /\ txs[file.items[i].tx].preview = p
                   /\ txs[file.items[i].tx].item = i
                   /\ txs[file.items[i].tx].state = "mined_success"

(* An item of a preview is sent at most once, by the record of the         *)
(* executed preview, whatever older copies of the file are saved over it,  *)
(* unless two executes of it overlapped, its outcome could not be saved or *)
(* its request died.                                                       *)
SentOnce ==
    \A m, n \in DOMAIN txs :
        /\ m # n
        /\ txs[m].preview = txs[n].preview
        /\ txs[m].item = txs[n].item
        => txs[m].preview \in disturbed

(* The transactions of a preview, and its items among them. *)
TxsOf(p) == {n \in DOMAIN txs : txs[n].preview = p}
ItemsSent(p) == {txs[n].item : n \in TxsOf(p)}

(* A preview as the abstract specification has it; "wrong" if an item was  *)
(* sent twice.  What was disturbed is unknown, as in SentOnce.             *)
WipeOf(p) ==
    IF p \in disturbed
    THEN [stage |-> "unknown", size |-> 0, sent |-> {}]
    ELSE [stage |-> IF \E m, n \in TxsOf(p) : m # n /\ txs[m].item = txs[n].item THEN "wrong"
                    ELSE IF plans[p] = NoPlan THEN "new"
                    ELSE IF TxsOf(p) = {} THEN "shown"
                    ELSE IF p \in Executing THEN "sending" ELSE "over",
          size |-> IF plans[p].reason = "ok" THEN Len(plans[p].items) ELSE 0,
          sent |-> ItemsSent(p)]

Wipe == INSTANCE WipeOutcome WITH wipe <- [p \in Previews |-> WipeOf(p)]

(* The service, with requests that overlap, whole-file saves and failures, *)
(* implements WipeOutcome: an execute of a confirmed preview sends its     *)
(* items in order, each once, and a wipe that is over is never resumed.    *)
(* Only a preview of which two executes overlapped, whose outcome could    *)
(* not be saved or whose request died is left out (disturbed).             *)
ImplementsWipe == Wipe!Spec

(* The configuration in the file is the one last asked for, through every  *)
(* whole-file save of previews, executes and refreshes, unless one of them *)
(* saved a copy loaded before it or a write was torn.                      *)
ConfigurationKept ==
    overwritten \/ [enabled |-> file.enabled, approved |-> file.approved] = asked

(* A wipe that the file holds as sent leaves trading paused until somebody *)
(* lifts the pause; a restart is one way to lift it, since execute pauses  *)
(* in memory only.  The pause comes after the save and the ledger event:   *)
(* the only wipe excepted is one of a preview of which an execute ended    *)
(* between its save and its pause.                                         *)
PausedAfterWipe ==
    file.status \in {"submitted", "completed"} =>
        \/ paused \/ resumed
        \/ \E i \in DOMAIN file.items : txs[file.items[i].tx].preview \in unpaused

Proven(items) == {i \in Range(items) : i.status # "pending"}

(* A proof that the file holds is not replaced by a weaker one. *)
NoProofWithdrawn ==
    \A i \in Proven(file.items), j \in Range(file'.items) :
        i.tx = j.tx => i.status = j.status

(* As long as no call saves a copy older than the file, the proofs of the  *)
(* items only become stronger.                                             *)
ProofsGrow == [][~overwritten' => NoProofWithdrawn]_vars

(* A submitted wipe is eventually found completed or failed, if the node   *)
(* answers, or is superseded by another operation.                         *)
SubmittedResolves == file.status = "submitted" ~> file.status # "submitted"
=============================================================================
