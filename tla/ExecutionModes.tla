--------------------------- MODULE ExecutionModes ---------------------------
(***************************************************************************)
(* The gas mode and the send mode of the configuration around one          *)
(* automatic execution.  Four parties write the two fields: the operator,  *)
(* at any time; and, while an execution is dispatched, the planner of the  *)
(* superstructure, the decision, and the modes forced by the command       *)
(* centre.  The dispatch remembers what it found so that the wrapper can   *)
(* put it back when the execution ends, in whatever way.                   *)
(*                                                                         *)
(* The dispatch runs without an await up to the point where it returns;    *)
(* the execution then reads the send mode first, the gas mode after        *)
(* several awaits, and sends after more.  One execution runs at a time.    *)
(* An execution that is blocked before a mode is touched (pause, the       *)
(* admission gates, a rejected negotiation) changes nothing here.          *)
(***************************************************************************)
EXTENDS Naturals, FiniteSets

CONSTANTS
    GasModes, SendModes,
    PrivateModes,   \* the send modes that want the private endpoint
    NoMode,         \* no override, no decision, no forced mode
    HasPrivate,     \* chain.rpc_private is configured
    MaxChanges      \* bound: settings of the operator

ASSUME ExecutionModesAssumption ==
    /\ NoMode \notin GasModes \union SendModes
    /\ PrivateModes \subseteq SendModes
    /\ HasPrivate \in BOOLEAN
    /\ MaxChanges \in Nat

VARIABLES
    gas, send,      \* cfg.execution.gas_mode and send_mode
    forceGas,       \* controls.force_gas_mode
    forceSend,      \* controls.force_send_mode
    exec,           \* the execution in progress
    changes,        \* settings so far
    wantedGas,      \* history: the gas mode the operator last set
    wantedSend,     \* history: ... and the send mode
    leaks           \* history: in which ways a mode was left changed

modesVars == <<gas, send, forceGas, forceSend, exec, changes, wantedGas,
               wantedSend, leaks>>
wanted == <<wantedGas, wantedSend>>
forced == <<forceGas, forceSend>>

Endpoints == {"public", "private"}
Leaks == {"planner", "decision", "early_return", "operator"}

(* oldGas and oldSend: AutoExecutionDispatchContext; url: the endpoint     *)
(* taken; chosen: the send mode it was taken for; decided: the send mode   *)
(* of the decision; mode: the send mode that the execution works with.     *)
NoExec == [at |-> "idle", oldGas |-> NoMode, oldSend |-> NoMode, url |-> "public",
           chosen |-> NoMode, decided |-> NoMode, mode |-> NoMode, gas |-> NoMode]

ModesInit ==
    /\ gas \in GasModes /\ send \in SendModes
    /\ forceGas = NoMode /\ forceSend = NoMode
    /\ exec = NoExec
    /\ changes = 0
    /\ wantedGas = gas /\ wantedSend = send
    /\ leaks = {}

Override(mode, new) == IF new = NoMode THEN mode ELSE new

-----------------------------------------------------------------------------
(* The operator. *)

(* set_operator writes the configuration at any time; what an execution    *)
(* in progress puts back is older.                                         *)
SetModes(g, s) ==
    /\ changes < MaxChanges
    /\ gas' = g /\ send' = s
    /\ wantedGas' = g /\ wantedSend' = s
    /\ leaks' = IF exec.at = "idle" THEN leaks ELSE leaks \union {"operator"}
    /\ changes' = changes + 1
    /\ UNCHANGED <<forced, exec>>

SetForced(g, s) ==
    /\ changes < MaxChanges
    /\ forceGas' = g /\ forceSend' = s
    /\ changes' = changes + 1
    /\ UNCHANGED <<gas, send, exec, wanted, leaks>>

-----------------------------------------------------------------------------
(* _prepare_auto_execution_dispatch *)

(* handle_superstructure_pre_execute with the overrides pg, ps of the      *)
(* planner, or the gas mode dg of the decision when the superstructure is  *)
(* off; both are written over the operator's modes.                        *)
Planned(super, pg, dg) == Override(gas, IF super THEN pg ELSE dg)

(* Mutant: only one of the private modes looks for the private endpoint. *)
SendUrlOneMode(mode) == IF mode = "private" /\ HasPrivate THEN "private" ELSE "public"

(* The endpoint for a send mode: the private one if there is any. *)
SendUrl(mode) == IF mode \in PrivateModes /\ HasPrivate THEN "private" ELSE "public"

(* apply_operator_overrides answers with the modes it finds, so the        *)
(* override of the planner or of the decision is what will be restored;    *)
(* and a dispatch that ends after it, without an endpoint or rejected by   *)
(* governance, restores nothing.                                           *)
Dispatch(super, pg, ps, dg, ds, outcome) ==
    LET g == Planned(super, pg, dg)
        s == IF super THEN Override(send, ps) ELSE send IN
    /\ exec.at = "idle"
    /\ gas' = Override(g, forceGas)
    /\ send' = Override(s, forceSend)
    /\ exec' = IF outcome = "prepared"
               THEN [NoExec EXCEPT !.at = "prepared", !.oldGas = g, !.oldSend = s,
                                   !.url = SendUrl(send'), !.chosen = send', !.decided = ds]
               ELSE NoExec
    /\ leaks' = leaks
         \union (IF super /\ (g # gas \/ s # send) THEN {"planner"} ELSE {})
         \union (IF ~super /\ g # gas THEN {"decision"} ELSE {})
         \union (IF outcome # "prepared" /\ (gas' # g \/ send' # s)
                 THEN {"early_return"} ELSE {})
    /\ UNCHANGED <<forced, changes, wanted>>

-----------------------------------------------------------------------------
(* _run_prepared_auto_execution and try_execute_opportunity *)

(* The send mode of the decision goes before that of the configuration. *)
ReadSendMode ==
    /\ exec.at = "prepared"
    /\ exec' = [exec EXCEPT !.at = "building", !.mode = Override(send, exec.decided)]
    /\ UNCHANGED <<gas, send, forced, changes, wanted, leaks>>

PriceGas ==
    /\ exec.at = "building"
    /\ exec' = [exec EXCEPT !.at = "priced", !.gas = gas]
    /\ UNCHANGED <<gas, send, forced, changes, wanted, leaks>>

Submit ==
    /\ exec.at = "priced"
    /\ exec' = [exec EXCEPT !.at = "sent"]
    /\ UNCHANGED <<gas, send, forced, changes, wanted, leaks>>

(* Mutant: only the gas mode is put back. *)
FinishGasOnly ==
    /\ exec.at # "idle"
    /\ gas' = exec.oldGas
    /\ exec' = NoExec
    /\ UNCHANGED <<send, forced, changes, wanted, leaks>>

(* The finally clause: restore_operator_overrides, after the bookkeeping   *)
(* or after an exception anywhere in the execution.                        *)
Finish ==
    /\ exec.at # "idle"
    /\ gas' = exec.oldGas /\ send' = exec.oldSend
    /\ exec' = NoExec
    /\ UNCHANGED <<forced, changes, wanted, leaks>>

ModesNext ==
    \/ \E g \in GasModes, s \in SendModes : SetModes(g, s)
    \/ \E g \in GasModes \union {NoMode}, s \in SendModes \union {NoMode} : SetForced(g, s)
    \/ \E super \in BOOLEAN, pg, dg \in GasModes \union {NoMode},
          ps, ds \in SendModes \union {NoMode},
          outcome \in {"prepared", "no_endpoint", "rejected"} :
              Dispatch(super, pg, ps, dg, ds, outcome)
    \/ ReadSendMode \/ PriceGas \/ Submit \/ Finish

ModesSpec == ModesInit /\ [][ModesNext]_modesVars

-----------------------------------------------------------------------------
(* Properties. *)

Execs == [at : {"idle", "prepared", "building", "priced", "sent"},
          oldGas : GasModes \union {NoMode}, oldSend : SendModes \union {NoMode},
          url : Endpoints, chosen : SendModes \union {NoMode},
          decided : SendModes \union {NoMode}, mode : SendModes \union {NoMode},
          gas : GasModes \union {NoMode}]

(* Types: the configuration never holds the absence of a mode, although    *)
(* absent overrides and absent decisions pass through every step.          *)
ModesTypeOK ==
    /\ gas \in GasModes /\ send \in SendModes
    /\ forceGas \in GasModes \union {NoMode} /\ forceSend \in SendModes \union {NoMode}
    /\ exec \in Execs
    /\ changes \in 0 .. MaxChanges
    /\ wantedGas \in GasModes /\ wantedSend \in SendModes
    /\ leaks \subseteq Leaks

(* Between executions the configuration holds the operator's modes: what   *)
(* the command centre forces is undone however the execution ends.  The    *)
(* four ways in which a mode is left changed are the ones in leaks: an     *)
(* override of the planner or of the decision, a dispatch that returns     *)
(* after the forced modes were written, and an operator who sets a mode    *)
(* while an execution runs.                                                *)
ModesRestored ==
    exec.at = "idle" /\ leaks = {} => gas = wantedGas /\ send = wantedSend

(* A transaction is submitted through the private endpoint when its mode   *)
(* asks for it and there is one, unless the mode was decided, or set by    *)
(* the operator, after the endpoint was taken.                             *)
PrivateEndpointUsed ==
    /\ exec.at = "sent"
    /\ exec.mode \in PrivateModes /\ HasPrivate
    /\ exec.decided = NoMode
    /\ "operator" \notin leaks
    => exec.url = "private"
=============================================================================
