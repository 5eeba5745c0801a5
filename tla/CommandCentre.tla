--------------------------- MODULE CommandCentre ---------------------------
(***************************************************************************)
(* The operator's controls (CommandCenterOverlay, CommandCenterService)    *)
(* and their audit log (AuditStore).  The controls live in memory and in a *)
(* JSON file that is replaced atomically.  The operator changes them       *)
(* through apply_controls, which saves before it applies; the two anomaly  *)
(* breakers and a finished withdraw-all change the copy in memory first.   *)
(* The audit log is a file of JSON lines, each with the hash of the record *)
(* before it; only the hash of the last record is kept in memory.          *)
(*                                                                         *)
(* No handler here awaits between its reads and its writes, so each is one *)
(* action.  The Boolean controls that are on form a set; defensive_mode    *)
(* stands for reduce_exposure_half and sandbox_only too, and the controls  *)
(* that no guard looks at are left out.  A record is named by its hash,    *)
(* and hashes are numbered.  The runtime has no FIOA in safe mode and is   *)
(* not in public mode.                                                     *)
(***************************************************************************)
EXTENDS Naturals, Sequences, FiniteSets, FiniteSetsExt

CONSTANTS
    AutoAtStart,   \* cfg.execution.auto_trading, as configured
    Threshold,     \* VICTOR_RPC_ERR_STREAK
    MaxRecords,    \* bound: audit records
    MaxFields,     \* bound: the fields of one patch
    Patchable,     \* bound: the Boolean controls that patches name
    Faults         \* which failures the environment may inject

ASSUME CommandCentreAssumption ==
    /\ AutoAtStart \in BOOLEAN
    /\ Threshold \in Nat \ {0}
    /\ {MaxRecords, MaxFields} \subseteq Nat
    /\ Patchable \subseteq {"paused", "frozen", "defensive", "governance", "mutation",
                            "breakers"}
    /\ Faults \subseteq {"persist", "append", "torn", "restart", "controls_unreadable",
                         "audit_unreadable"}

VARIABLES
    controls,   \* _cc.controls
    saved,      \* the controls file; one that is missing reads as Defaults
    auto,       \* _auto_trading
    streak,     \* rpc_error_streak, which matters up to Threshold
    lines,      \* the audit file: its complete lines
    fragment,   \* ... and whether a line that was cut off follows them
    lastHash,   \* _last_hash
    records,    \* the number of records made, the hash of the last one
    held,       \* history: a breaker or a wipe paused, and no operator resumed
    current,    \* history: no change of the controls is waiting to be saved
    waived,     \* history: a patch took effect that the guard does not see through
    blind       \* history: some start could not read the audit file

vars == <<controls, saved, auto, streak, lines, fragment, lastHash, records,
          held, current, waived, blind>>
auditVars == <<lines, fragment, lastHash, records>>

Flags == {"paused", "frozen", "defensive", "governance", "mutation", "breakers"}
Modes == {"", "view_only", "assist", "auto"}
Keep == "keep"     \* the patch has no control_mode
Genesis == 0       \* "0" * 64

(* ControlState() *)
Defaults == [on |-> {"governance", "breakers"}, mode |-> ""]

Paused(c) == "paused" \in c.on

Init ==
    /\ controls = Defaults
    /\ saved = Defaults
    /\ auto = AutoAtStart
    /\ streak = 0
    /\ lines = << >>
    /\ fragment = FALSE
    /\ lastHash = Genesis
    /\ records = 0
    /\ held = FALSE
    /\ current = TRUE
    /\ waived = FALSE
    /\ blind = FALSE

-----------------------------------------------------------------------------
(* The audit log.                                                          *)

(* Mutant: _last_hash moves on although nothing was written. *)
AppendMovesOn ==
    /\ records < MaxRecords
    /\ \/ /\ lines' = Append(lines, [prev |-> lastHash, hash |-> records + 1,
                                     readable |-> ~fragment])
          /\ fragment' = FALSE
       \/ "append" \in Faults /\ UNCHANGED <<lines, fragment>>
       \/ "torn" \in Faults /\ fragment' = TRUE /\ UNCHANGED lines
    /\ records' = records + 1
    /\ lastHash' = records + 1

(* append: the line is written after whatever the file ends in, so a line  *)
(* that follows a fragment is unreadable with it.  An OSError before or    *)
(* during the write is contained and leaves the last hash as it was.       *)
AuditAppend ==
    /\ records < MaxRecords
    /\ \/ /\ lines' = Append(lines, [prev |-> lastHash, hash |-> records + 1,
                                     readable |-> ~fragment])
          /\ fragment' = FALSE
          /\ records' = records + 1
          /\ lastHash' = records + 1
       \/ "append" \in Faults /\ UNCHANGED auditVars
       \/ /\ "torn" \in Faults
          /\ fragment' = TRUE
          /\ UNCHANGED <<lines, lastHash, records>>

ReadableBefore(k) == {i \in 1 .. k - 1 : lines[i].readable}

(* _load_last_hash, over the first k - 1 lines: the last one that parses. *)
LastReadable(k) ==
    IF ReadableBefore(k) = {} THEN Genesis ELSE lines[Max(ReadableBefore(k))].hash

(* Trade outcomes, truth gaps and other events of the runtime. *)
AuditEvent ==
    /\ AuditAppend
    /\ UNCHANGED <<controls, saved, auto, streak, held, current, waived, blind>>

-----------------------------------------------------------------------------
(* The operator's patch: the flags it switches on and off, and a mode.     *)

Size(p) == Cardinality(p.on) + Cardinality(p.off) + (IF p.mode = Keep THEN 0 ELSE 1)

Patches ==
    {p \in [on : SUBSET Patchable, off : SUBSET Patchable, mode : Modes \union {Keep}] :
        p.on \intersect p.off = {} /\ Size(p) \in 1 .. MaxFields}

(* build_patch: a mode also pauses or resumes, unless the patch says so. *)
BuildPatch(p) ==
    IF "paused" \in p.on \union p.off \/ p.mode \in {Keep, ""} THEN p
    ELSE IF p.mode = "view_only" THEN [p EXCEPT !.on = @ \union {"paused"}]
    ELSE [p EXCEPT !.off = @ \union {"paused"}]

(* The payload as the guard reads it, before _coerce_bool: the text        *)
(* "false" is a true value there.  (The number 0 is a false one that "is   *)
(* False" does not match; it passes whenever the text does.)               *)
AsGiven(p, text) ==
    IF text THEN [p EXCEPT !.on = @ \union p.off, !.off = {}] ELSE p

(* _patch_widens_posture *)
WidensPosture(p) ==
    \/ controls.on \intersect p.off \intersect
          {"paused", "frozen", "defensive", "governance"} # {}
    \/ controls.mode = "view_only" /\ p.mode \in {"assist", "auto"}
    \/ controls.mode = "assist" /\ p.mode = "auto"

(* Mutant: governance may be disabled at any time. *)
GuardWithoutPause(p, exact) ==
    /\ WidensPosture(p) => {"mutation", "governance"} \subseteq controls.on
    /\ p.mode = "auto" /\ exact => "frozen" \notin controls.on

(* _guard_patch, of a request that gives a reason where one is required    *)
(* and an automatic mode that the capital policy allows: without them the  *)
(* request is refused and nothing changes.  exact: the mode is spelled as  *)
(* the comparison has it.                                                  *)
GuardPatch(p, exact) ==
    /\ WidensPosture(p) => {"mutation", "governance"} \subseteq controls.on
    /\ "governance" \in p.off => Paused(controls)
    /\ p.mode = "auto" /\ exact => "frozen" \notin controls.on

Patched(c, p) ==
    [on |-> (c.on \union p.on) \ p.off, mode |-> IF p.mode = Keep THEN c.mode ELSE p.mode]

(* Mutant: the patch is applied to what the file says. *)
CandidateFromFile(p) == Patched(saved, p)

(* set_controls: a copy of the controls in memory, with the patch. *)
Candidate(p) == Patched(controls, p)

(* The two patches that the guard does not see through: one that disables  *)
(* governance and resumes at once, and one whose values are text.          *)
Waives(p, text) ==
    \/ {"governance", "paused"} \subseteq p.off
    \/ text /\ {"governance", "paused"} \intersect p.off # {}

(* apply_controls, when the guard allows the patch and it can be saved;    *)
(* otherwise nothing changes.  A patch that names paused also sets auto    *)
(* trading.                                                                *)
ApplyControls(p, text) ==
    LET patch == BuildPatch(p) IN
    /\ text => p.off # {} \/ p.mode = "auto"
    /\ GuardPatch(BuildPatch(AsGiven(p, text)), ~text)
    /\ saved' = Candidate(patch)
    /\ controls' = Candidate(patch)
    /\ AuditAppend
    /\ auto' = IF "paused" \in patch.on \union patch.off THEN ~Paused(controls') ELSE auto
    /\ held' = (held /\ "paused" \notin patch.off)
    /\ current' = TRUE
    /\ waived' = (waived \/ Waives(patch, text))
    /\ UNCHANGED <<streak, blind>>

(* The process ends after the file was replaced and before the record was  *)
(* appended.                                                               *)
SavedAndCrashed(p) ==
    LET patch == BuildPatch(p) IN
    /\ "restart" \in Faults
    /\ GuardPatch(patch, TRUE)
    /\ saved' = Candidate(patch)
    /\ controls' = Candidate(patch)
    /\ auto' = AutoAtStart
    /\ streak' = 0
    /\ lastHash' = LastReadable(Len(lines) + 1)
    /\ held' = (held /\ "paused" \notin patch.off)
    /\ current' = TRUE
    /\ waived' = (waived \/ Waives(patch, FALSE))
    /\ UNCHANGED <<lines, fragment, records, blind>>

(* POST /api/settings *)
SetSettings(b) ==
    /\ auto # b
    /\ auto' = b
    /\ UNCHANGED <<controls, saved, streak, auditVars, held, current, waived, blind>>

-----------------------------------------------------------------------------
(* The changes that are made in memory first.                              *)

(* persist_controls, whose result is ignored. *)
PersistControls ==
    \/ saved' = controls' /\ current' = TRUE
    \/ /\ "persist" \in Faults
       /\ current' = (current /\ controls' = controls)
       /\ UNCHANGED saved

Switched(flags) == [controls EXCEPT !.on = @ \union flags]

(* The block number could not be read.  From the Threshold-th failure in a *)
(* row on, every one is a storm.                                           *)
BlockNumberFails ==
    LET n == IF streak < Threshold THEN streak + 1 ELSE streak IN
    /\ streak' = n
    /\ IF n = Threshold /\ "breakers" \in controls.on
         THEN /\ controls' = Switched({"paused", "defensive"})
              /\ auto' = FALSE
              /\ PersistControls
              /\ AuditAppend
              /\ held' = TRUE
         ELSE UNCHANGED <<controls, saved, current, auto, auditVars, held>>
    /\ UNCHANGED <<waived, blind>>

BlockNumberRead ==
    /\ streak # 0
    /\ streak' = 0
    /\ UNCHANGED <<controls, saved, auto, auditVars, held, current, waived, blind>>

GasSpike ==
    /\ "breakers" \in controls.on
    /\ controls' = Switched({"defensive"})
    /\ PersistControls
    /\ AuditAppend
    /\ UNCHANGED <<auto, streak, held, waived, blind>>

(* execute of withdraw-all has sent its transactions: not saved. *)
Wiped ==
    /\ controls' = Switched({"paused", "frozen"})
    /\ current' = (current /\ controls' = controls)
    /\ held' = TRUE
    /\ UNCHANGED <<saved, auto, streak, auditVars, waived, blind>>

-----------------------------------------------------------------------------
(* The process ends, or presets are applied and a new overlay is made.     *)
(* Files that cannot be read give the defaults and the hash of no record.  *)
Restart(readControls, readAudit) ==
    /\ "restart" \in Faults
    /\ readControls \/ "controls_unreadable" \in Faults
    /\ readAudit \/ "audit_unreadable" \in Faults
    /\ controls' = IF readControls THEN saved ELSE Defaults
    /\ auto' = AutoAtStart
    /\ streak' = 0
    /\ lastHash' = IF readAudit THEN LastReadable(Len(lines) + 1) ELSE Genesis
    /\ held' = (held /\ current /\ readControls)
    /\ current' = readControls
    /\ blind' = (blind \/ ~readAudit)
    /\ UNCHANGED <<saved, lines, fragment, records, waived>>

Next ==
    \/ \E p \in Patches, text \in BOOLEAN : ApplyControls(p, text)
    \/ \E p \in Patches : SavedAndCrashed(p)
    \/ \E b \in BOOLEAN : SetSettings(b)
    \/ BlockNumberFails
    \/ BlockNumberRead
    \/ GasSpike
    \/ Wiped
    \/ AuditEvent
    \/ \E c, a \in BOOLEAN : Restart(c, a)

Spec == Init /\ [][Next]_vars

-----------------------------------------------------------------------------
(* Every variable has its type. *)
TypeOK ==
    /\ {controls, saved} \subseteq [on : SUBSET Flags, mode : Modes]
    /\ {auto, fragment, held, current, waived, blind} \subseteq BOOLEAN
    /\ streak \in 0 .. Threshold
    /\ records \in 0 .. MaxRecords
    /\ lastHash \in 0 .. records
    /\ lines \in Seq([prev : Nat, hash : Nat, readable : BOOLEAN])

(* A pause set by a storm of RPC errors or after a wipe holds until the    *)
(* operator resumes: no other patch, breaker or failed save lifts it, and  *)
(* the next successful save of anything keeps it for the next start.       *)
PauseHolds ==
    /\ held => Paused(controls)
    /\ held /\ current => Paused(saved)

(* "pause_required_before_governance_disable": while governance is off the *)
(* runtime is paused, through every sequence of patches, crashes and       *)
(* starts, unless a patch took effect that the guard does not see through. *)
GovernanceOffIsPaused ==
    "governance" \notin controls.on => Paused(controls) \/ waived

(* The log is a chain: a record names the record of the line before it, or *)
(* the last readable one when a start skipped unreadable lines.  Failed    *)
(* and torn appends do not break it, only a start that cannot read the     *)
(* file begins a new chain.                                                *)
AuditChain ==
    \A k \in 1 .. Len(lines) :
        \/ lines[k].prev = LastReadable(k)
        \/ k > 1 /\ ~lines[k - 1].readable /\ lines[k].prev = lines[k - 1].hash
        \/ blind /\ lines[k].prev = Genesis

=============================================================================
