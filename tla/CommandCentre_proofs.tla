----------------------- MODULE CommandCentre_proofs -----------------------
(***************************************************************************)
(* Theorems about CommandCentre, for every set of patchable controls, every *)
(* bound and every set of faults.  PauseHolds and GovernanceOffIsPaused are *)
(* not inductive: the controls in memory may come back from the file.  What *)
(* has to be added is that memory and file agree while no change is waiting *)
(* to be saved, and that what GovernanceOffIsPaused says of the controls    *)
(* holds of the file too.  AuditChain needs to know what the hash in memory *)
(* may be: the one a start would find, or that of a last line nobody reads. *)
(***************************************************************************)
EXTENDS CommandCentre, Integers, SequenceTheorems, WellFoundedInduction, TLAPS

ControlType == [on : SUBSET Flags, mode : Modes]

(* The control part of the type invariant. *)
ControlsOK ==
    /\ controls \in ControlType
    /\ saved \in ControlType
    /\ auto \in BOOLEAN
    /\ streak \in 0 .. Threshold
    /\ held \in BOOLEAN
    /\ current \in BOOLEAN
    /\ waived \in BOOLEAN
    /\ blind \in BOOLEAN

(* Nothing waits to be saved: the file is what memory is. *)
SavedIsCurrent == current => saved = controls

(* What PauseHolds says of the memory. *)
HeldIsPaused == held => Paused(controls)

(* What GovernanceOffIsPaused says, of memory and file. *)
GovernedOrPaused(c) == "governance" \notin c.on => Paused(c) \/ waived

(* No start finds governance off and trading on, whichever copy it reads. *)
BothGoverned == GovernedOrPaused(controls) /\ GovernedOrPaused(saved)

IInv == ControlsOK /\ SavedIsCurrent /\ HeldIsPaused /\ BothGoverned

-----------------------------------------------------------------------------
(* A patch is a set of known flags and a mode, and stays one. *)
LEMMA PatchType ==
    ASSUME NEW p \in Patches
    PROVE  /\ BuildPatch(p).on \subseteq Flags
           /\ BuildPatch(p).off \subseteq Flags
           /\ BuildPatch(p).mode \in Modes \union {Keep}
  <1>1. /\ p \in [on : SUBSET Patchable, off : SUBSET Patchable,
                  mode : Modes \union {Keep}]
        /\ Patchable \subseteq Flags
    BY CommandCentreAssumption DEF Patches, Flags
  <1> QED
    BY <1>1 DEF BuildPatch, Flags

(* Patching known controls gives known controls. *)
LEMMA CandidateType ==
    ASSUME NEW p \in Patches, controls \in ControlType
    PROVE  /\ Candidate(BuildPatch(p)) \in ControlType
           /\ Candidate(BuildPatch(p)).on =
                (controls.on \union BuildPatch(p).on) \ BuildPatch(p).off
  <1> DEFINE q == BuildPatch(p)
  <1>1. q.on \subseteq Flags /\ q.off \subseteq Flags /\ q.mode \in Modes \union {Keep}
    BY PatchType
  <1>2. controls.on \subseteq Flags /\ controls.mode \in Modes
    BY DEF ControlType
  <1> HIDE DEF q
  <1>3. (controls.on \union q.on) \ q.off \in SUBSET Flags
    BY <1>1, <1>2
  <1>4. (IF q.mode = Keep THEN controls.mode ELSE q.mode) \in Modes
    BY <1>1, <1>2
  <1> QED
    BY <1>3, <1>4 DEF Candidate, Patched, ControlType, q

(* Switching known flags on. *)
LEMMA SwitchedType ==
    ASSUME NEW F \in SUBSET Flags, controls \in ControlType
    PROVE  Switched(F) \in ControlType /\ Switched(F).on = controls.on \union F
  BY DEF Switched, ControlType

(* The initial controls are governed, saved and not held. *)
LEMMA InitIInv == Init => IInv
  <1> SUFFICES ASSUME Init PROVE IInv
    OBVIOUS
  <1>1. Defaults \in ControlType /\ "governance" \in Defaults.on
    BY DEF Defaults, ControlType, Flags, Modes
  <1>2. ControlsOK
    <2>1. AutoAtStart \in BOOLEAN /\ 0 \in 0 .. Threshold
      BY CommandCentreAssumption
    <2> QED
      BY <1>1, <2>1, Zenon DEF Init, ControlsOK
  <1>3. SavedIsCurrent /\ HeldIsPaused
    BY DEF Init, SavedIsCurrent, HeldIsPaused
  <1>4. BothGoverned
    BY <1>1 DEF Init, BothGoverned, GovernedOrPaused
  <1> QED
    BY <1>2, <1>3, <1>4 DEF IInv

(* A patch that the guard lets pass and that really switches governance    *)
(* off without resuming finds the runtime paused, and one that resumes     *)
(* with governance off is refused.                                         *)
LEMMA GuardGoverns ==
    ASSUME NEW p \in Patches, NEW text \in BOOLEAN, ControlsOK,
           GovernedOrPaused(controls),
           GuardPatch(BuildPatch(AsGiven(p, text)), ~text),
           ~ Waives(BuildPatch(p), text)
    PROVE  "governance" \notin Candidate(BuildPatch(p)).on =>
              Paused(Candidate(BuildPatch(p))) \/ waived
  <1> DEFINE q == BuildPatch(p)
  <1>1. Candidate(q).on = (controls.on \union q.on) \ q.off
    BY CandidateType DEF ControlsOK
  <1>2. p \in [on : SUBSET Patchable, off : SUBSET Patchable,
               mode : Modes \union {Keep}]
    BY DEF Patches
  <1>3. CASE "governance" \in q.off
    <2>1. "paused" \notin q.off /\ ~text
      BY <1>3 DEF Waives
    <2>2. AsGiven(p, text) = p
      BY <2>1 DEF AsGiven
    <2>3. Paused(controls)
      BY <1>3, <2>2 DEF GuardPatch
    <2> QED
      BY <1>1, <2>1, <2>3 DEF Paused
  <1>4. CASE "governance" \notin q.off
    <2>1. SUFFICES ASSUME "governance" \notin controls.on, ~waived
                   PROVE  "paused" \notin q.off
      BY <1>1, <1>4 DEF GovernedOrPaused, Paused
    <2>2. Paused(controls)
      BY <2>1 DEF GovernedOrPaused
    <2>3. SUFFICES ASSUME "paused" \in q.off PROVE FALSE
      OBVIOUS
    <2>4. ~text
      BY <2>3 DEF Waives
    <2>5. AsGiven(p, text) = p
      BY <2>4 DEF AsGiven
    <2>6. WidensPosture(q)
      BY <2>2, <2>3 DEF WidensPosture, Paused
    <2> QED
      BY <2>1, <2>5, <2>6 DEF GuardPatch
  <1> QED
    BY <1>3, <1>4

(* Patched controls: the common part of ApplyControls and SavedAndCrashed. *)
LEMMA PatchIInv ==
    ASSUME IInv, NEW p \in Patches, NEW text \in BOOLEAN,
           GuardPatch(BuildPatch(AsGiven(p, text)), ~text),
           saved' = Candidate(BuildPatch(p)),
           controls' = Candidate(BuildPatch(p)),
           held' = (held /\ "paused" \notin BuildPatch(p).off),
           current' = TRUE,
           waived' = (waived \/ Waives(BuildPatch(p), text)),
           auto' \in BOOLEAN, streak' \in 0 .. Threshold, blind' \in BOOLEAN
    PROVE  IInv'
  <1> DEFINE q == BuildPatch(p)
  <1>1. /\ Candidate(q) \in ControlType
        /\ Candidate(q).on = (controls.on \union q.on) \ q.off
    BY CandidateType DEF IInv, ControlsOK
  <1>2. ControlsOK'
    <2>1. held' \in BOOLEAN /\ waived' \in BOOLEAN
      OBVIOUS
    <2> QED
      BY <1>1, <2>1 DEF ControlsOK
  <1>3. SavedIsCurrent'
    BY DEF SavedIsCurrent
  <1>4. HeldIsPaused'
    BY <1>1 DEF IInv, HeldIsPaused, Paused
  <1>5. BothGoverned'
    <2>1. CASE Waives(q, text)
      BY <2>1 DEF BothGoverned, GovernedOrPaused
    <2>2. CASE ~Waives(q, text)
      <3>1. "governance" \notin Candidate(q).on => Paused(Candidate(q)) \/ waived
        BY <2>2, GuardGoverns DEF IInv, BothGoverned
      <3> QED
        BY <3>1 DEF BothGoverned, GovernedOrPaused, Paused
    <2> QED
      BY <2>1, <2>2
  <1> QED
    BY <1>2, <1>3, <1>4, <1>5 DEF IInv

(* Flags switched on in memory, then saved or not. *)
LEMMA SwitchIInv ==
    ASSUME IInv, NEW F \in SUBSET Flags,
           controls' = Switched(F),
           \/ saved' = controls' /\ current' = TRUE
           \/ saved' = saved /\ current' = (current /\ controls' = controls),
           held' \in BOOLEAN,
           held' => held \/ "paused" \in F,
           waived' = waived,
           auto' \in BOOLEAN, streak' \in 0 .. Threshold, blind' \in BOOLEAN
    PROVE  IInv'
  <1>1. Switched(F) \in ControlType /\ Switched(F).on = controls.on \union F
    BY SwitchedType DEF IInv, ControlsOK
  <1>2. ControlsOK'
    <2>1. current' \in BOOLEAN /\ waived' \in BOOLEAN /\ saved' \in ControlType
      BY <1>1 DEF IInv, ControlsOK
    <2> QED
      BY <1>1, <2>1 DEF ControlsOK
  <1>3. SavedIsCurrent'
    BY DEF IInv, SavedIsCurrent
  <1>4. HeldIsPaused'
    BY <1>1 DEF IInv, HeldIsPaused, Paused
  <1>5. GovernedOrPaused(controls)'
    BY <1>1 DEF IInv, BothGoverned, GovernedOrPaused, Paused
  <1>6. GovernedOrPaused(saved)'
    BY <1>5 DEF IInv, BothGoverned, GovernedOrPaused, Paused
  <1> QED
    BY <1>2, <1>3, <1>4, <1>5, <1>6 DEF IInv, BothGoverned

(* Every step keeps the strengthened invariant. *)
LEMMA NextIInv == IInv /\ [Next]_vars => IInv'
  <1> SUFFICES ASSUME IInv, [Next]_vars PROVE IInv'
    OBVIOUS
  <1>a. ControlsOK
    BY DEF IInv
  <1>b. 0 \in 0 .. Threshold /\ AutoAtStart \in BOOLEAN
    BY CommandCentreAssumption
  <1>1. ASSUME NEW p \in Patches, NEW text \in BOOLEAN, ApplyControls(p, text)
        PROVE  IInv'
    <2>1. auto' \in BOOLEAN
      BY <1>1, <1>a DEF ApplyControls, ControlsOK, Paused
    <2>2. streak' \in 0 .. Threshold /\ blind' \in BOOLEAN
      BY <1>1, <1>a DEF ApplyControls, ControlsOK
    <2> QED
      BY <1>1, <2>1, <2>2, PatchIInv DEF ApplyControls
  <1>2. ASSUME NEW p \in Patches, SavedAndCrashed(p)
        PROVE  IInv'
    <2>1. AsGiven(p, FALSE) = p
      BY DEF AsGiven
    <2>2. GuardPatch(BuildPatch(AsGiven(p, FALSE)), ~FALSE)
      BY <1>2, <2>1 DEF SavedAndCrashed
    <2>3. auto' \in BOOLEAN /\ streak' \in 0 .. Threshold /\ blind' \in BOOLEAN
      BY <1>2, <1>a, <1>b DEF SavedAndCrashed, ControlsOK
    <2> QED
      BY <1>2, <2>2, <2>3, PatchIInv DEF SavedAndCrashed
  <1>3. ASSUME NEW b \in BOOLEAN, SetSettings(b) PROVE IInv'
    BY <1>3 DEF SetSettings, IInv, ControlsOK, SavedIsCurrent, HeldIsPaused, BothGoverned,
                GovernedOrPaused, Paused
  <1>4. CASE BlockNumberFails
    <2>1. streak' \in 0 .. Threshold
      BY <1>4, <1>a, CommandCentreAssumption DEF BlockNumberFails, ControlsOK
    <2>2. CASE streak' = Threshold /\ "breakers" \in controls.on
      <3>1. /\ controls' = Switched({"paused", "defensive"})
            /\ auto' = FALSE
            /\ PersistControls
            /\ held' = TRUE
            /\ waived' = waived /\ blind' = blind
        BY <1>4, <2>2 DEF BlockNumberFails
      <3>2. {"paused", "defensive"} \in SUBSET Flags
        BY DEF Flags
      <3> QED
        BY <1>a, <2>1, <3>1, <3>2, SwitchIInv DEF PersistControls, ControlsOK
    <2>3. CASE ~(streak' = Threshold /\ "breakers" \in controls.on)
      <3>1. UNCHANGED <<controls, saved, current, auto, held, waived, blind>>
        BY <1>4, <2>3 DEF BlockNumberFails
      <3> QED
        BY <2>1, <3>1 DEF IInv, ControlsOK, SavedIsCurrent, HeldIsPaused, BothGoverned,
                          GovernedOrPaused, Paused
    <2> QED
      BY <2>2, <2>3
  <1>5. CASE BlockNumberRead
    BY <1>5, <1>b DEF BlockNumberRead, IInv, ControlsOK, SavedIsCurrent, HeldIsPaused,
                      BothGoverned, GovernedOrPaused, Paused
  <1>6. CASE GasSpike
    <2>1. {"defensive"} \in SUBSET Flags
      BY DEF Flags
    <2> QED
      BY <1>6, <1>a, <2>1, SwitchIInv DEF GasSpike, PersistControls, ControlsOK
  <1>7. CASE Wiped
    <2>1. {"paused", "frozen"} \in SUBSET Flags
      BY DEF Flags
    <2> QED
      BY <1>7, <1>a, <2>1, SwitchIInv DEF Wiped, ControlsOK
  <1>8. CASE AuditEvent
    BY <1>8 DEF AuditEvent, IInv, ControlsOK, SavedIsCurrent, HeldIsPaused, BothGoverned,
                GovernedOrPaused, Paused
  <1>9. ASSUME NEW c \in BOOLEAN, NEW a \in BOOLEAN, Restart(c, a) PROVE IInv'
    <2>1. /\ controls' = IF c THEN saved ELSE Defaults
          /\ saved' = saved
          /\ auto' \in BOOLEAN /\ streak' \in 0 .. Threshold
          /\ held' = (held /\ current /\ c)
          /\ current' = c
          /\ blind' \in BOOLEAN
          /\ waived' = waived
      BY <1>9, <1>a, <1>b DEF Restart, ControlsOK
    <2>2. Defaults \in ControlType /\ "governance" \in Defaults.on
      BY DEF Defaults, ControlType, Flags, Modes
    <2>3. held' \in BOOLEAN /\ current' \in BOOLEAN
      BY <2>1
    <2>4. ControlsOK'
      BY <1>a, <2>1, <2>2, <2>3 DEF ControlsOK
    <2>5. SavedIsCurrent'
      BY <2>1 DEF SavedIsCurrent
    <2>6. HeldIsPaused'
      BY <2>1 DEF IInv, HeldIsPaused, SavedIsCurrent, Paused
    <2>7. BothGoverned'
      BY <2>1, <2>2 DEF IInv, BothGoverned, GovernedOrPaused, Paused
    <2> QED
      BY <2>4, <2>5, <2>6, <2>7 DEF IInv
  <1>10. CASE UNCHANGED vars
    BY <1>10 DEF vars, IInv, ControlsOK, SavedIsCurrent, HeldIsPaused, BothGoverned,
                 GovernedOrPaused, Paused
  <1> QED
    BY <1>1, <1>2, <1>3, <1>4, <1>5, <1>6, <1>7, <1>8, <1>9, <1>10 DEF Next

-----------------------------------------------------------------------------
(* The strengthened invariant holds throughout: memory and file agree      *)
(* whenever nothing waits to be saved, and neither copy has governance off *)
(* and trading on unless a patch was waived.                               *)
THEOREM IInvHolds == Spec => []IInv
  BY InitIInv, NextIInv, PTL DEF Spec

(* A pause set by a breaker or a wipe is lifted by the operator only, and  *)
(* is in the file whenever nothing waits to be saved.                      *)
THEOREM PauseHoldsThm == Spec => []PauseHolds
  <1>1. IInv => PauseHolds
    BY DEF IInv, HeldIsPaused, SavedIsCurrent, PauseHolds
  <1> QED
    BY IInvHolds, <1>1, PTL

(* Governance is off only while the runtime is paused, or after a patch    *)
(* that the guard does not see through.                                    *)
THEOREM GovernanceOffIsPausedThm == Spec => []GovernanceOffIsPaused
  <1>1. IInv => GovernanceOffIsPaused
    BY DEF IInv, BothGoverned, GovernedOrPaused, GovernanceOffIsPaused
  <1> QED
    BY IInvHolds, <1>1, PTL

-----------------------------------------------------------------------------
(* The audit log.                                                          *)

Line == [prev : Nat, hash : Nat, readable : BOOLEAN]

(* The audit part of the type invariant. *)
AuditOK ==
    /\ lines \in Seq(Line)
    /\ fragment \in BOOLEAN
    /\ blind \in BOOLEAN
    /\ records \in 0 .. MaxRecords
    /\ lastHash \in 0 .. records
    /\ \A k \in 1 .. Len(lines) : lines[k].hash \in 0 .. records

(* What _last_hash may be. *)
LastKnown ==
    \/ lastHash = LastReadable(Len(lines) + 1)
    \/ Len(lines) > 0 /\ ~lines[Len(lines)].readable /\ lastHash = lines[Len(lines)].hash
    \/ blind /\ lastHash = Genesis

AInv == AuditOK /\ LastKnown /\ AuditChain

(* The maximum of a finite set of positive numbers is one of them. *)
LEMMA MaxIsMax ==
    ASSUME NEW n \in Nat, NEW M, M \subseteq 1 .. n, M # {}
    PROVE  Max(M) \in M /\ \A y \in M : y <= Max(M)
  <1> DEFINE D == {n - x : x \in M}
  <1>1. D \subseteq Nat /\ D # {}
    <2>1. \A x \in M : n - x \in Nat
      OBVIOUS
    <2>2. D \subseteq Nat
      BY <2>1
    <2>3. D # {}
      OBVIOUS
    <2> QED
      BY <2>2, <2>3
  <1>2. PICK d \in D : \A y \in D : ~ (<<y, d>> \in OpToRel(<, Nat))
    BY <1>1, NatLessThanWellFounded, WFMin
  <1>3. \A y \in D : ~(y < d)
    BY <1>1, <1>2 DEF OpToRel
  <1>4. PICK z \in M : d = n - z
    OBVIOUS
  <1>5. \A y \in M : z >= y
    <2> TAKE y \in M
    <2>1. ~(n - y < n - z)
      BY <1>3, <1>4
    <2> QED
      BY <2>1
  <1> QED
    BY <1>5 DEF Max

(* ... the largest number allowed, when that is one of them. *)
LEMMA MaxIsTop ==
    ASSUME NEW n \in Nat, NEW M, M \subseteq 1 .. n, n \in M
    PROVE  Max(M) = n
  <1>1. Max(M) \in M /\ n <= Max(M)
    BY MaxIsMax
  <1>2. Max(M) \in 1 .. n
    BY <1>1
  <1> QED
    BY <1>1, <1>2

(* The line that LastReadable looks at is one of the lines before k. *)
LEMMA LastReadableIn ==
    ASSUME NEW k \in Nat \ {0}, ReadableBefore(k) # {}
    PROVE  /\ Max(ReadableBefore(k)) \in ReadableBefore(k)
           /\ Max(ReadableBefore(k)) \in 1 .. k - 1
           /\ \A i \in ReadableBefore(k) : i <= Max(ReadableBefore(k))
  <1>1. k - 1 \in Nat /\ ReadableBefore(k) \subseteq 1 .. k - 1
    BY DEF ReadableBefore
  <1> QED
    BY <1>1, MaxIsMax

(* A start finds a hash that was given out. *)
LEMMA LastReadableType ==
    ASSUME AuditOK
    PROVE  LastReadable(Len(lines) + 1) \in 0 .. records
  <1> DEFINE k == Len(lines) + 1
  <1>1. k \in Nat \ {0} /\ k - 1 = Len(lines) /\ records \in Nat
    BY DEF AuditOK
  <1>2. CASE ReadableBefore(k) = {}
    BY <1>1, <1>2 DEF LastReadable, Genesis
  <1>3. CASE ReadableBefore(k) # {}
    <2>1. Max(ReadableBefore(k)) \in 1 .. Len(lines)
      BY <1>1, <1>3, LastReadableIn
    <2> QED
      BY <1>3, <2>1 DEF LastReadable, AuditOK
  <1> QED
    BY <1>2, <1>3

(* A line appended at the end changes nothing for the lines before it. *)
LEMMA LastReadableStays ==
    ASSUME lines \in Seq(Line), NEW r \in Line, lines' = Append(lines, r),
           NEW k \in 1 .. Len(lines) + 1
    PROVE  LastReadable(k)' = LastReadable(k)
  <1>1. Len(lines) \in Nat /\ \A i \in 1 .. Len(lines) : lines'[i] = lines[i]
    OBVIOUS
  <1>2. ReadableBefore(k)' = ReadableBefore(k)
    BY <1>1 DEF ReadableBefore
  <1>3. CASE ReadableBefore(k) = {}
    BY <1>2, <1>3 DEF LastReadable
  <1>4. CASE ReadableBefore(k) # {}
    <2>1. k \in Nat \ {0}
      BY <1>1
    <2>2. Max(ReadableBefore(k)) \in 1 .. Len(lines)
      BY <1>1, <1>4, <2>1, LastReadableIn
    <2> QED
      BY <1>1, <1>2, <1>4, <2>2 DEF LastReadable
  <1> QED
    BY <1>3, <1>4

(* After a readable line is appended, a start finds it. *)
LEMMA LastReadableNew ==
    ASSUME lines \in Seq(Line), NEW r \in Line, lines' = Append(lines, r), r.readable,
           NEW n \in Nat, n = Len(lines)
    PROVE  LastReadable(n + 2)' = r.hash
  <1> DEFINE M == ReadableBefore(n + 2)'
  <1>1. lines'[n + 1] = r
    OBVIOUS
  <1>2. M = {i \in 1 .. n + 1 : lines'[i].readable}
    BY DEF ReadableBefore
  <1>3. n + 1 \in M /\ M \subseteq 1 .. n + 1
    BY <1>1, <1>2
  <1>4. n + 1 \in Nat /\ M # {}
    BY <1>3
  <1> HIDE DEF M
  <1>5. Max(M) = n + 1
    BY <1>3, <1>4, MaxIsTop, Zenon
  <1>6. LastReadable(n + 2)' = IF M = {} THEN Genesis ELSE lines'[Max(M)].hash
    BY DEF LastReadable, M
  <1> QED
    BY <1>1, <1>4, <1>5, <1>6

(* An append keeps the chain, whether it succeeds, fails or is cut off. *)
LEMMA AppendAInv ==
    ASSUME AInv, AuditAppend, blind' = blind
    PROVE  AInv'
  <1>a. /\ lines \in Seq(Line) /\ Len(lines) \in Nat
        /\ records \in Nat /\ lastHash \in Nat /\ MaxRecords \in Nat
    BY CommandCentreAssumption DEF AInv, AuditOK
  <1>1. CASE lines' = lines /\ lastHash' = lastHash /\ records' = records
    <2>1. fragment' \in BOOLEAN
      BY DEF AuditAppend, auditVars, AInv, AuditOK
    <2>2. AuditOK'
      BY <1>1, <2>1 DEF AInv, AuditOK
    <2>3. \A k \in Nat : LastReadable(k)' = LastReadable(k)
      BY <1>1 DEF LastReadable, ReadableBefore
    <2>4. LastKnown'
      BY <1>1, <1>a, <2>3 DEF AInv, LastKnown, LastReadable, ReadableBefore
    <2>5. AuditChain'
      BY <1>1, <2>3 DEF AInv, AuditChain, LastReadable, ReadableBefore
    <2> QED
      BY <2>2, <2>4, <2>5 DEF AInv
  <1>2. CASE /\ lines' = Append(lines, [prev |-> lastHash, hash |-> records + 1,
                                       readable |-> ~fragment])
             /\ fragment' = FALSE
             /\ records' = records + 1
             /\ lastHash' = records + 1
    <2> DEFINE r == [prev |-> lastHash, hash |-> records + 1, readable |-> ~fragment]
               n == Len(lines)
    <2>1. r \in Line /\ r.prev = lastHash /\ r.hash = records + 1 /\ r.readable = ~fragment
      BY <1>a DEF Line
    <2> HIDE DEF r
    <2>2. /\ lines' \in Seq(Line) /\ Len(lines') = n + 1 /\ lines'[n + 1] = r
          /\ \A i \in 1 .. n : lines'[i] = lines[i]
      BY <1>2, <1>a, <2>1 DEF r
    <2>3. AuditOK'
      <3>1. records < MaxRecords
        BY DEF AuditAppend
      <3>2. records' \in 0 .. MaxRecords /\ lastHash' \in 0 .. records'
        BY <1>2, <1>a, <3>1
      <3>3. \A k \in 1 .. n : lines[k].hash \in 0 .. records + 1
        BY <1>a DEF AInv, AuditOK
      <3>4. ASSUME NEW k \in 1 .. n + 1 PROVE lines'[k].hash \in 0 .. records'
        BY <1>2, <1>a, <2>1, <2>2, <3>3
      <3>5. fragment' \in BOOLEAN /\ blind' \in BOOLEAN
        BY <1>2 DEF AInv, AuditOK
      <3> QED
        BY <2>2, <3>2, <3>4, <3>5 DEF AuditOK
    <2>4. LastKnown'
      <3>1. CASE fragment
        <4>1. /\ Len(lines') > 0
              /\ ~lines'[Len(lines')].readable
              /\ lines'[Len(lines')].hash = records + 1
          <5>1. Len(lines') > 0 /\ lines'[Len(lines')] = r
            BY <1>a, <2>2
          <5>2. ~r.readable
            BY <2>1, <3>1
          <5> QED
            BY <2>1, <5>1, <5>2
        <4> QED
          BY <1>2, <4>1 DEF LastKnown
      <3>2. CASE ~fragment
        <4>1. PICK m \in Nat : m = Len(lines)
          BY <1>a
        <4>2. lines' = Append(lines, r) /\ r.readable
          BY <1>2, <2>1, <3>2 DEF r
        <4>3. LastReadable(m + 2)' = r.hash
          BY <1>a, <2>1, <4>1, <4>2, LastReadableNew
        <4>4. Len(lines') + 1 = m + 2
          BY <2>2, <4>1
        <4>5. LastReadable(Len(lines) + 1)' = LastReadable(m + 2)'
          BY <4>4 DEF LastReadable, ReadableBefore
        <4> QED
          BY <1>2, <2>1, <4>3, <4>5 DEF LastKnown
      <3> QED
        BY <3>1, <3>2
    <2>5. AuditChain'
      <3> SUFFICES ASSUME NEW k \in 1 .. n + 1
                   PROVE  (\/ lines[k].prev = LastReadable(k)
                           \/ k > 1 /\ ~lines[k - 1].readable /\ lines[k].prev = lines[k - 1].hash
                           \/ blind /\ lines[k].prev = Genesis)'
        BY <2>2 DEF AuditChain
      <3>1. LastReadable(k)' = LastReadable(k)
        BY <1>2, <1>a, <2>1, LastReadableStays DEF r
      <3>2. CASE k \in 1 .. n
        <4>1. lines'[k] = lines[k] /\ (k > 1 => lines'[k - 1] = lines[k - 1])
          BY <1>a, <2>2, <3>2
        <4> QED
          BY <3>1, <3>2, <4>1 DEF AInv, AuditChain
      <3>3. CASE k = n + 1
        <4>1. lines'[k].prev = lastHash /\ (n > 0 => lines'[k - 1] = lines[n])
          BY <1>a, <2>1, <2>2, <3>3
        <4>2. CASE lastHash = LastReadable(n + 1)
          BY <3>1, <3>3, <4>1, <4>2
        <4>3. CASE n > 0 /\ ~lines[n].readable /\ lastHash = lines[n].hash
          BY <1>a, <3>3, <4>1, <4>3
        <4>4. CASE blind /\ lastHash = Genesis
          BY <4>1, <4>4
        <4> QED
          BY <4>2, <4>3, <4>4 DEF AInv, LastKnown
      <3> QED
        BY <1>a, <3>2, <3>3
    <2> QED
      BY <2>3, <2>4, <2>5 DEF AInv
  <1> QED
    BY <1>1, <1>2 DEF AuditAppend, auditVars

(* Steps that leave the log alone, but for what a start reads of it. *)
LEMMA StartAInv ==
    ASSUME AInv, lines' = lines, records' = records, fragment' = fragment,
           blind' \in BOOLEAN, blind => blind',
           \/ lastHash' = lastHash
           \/ lastHash' = LastReadable(Len(lines) + 1)
           \/ blind' /\ lastHash' = Genesis
    PROVE  AInv'
  <1>1. Len(lines) \in Nat /\ records \in Nat
    BY DEF AInv, AuditOK
  <1>2. lastHash' \in 0 .. records
    BY <1>1, LastReadableType DEF AInv, AuditOK, Genesis
  <1>3. AuditOK'
    BY <1>2 DEF AInv, AuditOK
  <1>4. \A k \in Nat : LastReadable(k)' = LastReadable(k)
    BY DEF LastReadable, ReadableBefore
  <1>5. LastReadable(Len(lines) + 1)' = LastReadable(Len(lines) + 1)
    BY DEF LastReadable, ReadableBefore
  <1>6. LastKnown'
    BY <1>5 DEF AInv, LastKnown
  <1>7. AuditChain'
    BY <1>1, <1>4 DEF AInv, AuditChain
  <1> QED
    BY <1>3, <1>6, <1>7 DEF AInv

(* The empty log is a chain. *)
LEMMA InitAInv == Init => AInv
  <1> SUFFICES ASSUME Init PROVE AInv
    OBVIOUS
  <1>1. lines = << >> /\ lines \in Seq(Line) /\ Len(lines) = 0
    BY DEF Init
  <1>2. AuditOK
    <2>1. records \in 0 .. MaxRecords /\ lastHash \in 0 .. records
      BY CommandCentreAssumption DEF Init, Genesis
    <2>2. fragment \in BOOLEAN /\ blind \in BOOLEAN
      BY DEF Init
    <2> QED
      BY <1>1, <2>1, <2>2 DEF AuditOK
  <1>3. LastKnown
    <2>1. ReadableBefore(Len(lines) + 1) = {}
      BY <1>1 DEF ReadableBefore
    <2> QED
      BY <2>1 DEF LastKnown, LastReadable, Init
  <1>4. AuditChain
    BY <1>1 DEF AuditChain
  <1> QED
    BY <1>2, <1>3, <1>4 DEF AInv

(* Every step keeps the chain. *)
LEMMA NextAInv == AInv /\ [Next]_vars => AInv'
  <1> SUFFICES ASSUME AInv, [Next]_vars PROVE AInv'
    OBVIOUS
  <1>a. blind \in BOOLEAN
    BY DEF AInv, AuditOK
  <1>1. ASSUME NEW p \in Patches, NEW text \in BOOLEAN, ApplyControls(p, text)
        PROVE  AInv'
    BY <1>1, AppendAInv DEF ApplyControls
  <1>2. ASSUME NEW p \in Patches, SavedAndCrashed(p)
        PROVE  AInv'
    BY <1>2, <1>a, StartAInv DEF SavedAndCrashed
  <1>3. ASSUME NEW b \in BOOLEAN, SetSettings(b) PROVE AInv'
    BY <1>3, <1>a, StartAInv DEF SetSettings, auditVars
  <1>4. CASE BlockNumberFails
    <2>1. blind' = blind /\ (AuditAppend \/ UNCHANGED auditVars)
      BY <1>4 DEF BlockNumberFails
    <2> QED
      BY <1>a, <2>1, AppendAInv, StartAInv DEF auditVars
  <1>5. CASE BlockNumberRead
    BY <1>5, <1>a, StartAInv DEF BlockNumberRead, auditVars
  <1>6. CASE GasSpike
    BY <1>6, AppendAInv DEF GasSpike
  <1>7. CASE Wiped
    BY <1>7, <1>a, StartAInv DEF Wiped, auditVars
  <1>8. CASE AuditEvent
    BY <1>8, AppendAInv DEF AuditEvent
  <1>9. ASSUME NEW c \in BOOLEAN, NEW a \in BOOLEAN, Restart(c, a) PROVE AInv'
    <2>1. blind' \in BOOLEAN /\ (blind => blind')
      BY <1>9, <1>a DEF Restart
    <2>2. /\ lines' = lines /\ records' = records /\ fragment' = fragment
          /\ \/ lastHash' = LastReadable(Len(lines) + 1)
             \/ blind' /\ lastHash' = Genesis
      BY <1>9, <1>a DEF Restart
    <2> QED
      BY <2>1, <2>2, StartAInv
  <1>10. CASE UNCHANGED vars
    BY <1>10, <1>a, StartAInv DEF vars
  <1> QED
    BY <1>1, <1>2, <1>3, <1>4, <1>5, <1>6, <1>7, <1>8, <1>9, <1>10 DEF Next

(* The log is one chain through failed and torn appends and every start    *)
(* that can read the file.                                                 *)
THEOREM AuditChainThm == Spec => []AuditChain
  <1>1. AInv => AuditChain
    BY DEF AInv
  <1> QED
    BY InitAInv, NextAInv, <1>1, PTL DEF Spec

(* Every variable has its type. *)
THEOREM TypeCorrect == Spec => []TypeOK
  <1>1. IInv /\ AInv => TypeOK
    BY DEF IInv, AInv, ControlsOK, AuditOK, TypeOK, ControlType, Line
  <1>2. Spec => []AInv
    BY InitAInv, NextAInv, PTL DEF Spec
  <1> QED
    BY <1>1, <1>2, IInvHolds, PTL
=============================================================================
