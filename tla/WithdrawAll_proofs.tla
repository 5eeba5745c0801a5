------------------------- MODULE WithdrawAll_proofs -------------------------
(***************************************************************************)
(* Proofs about WithdrawAll, for every number of requests, tokens and      *)
(* previews.                                                               *)
(*                                                                         *)
(* The file and the copy of every request satisfy the same conditions      *)
(* (Good): that is why it does not matter for them which copy is saved     *)
(* last.  What a request has read, sent and looked up agrees with its copy *)
(* and with the chain (CallGood).  Both only refer to what evolves in one  *)
(* direction (Evolves): previews once shown stay, transactions are added   *)
(* and proven, and a pause is only lifted by somebody.                     *)
(***************************************************************************)
EXTENDS WithdrawAll, TLAPS

(* What the conditions refer to: the previews shown, the transactions,     *)
(* whether trading is paused or somebody lifted the pause, and the         *)
(* previews of which an execute ended before its pause.                    *)
World == [plans |-> plans, txs |-> txs, calm |-> paused \/ resumed,
          unpaused |-> unpaused]
Worlds == [plans : [Previews -> PlanSet], txs : Seq(TxSet), calm : BOOLEAN,
           unpaused : SUBSET (Previews \union {NoPreview})]

(* How the world changes from v to w. *)
Evolves(v, w) ==
    /\ Len(v.txs) <= Len(w.txs)
    /\ \A n \in 1 .. Len(v.txs) :
           /\ w.txs[n].token = v.txs[n].token
           /\ w.txs[n].amount = v.txs[n].amount
           /\ w.txs[n].destination = v.txs[n].destination
           /\ w.txs[n].preview = v.txs[n].preview
           /\ w.txs[n].item = v.txs[n].item
           /\ v.txs[n].state # "pending" => w.txs[n].state = v.txs[n].state
    /\ \A p \in Previews : v.plans[p] # NoPlan => w.plans[p] = v.plans[p]
    /\ v.calm => w.calm
    /\ v.unpaused \subseteq w.unpaused

-----------------------------------------------------------------------------
(* What holds of the file and of every copy x of it.                       *)

(* The preview of a copy is one that was shown, with its digest. *)
Shown(x, w) ==
    x.preview # NoPreview =>
        w.plans[x.preview] # NoPlan /\ x.digest = w.plans[x.preview]

(* An item was sent for a preview of which an execute ended before its     *)
(* pause.                                                                  *)
Excused(items, w) ==
    \E i \in 1 .. Len(items) : w.txs[items[i].tx].preview \in w.unpaused

(* A wipe that sent everything paused trading, or ended before its pause.  *)
PausedFor(x, w) ==
    x.status \in {"submitted", "completed"} => w.calm \/ Excused(x.items, w)

(* The record of an execute that sent everything is a record of the        *)
(* preview that the copy would execute.                                    *)
Replays(x) ==
    x.status = "submitted" =>
        /\ x.executed = x.preview
        /\ x.executed # NoPreview => x.result # NoResult

(* The items name transactions in the order of their nonces, with a status *)
(* that is open or the one of the chain.                                   *)
Traced(items, w) ==
    /\ \A i \in 1 .. Len(items) :
           /\ items[i].tx \in 1 .. Len(w.txs)
           /\ items[i].status \in {"pending", w.txs[items[i].tx].state}
    /\ \A i, j \in 1 .. Len(items) : i < j => items[i].tx < items[j].tx

(* The items are all those of one preview. *)
AllItemsOf(items, p, w) ==
    /\ w.plans[p] # NoPlan
    /\ Len(items) = Len(w.plans[p].items)
    /\ Len(items) # 0
    /\ \A i \in 1 .. Len(items) :
           w.txs[items[i].tx].preview = p /\ w.txs[items[i].tx].item = i

Whole(x, w) ==
    x.status \in {"submitted", "completed"} =>
        \E p \in Previews : AllItemsOf(x.items, p, w)

Complete(x) ==
    x.status = "completed" =>
        \A i \in 1 .. Len(x.items) : x.items[i].status = "mined_success"

Good(x, w) ==
    /\ Shown(x, w) /\ PausedFor(x, w) /\ Replays(x)
    /\ Traced(x.items, w) /\ Whole(x, w) /\ Complete(x)

-----------------------------------------------------------------------------
(* What holds of a request k.                                              *)

PlanOf(k) ==
    [reason |-> IF k.reason = "ok" /\ k.read = << >>
                THEN "no_token_balances" ELSE k.reason,
     destination |-> k.st.approved,
     items |-> k.read]

Shape(k) ==
    /\ \/ k.op = "none" /\ k.at = "none"
       \/ k.op = "preview" /\ k.at = "plan"
       \/ k.op = "execute" /\ k.at \in {"plan", "owner", "send", "assess"}
       \/ k.op = "state" /\ k.at = "refresh"
    /\ k.at = "plan" => k.reason # "none"
    /\ k.at \in {"plan", "owner"} => k.items = << >>
    /\ k.op = "execute" => k.preview # NoPreview /\ k.preview = k.st.preview

(* How many transactions an execute knows to have been accepted. *)
Sent(k) == IF k.at = "assess" THEN Len(k.items) + 1 ELSE Len(k.items)

(* An execute past its checks holds the plan that was shown. *)
Confirmed(k, w) ==
    k.at \in {"owner", "send", "assess"} =>
        PlanOf(k) = w.plans[k.preview] /\ PlanOf(k).reason = "ok"

(* Its transactions follow the nonce it read, and so follow the ones its   *)
(* copy knows of.                                                          *)
Sending(k, w) ==
    k.at \in {"send", "assess"} =>
        /\ Len(k.items) < Len(k.read)
        /\ k.nonce + Sent(k) <= Len(w.txs)
        /\ \A i \in 1 .. Len(k.st.items) : k.st.items[i].tx <= k.nonce
        /\ \A i \in 1 .. Sent(k) :
               /\ w.txs[k.nonce + i].preview = k.preview
               /\ w.txs[k.nonce + i].item = i
        /\ \A i \in 1 .. Len(k.items) : k.items[i].tx = k.nonce + i
        /\ Traced(k.items, w)

(* The items seen are the first ones held, and keep what is proven. *)
Follows(seen, held) ==
    /\ Len(seen) <= Len(held)
    /\ \A i \in 1 .. Len(seen) :
           /\ seen[i].tx = held[i].tx
           /\ held[i].status # "pending" => seen[i].status = held[i].status

(* A refresh goes through the items of its copy. *)
Refreshing(k, w) ==
    k.at = "refresh" =>
        k.st.status = "submitted" /\ Follows(k.items, k.st.items) /\ Traced(k.items, w)

CallGood(k, w) ==
    Good(k.st, w) /\ Shape(k) /\ Confirmed(k, w) /\ Sending(k, w) /\ Refreshing(k, w)

CopiesGood == Good(file, World) /\ \A c \in Calls : CallGood(calls[c], World)

(* The invariant that the others rest on. *)
Core == TypeOK /\ CopiesGood /\ SentAsPreviewed

-----------------------------------------------------------------------------
(* The copies that are not stale.                                          *)

Fresh ==
    ~overwritten =>
        /\ file.status # "torn"
        /\ \A c \in Calls : ~Free(c) /\ ~calls[c].stale => calls[c].st = file

-----------------------------------------------------------------------------
(* Which request has sent what.                                            *)

(* Two executes of a preview disturb it. *)
OneExecute ==
    \A c, d \in Calls :
        /\ calls[c].op = "execute" /\ calls[d].op = "execute"
        /\ calls[c].preview = calls[d].preview /\ calls[c].preview \notin disturbed
        => c = d

(* What was sent of a preview was sent by the execute in progress. *)
SentByCall ==
    \A c \in Calls : calls[c].op = "execute" /\ calls[c].preview \notin disturbed =>
        \A n \in DOMAIN txs : txs[n].preview = calls[c].preview =>
            calls[c].at \in {"send", "assess"} /\ n = calls[c].nonce + txs[n].item

(* With copy x as the file, no execute of preview p would start. *)
OnRecord(x, p) == x.preview = p => x.executed = p /\ x.result # NoResult

(* What no execute is sending is on record, if the preview is still there. *)
SentRecorded ==
    \A n \in DOMAIN txs :
        \/ txs[n].preview \in disturbed \union Executing
        \/ OnRecord(file, txs[n].preview)

Once == OneExecute /\ SentByCall /\ SentRecorded /\ SentOnce

-----------------------------------------------------------------------------
(* Facts about the conditions.                                             *)

LEMMA LenTokens == Len(Tokens) \in Nat
  BY WithdrawAllAssumption

(* The states that a missing or unreadable file stands for. *)
LEMMA DefaultsGood ==
    ASSUME NEW w \in Worlds
    PROVE  /\ DefaultState \in StateSet /\ Good(DefaultState, w)
           /\ Torn \in StateSet /\ Good(Torn, w)
           /\ [DefaultState EXCEPT !.status = "degraded"] \in StateSet
           /\ Good([DefaultState EXCEPT !.status = "degraded"], w)
  <1>1. << >> \in Seq(ProofSet) /\ << >> \in Seq(ItemSet) /\ Len(<< >>) = 0
    OBVIOUS
  <1>2. NoPlan \in PlanSet /\ NoResult \in ResultSet
    BY <1>1 DEF NoPlan, NoResult, PlanSet, ResultSet, Reasons
  <1>3. DefaultState \in StateSet
    BY <1>1, <1>2 DEF DefaultState, StateSet, Statuses, NoPreview
  <1>4. /\ Torn \in StateSet
        /\ [DefaultState EXCEPT !.status = "degraded"] \in StateSet
    BY <1>3 DEF Torn, StateSet, Statuses
  <1>5. ASSUME NEW x \in StateSet, x.preview = NoPreview, x.items = << >>,
               x.status \in {"idle", "torn", "degraded"}
        PROVE  Good(x, w)
    BY <1>1, <1>5 DEF Good, Shown, PausedFor, Replays, Traced, Whole, Complete
  <1>6. Good(DefaultState, w)
    BY <1>3, <1>5 DEF DefaultState
  <1>7. Good(Torn, w)
    BY <1>4, <1>5 DEF Torn, DefaultState
  <1>8. Good([DefaultState EXCEPT !.status = "degraded"], w)
    BY <1>4, <1>5 DEF DefaultState
  <1>9. QED
    BY <1>3, <1>4, <1>6, <1>7, <1>8

LEMMA NoCallGood ==
    ASSUME NEW w \in Worlds
    PROVE  NoCall \in CallSet /\ CallGood(NoCall, w)
  <1>1. DefaultState \in StateSet /\ Good(DefaultState, w)
    BY DefaultsGood
  <1>2. QED
    <2>1. NoCall \in CallSet
      BY <1>1, LenTokens DEF NoCall, CallSet, NoPreview, Reasons
    <2>2. NoCall.st = DefaultState /\ NoCall.op = "none" /\ NoCall.at = "none"
      BY DEF NoCall
    <2>3. QED
      BY <1>1, <2>1, <2>2 DEF CallGood, Shape, Confirmed, Sending, Refreshing

LEMMA TracedEvolves ==
    ASSUME NEW v \in Worlds, NEW w \in Worlds, Evolves(v, w),
           NEW items \in Seq(ProofSet), Traced(items, v)
    PROVE  Traced(items, w)
  <1>1. /\ Len(items) \in Nat /\ Len(v.txs) \in Nat /\ Len(w.txs) \in Nat
        /\ \A i \in 1 .. Len(items) : items[i].tx \in Nat
    <2>1. v.txs \in Seq(TxSet) /\ w.txs \in Seq(TxSet)
      BY DEF Worlds
    <2>2. \A i \in 1 .. Len(items) : items[i] \in ProofSet
      OBVIOUS
    <2>3. QED
      BY <2>1, <2>2 DEF ProofSet
  <1>2. ASSUME NEW i \in 1 .. Len(items)
        PROVE  /\ items[i].tx \in 1 .. Len(w.txs)
               /\ items[i].status \in {"pending", w.txs[items[i].tx].state}
    <2>1. items[i].tx \in 1 .. Len(v.txs)
      BY DEF Traced
    <2>2. items[i].tx \in 1 .. Len(w.txs)
      BY <1>1, <2>1 DEF Evolves
    <2>3. items[i].status \in {"pending", v.txs[items[i].tx].state}
      BY DEF Traced
    <2>4. v.txs[items[i].tx].state # "pending"
            => w.txs[items[i].tx].state = v.txs[items[i].tx].state
      BY <2>1 DEF Evolves
    <2>5. QED
      BY <2>2, <2>3, <2>4
  <1>3. QED
    BY <1>2 DEF Traced

LEMMA WholeEvolves ==
    ASSUME NEW v \in Worlds, NEW w \in Worlds, Evolves(v, w),
           NEW items \in Seq(ProofSet), Traced(items, v), NEW p \in Previews,
           AllItemsOf(items, p, v)
    PROVE  AllItemsOf(items, p, w)
  <1>1. w.plans[p] = v.plans[p] /\ v.plans[p] # NoPlan
    BY DEF Evolves, AllItemsOf
  <1>2. ASSUME NEW i \in 1 .. Len(items)
        PROVE  w.txs[items[i].tx].preview = p /\ w.txs[items[i].tx].item = i
    <2>1. items[i].tx \in 1 .. Len(v.txs)
      BY DEF Traced
    <2>2. /\ w.txs[items[i].tx].preview = v.txs[items[i].tx].preview
          /\ w.txs[items[i].tx].item = v.txs[items[i].tx].item
      BY <2>1 DEF Evolves
    <2>3. v.txs[items[i].tx].preview = p /\ v.txs[items[i].tx].item = i
      BY DEF AllItemsOf
    <2>4. QED
      BY <2>2, <2>3
  <1>3. Len(items) = Len(v.plans[p].items) /\ Len(items) # 0
    BY DEF AllItemsOf
  <1>4. QED
    BY <1>1, <1>2, <1>3 DEF AllItemsOf

LEMMA ExcusedEvolves ==
    ASSUME NEW v \in Worlds, NEW w \in Worlds, Evolves(v, w),
           NEW items \in Seq(ProofSet), Traced(items, v), Excused(items, v)
    PROVE  Excused(items, w)
  <1>1. PICK i \in 1 .. Len(items) : v.txs[items[i].tx].preview \in v.unpaused
    BY DEF Excused
  <1>2. items[i].tx \in 1 .. Len(v.txs)
    BY DEF Traced
  <1>3. w.txs[items[i].tx].preview = v.txs[items[i].tx].preview
    BY <1>2 DEF Evolves
  <1>4. QED
    BY <1>1, <1>3 DEF Evolves, Excused

LEMMA GoodEvolves ==
    ASSUME NEW v \in Worlds, NEW w \in Worlds, Evolves(v, w),
           NEW x \in StateSet, Good(x, v)
    PROVE  Good(x, w)
  <1>1. Traced(x.items, v) /\ x.items \in Seq(ProofSet)
    BY DEF Good, StateSet
  <1>2. Traced(x.items, w)
    BY <1>1, TracedEvolves
  <1>3. Whole(x, w)
    BY <1>1, WholeEvolves DEF Good, Whole
  <1>4. Shown(x, w)
    BY DEF Good, Shown, Evolves, StateSet
  <1>5. PausedFor(x, w)
    BY <1>1, ExcusedEvolves DEF Good, PausedFor, Evolves
  <1>6. QED
    BY <1>2, <1>3, <1>4, <1>5 DEF Good

LEMMA CallEvolves ==
    ASSUME NEW v \in Worlds, NEW w \in Worlds, Evolves(v, w),
           NEW k \in CallSet, CallGood(k, v)
    PROVE  CallGood(k, w)
  <1>1. k.st \in StateSet /\ k.items \in Seq(ProofSet)
    BY DEF CallSet
  <1>2. Good(k.st, w)
    BY <1>1, GoodEvolves DEF CallGood
  <1>3. Confirmed(k, w)
    BY DEF CallGood, Confirmed, Shape, Good, Shown, Evolves, CallSet
  <1>4. Sending(k, w)
    <2>1. SUFFICES ASSUME k.at \in {"send", "assess"}
                   PROVE  Sending(k, w)
      BY DEF Sending
    <2>2. Traced(k.items, w)
      BY <1>1, <2>1, TracedEvolves DEF CallGood, Sending
    <2>3. /\ k.nonce \in Nat /\ Sent(k) \in Nat
          /\ Len(v.txs) \in Nat /\ Len(w.txs) \in Nat
      BY <1>1 DEF CallSet, Sent, Worlds
    <2>4. /\ k.nonce + Sent(k) <= Len(v.txs) /\ Len(v.txs) <= Len(w.txs)
      BY <2>1 DEF CallGood, Sending, Evolves
    <2>5. ASSUME NEW i \in 1 .. Sent(k)
          PROVE  /\ w.txs[k.nonce + i].preview = k.preview
                 /\ w.txs[k.nonce + i].item = i
      <3>1. k.nonce + i \in 1 .. Len(v.txs)
        BY <2>3, <2>4
      <3>2. QED
        BY <2>1, <3>1 DEF CallGood, Sending, Evolves
    <2>6. QED
      BY <2>1, <2>2, <2>3, <2>4, <2>5 DEF CallGood, Sending
  <1>5. Refreshing(k, w)
    BY <1>1, TracedEvolves DEF CallGood, Refreshing
  <1>6. QED
    BY <1>2, <1>3, <1>4, <1>5 DEF CallGood

LEMMA StaleGood ==
    ASSUME NEW w \in Worlds, NEW k \in CallSet, CallGood(k, w), NEW b \in BOOLEAN
    PROVE  /\ [k EXCEPT !.stale = b] \in CallSet
           /\ CallGood([k EXCEPT !.stale = b], w)
  BY DEF CallSet, CallGood, Shape, Confirmed, Sending, Refreshing, PlanOf, Sent

-----------------------------------------------------------------------------
(* The states that the handlers save are good.                             *)

LEMMA BlockedGood ==
    ASSUME NEW w \in Worlds, NEW x \in StateSet, Good(x, w)
    PROVE  Blocked(x) \in StateSet /\ Good(Blocked(x), w)
  <1>1. << >> \in Seq(ProofSet) /\ Len(<< >>) = 0
    OBVIOUS
  <1>2. Blocked(x) \in StateSet
    BY <1>1 DEF Blocked, StateSet, Statuses
  <1>3. /\ Blocked(x).status = "execute_blocked" /\ Blocked(x).items = << >>
        /\ Blocked(x).preview = x.preview /\ Blocked(x).digest = x.digest
    BY DEF Blocked, StateSet
  <1>4. QED
    BY <1>1, <1>2, <1>3 DEF Good, Shown, PausedFor, Replays, Traced, Whole, Complete

LEMMA ConfiguredGood ==
    ASSUME NEW w \in Worlds, NEW x \in StateSet, Good(x, w),
           NEW d \in Destinations \union {None}, NEW a \in BOOLEAN, NEW e \in BOOLEAN
    PROVE  /\ ClearPreviewState(Configured(x, d, a, e)) \in StateSet
           /\ Good(ClearPreviewState(Configured(x, d, a, e)), w)
  <1> DEFINE y == Configured(x, d, a, e)
             z == ClearPreviewState(y)
  <1>1. NoPlan \in PlanSet /\ NoResult \in ResultSet
    <2>1. << >> \in Seq(ProofSet) /\ << >> \in Seq(ItemSet)
      OBVIOUS
    <2>2. QED
      BY <2>1 DEF NoPlan, NoResult, PlanSet, ResultSet, Reasons
  <1>2. y \in StateSet /\ y.status = x.status /\ y.items = x.items
    BY DEF Configured, StateSet
  <1>3. /\ z \in StateSet /\ z.status = x.status /\ z.items = x.items
        /\ z.preview = NoPreview /\ z.executed = NoPreview
    <2> HIDE DEF y
    <2>1. QED
      BY <1>1, <1>2 DEF ClearPreviewState, StateSet, NoPreview
  <1> HIDE DEF z
  <1>4. Good(z, w)
    BY <1>3 DEF Good, Shown, PausedFor, Replays, Traced, Whole, AllItemsOf, Complete
  <1>5. QED
    BY <1>3, <1>4 DEF z

LEMMA RecordedGood ==
    ASSUME NEW w \in Worlds, NEW x \in StateSet, Good(x, w),
           NEW status \in Statuses, NEW items \in Seq(ProofSet), Traced(items, w),
           NEW p \in Previews, p = x.preview,
           status \in {"submitted", "completed"} =>
               /\ w.calm \/ Excused(items, w)
               /\ \E q \in Previews : AllItemsOf(items, q, w),
           status = "completed" =>
               \A i \in 1 .. Len(items) : items[i].status = "mined_success"
    PROVE  /\ Recorded(x, status, items, p) \in StateSet
           /\ Good(Recorded(x, status, items, p), w)
           /\ Recorded(x, status, items, p).preview = p
           /\ Recorded(x, status, items, p).executed = p
           /\ Recorded(x, status, items, p).result # NoResult
  <1> DEFINE r == [status |-> status, items |-> items]
             z == Recorded(x, status, items, p)
  <1>1. r \in ResultSet /\ r # NoResult
    <2>1. r.status # NoResult.status
      BY DEF Statuses, NoResult
    <2>2. QED
      BY <2>1 DEF ResultSet
  <1>2. /\ z \in StateSet /\ z.status = status /\ z.items = items
        /\ z.preview = x.preview /\ z.digest = x.digest /\ z.executed = p
        /\ z.result = r
    <2> HIDE DEF r
    <2>1. z = [x EXCEPT !.status = status, !.items = items, !.executed = p, !.result = r]
      BY DEF Recorded, r
    <2> HIDE DEF z
    <2>2. /\ DOMAIN z = DOMAIN x
          /\ z.status = status /\ z.items = items
          /\ z.preview = x.preview /\ z.digest = x.digest /\ z.executed = p
          /\ z.result = r
      BY <2>1 DEF StateSet
    <2>3. z \in StateSet
      BY <1>1, <2>1 DEF StateSet
    <2>4. QED
      BY <2>2, <2>3
  <1> HIDE DEF z, r
  <1>3. Good(z, w)
    BY <1>1, <1>2 DEF Good, Shown, PausedFor, Replays, Whole, Complete
  <1>4. QED
    BY <1>1, <1>2, <1>3 DEF z

LEMMA ExecutedStatusCompleted ==
    ASSUME NEW items \in Seq(ProofSet)
    PROVE  /\ ExecutedStatus(items) \in {"submitted", "completed"}
           /\ ExecutedStatus(items) = "completed" =>
                  \A i \in 1 .. Len(items) : items[i].status = "mined_success"
           /\ SubmittedResultStatus(items) \in {"execute_failed", ExecutedStatus(items)}
  BY DEF ExecutedStatus, AllMined, SubmittedResultStatus

LEMMA RefreshedGood ==
    ASSUME NEW w \in Worlds, NEW k \in CallSet, CallGood(k, w),
           k.at = "refresh", Len(k.items) = Len(k.st.items)
    PROVE  /\ Refreshed(k.st, k.items) \in StateSet
           /\ Good(Refreshed(k.st, k.items), w)
           /\ Refreshed(k.st, k.items).preview = k.st.preview
           /\ Refreshed(k.st, k.items).executed = k.st.preview
           /\ k.st.preview # NoPreview => Refreshed(k.st, k.items).result # NoResult
  <1> DEFINE x == k.st
             items == k.items
             status == SubmittedResultStatus(items)
             r == [status |-> status, items |-> items]
             z == Refreshed(x, items)
  <1>1. /\ x \in StateSet /\ items \in Seq(ProofSet) /\ Good(x, w)
        /\ x.status = "submitted" /\ Traced(items, w)
        /\ \A i \in 1 .. Len(items) : items[i].tx = x.items[i].tx
        /\ Len(items) = Len(x.items)
        /\ x.executed = x.preview
        /\ x.executed # NoPreview => x.result # NoResult
    <2>1. k.st \in StateSet /\ k.items \in Seq(ProofSet)
      BY DEF CallSet
    <2>2. Good(k.st, w) /\ Refreshing(k, w)
      BY DEF CallGood
    <2>3. /\ k.st.status = "submitted" /\ Traced(k.items, w) /\ Follows(k.items, k.st.items)
      BY <2>2 DEF Refreshing
    <2>4. /\ k.st.executed = k.st.preview
          /\ k.st.executed # NoPreview => k.st.result # NoResult
      BY <2>2, <2>3 DEF Good, Replays
    <2>5. \A i \in 1 .. Len(k.items) : k.items[i].tx = k.st.items[i].tx
      BY <2>3 DEF Follows
    <2>6. QED
      BY <2>1, <2>2, <2>3, <2>4, <2>5
  <1> HIDE DEF x, items
  <1>2. /\ status \in {"execute_failed", "submitted", "completed"}
        /\ status = "completed" => \A i \in 1 .. Len(items) : items[i].status = "mined_success"
    BY <1>1, ExecutedStatusCompleted
  <1> HIDE DEF status
  <1>3. r \in ResultSet /\ r # NoResult
    <2>1. r.status # NoResult.status
      BY <1>2 DEF NoResult
    <2>2. QED
      BY <1>1, <1>2, <2>1 DEF ResultSet, Statuses
  <1>4. CASE items = x.items
    <2>1. z = x
      BY <1>4 DEF Refreshed
    <2>2. QED
      BY <1>1, <2>1 DEF x, items
  <1>5. CASE items # x.items
    <2>1. z = [x EXCEPT !.status = status, !.items = items,
                        !.result = IF x.executed = NoPreview THEN @ ELSE r]
      BY <1>5 DEF Refreshed, status
    <2> HIDE DEF r, z
    <2>2. /\ z \in StateSet /\ z.status = status /\ z.items = items
          /\ z.preview = x.preview /\ z.digest = x.digest /\ z.executed = x.executed
          /\ x.executed # NoPreview => z.result = r
      BY <1>1, <1>2, <1>3, <2>1 DEF StateSet, Statuses
    <2>3. \E p \in Previews : AllItemsOf(items, p, w)
      BY <1>1 DEF Good, Whole, AllItemsOf
    <2>4. w.calm \/ Excused(items, w)
      BY <1>1 DEF Good, PausedFor, Excused
    <2>5. Good(z, w)
      BY <1>1, <1>2, <1>3, <2>2, <2>3, <2>4
      DEF Good, Shown, PausedFor, Replays, Whole, Complete
    <2>6. QED
      BY <1>1, <1>3, <2>2, <2>5 DEF x, items, z
  <1>6. QED
    BY <1>4, <1>5

-----------------------------------------------------------------------------
(* The steps, one action after the other.                                  *)

LEMMA CoreFacts ==
    ASSUME Core
    PROVE  /\ World \in Worlds
           /\ World.plans = plans /\ World.txs = txs /\ World.calm = (paused \/ resumed)
           /\ World.unpaused = unpaused
           /\ Load \in StateSet /\ Good(Load, World)
           /\ \A c \in Calls : calls[c] \in CallSet /\ CallGood(calls[c], World)
  <1>1. World \in Worlds
    BY DEF Core, TypeOK, World, Worlds
  <1>2. /\ World.plans = plans /\ World.txs = txs /\ World.calm = (paused \/ resumed)
        /\ World.unpaused = unpaused
    BY DEF World
  <1>3. Load \in StateSet /\ Good(Load, World)
    BY <1>1, DefaultsGood DEF Load, Core, TypeOK, CopiesGood
  <1>4. QED
    BY <1>1, <1>2, <1>3 DEF Core, TypeOK, CopiesGood

(* Nothing that the conditions refer to changes. *)
LEMMA EvolvesRefl ==
    ASSUME NEW w \in Worlds
    PROVE  Evolves(w, w)
  BY DEF Evolves, Worlds

(* The requests other than c keep what they have, or end. *)
LEMMA CallsEvolve ==
    ASSUME Core, World' \in Worlds, Evolves(World, World'), NEW c \in Calls,
           \/ calls' = Others(c)
           \/ calls' = Dropped(c)
    PROVE  /\ calls' \in [Calls -> CallSet]
           /\ \A d \in Calls : CallGood(calls'[d], World')
  <1>1. \A d \in Calls : calls[d] \in CallSet /\ CallGood(calls[d], World')
    BY CoreFacts, CallEvolves
  <1>2. NoCall \in CallSet /\ CallGood(NoCall, World')
    BY NoCallGood
  <1>3. CASE calls' = Others(c)
    <2>1. ASSUME NEW d \in Calls
          PROVE  calls'[d] \in CallSet /\ CallGood(calls'[d], World')
      <3>1. (~Free(d)) \in BOOLEAN
        BY DEF Free
      <3>2. CASE d = c
        BY <1>2, <1>3, <3>2 DEF Others
      <3>3. CASE d # c
        BY <1>1, <1>3, <3>1, <3>3, StaleGood DEF Others
      <3>4. QED
        BY <3>2, <3>3
    <2>2. QED
      BY <1>3, <2>1 DEF Others
  <1>4. CASE calls' = Dropped(c)
    BY <1>1, <1>2, <1>4 DEF Dropped, Core, TypeOK
  <1>5. QED
    BY <1>3, <1>4

(* A save by request c of a state new that is good. *)
LEMMA SaveStep ==
    ASSUME Core, World' \in Worlds, Evolves(World, World'), NEW c \in Calls,
           NEW new \in StateSet, Good(new, World'),
           NEW kept \in SUBSET (Previews \union {NoPreview}),
           SaveAndEnd(c, new, kept)
    PROVE  /\ file' \in StateSet /\ Good(file', World')
           /\ calls' \in [Calls -> CallSet]
           /\ \A d \in Calls : CallGood(calls'[d], World')
           /\ overwritten' \in BOOLEAN
           /\ changes' \in 0 .. MaxChanges
           /\ disturbed' \in SUBSET (Previews \union {NoPreview})
  <1>1. calls' = Others(c) \/ calls' = Dropped(c)
    BY DEF SaveAndEnd, Saved
  <1>2. /\ calls' \in [Calls -> CallSet]
        /\ \A d \in Calls : CallGood(calls'[d], World')
    BY <1>1, CallsEvolve
  <1>3. file' \in {file, Torn, new}
    BY DEF SaveAndEnd, Saved, SaveFails
  <1>4. /\ file \in StateSet /\ Good(file, World')
        /\ Torn \in StateSet /\ Good(Torn, World')
    BY CoreFacts, GoodEvolves, DefaultsGood DEF Core, TypeOK, CopiesGood
  <1>5. calls[c].stale \in BOOLEAN
    BY CoreFacts DEF CallSet
  <1>6. overwritten' \in BOOLEAN
    BY <1>5 DEF SaveAndEnd, Saved, SaveFails, Core, TypeOK
  <1>7. changes' \in 0 .. MaxChanges
    BY WithdrawAllAssumption DEF SaveAndEnd, Saved, SaveFails, Spend, Core, TypeOK
  <1>8. disturbed' \in SUBSET (Previews \union {NoPreview})
    BY DEF SaveAndEnd, Saved, SaveFails, Core, TypeOK
  <1>9. QED
    BY <1>2, <1>3, <1>4, <1>6, <1>7, <1>8

(* A request c that goes on as k. *)
LEMMA CallStep ==
    ASSUME Core, World' \in Worlds, Evolves(World, World'), NEW c \in Calls,
           NEW k \in CallSet, CallGood(k, World'),
           calls' = [calls EXCEPT ![c] = k], file' = file
    PROVE  /\ file' \in StateSet /\ Good(file', World')
           /\ calls' \in [Calls -> CallSet]
           /\ \A d \in Calls : CallGood(calls'[d], World')
  <1>1. \A d \in Calls : calls[d] \in CallSet /\ CallGood(calls[d], World')
    BY CoreFacts, CallEvolves
  <1>2. file \in StateSet /\ Good(file, World')
    BY CoreFacts, GoodEvolves DEF Core, TypeOK, CopiesGood
  <1>3. QED
    BY <1>1, <1>2 DEF Core, TypeOK

(* Transaction t as an item of a plan. *)
AsPlanned(t, plan) ==
    /\ plan.reason = "ok"
    /\ t.destination = plan.destination
    /\ t.item \in DOMAIN plan.items
    /\ plan.items[t.item] = [token |-> t.token, amount |-> t.amount]

LEMMA SentAsPlanned ==
    /\ SentAsPreviewed <=> \A n \in DOMAIN txs : AsPlanned(txs[n], plans[txs[n].preview])
    /\ SentAsPreviewed' <=>
           \A n \in DOMAIN txs' : AsPlanned(txs'[n], plans'[txs'[n].preview])
  BY DEF SentAsPreviewed, AsPlanned

(* The transactions stay as previewed. *)
LEMMA PlannedStep ==
    ASSUME Core, World' \in Worlds, Evolves(World, World'), NEW n \in 1 .. Len(txs)
    PROVE  AsPlanned(txs'[n], plans'[txs'[n].preview])
  <1>1. /\ World.txs = txs /\ World.plans = plans
        /\ World'.txs = txs' /\ World'.plans = plans'
        /\ txs \in Seq(TxSet) /\ txs' \in Seq(TxSet)
    <2>1. World.txs = txs /\ World.plans = plans
      BY DEF World
    <2>2. World'.txs = txs' /\ World'.plans = plans'
      BY DEF World
    <2>3. QED
      BY <2>1, <2>2 DEF Core, TypeOK, Worlds
  <1>2. AsPlanned(txs[n], plans[txs[n].preview])
    BY <1>1, SentAsPlanned DEF Core
  <1>3. txs[n].preview \in Previews
    <2>1. txs[n] \in TxSet
      BY <1>1
    <2>2. QED
      BY <2>1 DEF TxSet
  <1>4. plans[txs[n].preview] # NoPlan
    BY <1>2 DEF AsPlanned, NoPlan
  <1>5. plans'[txs[n].preview] = plans[txs[n].preview]
    BY <1>1, <1>3, <1>4 DEF Evolves
  <1>6. QED
    BY <1>1, <1>2, <1>5 DEF AsPlanned, Evolves

(* ... and so do all, if nothing was sent. *)
LEMMA SentStep ==
    ASSUME Core, World' \in Worlds, Evolves(World, World'), Len(txs') = Len(txs)
    PROVE  SentAsPreviewed'
  <1>1. txs' \in Seq(TxSet)
    BY DEF World, Worlds
  <1>2. DOMAIN txs' = 1 .. Len(txs)
    BY <1>1
  <1>3. QED
    BY <1>2, PlannedStep, SentAsPlanned

(* A step that sends nothing, shows no preview and moves no pause. *)
LEMMA QuietStep ==
    ASSUME Core, UNCHANGED <<plans, txs, paused, resumed, unpaused>>
    PROVE  World' \in Worlds /\ Evolves(World, World') /\ SentAsPreviewed'
  <1>1. World' = World
    BY DEF World
  <1>2. World' \in Worlds /\ Evolves(World, World')
    BY <1>1, CoreFacts, EvolvesRefl
  <1>3. QED
    BY <1>2, SentStep

(* The invariant after a step. *)
LEMMA CoreStep ==
    ASSUME World' \in Worlds, SentAsPreviewed',
           file' \in StateSet, Good(file', World'), calls' \in [Calls -> CallSet],
           \A d \in Calls : CallGood(calls'[d], World'),
           paused' \in BOOLEAN, pausedFile' \in BOOLEAN, truthOk' \in BOOLEAN,
           overwritten' \in BOOLEAN, resumed' \in BOOLEAN,
           balances' \in [TokenSet -> 0 .. MaxBalance], expired' \in SUBSET Previews,
           changes' \in 0 .. MaxChanges,
           asked' \in [enabled : BOOLEAN, approved : Destinations \union {None}],
           disturbed' \in SUBSET (Previews \union {NoPreview})
    PROVE  Core'
  <1>1. /\ plans' \in [Previews -> PlanSet] /\ txs' \in Seq(TxSet)
        /\ unpaused' \in SUBSET (Previews \union {NoPreview})
    BY DEF World, Worlds
  <1>2. TypeOK'
    BY <1>1 DEF TypeOK
  <1>3. QED
    BY <1>2 DEF Core, CopiesGood

LEMMA InitCore == Init => Core
  <1> SUFFICES ASSUME Init
               PROVE  Core
    OBVIOUS
  <1>1. txs = << >> /\ << >> \in Seq(TxSet) /\ DOMAIN << >> = {}
    BY DEF Init
  <1>2. plans \in [Previews -> PlanSet]
    <2>1. << >> \in Seq(ItemSet)
      OBVIOUS
    <2>2. NoPlan \in PlanSet
      BY <2>1 DEF NoPlan, PlanSet, Reasons
    <2>3. QED
      BY <2>2 DEF Init
  <1>3. World \in Worlds
    BY <1>1, <1>2 DEF Init, World, Worlds
  <1>4. /\ DefaultState \in StateSet /\ Good(DefaultState, World)
        /\ NoCall \in CallSet /\ CallGood(NoCall, World)
    BY <1>3, DefaultsGood, NoCallGood
  <1>5. TypeOK
    <2>1. changes \in 0 .. MaxChanges
      BY WithdrawAllAssumption DEF Init
    <2>2. QED
      BY <1>1, <1>2, <1>4, <2>1 DEF Init, TypeOK
  <1>6. QED
    BY <1>1, <1>4, <1>5 DEF Init, Core, CopiesGood, SentAsPreviewed

LEMMA ConfigureCore ==
    ASSUME Core, NEW d \in Destinations \union {None}, NEW a \in BOOLEAN,
           NEW e \in BOOLEAN, Configure(d, a, e)
    PROVE  Core'
  <1>1. World' \in Worlds /\ Evolves(World, World') /\ SentAsPreviewed'
    BY QuietStep DEF Configure, chainVars, envVars
  <1>2. World' = World
    BY DEF Configure, chainVars, envVars, World
  <1> DEFINE new == ClearPreviewState(Configured(Load, d, a, e))
  <1>3. new \in StateSet /\ Good(new, World') /\ Torn \in StateSet /\ Good(Torn, World')
    BY <1>1, <1>2, CoreFacts, ConfiguredGood, DefaultsGood
  <1>4. file \in StateSet /\ Good(file, World')
    BY <1>2 DEF Core, TypeOK, CopiesGood
  <1>5. changes' \in 0 .. MaxChanges
    BY WithdrawAllAssumption DEF Configure, Core, TypeOK
  <1> HIDE DEF new
  <1>6. /\ file' \in {file, Torn, new}
        /\ \/ calls' = calls /\ asked' = asked
           \/ /\ calls' = [c \in Calls |-> [calls[c] EXCEPT !.stale = ~Free(c)]]
              /\ file' = new
              /\ asked' = [enabled |-> file'.enabled, approved |-> file'.approved]
        /\ overwritten' \in {overwritten, TRUE}
    BY DEF Configure, SaveFails, new
  <1>7. file' \in StateSet /\ Good(file', World')
    BY <1>3, <1>4, <1>6
  <1>8. asked' \in [enabled : BOOLEAN, approved : Destinations \union {None}]
    BY <1>3, <1>6 DEF Core, TypeOK, StateSet
  <1>9. ASSUME NEW c \in Calls
        PROVE  /\ [calls[c] EXCEPT !.stale = ~Free(c)] \in CallSet
               /\ CallGood([calls[c] EXCEPT !.stale = ~Free(c)], World')
               /\ calls[c] \in CallSet /\ CallGood(calls[c], World')
    <2>1. (~Free(c)) \in BOOLEAN
      BY DEF Free
    <2>2. QED
      BY <1>1, <1>2, <2>1, CoreFacts, StaleGood
  <1>10. calls' \in [Calls -> CallSet] /\ \A c \in Calls : CallGood(calls'[c], World')
    BY <1>6, <1>9 DEF Core, TypeOK
  <1>11. QED
    BY <1>1, <1>5, <1>6, <1>7, <1>8, <1>10, CoreStep
    DEF Configure, chainVars, envVars, Core, TypeOK

LEMMA BlockReasonType ==
    ASSUME NEW x
    PROVE  BlockReason(x) \in Reasons \ {"none"}
  BY DEF BlockReason, Reasons

LEMMA StartPreviewCore ==
    ASSUME Core, NEW c \in Calls, StartPreview(c)
    PROVE  Core'
  <1>1. World' \in Worlds /\ Evolves(World, World') /\ SentAsPreviewed'
    BY QuietStep DEF StartPreview, chainVars, envVars, history
  <1>2. Load \in StateSet /\ Good(Load, World')
    BY <1>1, CoreFacts, GoodEvolves
  <1> DEFINE r == BlockReason(Load)
             k == [NoCall EXCEPT !.op = "preview", !.at = "plan", !.st = Load, !.reason = r]
  <1>3. r \in Reasons \ {"none"}
    BY BlockReasonType
  <1> HIDE DEF r
  <1>4. k \in CallSet
    BY <1>1, <1>2, <1>3, NoCallGood DEF CallSet
  <1>5. /\ k.op = "preview" /\ k.at = "plan" /\ k.st = Load /\ k.reason = r
        /\ k.items = << >>
    BY DEF NoCall
  <1>6. calls' = [calls EXCEPT ![c] = k]
    BY DEF StartPreview, r
  <1> HIDE DEF k
  <1>7. CallGood(k, World')
    BY <1>2, <1>3, <1>5 DEF CallGood, Shape, Confirmed, Sending, Refreshing
  <1>8. /\ file' \in StateSet /\ Good(file', World')
        /\ calls' \in [Calls -> CallSet]
        /\ \A d \in Calls : CallGood(calls'[d], World')
    BY <1>1, <1>4, <1>6, <1>7, CallStep DEF StartPreview
  <1>9. QED
    BY <1>1, <1>8, CoreStep
    DEF StartPreview, chainVars, envVars, history, Core, TypeOK

LEMMA PlanFacts ==
    ASSUME Core, NEW c \in Calls
    PROVE  /\ Plan(c) = PlanOf(calls[c]) /\ Plan(c) \in PlanSet
           /\ Plan(c).items = calls[c].read /\ calls[c].read \in Seq(ItemSet)
           /\ Plan(c).destination = calls[c].st.approved
           /\ Plan(c).reason = "ok" => Len(calls[c].read) > 0
           /\ calls[c].at = "plan" => Plan(c) # NoPlan
  <1>1. calls[c] \in CallSet /\ CallGood(calls[c], World)
    BY CoreFacts
  <1>2. Plan(c) = PlanOf(calls[c])
    BY DEF Plan, PlanOf
  <1>3. calls[c].read \in Seq(ItemSet) /\ calls[c].reason \in Reasons
        /\ calls[c].st.approved \in Destinations \union {None}
    BY <1>1 DEF CallSet, StateSet
  <1>4. Plan(c) \in PlanSet
    BY <1>3 DEF Plan, PlanSet, Reasons
  <1>5. Plan(c).reason = "ok" => calls[c].read # << >>
    BY DEF Plan
  <1>6. calls[c].at = "plan" => Plan(c).reason # "none"
    BY <1>1 DEF Plan, CallGood, Shape
  <1>7. Plan(c).items = calls[c].read /\ Plan(c).destination = calls[c].st.approved
    BY DEF Plan
  <1>8. calls[c].read # << >> => Len(calls[c].read) > 0
    BY <1>3
  <1>9. Plan(c).reason # "none" => Plan(c) # NoPlan
    BY DEF NoPlan
  <1>10. QED
    BY <1>2, <1>3, <1>4, <1>5, <1>6, <1>7, <1>8, <1>9

LEMMA ReadBalanceCore ==
    ASSUME Core, NEW c \in Calls, ReadBalance(c)
    PROVE  Core'
  <1>1. World' \in Worlds /\ Evolves(World, World') /\ SentAsPreviewed'
    BY QuietStep DEF ReadBalance, chainVars, envVars, history
  <1>2. calls[c] \in CallSet /\ CallGood(calls[c], World')
    BY <1>1, CoreFacts, CallEvolves
  <1> DEFINE token == Tokens[calls[c].seen + 1]
  <1>10. /\ balances[token] \in Nat /\ changes' \in 0 .. MaxChanges
    <2>1. token \in TokenSet
      BY <1>2, LenTokens, WithdrawAllAssumption DEF ReadBalance, CallSet, TokenSet
    <2>2. QED
      BY <2>1, WithdrawAllAssumption DEF ReadBalance, Spend, Core, TypeOK
  <1>11. PICK amount \in Nat : ReadRow(c, token, amount)
    BY <1>10 DEF ReadBalance
  <1> DEFINE read == IF amount > 0
                     THEN Append(calls[c].read, [token |-> token, amount |-> amount])
                     ELSE calls[c].read
             k == [calls[c] EXCEPT !.seen = calls[c].seen + 1, !.read = read]
  <1>3. calls[c].seen + 1 \in 0 .. Len(Tokens) /\ token \in TokenSet
    BY <1>2, LenTokens, WithdrawAllAssumption DEF ReadBalance, CallSet, TokenSet
  <1>4. read \in Seq(ItemSet)
    <2> HIDE DEF token
    <2>2. [token |-> token, amount |-> amount] \in ItemSet
      BY <1>3 DEF ItemSet
    <2>3. calls[c].read \in Seq(ItemSet)
      BY <1>2 DEF CallSet
    <2>4. QED
      BY <2>2, <2>3
  <1>5. calls' = [calls EXCEPT ![c] = k]
    BY <1>2, <1>11 DEF ReadRow, Core, TypeOK, CallSet
  <1> HIDE DEF read, token
  <1>6. /\ k \in CallSet
        /\ k.op = calls[c].op /\ k.at = "plan" /\ k.st = calls[c].st
        /\ k.reason = calls[c].reason /\ k.items = calls[c].items
        /\ k.preview = calls[c].preview
    BY <1>2, <1>3, <1>4 DEF ReadBalance, CallSet
  <1> HIDE DEF k
  <1>7. CallGood(k, World')
    BY <1>2, <1>6 DEF ReadBalance, CallGood, Shape, Confirmed, Sending, Refreshing
  <1>8. /\ file' \in StateSet /\ Good(file', World')
        /\ calls' \in [Calls -> CallSet]
        /\ \A d \in Calls : CallGood(calls'[d], World')
    BY <1>1, <1>5, <1>6, <1>7, CallStep DEF ReadBalance
  <1>9. QED
    BY <1>1, <1>8, <1>10, CoreStep
    DEF ReadBalance, chainVars, envVars, history, Core, TypeOK

LEMMA FinishPreviewCore ==
    ASSUME Core, NEW c \in Calls, NEW p \in Previews, FinishPreview(c, p)
    PROVE  Core'
  <1>1. /\ calls[c].at = "plan" /\ plans[p] = NoPlan
        /\ plans' = [plans EXCEPT ![p] = Plan(c)]
        /\ SaveAndEnd(c, Previewed(c, p), {})
        /\ UNCHANGED <<chainVars, envVars, asked>>
    BY DEF FinishPreview, PlanRead
  <1>2. Plan(c) \in PlanSet /\ Plan(c) # NoPlan
    BY <1>1, PlanFacts
  <1>3. plans' \in [Previews -> PlanSet] /\ plans'[p] = Plan(c)
    BY <1>1, <1>2 DEF Core, TypeOK
  <1>4. World' \in Worlds
    BY <1>1, <1>3 DEF World, Worlds, Core, TypeOK, chainVars, envVars
  <1>5. Evolves(World, World')
    <2>1. /\ World'.txs = World.txs /\ World'.calm = World.calm /\ World'.unpaused = World.unpaused
          /\ World'.plans = plans' /\ World.plans = plans
      BY <1>1 DEF World, chainVars, envVars
    <2>2. World.txs \in Seq(TxSet)
      BY CoreFacts DEF Worlds
    <2>3. QED
      BY <1>1, <2>1, <2>2 DEF Evolves, Core, TypeOK
  <1>6. SentAsPreviewed'
    BY <1>1, <1>4, <1>5, SentStep DEF chainVars
  <1>7. calls[c] \in CallSet /\ Good(calls[c].st, World') /\ calls[c].st \in StateSet
    BY <1>4, <1>5, CoreFacts, CallEvolves DEF CallGood, CallSet
  <1> DEFINE x == calls[c].st
             plan == Plan(c)
             z == Previewed(c, p)
  <1>8. NoResult \in ResultSet
    <2>1. << >> \in Seq(ProofSet)
      OBVIOUS
    <2>2. QED
      BY <2>1 DEF NoResult, ResultSet
  <1>9. /\ z \in StateSet /\ z.preview = p /\ z.digest = plan /\ z.items = x.items
        /\ z.status \in {"preview_ready", "preview_blocked"}
    <2>1. z = [x EXCEPT !.preview = p, !.digest = plan,
                        !.executed = NoPreview, !.result = NoResult,
                        !.status = IF plan.reason = "ok" THEN "preview_ready"
                                   ELSE "preview_blocked"]
      BY DEF Previewed
    <2> HIDE DEF x, plan, z
    <2>2. QED
      BY <1>2, <1>7, <1>8, <2>1 DEF StateSet, Statuses, x, plan
  <1>10. Good(z, World')
    <2>1. World'.plans = plans'
      BY DEF World
    <2> HIDE DEF z
    <2>2. QED
      BY <1>2, <1>3, <1>7, <1>9, <2>1
      DEF Good, Shown, PausedFor, Replays, Traced, Whole, Complete
  <1> HIDE DEF z
  <1>11. SaveAndEnd(c, z, {})
    BY <1>1 DEF z
  <1>12. /\ file' \in StateSet /\ Good(file', World')
         /\ calls' \in [Calls -> CallSet]
         /\ \A d \in Calls : CallGood(calls'[d], World')
         /\ overwritten' \in BOOLEAN
         /\ changes' \in 0 .. MaxChanges
         /\ disturbed' \in SUBSET (Previews \union {NoPreview})
    <2>1. {} \in SUBSET (Previews \union {NoPreview})
      OBVIOUS
    <2>2. QED
      BY <1>4, <1>5, <1>9, <1>10, <1>11, <2>1, SaveStep
  <1>13. QED
    BY <1>1, <1>4, <1>6, <1>12, CoreStep DEF chainVars, envVars, Core, TypeOK

(* A save that nothing else goes with. *)
LEMMA QuietSave ==
    ASSUME Core, NEW c \in Calls, NEW new \in StateSet, Good(new, World),
           NEW kept \in SUBSET (Previews \union {NoPreview}),
           SaveAndEnd(c, new, kept),
           UNCHANGED <<plans, txs, balances, paused, resumed, unpaused, pausedFile, truthOk,
                       expired, asked>>
    PROVE  Core'
  <1>1. World' \in Worlds /\ Evolves(World, World') /\ SentAsPreviewed'
    BY QuietStep
  <1>2. World' = World
    BY DEF World
  <1>3. Good(new, World')
    BY <1>2
  <1>4. /\ file' \in StateSet /\ Good(file', World')
        /\ calls' \in [Calls -> CallSet]
        /\ \A d \in Calls : CallGood(calls'[d], World')
        /\ overwritten' \in BOOLEAN
        /\ changes' \in 0 .. MaxChanges
        /\ disturbed' \in SUBSET (Previews \union {NoPreview})
    BY <1>1, <1>3, SaveStep
  <1>5. QED
    BY <1>1, <1>4, CoreStep DEF Core, TypeOK

(* A request that goes on, and nothing else. *)
LEMMA QuietCall ==
    ASSUME Core, NEW c \in Calls, NEW k \in CallSet, CallGood(k, World),
           calls' = [calls EXCEPT ![c] = k],
           UNCHANGED <<file, plans, txs, balances, paused, resumed, unpaused, pausedFile, truthOk,
                       expired, asked, overwritten>>,
           changes' \in 0 .. MaxChanges,
           disturbed' \in SUBSET (Previews \union {NoPreview})
    PROVE  Core'
  <1>1. World' \in Worlds /\ Evolves(World, World') /\ SentAsPreviewed'
    BY QuietStep
  <1>2. World' = World
    BY DEF World
  <1>3. CallGood(k, World')
    BY <1>2
  <1>4. /\ file' \in StateSet /\ Good(file', World')
        /\ calls' \in [Calls -> CallSet]
        /\ \A d \in Calls : CallGood(calls'[d], World')
    BY <1>1, <1>3, CallStep
  <1>5. QED
    BY <1>1, <1>4, CoreStep DEF Core, TypeOK

LEMMA RefuseExecuteCore ==
    ASSUME Core, NEW c \in Calls, NEW p, NEW confirmed, RefuseExecute(c, p, confirmed)
    PROVE  Core'
  <1> DEFINE new == Blocked(Load)
  <1>1. new \in StateSet /\ Good(new, World)
    BY CoreFacts, BlockedGood
  <1>2. SaveAndEnd(c, new, {})
    BY DEF RefuseExecute
  <1>3. {} \in SUBSET (Previews \union {NoPreview})
    OBVIOUS
  <1> HIDE DEF new
  <1>4. QED
    BY <1>1, <1>2, <1>3, QuietSave DEF RefuseExecute, chainVars, envVars

LEMMA StartExecuteCore ==
    ASSUME Core, NEW c \in Calls, NEW p \in Previews, NEW dry \in BOOLEAN,
           StartExecute(c, p, dry)
    PROVE  Core'
  <1> DEFINE r == BlockReason(Load)
             k == [NoCall EXCEPT !.op = "execute", !.at = "plan", !.st = Load, !.preview = p,
                                 !.dry = dry, !.reason = r]
  <1>1. r \in Reasons \ {"none"}
    BY BlockReasonType
  <1>2. Load \in StateSet /\ Good(Load, World) /\ NoCall \in CallSet
    BY CoreFacts, NoCallGood
  <1>3. p = Load.preview /\ p # NoPreview
    BY DEF StartExecute
  <1>4. calls' = [calls EXCEPT ![c] = k]
    BY DEF StartExecute
  <1> HIDE DEF r
  <1>5. k \in CallSet
    BY <1>1, <1>2 DEF CallSet
  <1>6. /\ k.op = "execute" /\ k.at = "plan" /\ k.st = Load /\ k.reason = r
        /\ k.items = << >> /\ k.preview = p
    BY DEF NoCall
  <1> HIDE DEF k
  <1>7. CallGood(k, World)
    BY <1>1, <1>2, <1>3, <1>6 DEF CallGood, Shape, Confirmed, Sending, Refreshing
  <1>8. disturbed' \in SUBSET (Previews \union {NoPreview})
    BY DEF StartExecute, Core, TypeOK
  <1>9. QED
    BY <1>4, <1>5, <1>7, <1>8, QuietCall
    DEF StartExecute, chainVars, envVars, Core, TypeOK

(* What an execute saves when it stops before anything was sent. *)
LEMMA StopBlocked ==
    ASSUME Core, NEW c \in Calls
    PROVE  Blocked(calls[c].st) \in StateSet /\ Good(Blocked(calls[c].st), World)
  BY CoreFacts, BlockedGood DEF CallSet, CallGood

LEMMA ExecutePlannedCore ==
    ASSUME Core, NEW c \in Calls, ExecutePlanned(c)
    PROVE  Core'
  <1>1. calls[c] \in CallSet /\ CallGood(calls[c], World)
    BY CoreFacts
  <1>2. /\ calls[c].op = "execute" /\ calls[c].at = "plan"
        /\ UNCHANGED <<chainVars, envVars, plans, asked>>
    BY DEF ExecutePlanned, PlanRead
  <1>3. {} \in SUBSET (Previews \union {NoPreview})
    OBVIOUS
  <1>4. CASE ~PlanIsCurrent(c)
    <2> DEFINE new == Blocked(calls[c].st)
    <2>1. SaveAndEnd(c, new, {})
      BY <1>4 DEF ExecutePlanned
    <2>2. new \in StateSet /\ Good(new, World)
      BY StopBlocked
    <2> HIDE DEF new
    <2>3. QED
      BY <1>2, <1>3, <2>1, <2>2, QuietSave DEF chainVars, envVars
  <1>5. CASE PlanIsCurrent(c) /\ PrepareOnly(c)
    <2> DEFINE new == Recorded(calls[c].st, "prepared", << >>, calls[c].preview)
    <2>1. SaveAndEnd(c, new, {})
      BY <1>5 DEF ExecutePlanned
    <2>2. << >> \in Seq(ProofSet) /\ Len(<< >>) = 0 /\ Traced(<< >>, World)
      BY DEF Traced
    <2>3. /\ calls[c].st \in StateSet /\ Good(calls[c].st, World)
          /\ calls[c].preview = calls[c].st.preview /\ calls[c].preview \in Previews
      BY <1>1, <1>2 DEF CallSet, CallGood, Shape
    <2>4. "prepared" \in Statuses
      BY DEF Statuses
    <2>5. new \in StateSet /\ Good(new, World)
      BY <2>2, <2>3, <2>4, CoreFacts, RecordedGood
    <2> HIDE DEF new
    <2>6. QED
      BY <1>2, <1>3, <2>1, <2>5, QuietSave DEF chainVars, envVars
  <1>6. CASE PlanIsCurrent(c) /\ ~PrepareOnly(c)
    <2> DEFINE k == [calls[c] EXCEPT !.at = "owner"]
    <2>1. /\ calls' = [calls EXCEPT ![c] = k]
          /\ UNCHANGED <<file, changes, overwritten, disturbed>>
      BY <1>1, <1>6 DEF ExecutePlanned
    <2>2. /\ k \in CallSet /\ k.at = "owner" /\ k.op = "execute" /\ k.st = calls[c].st
          /\ k.reason = calls[c].reason /\ k.items = calls[c].items
          /\ k.preview = calls[c].preview /\ k.read = calls[c].read
      BY <1>1, <1>2 DEF CallSet
    <2> HIDE DEF k
    <2>3. PlanOf(k) = Plan(c)
      BY <2>2 DEF PlanOf, Plan
    <2>4. Plan(c) = World.plans[calls[c].preview] /\ Plan(c).reason = "ok"
      BY <1>1, <1>2, <1>6 DEF PlanIsCurrent, CallGood, Shape, Good, Shown
    <2>5. CallGood(k, World)
      BY <1>1, <1>2, <2>2, <2>3, <2>4
      DEF CallGood, Shape, Confirmed, Sending, Refreshing
    <2>6. QED
      BY <1>2, <2>1, <2>2, <2>5, QuietCall DEF chainVars, envVars, Core, TypeOK
  <1>7. QED
    BY <1>4, <1>5, <1>6

LEMMA ExecuteOwnerProofCore ==
    ASSUME Core, NEW c \in Calls, ExecuteOwnerProof(c)
    PROVE  Core'
  <1>1. calls[c] \in CallSet /\ CallGood(calls[c], World)
    BY CoreFacts
  <1>2. /\ calls[c].at = "owner" /\ calls[c].op = "execute"
        /\ UNCHANGED <<chainVars, envVars, plans, asked>>
    BY <1>1 DEF ExecuteOwnerProof, CallGood, Shape
  <1>3. CASE SaveAndEnd(c, Blocked(calls[c].st), {})
    <2>1. {} \in SUBSET (Previews \union {NoPreview})
      OBVIOUS
    <2> DEFINE new == Blocked(calls[c].st)
    <2>2. new \in StateSet /\ Good(new, World)
      BY StopBlocked
    <2>3. SaveAndEnd(c, new, {})
      BY <1>3
    <2> HIDE DEF new
    <2>4. QED
      BY <1>2, <2>1, <2>2, <2>3, QuietSave DEF chainVars, envVars
  <1>4. CASE /\ calls' = [calls EXCEPT ![c].at = "send", ![c].nonce = Len(txs)]
             /\ UNCHANGED <<file, changes, overwritten, disturbed>>
    <2> DEFINE k == [calls[c] EXCEPT !.at = "send", !.nonce = Len(txs)]
    <2>1. calls' = [calls EXCEPT ![c] = k]
      BY <1>1, <1>4 DEF CallSet
    <2>2. txs \in Seq(TxSet) /\ Len(txs) \in Nat
      BY DEF Core, TypeOK
    <2>3. /\ k \in CallSet /\ k.at = "send" /\ k.op = "execute" /\ k.st = calls[c].st
          /\ k.reason = calls[c].reason /\ k.items = << >> /\ k.nonce = Len(txs)
          /\ k.preview = calls[c].preview /\ k.read = calls[c].read
      BY <1>1, <1>2, <2>2 DEF CallSet, CallGood, Shape
    <2> HIDE DEF k
    <2>4. PlanOf(k) = PlanOf(calls[c])
      BY <2>3 DEF PlanOf
    <2>5. Len(k.read) > 0
      BY <1>1, <1>2, <2>3, PlanFacts DEF CallGood, Confirmed
    <2>6. Len(<< >>) = 0 /\ Sent(k) = 0 /\ Traced(k.items, World)
      BY <2>3 DEF Sent, Traced
    <2>7. \A i \in 1 .. Len(k.st.items) : k.st.items[i].tx <= k.nonce
      <3>1. Traced(k.st.items, World)
        BY <1>1, <2>3 DEF CallGood, Good
      <3>2. Len(World.txs) = k.nonce /\ k.nonce \in Nat
        BY <2>2, <2>3 DEF World
      <3>3. ASSUME NEW i \in 1 .. Len(k.st.items)
            PROVE  k.st.items[i].tx <= k.nonce
        <4>1. k.st.items[i].tx \in 1 .. Len(World.txs)
          BY <3>1 DEF Traced
        <4>2. QED
          BY <3>2, <4>1
      <3>4. QED
        BY <3>3
    <2>8. Sending(k, World)
      BY <2>2, <2>3, <2>5, <2>6, <2>7, CoreFacts DEF Sending
    <2>9. CallGood(k, World)
      BY <1>1, <1>2, <2>3, <2>4, <2>8 DEF CallGood, Shape, Confirmed, Refreshing
    <2>10. QED
      BY <1>2, <1>4, <2>1, <2>3, <2>9, QuietCall DEF chainVars, envVars, Core, TypeOK
  <1>5. QED
    BY <1>3, <1>4 DEF ExecuteOwnerProof

(* What an execute knows once it sends. *)
LEMMA SendFacts ==
    ASSUME Core, NEW c \in Calls, calls[c].at \in {"send", "assess"}
    PROVE  /\ calls[c] \in CallSet /\ CallGood(calls[c], World)
           /\ calls[c].op = "execute"
           /\ calls[c].st \in StateSet /\ Good(calls[c].st, World)
           /\ calls[c].preview \in Previews /\ calls[c].preview = calls[c].st.preview
           /\ calls[c].items \in Seq(ProofSet) /\ Traced(calls[c].items, World)
           /\ Len(calls[c].items) \in Nat /\ Len(calls[c].items) < Len(calls[c].read)
           /\ calls[c].nonce \in Nat /\ ItemNonce(c) \in Nat
           /\ calls[c].read \in Seq(ItemSet)
           /\ plans[calls[c].preview] = Plan(c) /\ Plan(c).reason = "ok"
           /\ txs \in Seq(TxSet) /\ Len(txs) \in Nat
  <1>1. calls[c] \in CallSet /\ CallGood(calls[c], World)
    BY CoreFacts
  <1>2. /\ calls[c].op = "execute" /\ calls[c].preview = calls[c].st.preview
        /\ calls[c].preview # NoPreview
    BY <1>1 DEF CallGood, Shape
  <1>3. /\ calls[c].items \in Seq(ProofSet) /\ calls[c].nonce \in Nat
        /\ calls[c].read \in Seq(ItemSet) /\ calls[c].st \in StateSet
        /\ calls[c].preview \in Previews
    BY <1>1, <1>2 DEF CallSet
  <1>4. Traced(calls[c].items, World) /\ Len(calls[c].items) < Len(calls[c].read)
    BY <1>1 DEF CallGood, Sending
  <1>5. plans[calls[c].preview] = Plan(c) /\ Plan(c).reason = "ok"
    BY <1>1, CoreFacts, PlanFacts DEF CallGood, Confirmed
  <1>6. Len(calls[c].items) \in Nat /\ ItemNonce(c) \in Nat
    BY <1>3 DEF ItemNonce
  <1>7. txs \in Seq(TxSet) /\ Len(txs) \in Nat
    BY DEF Core, TypeOK
  <1>8. QED
    BY <1>1, <1>2, <1>3, <1>4, <1>5, <1>6, <1>7 DEF CallGood

(* What it saves when a send or a transaction fails. *)
LEMMA FailedGood ==
    ASSUME Core, World' \in Worlds, Evolves(World, World'), NEW c \in Calls,
           calls[c].at \in {"send", "assess"}
    PROVE  LET new == Recorded(calls[c].st, "execute_failed", calls[c].items,
                               calls[c].preview)
           IN  new \in StateSet /\ Good(new, World')
  <1>1. /\ Good(calls[c].st, World') /\ Traced(calls[c].items, World')
    BY SendFacts, CoreFacts, GoodEvolves, TracedEvolves
  <1>2. "execute_failed" \in Statuses
    BY DEF Statuses
  <1>3. QED
    BY <1>1, <1>2, SendFacts, RecordedGood

(* The world after a transaction was accepted. *)
LEMMA AcceptWorld ==
    ASSUME Core, NEW c \in Calls, calls[c].at = "send", Accept(c),
           UNCHANGED <<plans, paused, resumed, unpaused>>
    PROVE  /\ World' \in Worlds /\ Evolves(World, World') /\ SentAsPreviewed'
           /\ Len(txs') = Len(txs) + 1
           /\ \A n \in 1 .. Len(txs) : txs'[n] = txs[n]
           /\ txs'[Len(txs) + 1].preview = calls[c].preview
           /\ txs'[Len(txs) + 1].item = Len(calls[c].items) + 1
  <1> DEFINE item == NextItem(c)
             t == [token |-> item.token, amount |-> item.amount,
                   destination |-> calls[c].st.approved, preview |-> calls[c].preview,
                   item |-> Len(calls[c].items) + 1, state |-> "pending"]
  <1>1. item = calls[c].read[Len(calls[c].items) + 1] /\ item \in ItemSet
        /\ Len(calls[c].items) + 1 \in DOMAIN calls[c].read
    BY SendFacts, PlanFacts DEF NextItem
  <1> HIDE DEF item
  <1>2. calls[c].st.approved \in Destinations \union {None}
    BY SendFacts DEF StateSet
  <1>3. t \in TxSet
    <2>1. item.token \in TokenSet /\ item.amount \in Nat
      BY <1>1 DEF ItemSet
    <2>2. calls[c].preview \in Previews /\ Len(calls[c].items) + 1 \in Nat
      BY SendFacts
    <2>3. QED
      BY <1>2, <2>1, <2>2 DEF TxSet, TxStates
  <1>4. txs' = Append(txs, t)
    BY DEF Accept, item
  <1>5. AsPlanned(t, plans[calls[c].preview])
    <2>1. /\ plans[calls[c].preview].reason = "ok"
          /\ plans[calls[c].preview].destination = calls[c].st.approved
          /\ plans[calls[c].preview].items = calls[c].read
      BY SendFacts, PlanFacts
    <2>2. item = [token |-> item.token, amount |-> item.amount]
      BY <1>1 DEF ItemSet
    <2>3. QED
      BY <1>1, <2>1, <2>2 DEF AsPlanned
  <1>6. t.preview = calls[c].preview /\ t.item = Len(calls[c].items) + 1
    OBVIOUS
  <1> HIDE DEF t
  <1>7. /\ txs' \in Seq(TxSet) /\ Len(txs') = Len(txs) + 1
        /\ txs'[Len(txs) + 1] = t
        /\ \A n \in 1 .. Len(txs) : txs'[n] = txs[n]
    BY <1>3, <1>4, SendFacts
  <1>8. World' \in Worlds
    BY <1>7 DEF World, Worlds, Core, TypeOK
  <1>9. Evolves(World, World')
    <2>1. /\ World.txs = txs /\ World'.txs = txs' /\ World'.plans = World.plans
          /\ World'.calm = World.calm /\ World'.unpaused = World.unpaused
      BY DEF World
    <2>2. QED
      BY <1>7, <2>1, SendFacts DEF Evolves
  <1>10. SentAsPreviewed'
    <2>1. ASSUME NEW n \in DOMAIN txs'
          PROVE  AsPlanned(txs'[n], plans'[txs'[n].preview])
      <3>1. n \in 1 .. Len(txs) \/ n = Len(txs) + 1
        BY <1>7, SendFacts
      <3>2. CASE n \in 1 .. Len(txs)
        BY <1>8, <1>9, <3>2, PlannedStep
      <3>3. CASE n = Len(txs) + 1
        BY <1>5, <1>6, <1>7, <3>3
      <3>4. QED
        BY <3>1, <3>2, <3>3
    <2>2. QED
      BY <2>1, SentAsPlanned
  <1>11. QED
    BY <1>6, <1>7, <1>8, <1>9, <1>10

(* A failed send or transaction, when the world is known to evolve. *)
LEMMA FailedCore ==
    ASSUME Core, World' \in Worlds, Evolves(World, World'), SentAsPreviewed',
           NEW c \in Calls, calls[c].at \in {"send", "assess"},
           SaveAndEnd(c, Recorded(calls[c].st, "execute_failed", calls[c].items,
                                  calls[c].preview), {calls[c].preview}),
           UNCHANGED <<balances, paused, resumed, unpaused, pausedFile, truthOk, expired, asked>>
    PROVE  Core'
  <1> DEFINE new == Recorded(calls[c].st, "execute_failed", calls[c].items, calls[c].preview)
             kept == {calls[c].preview}
  <1>1. new \in StateSet /\ Good(new, World')
    BY FailedGood
  <1>2. kept \in SUBSET (Previews \union {NoPreview})
    BY SendFacts
  <1>3. SaveAndEnd(c, new, kept)
    OBVIOUS
  <1> HIDE DEF new, kept
  <1>4. /\ file' \in StateSet /\ Good(file', World')
        /\ calls' \in [Calls -> CallSet]
        /\ \A d \in Calls : CallGood(calls'[d], World')
        /\ overwritten' \in BOOLEAN
        /\ changes' \in 0 .. MaxChanges
        /\ disturbed' \in SUBSET (Previews \union {NoPreview})
    BY <1>1, <1>2, <1>3, SaveStep
  <1>5. QED
    BY <1>4, CoreStep DEF Core, TypeOK

LEMMA SendCore ==
    ASSUME Core, NEW c \in Calls, Send(c)
    PROVE  Core'
  <1>1. calls[c].at = "send" /\ UNCHANGED <<balances, envVars, plans, asked>>
    BY DEF Send
  <1>2. CASE UNCHANGED txs /\ SendFailed(c)
    <2>1. World' \in Worlds /\ Evolves(World, World') /\ SentAsPreviewed'
      BY <1>1, <1>2, QuietStep DEF envVars
    <2>2. QED
      BY <1>1, <1>2, <2>1, FailedCore DEF SendFailed, envVars
  <1>3. CASE Accept(c) /\ SendFailed(c)
    <2>1. World' \in Worlds /\ Evolves(World, World') /\ SentAsPreviewed'
      BY <1>1, <1>3, AcceptWorld DEF envVars
    <2>2. QED
      BY <1>1, <1>3, <2>1, FailedCore DEF SendFailed, envVars
  <1>4. CASE /\ ItemNonce(c) = Len(txs) /\ Accept(c)
             /\ calls' = [calls EXCEPT ![c].at = "assess"]
             /\ UNCHANGED <<file, changes, overwritten, disturbed>>
    <2>1. /\ World' \in Worlds /\ Evolves(World, World') /\ SentAsPreviewed'
          /\ Len(txs') = Len(txs) + 1
          /\ \A n \in 1 .. Len(txs) : txs'[n] = txs[n]
          /\ txs'[Len(txs) + 1].preview = calls[c].preview
          /\ txs'[Len(txs) + 1].item = Len(calls[c].items) + 1
      BY <1>1, <1>4, AcceptWorld DEF envVars
    <2> DEFINE k == [calls[c] EXCEPT !.at = "assess"]
               j == calls[c]
    <2>2. calls' = [calls EXCEPT ![c] = k]
      BY <1>1, <1>4, SendFacts DEF CallSet
    <2>3. j \in CallSet /\ CallGood(j, World') /\ j.at = "send" /\ j.op = "execute"
      BY <1>1, <2>1, CoreFacts, CallEvolves, SendFacts
    <2>4. /\ j.nonce \in Nat /\ Len(j.items) \in Nat /\ Len(txs) \in Nat
          /\ j.nonce + Len(j.items) = Len(txs)
      BY <1>1, <1>4, SendFacts DEF ItemNonce
    <2>5. World'.txs = txs'
      BY DEF World
    <2> HIDE DEF j
    <2>6. /\ k \in CallSet /\ k.at = "assess" /\ k.op = "execute" /\ k.st = j.st
          /\ k.reason = j.reason /\ k.items = j.items /\ k.nonce = j.nonce
          /\ k.preview = j.preview /\ k.read = j.read
      BY <2>3 DEF CallSet, j
    <2> HIDE DEF k
    <2>7. PlanOf(k) = PlanOf(j) /\ Sent(k) = Len(j.items) + 1 /\ Sent(j) = Len(j.items)
      BY <2>3, <2>6 DEF PlanOf, Sent
    <2>8. Sending(k, World')
      <3>1. ASSUME NEW i \in 1 .. Sent(k)
            PROVE  /\ World'.txs[k.nonce + i].preview = k.preview
                   /\ World'.txs[k.nonce + i].item = i
        <4>1. CASE i \in 1 .. Len(j.items)
          BY <2>3, <2>6, <2>7, <4>1 DEF CallGood, Sending
        <4>2. CASE i = Len(j.items) + 1
          <5>1. k.nonce + i = Len(txs) + 1
            BY <2>4, <2>6, <4>2
          <5>2. /\ txs'[Len(txs) + 1].preview = j.preview
                /\ txs'[Len(txs) + 1].item = Len(j.items) + 1
            BY <2>1 DEF j
          <5>3. QED
            BY <2>5, <2>6, <4>2, <5>1, <5>2
        <4>3. QED
          BY <2>4, <2>7, <4>1, <4>2
      <3>2. k.nonce + Sent(k) <= Len(World'.txs)
        BY <2>1, <2>4, <2>5, <2>6, <2>7
      <3>3. QED
        BY <2>3, <2>6, <3>1, <3>2 DEF CallGood, Sending
    <2>9. CallGood(k, World')
      BY <2>3, <2>6, <2>7, <2>8 DEF CallGood, Shape, Confirmed, Refreshing
    <2>10. /\ file' \in StateSet /\ Good(file', World')
           /\ calls' \in [Calls -> CallSet]
           /\ \A d \in Calls : CallGood(calls'[d], World')
      BY <1>4, <2>1, <2>2, <2>6, <2>9, CallStep
    <2>11. QED
      BY <1>1, <1>4, <2>1, <2>10, CoreStep DEF envVars, Core, TypeOK
  <1>5. QED
    BY <1>2, <1>3, <1>4 DEF Send

(* One more proof at the end of what is traced. *)
LEMMA TracedAppend ==
    ASSUME NEW w \in Worlds, NEW items \in Seq(ProofSet), Traced(items, w),
           NEW e \in ProofSet, e.tx \in 1 .. Len(w.txs),
           e.status \in {"pending", w.txs[e.tx].state},
           \A i \in 1 .. Len(items) : items[i].tx < e.tx,
           NEW z \in Seq(ProofSet), Len(z) = Len(items) + 1, z[Len(items) + 1] = e,
           \A i \in 1 .. Len(items) : z[i] = items[i]
    PROVE  Traced(z, w)
  <1>1. /\ Len(z) = Len(items) + 1 /\ Len(items) \in Nat
        /\ z[Len(items) + 1] = e /\ \A i \in 1 .. Len(items) : z[i] = items[i]
    OBVIOUS
  <1>2. ASSUME NEW i \in 1 .. Len(z)
        PROVE  /\ z[i].tx \in 1 .. Len(w.txs)
               /\ z[i].status \in {"pending", w.txs[z[i].tx].state}
    <2>1. i \in 1 .. Len(items) \/ i = Len(items) + 1
      BY <1>1
    <2>2. QED
      BY <1>1, <2>1 DEF Traced
  <1>3. ASSUME NEW i \in 1 .. Len(z), NEW j \in 1 .. Len(z), i < j
        PROVE  z[i].tx < z[j].tx
    <2>1. i \in 1 .. Len(items)
      BY <1>1, <1>3
    <2>2. j \in 1 .. Len(items) \/ j = Len(items) + 1
      BY <1>1
    <2>3. QED
      BY <1>1, <1>3, <2>1, <2>2 DEF Traced
  <1>4. QED
    BY <1>2, <1>3 DEF Traced

(* A name for an appended sequence that keeps the provers from unfolding it. *)
Extended(s, e) == Append(s, e)

(* What an execute has after it assessed the transaction it sent last. *)
LEMMA AssessedItems ==
    ASSUME Core, NEW c \in Calls, calls[c].at = "assess",
           NEW proof \in Proofs(ItemNonce(c) + 1),
           NEW e, e = [tx |-> ItemNonce(c) + 1, status |-> proof],
           NEW items, items = Extended(calls[c].items, e)
    PROVE  /\ items \in Seq(ProofSet) /\ Traced(items, World)
           /\ Len(items) = Len(calls[c].items) + 1 /\ Len(items) \in Nat
           /\ Len(items) <= Len(calls[c].read)
           /\ calls[c].nonce + Len(items) <= Len(txs)
           /\ \A i \in 1 .. Len(items) :
                  /\ items[i].tx = calls[c].nonce + i
                  /\ txs[calls[c].nonce + i].preview = calls[c].preview
                  /\ txs[calls[c].nonce + i].item = i
  <1> DEFINE k == calls[c]
             n == ItemNonce(c) + 1
  <1>1. /\ k \in CallSet /\ k.items \in Seq(ProofSet) /\ Traced(k.items, World)
        /\ Len(k.items) \in Nat /\ k.nonce \in Nat /\ k.read \in Seq(ItemSet)
        /\ Len(k.items) < Len(k.read) /\ n = k.nonce + Len(k.items) + 1
        /\ World \in Worlds /\ World.txs = txs /\ txs \in Seq(TxSet) /\ Len(txs) \in Nat
    BY SendFacts, CoreFacts DEF ItemNonce
  <1>2. Sending(k, World) /\ Sent(k) = Len(k.items) + 1
    BY SendFacts DEF CallGood, Sent
  <1> HIDE DEF k
  <1>3. /\ k.nonce + Len(k.items) + 1 <= Len(txs)
        /\ \A i \in 1 .. Len(k.items) + 1 :
               /\ txs[k.nonce + i].preview = k.preview
               /\ txs[k.nonce + i].item = i
        /\ \A i \in 1 .. Len(k.items) : k.items[i].tx = k.nonce + i
    BY <1>1, <1>2 DEF Sending, k
  <1>4. n \in 1 .. Len(txs)
    BY <1>1, <1>3
  <1> HIDE DEF n
  <1>5. proof \in {"pending", txs[n].state} /\ txs[n] \in TxSet
    BY <1>1, <1>4 DEF Proofs, n
  <1>6. e \in ProofSet /\ e.tx = n /\ e.status = proof
    <2>1. proof \in TxStates
      BY <1>5 DEF TxSet, TxStates
    <2>2. QED
      BY <1>4, <2>1 DEF ProofSet, n
  <1>7. \A i \in 1 .. Len(k.items) : k.items[i].tx < e.tx
    BY <1>1, <1>3, <1>6
  <1>8. /\ items \in Seq(ProofSet) /\ Len(items) = Len(k.items) + 1
        /\ items[Len(k.items) + 1] = e
        /\ \A i \in 1 .. Len(k.items) : items[i] = k.items[i]
    <2>1. k.items \in Seq(ProofSet) /\ e \in ProofSet
      BY <1>1, <1>6
    <2>2. QED
      BY <2>1 DEF k, Extended
  <1>9. /\ items \in Seq(ProofSet) /\ Traced(items, World)
        /\ Len(items) = Len(k.items) + 1
        /\ items[Len(k.items) + 1] = e
        /\ \A i \in 1 .. Len(k.items) : items[i] = k.items[i]
    <2>1. /\ e.tx \in 1 .. Len(World.txs)
          /\ e.status \in {"pending", World.txs[e.tx].state}
      BY <1>1, <1>4, <1>5, <1>6
    <2>2. World \in Worlds /\ k.items \in Seq(ProofSet) /\ Traced(k.items, World)
      BY <1>1
    <2>3. QED
      BY <1>6, <1>7, <1>8, <2>1, <2>2, TracedAppend
  <1>10. \A i \in 1 .. Len(items) : items[i].tx = k.nonce + i
    <2>1. ASSUME NEW i \in 1 .. Len(items)
          PROVE  items[i].tx = k.nonce + i
      <3>1. Len(k.items) \in Nat /\ Len(items) = Len(k.items) + 1
        BY <1>1, <1>9
      <3>2. i \in 1 .. Len(k.items) \/ i = Len(k.items) + 1
        BY <3>1
      <3>3. CASE i \in 1 .. Len(k.items)
        BY <1>3, <1>9, <3>3
      <3>4. CASE i = Len(k.items) + 1
        <4>1. n = k.nonce + i
          <5>1. n = k.nonce + Len(k.items) + 1 /\ k.nonce \in Nat
            BY <1>1
          <5>2. QED
            BY <3>1, <3>4, <5>1
        <4>2. QED
          BY <1>6, <1>9, <3>4, <4>1
      <3>5. QED
        BY <3>2, <3>3, <3>4
    <2>2. QED
      BY <2>1
  <1>11. Len(items) <= Len(k.read) /\ k.nonce + Len(items) <= Len(txs)
    BY <1>1, <1>3, <1>9
  <1>12. QED
    BY <1>1, <1>3, <1>9, <1>10, <1>11 DEF k

(* With or without the pause, an execute that sent everything saves. *)
LEMMA AssessSaves ==
    ASSUME NEW c \in Calls, NEW new, AssessEnds(c, new)
    PROVE  SaveAndEnd(c, new, {calls[c].preview})
  BY DEF AssessEnds, EndsUnpaused, SaveAndEnd

LEMMA AssessCore ==
    ASSUME Core, NEW c \in Calls, Assess(c)
    PROVE  Core'
  <1>1. /\ calls[c].at = "assess"
        /\ UNCHANGED <<chainVars, pausedFile, truthOk, expired, resumed, plans, asked>>
    BY DEF Assess
  <1>2. PICK proof \in Proofs(ItemNonce(c) + 1) :
          LET items == Append(calls[c].items, [tx |-> ItemNonce(c) + 1, status |-> proof])
              p == calls[c].preview IN
          \/ /\ SaveAndEnd(c, Recorded(calls[c].st, "execute_failed", calls[c].items, p), {p})
             /\ UNCHANGED <<paused, unpaused>>
          \/ /\ Len(items) < Len(Plan(c).items)
             /\ calls' = [calls EXCEPT ![c].at = "send", ![c].items = items]
             /\ UNCHANGED <<file, changes, overwritten, disturbed, paused, unpaused>>
          \/ /\ Len(items) = Len(Plan(c).items)
             /\ AssessEnds(c, Recorded(calls[c].st, ExecutedStatus(items), items, p))
    BY DEF Assess
  <1> DEFINE e == [tx |-> ItemNonce(c) + 1, status |-> proof]
             items == Append(calls[c].items, e)
             p == calls[c].preview
  <1>3. /\ items \in Seq(ProofSet) /\ Traced(items, World)
        /\ Len(items) = Len(calls[c].items) + 1 /\ Len(items) \in Nat
        /\ Len(items) <= Len(calls[c].read)
        /\ calls[c].nonce + Len(items) <= Len(txs)
        /\ \A i \in 1 .. Len(items) :
               /\ items[i].tx = calls[c].nonce + i
               /\ txs[calls[c].nonce + i].preview = calls[c].preview
               /\ txs[calls[c].nonce + i].item = i
    <2> HIDE DEF e, items
    <2>1. e = [tx |-> ItemNonce(c) + 1, status |-> proof] /\ items = Extended(calls[c].items, e)
      BY DEF e, items, Extended
    <2>2. QED
      BY <1>1, <2>1, AssessedItems
  <1>4. \/ /\ SaveAndEnd(c, Recorded(calls[c].st, "execute_failed", calls[c].items, p), {p})
           /\ UNCHANGED <<paused, unpaused>>
        \/ /\ Len(items) < Len(Plan(c).items)
           /\ calls' = [calls EXCEPT ![c].at = "send", ![c].items = items]
           /\ UNCHANGED <<file, changes, overwritten, disturbed, paused, unpaused>>
        \/ /\ Len(items) = Len(Plan(c).items)
           /\ AssessEnds(c, Recorded(calls[c].st, ExecutedStatus(items), items, p))
    BY <1>2
  <1> HIDE DEF items
  <1>5. /\ calls[c] \in CallSet /\ CallGood(calls[c], World)
        /\ calls[c].op = "execute"
        /\ calls[c].st \in StateSet /\ Good(calls[c].st, World)
        /\ p \in Previews /\ p = calls[c].st.preview
        /\ plans[p] = Plan(c) /\ Plan(c).reason = "ok"
        /\ Plan(c).items = calls[c].read
        /\ World.txs = txs /\ World.plans = plans
    BY <1>1, SendFacts, PlanFacts, CoreFacts
  <1>6. CASE /\ SaveAndEnd(c, Recorded(calls[c].st, "execute_failed", calls[c].items, p), {p})
             /\ UNCHANGED <<paused, unpaused>>
    <2>1. World' \in Worlds /\ Evolves(World, World') /\ SentAsPreviewed'
      BY <1>1, <1>6, QuietStep DEF chainVars
    <2>2. QED
      BY <1>1, <1>6, <2>1, FailedCore DEF chainVars
  <1>7. CASE /\ Len(items) < Len(Plan(c).items)
             /\ calls' = [calls EXCEPT ![c].at = "send", ![c].items = items]
             /\ UNCHANGED <<file, changes, overwritten, disturbed, paused, unpaused>>
    <2> DEFINE j == calls[c]
               k == [calls[c] EXCEPT !.at = "send", !.items = items]
    <2>1. calls' = [calls EXCEPT ![c] = k]
      BY <1>5, <1>7 DEF CallSet
    <2>2. /\ k \in CallSet /\ k.at = "send" /\ k.op = "execute" /\ k.st = j.st
          /\ k.reason = j.reason /\ k.items = items /\ k.nonce = j.nonce
          /\ k.preview = j.preview /\ k.read = j.read
      BY <1>3, <1>5 DEF CallSet
    <2> HIDE DEF k
    <2>3. PlanOf(k) = PlanOf(j) /\ Sent(k) = Len(items)
      BY <2>2 DEF PlanOf, Sent
    <2>4. Sending(k, World)
      <3>1. \A i \in 1 .. Len(k.st.items) : k.st.items[i].tx <= k.nonce
        BY <1>1, <1>5, <2>2 DEF CallGood, Sending
      <3>2. QED
        BY <1>3, <1>5, <1>7, <2>2, <2>3, <3>1 DEF Sending
    <2>5. CallGood(k, World)
      BY <1>1, <1>5, <2>2, <2>3, <2>4 DEF CallGood, Shape, Confirmed, Refreshing
    <2>6. QED
      BY <1>1, <1>7, <2>1, <2>2, <2>5, QuietCall DEF chainVars, Core, TypeOK
  <1>8. CASE /\ Len(items) = Len(Plan(c).items)
             /\ AssessEnds(c, Recorded(calls[c].st, ExecutedStatus(items), items, p))
    <2>1. /\ paused' \in BOOLEAN /\ (paused => paused')
          /\ unpaused' \in SUBSET (Previews \union {NoPreview})
          /\ unpaused \subseteq unpaused'
          /\ paused' \/ p \in unpaused'
      <3>1. /\ paused \in BOOLEAN /\ p \in Previews
            /\ unpaused \in SUBSET (Previews \union {NoPreview})
        BY <1>5 DEF Core, TypeOK
      <3>2. \/ paused' = TRUE /\ unpaused' = unpaused
            \/ paused' = paused /\ unpaused' = unpaused \union {p}
        BY <1>8 DEF AssessEnds, EndsUnpaused, ControlsPaused
      <3>3. QED
        BY <3>1, <3>2
    <2>2. World' \in Worlds
      BY <1>1, <2>1 DEF World, Worlds, Core, TypeOK, chainVars
    <2>3. /\ World'.txs = txs /\ World'.plans = plans
          /\ World'.calm \/ p \in World'.unpaused
          /\ World.calm => World'.calm
          /\ World.unpaused \subseteq World'.unpaused
      BY <1>1, <2>1 DEF World, chainVars
    <2>4. Evolves(World, World')
      BY <1>5, <2>3, CoreFacts DEF Evolves, Worlds
    <2>5. SentAsPreviewed'
      BY <1>1, <2>2, <2>4, SentStep DEF chainVars
    <2>6. Good(calls[c].st, World') /\ Traced(items, World')
      BY <1>3, <1>5, <2>2, <2>4, CoreFacts, GoodEvolves, TracedEvolves
    <2>7. AllItemsOf(items, p, World')
      <3>1. plans[p] # NoPlan
        BY <1>5 DEF NoPlan
      <3>2. Len(items) # 0
        BY <1>1, <1>3, SendFacts
      <3>3. QED
        BY <1>3, <1>5, <1>8, <2>3, <3>1, <3>2 DEF AllItemsOf
    <2> DEFINE status == ExecutedStatus(items)
               new == Recorded(calls[c].st, status, items, p)
    <2>8. /\ status \in Statuses
          /\ status = "completed" =>
                 \A i \in 1 .. Len(items) : items[i].status = "mined_success"
      BY <1>3, ExecutedStatusCompleted DEF Statuses
    <2> HIDE DEF status
    <2>13. World'.calm \/ Excused(items, World')
      <3>1. 1 \in 1 .. Len(items)
        BY <1>3, <2>7 DEF AllItemsOf
      <3>2. World'.txs[items[1].tx].preview = p
        BY <2>7, <3>1 DEF AllItemsOf
      <3>3. QED
        BY <2>3, <3>1, <3>2 DEF Excused
    <2>9. new \in StateSet /\ Good(new, World')
      BY <1>3, <1>5, <2>2, <2>6, <2>7, <2>8, <2>13, RecordedGood
    <2>10. SaveAndEnd(c, new, {p})
      BY <1>8, AssessSaves DEF status
    <2> HIDE DEF new
    <2>11. /\ file' \in StateSet /\ Good(file', World')
           /\ calls' \in [Calls -> CallSet]
           /\ \A d \in Calls : CallGood(calls'[d], World')
           /\ overwritten' \in BOOLEAN
           /\ changes' \in 0 .. MaxChanges
           /\ disturbed' \in SUBSET (Previews \union {NoPreview})
      <3>1. {p} \in SUBSET (Previews \union {NoPreview})
        BY <1>5
      <3>2. QED
        BY <2>2, <2>4, <2>9, <2>10, <3>1, SaveStep
    <2>12. QED
      BY <1>1, <2>1, <2>2, <2>5, <2>11, CoreStep DEF chainVars, Core, TypeOK
  <1>9. QED
    BY <1>4, <1>6, <1>7, <1>8

LEMMA StartStateCore ==
    ASSUME Core, NEW c \in Calls, StartState(c)
    PROVE  Core'
  <1> DEFINE k == [NoCall EXCEPT !.op = "state", !.at = "refresh", !.st = Load]
  <1>1. Load \in StateSet /\ Good(Load, World) /\ NoCall \in CallSet
    BY CoreFacts, NoCallGood
  <1>2. Load.status = "submitted"
    BY DEF StartState
  <1>3. calls' = [calls EXCEPT ![c] = k]
    BY DEF StartState
  <1>4. k \in CallSet
    BY <1>1 DEF CallSet
  <1>5. k.op = "state" /\ k.at = "refresh" /\ k.st = Load /\ k.items = << >>
    BY DEF NoCall
  <1> HIDE DEF k
  <1>6. Refreshing(k, World)
    <2>1. Len(<< >>) = 0 /\ Len(Load.items) \in Nat
      BY <1>1 DEF StateSet
    <2>2. Traced(<< >>, World) /\ Follows(<< >>, Load.items)
      BY <2>1 DEF Traced, Follows
    <2>3. QED
      BY <1>2, <1>5, <2>2 DEF Refreshing
  <1>7. CallGood(k, World)
    BY <1>1, <1>5, <1>6 DEF CallGood, Shape, Confirmed, Sending
  <1>8. QED
    BY <1>3, <1>4, <1>7, QuietCall
    DEF StartState, chainVars, envVars, history, Core, TypeOK

(* A sequence with one more element. *)
LEMMA ExtendedFacts ==
    ASSUME NEW s \in Seq(ProofSet), NEW e \in ProofSet
    PROVE  /\ Extended(s, e) \in Seq(ProofSet) /\ Len(Extended(s, e)) = Len(s) + 1
           /\ Extended(s, e)[Len(s) + 1] = e
           /\ \A i \in 1 .. Len(s) : Extended(s, e)[i] = s[i]
  BY DEF Extended

(* What is known of a request that refreshes the items of its copy. *)
LEMMA RefreshFacts ==
    ASSUME Core, NEW c \in Calls, calls[c].at = "refresh"
    PROVE  /\ calls[c] \in CallSet /\ CallGood(calls[c], World)
           /\ World \in Worlds /\ World.txs = txs
           /\ calls[c].op = "state" /\ calls[c].st.status = "submitted"
           /\ calls[c].st \in StateSet /\ Good(calls[c].st, World)
           /\ calls[c].st.items \in Seq(ProofSet) /\ Len(calls[c].st.items) \in Nat
           /\ Traced(calls[c].st.items, World)
           /\ calls[c].items \in Seq(ProofSet) /\ Len(calls[c].items) \in Nat
           /\ Traced(calls[c].items, World)
           /\ Follows(calls[c].items, calls[c].st.items)
  <1>1. /\ calls[c] \in CallSet /\ CallGood(calls[c], World)
        /\ World \in Worlds /\ World.txs = txs
    BY CoreFacts
  <1>2. /\ calls[c].items \in Seq(ProofSet) /\ calls[c].st \in StateSet
    BY <1>1 DEF CallSet
  <1>3. calls[c].st.items \in Seq(ProofSet)
    BY <1>2 DEF StateSet
  <1>4. /\ Shape(calls[c]) /\ Good(calls[c].st, World) /\ Refreshing(calls[c], World)
    BY <1>1 DEF CallGood
  <1>5. calls[c].op = "state"
    BY <1>4 DEF Shape
  <1>6. Traced(calls[c].st.items, World)
    BY <1>4 DEF Good
  <1>7. /\ Traced(calls[c].items, World) /\ calls[c].st.status = "submitted"
        /\ Follows(calls[c].items, calls[c].st.items)
    BY <1>4 DEF Refreshing
  <1>8. Len(calls[c].items) \in Nat /\ Len(calls[c].st.items) \in Nat
    BY <1>2, <1>3
  <1>9. QED
    BY <1>1, <1>2, <1>3, <1>4, <1>5, <1>6, <1>7, <1>8

(* The item that a refresh makes of an old one. *)
Shows(e, old, ts) ==
    /\ e.tx = old.tx
    /\ old.status # "pending" => e.status = old.status
    /\ old.status = "pending" => e.status \in {"pending", ts[old.tx].state}

(* The items seen by a refresh and one more. *)
LEMMA RefreshedItems ==
    ASSUME NEW w \in Worlds, NEW held \in Seq(ProofSet), NEW seen \in Seq(ProofSet),
           Traced(held, w), Traced(seen, w), Follows(seen, held),
           Len(seen) + 1 <= Len(held),
           NEW old, old = held[Len(seen) + 1],
           NEW e \in ProofSet, Shows(e, old, w.txs)
    PROVE  /\ Extended(seen, e) \in Seq(ProofSet) /\ Traced(Extended(seen, e), w)
           /\ Follows(Extended(seen, e), held)
  <1> DEFINE m == Len(seen) + 1
             items == Extended(seen, e)
  <1>1. m \in 1 .. Len(held) /\ old = held[m] /\ Len(held) \in Nat /\ Len(seen) \in Nat
    OBVIOUS
  <1>2. /\ items \in Seq(ProofSet) /\ Len(items) = m /\ items[m] = e
        /\ \A i \in 1 .. Len(seen) : items[i] = seen[i]
    <2>1. /\ Extended(seen, e) \in Seq(ProofSet) /\ Len(Extended(seen, e)) = Len(seen) + 1
          /\ Extended(seen, e)[Len(seen) + 1] = e
          /\ \A i \in 1 .. Len(seen) : Extended(seen, e)[i] = seen[i]
      BY ExtendedFacts
    <2>2. QED
      BY <2>1
  <1> HIDE DEF items
  <1>3. \A i \in 1 .. Len(seen) :
            /\ seen[i].tx = held[i].tx
            /\ held[i].status # "pending" => seen[i].status = held[i].status
    BY DEF Follows
  <1>4. /\ e.tx \in 1 .. Len(w.txs)
        /\ e.status \in {"pending", w.txs[e.tx].state}
    <2>1. /\ old.tx \in 1 .. Len(w.txs)
          /\ old.status \in {"pending", w.txs[old.tx].state}
      BY <1>1 DEF Traced
    <2>2. QED
      BY <2>1 DEF Shows
  <1>5. ASSUME NEW i \in 1 .. Len(seen)
        PROVE  seen[i].tx < e.tx
    <2>1. i \in 1 .. Len(held) /\ i < m
      BY <1>1
    <2>2. held[i].tx < held[m].tx
      BY <1>1, <2>1 DEF Traced
    <2>3. seen[i].tx = held[i].tx
      BY <1>3
    <2>4. QED
      BY <1>1, <2>2, <2>3 DEF Shows
  <1>6. Traced(items, w)
    BY <1>2, <1>4, <1>5, TracedAppend
  <1>7. ASSUME NEW i \in 1 .. Len(items)
        PROVE  /\ items[i].tx = held[i].tx
               /\ held[i].status # "pending" => items[i].status = held[i].status
    <2>1. i \in 1 .. Len(seen) \/ i = m
      BY <1>1, <1>2
    <2>2. CASE i \in 1 .. Len(seen)
      BY <1>2, <1>3, <2>2
    <2>3. CASE i = m
      <3>1. items[i] = e /\ held[i] = old
        BY <1>1, <1>2, <2>3
      <3>2. QED
        BY <3>1 DEF Shows
    <2>4. QED
      BY <2>1, <2>2, <2>3
  <1>8. Len(items) <= Len(held)
    BY <1>1, <1>2
  <1>9. QED
    BY <1>2, <1>6, <1>7, <1>8 DEF Follows, items

(* A refresh with the items it has seen. *)
LEMMA RefreshWith ==
    ASSUME Core, NEW c \in Calls, calls[c].at = "refresh",
           NEW items \in Seq(ProofSet), Traced(items, World),
           Follows(items, calls[c].st.items),
           NEW k, k = [calls[c] EXCEPT !.items = items]
    PROVE  k \in CallSet /\ CallGood(k, World)
  <1>1. /\ calls[c] \in CallSet /\ calls[c].op = "state"
        /\ Good(calls[c].st, World) /\ calls[c].st.status = "submitted"
    BY RefreshFacts
  <1>2. /\ k \in CallSet /\ k.op = "state" /\ k.at = "refresh" /\ k.st = calls[c].st
        /\ k.items = items
    BY <1>1 DEF CallSet
  <1>3. Refreshing(k, World)
    BY <1>1, <1>2 DEF Refreshing
  <1>4. Good(k.st, World) /\ Shape(k)
    BY <1>1, <1>2 DEF Shape
  <1>5. Confirmed(k, World) /\ Sending(k, World)
    BY <1>2 DEF Confirmed, Sending
  <1>6. QED
    BY <1>2, <1>3, <1>4, <1>5 DEF CallGood

(* A refresh after one more item. *)
LEMMA RefreshStep ==
    ASSUME Core, NEW c \in Calls, calls[c].at = "refresh",
           NEW old, old = calls[c].st.items[Len(calls[c].items) + 1],
           Len(calls[c].items) + 1 <= Len(calls[c].st.items),
           NEW e \in ProofSet, Shows(e, old, txs),
           NEW items, items = Extended(calls[c].items, e),
           NEW k, k = [calls[c] EXCEPT !.items = items]
    PROVE  k \in CallSet /\ CallGood(k, World)
  <1>1. /\ World \in Worlds /\ World.txs = txs
        /\ calls[c].st.items \in Seq(ProofSet) /\ calls[c].items \in Seq(ProofSet)
        /\ Traced(calls[c].st.items, World) /\ Traced(calls[c].items, World)
        /\ Follows(calls[c].items, calls[c].st.items)
    BY RefreshFacts
  <1>2. /\ items \in Seq(ProofSet) /\ Traced(items, World)
        /\ Follows(items, calls[c].st.items)
    <2>1. Shows(e, old, World.txs)
      BY <1>1
    <2>2. QED
      BY <1>1, <2>1, RefreshedItems
  <1>3. QED
    BY <1>2, RefreshWith

LEMMA RefreshItemCore ==
    ASSUME Core, NEW c \in Calls, RefreshItem(c)
    PROVE  Core'
  <1> DEFINE m == Len(calls[c].items) + 1
             old == calls[c].st.items[m]
  <1>1. /\ calls[c].at = "refresh" /\ m <= Len(calls[c].st.items)
        /\ UNCHANGED <<file, chainVars, envVars, changes, history>>
    BY DEF RefreshItem
  <1>2. PICK proof \in RefreshProofs(old) :
          calls' = [calls EXCEPT ![c].items =
                       Append(@, [tx |-> old.tx, status |-> proof])]
    BY DEF RefreshItem
  <1>3. /\ calls[c] \in CallSet /\ World.txs = txs
        /\ Traced(calls[c].st.items, World)
        /\ calls[c].st.items \in Seq(ProofSet) /\ Len(calls[c].items) \in Nat
        /\ Len(calls[c].st.items) \in Nat
    BY <1>1, RefreshFacts
  <1>4. m \in 1 .. Len(calls[c].st.items)
    BY <1>1, <1>3
  <1>5. old \in ProofSet /\ old.tx \in 1 .. Len(txs)
    <2>1. old \in ProofSet
      BY <1>3, <1>4
    <2>2. old.tx \in 1 .. Len(World.txs)
      BY <1>3, <1>4 DEF Traced
    <2>3. QED
      BY <1>3, <2>1, <2>2
  <1>6. proof = IF old.status = "pending" THEN txs[old.tx].state ELSE old.status
    BY <1>2 DEF RefreshProofs
  <1>7. txs[old.tx] \in TxSet
    BY <1>5 DEF Core, TypeOK
  <1> DEFINE e == [tx |-> old.tx, status |-> proof]
             items == Extended(calls[c].items, e)
             k == [calls[c] EXCEPT !.items = items]
  <1> HIDE DEF old
  <1>8. e \in ProofSet /\ Shows(e, old, txs)
    BY <1>5, <1>6, <1>7 DEF ProofSet, TxSet, Shows
  <1>9. calls' = [calls EXCEPT ![c] = k]
    BY <1>2, <1>3 DEF CallSet, Extended
  <1> HIDE DEF items, e, k
  <1>10. items = Extended(calls[c].items, e) /\ k = [calls[c] EXCEPT !.items = items]
    BY DEF items, k
  <1>11. k \in CallSet /\ CallGood(k, World)
    BY <1>1, <1>8, <1>10, RefreshStep DEF old
  <1>12. QED
    BY <1>1, <1>9, <1>11, QuietCall DEF chainVars, envVars, history, Core, TypeOK

LEMMA RefreshFailsCore ==
    ASSUME Core, NEW c \in Calls, RefreshFails(c)
    PROVE  Core'
  <1> DEFINE m == Len(calls[c].items) + 1
             old == calls[c].st.items
  <1>1. /\ calls[c].at = "refresh" /\ m <= Len(old)
        /\ UNCHANGED <<file, chainVars, envVars, history>>
    BY DEF RefreshFails
  <1>2. changes' \in 0 .. MaxChanges
    BY WithdrawAllAssumption DEF RefreshFails, Spend, Core, TypeOK
  <1>3. PICK items \in {Append(calls[c].items, old[m]), old} :
          calls' = [calls EXCEPT ![c].items = items]
    BY DEF RefreshFails
  <1>4. /\ calls[c] \in CallSet /\ CallGood(calls[c], World)
        /\ old \in Seq(ProofSet) /\ Len(calls[c].items) \in Nat
    BY CoreFacts DEF CallSet, StateSet
  <1> DEFINE k == [calls[c] EXCEPT !.items = items]
  <1>5. calls' = [calls EXCEPT ![c] = k]
    BY <1>3, <1>4 DEF CallSet
  <1> HIDE DEF k
  <1>6. k \in CallSet /\ CallGood(k, World)
    <2>1. CASE items = Append(calls[c].items, old[m])
      <3> DEFINE e == old[m]
      <3>1. e \in ProofSet
        BY <1>1, <1>4
      <3>2. items = Extended(calls[c].items, e) /\ k = [calls[c] EXCEPT !.items = items]
        BY <2>1 DEF Extended, k
      <3>3. e = calls[c].st.items[Len(calls[c].items) + 1]
        OBVIOUS
      <3> HIDE DEF e
      <3>4. Shows(e, e, txs)
        BY <3>1 DEF Shows, ProofSet
      <3>5. QED
        BY <1>1, <3>1, <3>2, <3>3, <3>4, RefreshStep
    <2>2. CASE items = old
      <3>1. items = calls[c].st.items /\ items \in Seq(ProofSet) /\ Traced(items, World)
        BY <1>1, <2>2, RefreshFacts
      <3>2. Follows(items, items) /\ k = [calls[c] EXCEPT !.items = items]
        BY <3>1 DEF Follows, k
      <3>3. QED
        BY <1>1, <3>1, <3>2, RefreshWith
    <2>3. QED
      BY <2>1, <2>2
  <1>7. QED
    BY <1>1, <1>2, <1>5, <1>6, QuietCall DEF chainVars, envVars, history, Core, TypeOK

LEMMA FinishStateCore ==
    ASSUME Core, NEW c \in Calls, FinishState(c)
    PROVE  Core'
  <1> DEFINE new == Refreshed(calls[c].st, calls[c].items)
  <1>1. calls[c].at = "refresh" /\ Len(calls[c].items) = Len(calls[c].st.items)
    BY DEF FinishState
  <1>2. new \in StateSet /\ Good(new, World)
    BY <1>1, CoreFacts, RefreshedGood
  <1>3. SaveAndEnd(c, new, {})
    BY DEF FinishState
  <1>4. {} \in SUBSET (Previews \union {NoPreview})
    OBVIOUS
  <1> HIDE DEF new
  <1>5. QED
    BY <1>2, <1>3, <1>4, QuietSave DEF FinishState, chainVars, envVars

(* A step of the environment that leaves the file and the requests alone. *)
LEMMA EnvStep ==
    ASSUME Core, World' \in Worlds, Evolves(World, World'), Len(txs') = Len(txs),
           UNCHANGED <<file, calls, asked, overwritten, disturbed>>,
           paused' \in BOOLEAN, pausedFile' \in BOOLEAN, truthOk' \in BOOLEAN,
           resumed' \in BOOLEAN, balances' \in [TokenSet -> 0 .. MaxBalance],
           expired' \in SUBSET Previews, changes' \in 0 .. MaxChanges
    PROVE  Core'
  <1>1. SentAsPreviewed'
    BY SentStep
  <1>2. file \in StateSet /\ Good(file, World')
    BY CoreFacts, GoodEvolves DEF Core, TypeOK, CopiesGood
  <1>3. \A c \in Calls : CallGood(calls[c], World')
    BY CoreFacts, CallEvolves
  <1>4. QED
    BY <1>1, <1>2, <1>3, CoreStep DEF Core, TypeOK

LEMMA MineCore ==
    ASSUME Core, NEW n \in DOMAIN txs, Mine(n)
    PROVE  Core'
  <1>1. txs \in Seq(TxSet) /\ n \in 1 .. Len(txs) /\ Len(txs) \in Nat
    BY DEF Core, TypeOK
  <1>2. txs[n] \in TxSet
    BY <1>1
  <1>3. txs[n].token \in TokenSet /\ txs[n].amount \in Nat /\ txs[n].state = "pending"
    BY <1>2 DEF TxSet, Mine
  <1>4. PICK s \in {"mined_success", "mined_reverted"} :
            txs' = [txs EXCEPT ![n].state = s]
    BY DEF Mine
  <1> DEFINE t == [txs[n] EXCEPT !.state = s]
  <1>5. /\ t \in TxSet /\ t.token = txs[n].token /\ t.amount = txs[n].amount
        /\ t.destination = txs[n].destination /\ t.preview = txs[n].preview
        /\ t.item = txs[n].item
    BY <1>2 DEF TxSet, TxStates
  <1>6. txs' = [txs EXCEPT ![n] = t]
    BY <1>1, <1>2, <1>4 DEF TxSet
  <1> HIDE DEF t
  <1>7. /\ txs' \in Seq(TxSet) /\ Len(txs') = Len(txs) /\ txs'[n] = t
        /\ \A m \in 1 .. Len(txs) : m # n => txs'[m] = txs[m]
    BY <1>1, <1>5, <1>6
  <1>8. World' \in Worlds
    BY <1>7 DEF Mine, envVars, history, World, Worlds, Core, TypeOK
  <1>9. Evolves(World, World')
    <2>1. /\ World.txs = txs /\ World'.txs = txs' /\ World'.plans = World.plans
          /\ World'.calm = World.calm /\ World'.unpaused = World.unpaused
      BY DEF World, Mine, envVars, history
    <2>2. ASSUME NEW m \in 1 .. Len(txs)
          PROVE  /\ txs'[m].token = txs[m].token
                 /\ txs'[m].amount = txs[m].amount
                 /\ txs'[m].destination = txs[m].destination
                 /\ txs'[m].preview = txs[m].preview
                 /\ txs'[m].item = txs[m].item
                 /\ txs[m].state # "pending" => txs'[m].state = txs[m].state
      BY <1>3, <1>5, <1>7
    <2>3. QED
      BY <1>1, <1>7, <2>1, <2>2 DEF Evolves
  <1>10. balances' \in [TokenSet -> 0 .. MaxBalance]
    <2> DEFINE tok == txs[n].token
               rest == balances[tok] - txs[n].amount
    <2>1. balances \in [TokenSet -> 0 .. MaxBalance]
      BY DEF Core, TypeOK
    <2>2. balances[tok] >= txs[n].amount => rest \in 0 .. MaxBalance
      BY <1>3, <2>1, WithdrawAllAssumption
    <2>3. \/ balances' = balances
          \/ balances[tok] >= txs[n].amount /\ balances' = [balances EXCEPT ![tok] = rest]
      BY DEF Mine
    <2> HIDE DEF rest
    <2>4. QED
      BY <2>1, <2>2, <2>3
  <1>11. QED
    BY <1>7, <1>8, <1>9, <1>10, EnvStep DEF Mine, envVars, history, Core, TypeOK

(* The moves of the environment that change neither the transactions nor   *)
(* what was shown.                                                         *)
LEMMA EnvironmentCore ==
    ASSUME Core,
           \/ \E t \in TokenSet : Deposit(t)
           \/ TruthMoves
           \/ \E p \in Previews : Expire(p)
    PROVE  Core'
  <1>1. /\ UNCHANGED <<file, calls, paused, pausedFile, resumed, unpaused, txs, history>>
        /\ changes' \in 0 .. MaxChanges
        /\ truthOk' \in BOOLEAN /\ expired' \in SUBSET Previews
    <2>1. MaxChanges \in Nat /\ changes \in 0 .. MaxChanges
      BY WithdrawAllAssumption DEF Core, TypeOK
    <2>2. UNCHANGED <<file, calls, paused, pausedFile, resumed, unpaused, txs, history>>
      BY DEF Deposit, TruthMoves, Expire, envVars, chainVars
    <2>3. changes' = changes \/ (changes < MaxChanges /\ changes' = changes + 1)
      BY DEF Deposit, TruthMoves, Expire, envVars
    <2>4. truthOk' \in BOOLEAN /\ expired' \in SUBSET Previews
      BY DEF Deposit, TruthMoves, Expire, envVars, Core, TypeOK
    <2>5. QED
      BY <2>1, <2>2, <2>3, <2>4
  <1>2. balances' \in [TokenSet -> 0 .. MaxBalance]
    <2>1. balances \in [TokenSet -> 0 .. MaxBalance]
      BY DEF Core, TypeOK
    <2>2. ASSUME NEW t \in TokenSet, Deposit(t)
          PROVE  balances' \in [TokenSet -> 0 .. MaxBalance]
      <3>1. balances[t] + 1 \in 0 .. MaxBalance
        BY <2>1, <2>2, WithdrawAllAssumption DEF Deposit
      <3>2. balances' = [balances EXCEPT ![t] = balances[t] + 1]
        BY <2>2 DEF Deposit
      <3>3. QED
        BY <2>1, <3>1, <3>2
    <2>3. QED
      BY <2>1, <2>2 DEF TruthMoves, Expire, chainVars
  <1>3. World' \in Worlds /\ Evolves(World, World')
    BY <1>1, QuietStep DEF history
  <1>4. QED
    BY <1>1, <1>2, <1>3, EnvStep DEF history, Core, TypeOK

(* Whatever lifts the pause leaves a trace in resumed. *)
LEMMA CalmStep ==
    ASSUME Core, UNCHANGED <<plans, txs, unpaused>>, paused' \in BOOLEAN, resumed' \in BOOLEAN,
           paused \/ resumed => paused' \/ resumed'
    PROVE  World' \in Worlds /\ Evolves(World, World')
  <1>1. World' \in Worlds
    BY DEF World, Worlds, Core, TypeOK
  <1>2. /\ World'.txs = World.txs /\ World'.plans = World.plans
        /\ World.calm => World'.calm
        /\ World'.unpaused = World.unpaused
    BY DEF World
  <1>3. QED
    BY <1>1, <1>2, CoreFacts DEF Evolves, Worlds

LEMMA SetPausedCore ==
    ASSUME Core, NEW b \in BOOLEAN, SetPaused(b)
    PROVE  Core'
  <1>1. /\ UNCHANGED <<file, calls, truthOk, expired, unpaused, chainVars, history>>
        /\ changes' \in 0 .. MaxChanges /\ paused' = b /\ pausedFile' = b
        /\ resumed' = (resumed \/ ~b)
    BY WithdrawAllAssumption DEF SetPaused, Core, TypeOK
  <1>2. resumed' \in BOOLEAN /\ (paused \/ resumed => paused' \/ resumed')
    BY <1>1 DEF Core, TypeOK
  <1>3. World' \in Worlds /\ Evolves(World, World')
    BY <1>1, <1>2, CalmStep DEF chainVars, history
  <1>4. QED
    BY <1>1, <1>2, <1>3, EnvStep DEF chainVars, history, Core, TypeOK

LEMMA AbortCore ==
    ASSUME Core, NEW c \in Calls, Abort(c)
    PROVE  Core'
  <1>1. World' \in Worlds /\ Evolves(World, World') /\ SentAsPreviewed'
    BY QuietStep DEF Abort, chainVars, envVars
  <1>2. calls' \in [Calls -> CallSet] /\ \A d \in Calls : CallGood(calls'[d], World')
    BY <1>1, CallsEvolve DEF Abort
  <1>3. file' \in StateSet /\ Good(file', World')
    BY <1>1, CoreFacts, GoodEvolves DEF Abort, Core, TypeOK, CopiesGood
  <1>4. changes' \in 0 .. MaxChanges
    BY WithdrawAllAssumption DEF Abort, Spend, Core, TypeOK
  <1>5. disturbed' \in SUBSET (Previews \union {NoPreview})
    BY CoreFacts DEF Abort, Core, TypeOK, CallSet
  <1>6. QED
    BY <1>1, <1>2, <1>3, <1>4, <1>5, CoreStep
    DEF Abort, chainVars, envVars, Core, TypeOK

LEMMA RestartCore ==
    ASSUME Core, Restart
    PROVE  Core'
  <1>1. /\ file' \in {file, Torn} /\ overwritten' \in {overwritten, TRUE}
        /\ calls' = [c \in Calls |-> NoCall]
        /\ disturbed' = disturbed \union Executing
        /\ paused' = pausedFile
        /\ resumed' = (resumed \/ (paused /\ ~pausedFile))
        /\ UNCHANGED <<pausedFile, truthOk, expired, unpaused, chainVars, plans, asked>>
    BY DEF Restart
  <1>2. changes' \in 0 .. MaxChanges
    BY WithdrawAllAssumption DEF Restart, Core, TypeOK
  <1>3. /\ paused' \in BOOLEAN /\ resumed' \in BOOLEAN
        /\ paused \/ resumed => paused' \/ resumed'
    BY <1>1 DEF Core, TypeOK
  <1>4. World' \in Worlds /\ Evolves(World, World')
    BY <1>1, <1>3, CalmStep DEF chainVars
  <1>5. SentAsPreviewed'
    BY <1>1, <1>4, SentStep DEF chainVars
  <1>6. file' \in StateSet /\ Good(file', World')
    BY <1>1, <1>4, CoreFacts, GoodEvolves, DefaultsGood DEF Core, TypeOK, CopiesGood
  <1>7. calls' \in [Calls -> CallSet] /\ \A d \in Calls : CallGood(calls'[d], World')
    BY <1>1, <1>4, NoCallGood
  <1>8. disturbed' \in SUBSET (Previews \union {NoPreview})
    BY <1>1, CoreFacts DEF Executing, Core, TypeOK, CallSet
  <1>9. QED
    BY <1>1, <1>2, <1>3, <1>4, <1>5, <1>6, <1>7, <1>8, CoreStep
    DEF chainVars, Core, TypeOK

LEMMA NextCore == Core /\ [Next]_vars => Core'
  <1> SUFFICES ASSUME Core, [Next]_vars
               PROVE  Core'
    OBVIOUS
  <1>1. CASE UNCHANGED vars
    <2>1. World' = World
      BY <1>1 DEF World, vars
    <2>2. TypeOK' /\ SentAsPreviewed'
      BY <1>1 DEF vars, Core, TypeOK, SentAsPreviewed
    <2>3. QED
      BY <1>1, <2>1, <2>2 DEF vars, Core, CopiesGood
  <1>2. CASE \E d \in Destinations \union {None}, activate, enabled \in BOOLEAN :
                 Configure(d, activate, enabled)
    BY <1>2, ConfigureCore
  <1>3. ASSUME NEW c \in Calls,
               \/ StartPreview(c) \/ ReadBalance(c)
               \/ \E p \in Previews : FinishPreview(c, p)
               \/ \E p \in Previews \union {NoPreview}, confirmed \in BOOLEAN :
                      RefuseExecute(c, p, confirmed)
               \/ \E p \in Previews, dry \in BOOLEAN : StartExecute(c, p, dry)
               \/ ExecutePlanned(c) \/ ExecuteOwnerProof(c) \/ Send(c) \/ Assess(c)
               \/ StartState(c) \/ RefreshItem(c) \/ RefreshFails(c) \/ FinishState(c)
               \/ Abort(c)
        PROVE  Core'
    BY <1>3, StartPreviewCore, ReadBalanceCore, FinishPreviewCore, RefuseExecuteCore,
       StartExecuteCore, ExecutePlannedCore, ExecuteOwnerProofCore, SendCore, AssessCore,
       StartStateCore, RefreshItemCore, RefreshFailsCore, FinishStateCore, AbortCore
  <1>4. CASE \E n \in DOMAIN txs : Mine(n)
    BY <1>4, MineCore
  <1>5. CASE \/ \E t \in TokenSet : Deposit(t)
             \/ TruthMoves
             \/ \E p \in Previews : Expire(p)
    BY <1>5, EnvironmentCore
  <1>6. CASE \E b \in BOOLEAN : SetPaused(b)
    BY <1>6, SetPausedCore
  <1>7. CASE Restart
    BY <1>7, RestartCore
  <1>8. QED
    BY <1>1, <1>2, <1>3, <1>4, <1>5, <1>6, <1>7 DEF Next

(* In every behaviour the file and the copies that the handlers took with  *)
(* _load satisfy the same conditions, and what is sent agrees with them.   *)
THEOREM CoreCorrect == Spec => []Core
  <1>1. Init => Core
    BY InitCore
  <1>2. Core /\ [Next]_vars => Core'
    BY NextCore
  <1>3. QED
    BY <1>1, <1>2, PTL DEF Spec

(* Every variable keeps its type through every handler of the service.     *)
THEOREM TypeCorrect == Spec => []TypeOK
  <1>1. Core => TypeOK
    BY DEF Core
  <1>2. QED
    BY <1>1, CoreCorrect, PTL

(* execute sends only what the confirmed preview showed, to the address it *)
(* showed, whatever is configured, saved or deposited while it awaits.     *)
THEOREM SentAsPreviewedCorrect == Spec => []SentAsPreviewed
  <1>1. Core => SentAsPreviewed
    BY DEF Core
  <1>2. QED
    BY <1>1, CoreCorrect, PTL

(* A wipe on record as sent has paused trading, unless somebody, or a      *)
(* restart, lifted the pause, or an execute of its preview ended between   *)
(* its save and its pause; older copies saved over the file included.      *)
THEOREM PausedAfterWipeCorrect == Spec => []PausedAfterWipe
  <1>1. Core => PausedAfterWipe
    <2> SUFFICES ASSUME Core, file.status \in {"submitted", "completed"},
                        ~paused, ~resumed
                 PROVE  \E i \in DOMAIN file.items :
                            txs[file.items[i].tx].preview \in unpaused
      BY DEF PausedAfterWipe
    <2>1. DOMAIN file.items = 1 .. Len(file.items)
      BY DEF Core, TypeOK, StateSet
    <2>2. World.txs = txs /\ ~World.calm /\ World.unpaused = unpaused
      BY CoreFacts
    <2>3. Excused(file.items, World)
      BY <2>2 DEF Core, CopiesGood, Good, PausedFor
    <2>4. QED
      BY <2>1, <2>2, <2>3 DEF Excused
  <1>2. QED
    BY <1>1, CoreCorrect, PTL

(* execute and the refresh of state() report completed only a wipe whose   *)
(* every previewed item was mined successfully.                            *)
THEOREM CompletedIsMinedCorrect == Spec => []CompletedIsMined
  <1>1. Core => CompletedIsMined
    <2> SUFFICES ASSUME Core, file.status = "completed"
                 PROVE  CompletedIsMined
      BY DEF CompletedIsMined
    <2>1. /\ Traced(file.items, World) /\ Whole(file, World) /\ Complete(file)
          /\ World.txs = txs /\ World.plans = plans
          /\ file.items \in Seq(ProofSet)
      BY CoreFacts DEF Core, CopiesGood, Good, TypeOK, StateSet
    <2>2. PICK p \in Previews : AllItemsOf(file.items, p, World)
      BY <2>1 DEF Whole
    <2>3. /\ Len(file.items) = Len(plans[p].items) /\ Len(file.items) # 0
          /\ DOMAIN file.items = 1 .. Len(file.items)
      BY <2>1, <2>2 DEF AllItemsOf
    <2>4. plans[p].items # << >>
      BY <2>3
    <2>5. ASSUME NEW i \in 1 .. Len(file.items)
          PROVE  /\ txs[file.items[i].tx].preview = p
                 /\ txs[file.items[i].tx].item = i
                 /\ txs[file.items[i].tx].state = "mined_success"
      <3>1. file.items[i].status = "mined_success"
        BY <2>1 DEF Complete
      <3>2. file.items[i].status \in {"pending", txs[file.items[i].tx].state}
        BY <2>1 DEF Traced
      <3>3. QED
        BY <2>1, <2>2, <3>1, <3>2 DEF AllItemsOf
    <2>6. QED
      BY <2>3, <2>4, <2>5 DEF CompletedIsMined
  <1>2. QED
    BY <1>1, CoreCorrect, PTL

-----------------------------------------------------------------------------
(* As long as no older copy was saved, a save replaces the file by what    *)
(* its handler made of the file.                                           *)

Kept == Fresh /\ ConfigurationKept

(* The items new withdraw no proof of the items old. *)
Grows(old, new) ==
    \A i \in 1 .. Len(old), j \in 1 .. Len(new) :
        old[i].status # "pending" /\ old[i].tx = new[j].tx => old[i].status = new[j].status

LEMMA GrowsKeeps ==
    ASSUME file \in StateSet, file' \in StateSet, Grows(file.items, file'.items)
    PROVE  NoProofWithdrawn
  <1>1. file.items \in Seq(ProofSet) /\ file'.items \in Seq(ProofSet)
    BY DEF StateSet
  <1>2. SUFFICES ASSUME NEW i \in Proven(file.items), NEW j \in Range(file'.items),
                        i.tx = j.tx
                 PROVE  i.status = j.status
    BY DEF NoProofWithdrawn
  <1>3. PICK a \in DOMAIN file.items : i = file.items[a]
    BY DEF Proven, Range
  <1>4. PICK b \in DOMAIN file'.items : j = file'.items[b]
    BY DEF Range
  <1>5. a \in 1 .. Len(file.items) /\ b \in 1 .. Len(file'.items)
    BY <1>1
  <1>6. i.status # "pending"
    BY DEF Proven
  <1>7. QED
    BY <1>2, <1>3, <1>4, <1>5, <1>6 DEF Grows

(* Items name each transaction once. *)
LEMMA GrowsRefl ==
    ASSUME NEW w \in Worlds, NEW items \in Seq(ProofSet), Traced(items, w)
    PROVE  Grows(items, items)
  <1>1. SUFFICES ASSUME NEW i \in 1 .. Len(items), NEW j \in 1 .. Len(items),
                        items[i].tx = items[j].tx
                 PROVE  i = j
    BY DEF Grows
  <1>2. Len(items) \in Nat /\ items[i].tx \in Nat /\ items[j].tx \in Nat
    <2>1. items[i] \in ProofSet /\ items[j] \in ProofSet
      OBVIOUS
    <2>2. QED
      BY <2>1 DEF ProofSet
  <1>3. i < j \/ j < i \/ i = j
    BY <1>2
  <1>4. QED
    BY <1>1, <1>2, <1>3 DEF Traced

LEMMA FileGrows ==
    ASSUME Core
    PROVE  file \in StateSet /\ file.items \in Seq(ProofSet) /\ Grows(file.items, file.items)
  <1>1. /\ file \in StateSet /\ file.items \in Seq(ProofSet)
        /\ Traced(file.items, World) /\ World \in Worlds
    BY CoreFacts DEF Core, CopiesGood, Good, TypeOK, StateSet
  <1>2. QED
    BY <1>1, GrowsRefl

LEMMA FreshCopy ==
    ASSUME Core, Kept, NEW c \in Calls, calls[c].op # "none",
           ~overwritten, ~calls[c].stale
    PROVE  calls[c].st = file /\ file.status # "torn"
  BY DEF Kept, Fresh, Free

(* A save of what was made of the file. *)
LEMMA KeptSave ==
    ASSUME Core, Kept, NEW c \in Calls, NEW new \in StateSet, NEW kept,
           SaveAndEnd(c, new, kept), asked' = asked,
           ~overwritten /\ ~calls[c].stale =>
               /\ new.status # "torn"
               /\ new.enabled = file.enabled /\ new.approved = file.approved
               /\ Grows(file.items, new.items)
    PROVE  Kept' /\ (~overwritten' => NoProofWithdrawn)
  <1>1. CASE /\ file' = new /\ calls' = Others(c)
             /\ overwritten' = (overwritten \/ calls[c].stale)
    <2>1. \A d \in Calls : ~Free(d)' => calls'[d].stale
      <3>1. ASSUME NEW d \in Calls, calls'[d].op # "none"
            PROVE  calls'[d].stale
        <4>1. d # c /\ calls'[d] = [calls[d] EXCEPT !.stale = ~Free(d)]
          BY <1>1, <3>1 DEF Others, NoCall
        <4>2. calls[d] \in CallSet
          BY CoreFacts
        <4>3. calls'[d].op = calls[d].op /\ calls'[d].stale = ~Free(d)
          BY <4>1, <4>2 DEF CallSet
        <4>4. QED
          BY <3>1, <4>3 DEF Free
      <3>2. QED
        BY <3>1 DEF Free
    <2>2. SUFFICES ASSUME ~overwritten'
                   PROVE  Kept' /\ NoProofWithdrawn
      BY DEF Kept, Fresh, ConfigurationKept
    <2>3. ~overwritten /\ ~calls[c].stale
      BY <1>1, <2>2
    <2>4. file'.status # "torn" /\ NoProofWithdrawn
      BY <1>1, <2>3, FileGrows, GrowsKeeps
    <2>5. [enabled |-> file'.enabled, approved |-> file'.approved] = asked'
      BY <1>1, <2>3 DEF Kept, ConfigurationKept
    <2>6. QED
      BY <2>1, <2>4, <2>5 DEF Kept, Fresh, ConfigurationKept
  <1>2. CASE file' = file /\ overwritten' = overwritten /\ calls' = Dropped(c)
    <2>1. \A d \in Calls : calls'[d] \in {calls[d], NoCall}
      BY <1>2 DEF Dropped, Core, TypeOK
    <2>2. Fresh'
      BY <1>2, <2>1 DEF Kept, Fresh, Free, NoCall
    <2>3. NoProofWithdrawn
      BY <1>2, FileGrows, GrowsKeeps
    <2>4. QED
      BY <1>2, <2>2, <2>3 DEF Kept, ConfigurationKept
  <1>3. CASE overwritten' = TRUE
    BY <1>3 DEF Kept, Fresh, ConfigurationKept
  <1>4. QED
    BY <1>1, <1>2, <1>3 DEF SaveAndEnd, Saved, SaveFails

(* A step that saves nothing: the requests go on with their copies, end or *)
(* take a copy of the file.                                                *)
LEMMA KeptCall ==
    ASSUME Core, Kept, UNCHANGED <<file, asked, overwritten>>,
           \A d \in Calls : calls'[d].op # "none" /\ ~calls'[d].stale =>
               \/ /\ calls[d].op # "none" /\ ~calls[d].stale
                  /\ calls'[d].st = calls[d].st
               \/ calls'[d].st = Load
    PROVE  Kept' /\ (~overwritten' => NoProofWithdrawn)
  <1>1. NoProofWithdrawn
    BY FileGrows, GrowsKeeps
  <1>2. ASSUME ~overwritten, NEW d \in Calls, calls'[d].op # "none", ~calls'[d].stale
        PROVE  calls'[d].st = file
    BY <1>2, FreshCopy DEF Load, Kept, Fresh
  <1>3. Fresh'
    BY <1>2 DEF Kept, Fresh, Free
  <1>4. QED
    BY <1>1, <1>3 DEF Kept, ConfigurationKept

LEMMA KeptConfigure ==
    ASSUME Core, Kept, NEW d \in Destinations \union {None}, NEW a \in BOOLEAN,
           NEW e \in BOOLEAN, Configure(d, a, e)
    PROVE  Kept' /\ (~overwritten' => NoProofWithdrawn)
  <1> DEFINE y == Configured(Load, d, a, e)
             new == ClearPreviewState(y)
  <1>1. Load \in StateSet
    BY CoreFacts
  <1>2. new.status = Load.status /\ new.items = Load.items /\ new \in StateSet
    <2>1. new \in StateSet
      BY <1>1, CoreFacts, ConfiguredGood
    <2>2. y \in StateSet /\ y.status = Load.status /\ y.items = Load.items
      BY <1>1 DEF Configured, StateSet
    <2> HIDE DEF y
    <2>3. QED
      BY <2>1, <2>2 DEF ClearPreviewState, StateSet
  <1>3. CASE /\ file' = new
             /\ calls' = [c \in Calls |-> [calls[c] EXCEPT !.stale = ~Free(c)]]
             /\ asked' = [enabled |-> file'.enabled, approved |-> file'.approved]
             /\ UNCHANGED overwritten
    <2> HIDE DEF new
    <2>1. ASSUME NEW c \in Calls, calls'[c].op # "none"
          PROVE  calls'[c].stale
      <3>1. calls[c] \in CallSet /\ calls'[c] = [calls[c] EXCEPT !.stale = ~Free(c)]
        BY <1>3, CoreFacts
      <3>2. calls'[c].op = calls[c].op /\ calls'[c].stale = ~Free(c)
        BY <3>1 DEF CallSet
      <3>3. QED
        BY <2>1, <3>2 DEF Free
    <2>2. ConfigurationKept'
      BY <1>3 DEF ConfigurationKept
    <2>3. ~overwritten => file'.status # "torn" /\ file'.items = file.items
      BY <1>2, <1>3 DEF Kept, Fresh, Load
    <2>4. Fresh'
      BY <1>3, <2>1, <2>3 DEF Fresh, Free
    <2>5. ~overwritten => NoProofWithdrawn
      BY <1>2, <1>3, <2>3, FileGrows, GrowsKeeps
    <2>6. QED
      BY <1>3, <2>2, <2>4, <2>5 DEF Kept
  <1>4. CASE overwritten' = TRUE
    BY <1>4 DEF Kept, Fresh, ConfigurationKept
  <1>5. CASE UNCHANGED <<file, overwritten, calls, asked>>
    BY <1>5, KeptCall
  <1>6. QED
    BY <1>3, <1>4, <1>5 DEF Configure, SaveFails

(* The steps of a request that save nothing. *)
LEMMA KeptGoesOn ==
    ASSUME Core, Kept, NEW c \in Calls, NEW k,
           calls' = [calls EXCEPT ![c] = k], UNCHANGED <<file, asked, overwritten>>,
           \/ k.st = Load
           \/ /\ k.op = calls[c].op /\ k.stale = calls[c].stale
              /\ k.st = calls[c].st
    PROVE  Kept' /\ (~overwritten' => NoProofWithdrawn)
  <1>1. \A d \in Calls : calls'[d] = IF d = c THEN k ELSE calls[d]
    BY DEF Core, TypeOK
  <1>2. QED
    BY <1>1, KeptCall

LEMMA KeptStarts ==
    ASSUME Core, Kept, NEW c \in Calls,
           \/ StartPreview(c)
           \/ \E p \in Previews, dry \in BOOLEAN : StartExecute(c, p, dry)
           \/ StartState(c)
    PROVE  Kept' /\ (~overwritten' => NoProofWithdrawn)
  <1>1. NoCall \in CallSet /\ Load \in StateSet
    BY CoreFacts, NoCallGood
  <1>2. CASE StartPreview(c)
    <2> DEFINE k == [NoCall EXCEPT !.op = "preview", !.at = "plan", !.st = Load,
                                   !.reason = BlockReason(Load)]
    <2>1. k.st = Load
      BY <1>1 DEF CallSet
    <2>2. calls' = [calls EXCEPT ![c] = k] /\ UNCHANGED <<file, asked, overwritten>>
      BY <1>2 DEF StartPreview, history
    <2> HIDE DEF k
    <2>3. QED
      BY <2>1, <2>2, KeptGoesOn
  <1>3. ASSUME NEW p \in Previews, NEW dry \in BOOLEAN, StartExecute(c, p, dry)
        PROVE  Kept' /\ (~overwritten' => NoProofWithdrawn)
    <2> DEFINE k == [NoCall EXCEPT !.op = "execute", !.at = "plan", !.st = Load, !.preview = p,
                                   !.dry = dry, !.reason = BlockReason(Load)]
    <2>1. k.st = Load
      BY <1>1 DEF CallSet
    <2>2. calls' = [calls EXCEPT ![c] = k] /\ UNCHANGED <<file, asked, overwritten>>
      BY <1>3 DEF StartExecute
    <2> HIDE DEF k
    <2>3. QED
      BY <2>1, <2>2, KeptGoesOn
  <1>4. CASE StartState(c)
    <2> DEFINE k == [NoCall EXCEPT !.op = "state", !.at = "refresh", !.st = Load]
    <2>1. k.st = Load
      BY <1>1 DEF CallSet
    <2>2. calls' = [calls EXCEPT ![c] = k] /\ UNCHANGED <<file, asked, overwritten>>
      BY <1>4 DEF StartState, history
    <2> HIDE DEF k
    <2>3. QED
      BY <2>1, <2>2, KeptGoesOn
  <1>5. QED
    BY <1>2, <1>3, <1>4

LEMMA KeptReads ==
    ASSUME Core, Kept, NEW c \in Calls,
           ReadBalance(c) \/ RefreshItem(c) \/ RefreshFails(c)
    PROVE  Kept' /\ (~overwritten' => NoProofWithdrawn)
  <1>1. calls[c] \in CallSet /\ calls \in [Calls -> CallSet]
    BY CoreFacts DEF Core, TypeOK
  <1>2. CASE ReadBalance(c)
    <2>1. PICK seen, read : calls' = [calls EXCEPT ![c].seen = seen, ![c].read = read]
      BY <1>2 DEF ReadBalance, ReadRow
    <2> DEFINE k == [calls[c] EXCEPT !.seen = seen, !.read = read]
    <2>2. k.op = calls[c].op /\ k.stale = calls[c].stale /\ k.st = calls[c].st
      BY <1>1 DEF CallSet
    <2>3. calls' = [calls EXCEPT ![c] = k] /\ UNCHANGED <<file, asked, overwritten>>
      BY <1>1, <1>2, <2>1 DEF ReadBalance, history, CallSet
    <2> HIDE DEF k
    <2>4. QED
      BY <2>2, <2>3, KeptGoesOn
  <1>3. CASE RefreshItem(c) \/ RefreshFails(c)
    <2>1. PICK items : calls' = [calls EXCEPT ![c].items = items]
      BY <1>3 DEF RefreshItem, RefreshFails
    <2> DEFINE k == [calls[c] EXCEPT !.items = items]
    <2>2. k.op = calls[c].op /\ k.stale = calls[c].stale /\ k.st = calls[c].st
      BY <1>1 DEF CallSet
    <2>3. calls' = [calls EXCEPT ![c] = k] /\ UNCHANGED <<file, asked, overwritten>>
      BY <1>1, <1>3, <2>1 DEF RefreshItem, RefreshFails, history, CallSet
    <2> HIDE DEF k
    <2>4. QED
      BY <2>2, <2>3, KeptGoesOn
  <1>4. QED
    BY <1>2, <1>3

(* The saves of a request that has sent nothing. *)
LEMMA KeptBlocked ==
    ASSUME Core, Kept, NEW c \in Calls, SaveAndEnd(c, Blocked(Load), {}), asked' = asked
    PROVE  Kept' /\ (~overwritten' => NoProofWithdrawn)
  <1> DEFINE new == Blocked(Load)
  <1>1. Load \in StateSet /\ new \in StateSet
    BY CoreFacts, BlockedGood
  <1>2. /\ new.status = "execute_blocked" /\ new.items = << >>
        /\ new.enabled = Load.enabled /\ new.approved = Load.approved
    BY <1>1 DEF Blocked, StateSet
  <1>3. SaveAndEnd(c, new, {})
    OBVIOUS
  <1> HIDE DEF new
  <1>4. Len(<< >>) = 0 /\ Grows(file.items, new.items)
    BY <1>2 DEF Grows
  <1>5. ~overwritten => Load = file
    BY DEF Kept, Fresh, Load
  <1>6. QED
    BY <1>1, <1>2, <1>3, <1>4, <1>5, KeptSave

LEMMA KeptStops ==
    ASSUME Core, Kept, NEW c \in Calls, calls[c].op # "none",
           SaveAndEnd(c, Blocked(calls[c].st), {}), asked' = asked
    PROVE  Kept' /\ (~overwritten' => NoProofWithdrawn)
  <1> DEFINE new == Blocked(calls[c].st)
  <1>1. calls[c].st \in StateSet /\ new \in StateSet
    BY CoreFacts, StopBlocked DEF CallSet
  <1>2. /\ new.status = "execute_blocked" /\ new.items = << >>
        /\ new.enabled = calls[c].st.enabled /\ new.approved = calls[c].st.approved
    BY <1>1 DEF Blocked, StateSet
  <1>3. SaveAndEnd(c, new, {})
    OBVIOUS
  <1> HIDE DEF new
  <1>4. Len(<< >>) = 0 /\ Grows(file.items, new.items)
    BY <1>2 DEF Grows
  <1>5. QED
    BY <1>1, <1>2, <1>3, <1>4, FreshCopy, KeptSave

(* The record of an execute names only transactions after the nonce that   *)
(* it read, and so none that the file knew.                                *)
LEMMA KeptRecords ==
    ASSUME Core, Kept, NEW c \in Calls, calls[c].op = "execute",
           NEW status \in Statuses \ {"torn"}, NEW items \in Seq(ProofSet), NEW kept,
           NEW new, new = Recorded(calls[c].st, status, items, calls[c].preview),
           SaveAndEnd(c, new, kept), asked' = asked,
           \A i \in 1 .. Len(items) :
               /\ calls[c].at \in {"send", "assess"}
               /\ items[i].tx = calls[c].nonce + i
    PROVE  Kept' /\ (~overwritten' => NoProofWithdrawn)
  <1>1. /\ calls[c] \in CallSet /\ CallGood(calls[c], World)
        /\ calls[c].st \in StateSet /\ calls[c].preview \in Previews \union {NoPreview}
        /\ calls[c].nonce \in Nat
    BY CoreFacts DEF CallSet
  <1> DEFINE x == calls[c].st
             p == calls[c].preview
             r == [status |-> status, items |-> items]
  <1>2. r \in ResultSet
    BY DEF ResultSet
  <1>3. new = [x EXCEPT !.status = status, !.items = items, !.executed = p, !.result = r]
    BY DEF Recorded
  <1> HIDE DEF x, p, r
  <1>4. /\ new \in StateSet /\ new.status = status /\ new.items = items
        /\ new.enabled = x.enabled /\ new.approved = x.approved
    BY <1>1, <1>2, <1>3 DEF StateSet, x, p
  <1>5. ASSUME x = file
        PROVE  Grows(file.items, items)
    <2>1. SUFFICES ASSUME NEW i \in 1 .. Len(file.items), NEW j \in 1 .. Len(items),
                          file.items[i].tx = items[j].tx
                   PROVE  FALSE
      BY DEF Grows
    <2>2. file.items[i].tx <= calls[c].nonce
      BY <1>1, <1>5, <2>1 DEF CallGood, Sending, x
    <2>3. items[j].tx = calls[c].nonce + j /\ Len(items) \in Nat
      OBVIOUS
    <2>4. file.items[i] \in ProofSet
      BY FileGrows
    <2>5. file.items[i].tx \in Nat
      BY <2>4 DEF ProofSet
    <2>6. QED
      BY <1>1, <2>1, <2>2, <2>3, <2>5
  <1>6. QED
    BY <1>4, <1>5, FreshCopy, KeptSave DEF x

LEMMA KeptFinishPreview ==
    ASSUME Core, Kept, NEW c \in Calls, NEW p \in Previews, FinishPreview(c, p)
    PROVE  Kept' /\ (~overwritten' => NoProofWithdrawn)
  <1> DEFINE x == calls[c].st
             plan == Plan(c)
             new == Previewed(c, p)
  <1>1. /\ calls[c].op = "preview" /\ x \in StateSet /\ plan \in PlanSet
        /\ SaveAndEnd(c, new, {}) /\ asked' = asked
    BY CoreFacts, PlanFacts DEF FinishPreview, CallSet
  <1>2. NoResult \in ResultSet
    <2>1. << >> \in Seq(ProofSet)
      OBVIOUS
    <2>2. QED
      BY <2>1 DEF NoResult, ResultSet
  <1>3. new = [x EXCEPT !.preview = p, !.digest = plan,
                        !.executed = NoPreview, !.result = NoResult,
                        !.status = IF plan.reason = "ok" THEN "preview_ready"
                                   ELSE "preview_blocked"]
    BY DEF Previewed
  <1> HIDE DEF x, plan, new
  <1>4. /\ new \in StateSet /\ new.items = x.items /\ new.status # "torn"
        /\ new.enabled = x.enabled /\ new.approved = x.approved
    BY <1>1, <1>2, <1>3 DEF StateSet, Statuses
  <1>5. x = file => Grows(file.items, new.items)
    BY <1>4, FileGrows
  <1>6. QED
    BY <1>1, <1>4, <1>5, FreshCopy, KeptSave DEF x

(* A refresh keeps what is proven. *)
LEMMA KeptFinishState ==
    ASSUME Core, Kept, NEW c \in Calls, FinishState(c)
    PROVE  Kept' /\ (~overwritten' => NoProofWithdrawn)
  <1> DEFINE k == calls[c]
             x == k.st
             items == k.items
             status == SubmittedResultStatus(items)
             r == [status |-> status, items |-> items]
             new == Refreshed(x, items)
  <1>1. /\ k.at = "refresh" /\ Len(items) = Len(x.items)
        /\ SaveAndEnd(c, new, {}) /\ asked' = asked
    BY DEF FinishState
  <1>2. k \in CallSet /\ CallGood(k, World) /\ World \in Worlds
    BY CoreFacts
  <1>3. /\ k.op = "state" /\ Follows(items, x.items) /\ x \in StateSet
        /\ items \in Seq(ProofSet) /\ x.status = "submitted"
    BY <1>1, RefreshFacts
  <1>4. new \in StateSet
    BY <1>1, <1>2, RefreshedGood
  <1>5. status # "torn"
    BY <1>3, ExecutedStatusCompleted
  <1>6. /\ new.items \in {items, x.items} /\ new.status # "torn"
        /\ new.enabled = x.enabled /\ new.approved = x.approved
    <2>1. CASE items = x.items
      BY <1>3, <2>1 DEF Refreshed
    <2>2. CASE items # x.items
      <3>1. new = [x EXCEPT !.status = status, !.items = items,
                            !.result = IF x.executed = NoPreview THEN @ ELSE r]
        BY <2>2 DEF Refreshed
      <3> HIDE DEF new, r, x, items, status
      <3>2. QED
        BY <1>3, <1>5, <3>1 DEF StateSet
    <2>3. QED
      BY <2>1, <2>2
  <1>7. Grows(x.items, x.items)
    BY <1>2, <1>3, GrowsRefl DEF CallGood, Good, StateSet
  <1>8. Grows(x.items, items)
    <2>1. SUFFICES ASSUME NEW i \in 1 .. Len(x.items), NEW j \in 1 .. Len(items),
                          x.items[i].status # "pending", x.items[i].tx = items[j].tx
                   PROVE  x.items[i].status = items[j].status
      BY DEF Grows
    <2>2. items[j].tx = x.items[j].tx
      BY <1>3 DEF Follows
    <2>3. x.items[j].status = x.items[i].status
      BY <1>1, <1>7, <2>1, <2>2 DEF Grows
    <2>4. QED
      BY <1>3, <2>1, <2>3 DEF Follows
  <1> HIDE DEF new
  <1>9. QED
    BY <1>1, <1>3, <1>4, <1>6, <1>7, <1>8, FreshCopy, KeptSave

LEMMA KeptExecutes ==
    ASSUME Core, Kept, NEW c \in Calls, ExecutePlanned(c) \/ ExecuteOwnerProof(c)
    PROVE  Kept' /\ (~overwritten' => NoProofWithdrawn)
  <1>1. calls[c] \in CallSet /\ CallGood(calls[c], World) /\ calls \in [Calls -> CallSet]
    BY CoreFacts DEF Core, TypeOK
  <1>2. calls[c].op = "execute" /\ asked' = asked
    BY <1>1 DEF ExecutePlanned, ExecuteOwnerProof, CallGood, Shape
  <1>3. CASE SaveAndEnd(c, Blocked(calls[c].st), {})
    BY <1>2, <1>3, KeptStops
  <1>4. CASE SaveAndEnd(c, Recorded(calls[c].st, "prepared", << >>, calls[c].preview), {})
    <2> DEFINE empty == << >>
               status == "prepared"
               kept == {}
               new == Recorded(calls[c].st, status, empty, calls[c].preview)
    <2>1. new = Recorded(calls[c].st, status, empty, calls[c].preview)
      OBVIOUS
    <2>2. SaveAndEnd(c, new, kept)
      BY <1>4
    <2>3. empty \in Seq(ProofSet) /\ Len(empty) = 0
      OBVIOUS
    <2>4. status \in Statuses \ {"torn"}
      BY DEF Statuses
    <2> HIDE DEF new, empty, status, kept
    <2>5. \A i \in 1 .. Len(empty) :
              /\ calls[c].at \in {"send", "assess"}
              /\ empty[i].tx = calls[c].nonce + i
      BY <2>3
    <2>6. QED
      BY <1>2, <2>1, <2>2, <2>3, <2>4, <2>5, KeptRecords
  <1>5. CASE /\ UNCHANGED <<file, overwritten>>
             /\ \/ calls' = [calls EXCEPT ![c].at = "owner"]
                \/ calls' = [calls EXCEPT ![c].at = "send", ![c].nonce = Len(txs)]
    <2>1. PICK at, nonce : calls' = [calls EXCEPT ![c].at = at, ![c].nonce = nonce]
      <3>1. CASE calls' = [calls EXCEPT ![c].at = "owner"]
        <4>1. calls' = [calls EXCEPT ![c].at = "owner", ![c].nonce = calls[c].nonce]
          BY <1>1, <3>1 DEF CallSet
        <4>2. QED
          BY <4>1
      <3>2. QED
        BY <1>5, <3>1
    <2> DEFINE k == [calls[c] EXCEPT !.at = at, !.nonce = nonce]
    <2>2. k.op = calls[c].op /\ k.stale = calls[c].stale /\ k.st = calls[c].st
      BY <1>1 DEF CallSet
    <2>3. calls' = [calls EXCEPT ![c] = k]
      BY <1>1, <2>1 DEF CallSet
    <2> HIDE DEF k
    <2>4. QED
      BY <1>2, <1>5, <2>2, <2>3, KeptGoesOn
  <1>6. QED
    BY <1>3, <1>4, <1>5 DEF ExecutePlanned, ExecuteOwnerProof

(* The record of an execute that failed. *)
LEMMA KeptFailed ==
    ASSUME Core, Kept, NEW c \in Calls, calls[c].at \in {"send", "assess"}, NEW kept,
           SaveAndEnd(c, Recorded(calls[c].st, "execute_failed", calls[c].items,
                                  calls[c].preview), kept), asked' = asked
    PROVE  Kept' /\ (~overwritten' => NoProofWithdrawn)
  <1> DEFINE items == calls[c].items
             new == Recorded(calls[c].st, "execute_failed", items, calls[c].preview)
  <1>1. /\ calls[c].op = "execute" /\ CallGood(calls[c], World)
        /\ items \in Seq(ProofSet)
    BY SendFacts
  <1>2. \A i \in 1 .. Len(items) : items[i].tx = calls[c].nonce + i
    BY <1>1 DEF CallGood, Sending
  <1>3. "execute_failed" \in Statuses \ {"torn"}
    BY DEF Statuses
  <1>4. SaveAndEnd(c, new, kept)
    OBVIOUS
  <1>5. new = Recorded(calls[c].st, "execute_failed", items, calls[c].preview)
    OBVIOUS
  <1> HIDE DEF new, items
  <1>6. QED
    BY <1>1, <1>2, <1>3, <1>4, <1>5, KeptRecords

LEMMA KeptSend ==
    ASSUME Core, Kept, NEW c \in Calls, Send(c)
    PROVE  Kept' /\ (~overwritten' => NoProofWithdrawn)
  <1>1. calls[c].at = "send" /\ asked' = asked
    BY DEF Send
  <1>2. CASE SendFailed(c)
    BY <1>1, <1>2, KeptFailed DEF SendFailed
  <1>3. CASE calls' = [calls EXCEPT ![c].at = "assess"] /\ UNCHANGED <<file, overwritten>>
    <2> DEFINE k == [calls[c] EXCEPT !.at = "assess"]
    <2>1. k.op = calls[c].op /\ k.stale = calls[c].stale /\ k.st = calls[c].st
      BY <1>1, SendFacts DEF CallSet
    <2>2. calls' = [calls EXCEPT ![c] = k]
      BY <1>1, <1>3, SendFacts DEF CallSet
    <2> HIDE DEF k
    <2>3. QED
      BY <1>1, <1>3, <2>1, <2>2, KeptGoesOn
  <1>4. QED
    BY <1>2, <1>3 DEF Send

LEMMA KeptAssess ==
    ASSUME Core, Kept, NEW c \in Calls, Assess(c)
    PROVE  Kept' /\ (~overwritten' => NoProofWithdrawn)
  <1>1. calls[c].at = "assess" /\ asked' = asked
    BY DEF Assess
  <1>2. PICK proof \in Proofs(ItemNonce(c) + 1) :
         LET items == Append(calls[c].items,
                             [tx |-> ItemNonce(c) + 1, status |-> proof])
             p == calls[c].preview IN
         \/ SaveAndEnd(c, Recorded(calls[c].st, "execute_failed", calls[c].items, p), {p})
         \/ /\ calls' = [calls EXCEPT ![c].at = "send", ![c].items = items]
            /\ UNCHANGED <<file, overwritten>>
         \/ AssessEnds(c, Recorded(calls[c].st, ExecutedStatus(items), items, p))
    BY DEF Assess
  <1> DEFINE e == [tx |-> ItemNonce(c) + 1, status |-> proof]
             items == Extended(calls[c].items, e)
             p == calls[c].preview
  <1>3. \/ SaveAndEnd(c, Recorded(calls[c].st, "execute_failed", calls[c].items, p), {p})
        \/ /\ calls' = [calls EXCEPT ![c].at = "send", ![c].items = items]
           /\ UNCHANGED <<file, overwritten>>
        \/ SaveAndEnd(c, Recorded(calls[c].st, ExecutedStatus(items), items, p), {p})
    BY <1>2, AssessSaves DEF Extended
  <1> HIDE DEF e, items
  <1>4. e = [tx |-> ItemNonce(c) + 1, status |-> proof] /\ items = Extended(calls[c].items, e)
    BY DEF e, items
  <1>5. /\ items \in Seq(ProofSet)
        /\ \A i \in 1 .. Len(items) : items[i].tx = calls[c].nonce + i
    BY <1>1, <1>4, AssessedItems
  <1>6. CASE SaveAndEnd(c, Recorded(calls[c].st, "execute_failed", calls[c].items, p), {p})
    BY <1>1, <1>6, KeptFailed
  <1>7. CASE /\ calls' = [calls EXCEPT ![c].at = "send", ![c].items = items]
             /\ UNCHANGED <<file, overwritten>>
    <2> DEFINE k == [calls[c] EXCEPT !.at = "send", !.items = items]
    <2>1. k.op = calls[c].op /\ k.stale = calls[c].stale /\ k.st = calls[c].st
      BY <1>1, SendFacts DEF CallSet
    <2>2. calls' = [calls EXCEPT ![c] = k]
      BY <1>1, <1>7, SendFacts DEF CallSet
    <2> HIDE DEF k
    <2>3. QED
      BY <1>1, <1>7, <2>1, <2>2, KeptGoesOn
  <1>8. CASE SaveAndEnd(c, Recorded(calls[c].st, ExecutedStatus(items), items, p), {p})
    <2> DEFINE status == ExecutedStatus(items)
               new == Recorded(calls[c].st, status, items, p)
    <2>1. status \in Statuses \ {"torn"}
      BY <1>5, ExecutedStatusCompleted DEF Statuses
    <2> HIDE DEF status
    <2>2. new = Recorded(calls[c].st, status, items, calls[c].preview)
      OBVIOUS
    <2>3. SaveAndEnd(c, new, {p})
      BY <1>8 DEF status
    <2> HIDE DEF new
    <2>4. QED
      BY <1>1, <1>5, <2>1, <2>2, <2>3, SendFacts, KeptRecords
  <1>9. QED
    BY <1>3, <1>6, <1>7, <1>8

LEMMA KeptEnds ==
    ASSUME Core, Kept, Restart \/ \E c \in Calls : Abort(c)
    PROVE  Kept' /\ (~overwritten' => NoProofWithdrawn)
  <1>1. CASE overwritten' = TRUE
    BY <1>1 DEF Kept, Fresh, ConfigurationKept
  <1>2. CASE UNCHANGED <<file, overwritten>>
    <2>1. asked' = asked
      BY DEF Restart, Abort
    <2>2. \A d \in Calls : calls'[d] \in {calls[d], NoCall}
      <3>1. CASE Restart
        BY <3>1 DEF Restart
      <3>2. ASSUME NEW c \in Calls, Abort(c)
            PROVE  \A d \in Calls : calls'[d] \in {calls[d], NoCall}
        BY <3>2 DEF Abort, Dropped, Core, TypeOK
      <3>3. QED
        BY <3>1, <3>2
    <2>3. QED
      BY <1>2, <2>1, <2>2, KeptCall DEF NoCall
  <1>3. QED
    BY <1>1, <1>2 DEF Restart, Abort

LEMMA NextKept ==
    ASSUME Core, Kept, [Next]_vars
    PROVE  Kept' /\ (~overwritten' => NoProofWithdrawn)
  <1>1. CASE UNCHANGED <<file, calls, asked, overwritten>>
    BY <1>1, KeptCall
  <1>2. CASE \E d \in Destinations \union {None}, activate, enabled \in BOOLEAN :
                 Configure(d, activate, enabled)
    BY <1>2, KeptConfigure
  <1>3. ASSUME NEW c \in Calls,
               \E p \in Previews \union {NoPreview}, confirmed \in BOOLEAN :
                   RefuseExecute(c, p, confirmed)
        PROVE  Kept' /\ (~overwritten' => NoProofWithdrawn)
    BY <1>3, KeptBlocked DEF RefuseExecute
  <1>4. ASSUME NEW c \in Calls,
               \/ StartPreview(c) \/ ReadBalance(c)
               \/ \E p \in Previews : FinishPreview(c, p)
               \/ \E p \in Previews, dry \in BOOLEAN : StartExecute(c, p, dry)
               \/ ExecutePlanned(c) \/ ExecuteOwnerProof(c) \/ Send(c) \/ Assess(c)
               \/ StartState(c) \/ RefreshItem(c) \/ RefreshFails(c) \/ FinishState(c)
        PROVE  Kept' /\ (~overwritten' => NoProofWithdrawn)
    BY <1>4, KeptStarts, KeptReads, KeptFinishPreview, KeptExecutes, KeptSend, KeptAssess,
       KeptFinishState
  <1>5. CASE Restart \/ \E c \in Calls : Abort(c)
    BY <1>5, KeptEnds
  <1>6. CASE \/ \E n \in DOMAIN txs : Mine(n)
             \/ \E t \in TokenSet : Deposit(t)
             \/ TruthMoves
             \/ \E p \in Previews : Expire(p)
             \/ \E b \in BOOLEAN : SetPaused(b)
    <2>1. UNCHANGED <<file, calls, asked, overwritten>>
      BY <1>6 DEF Mine, Deposit, TruthMoves, Expire, SetPaused, history
    <2>2. QED
      BY <1>1, <2>1
  <1>7. QED
    BY <1>1, <1>2, <1>3, <1>4, <1>5, <1>6 DEF Next, vars

LEMMA InitKept == Init => Kept
  BY DEF Init, Kept, Fresh, ConfigurationKept, DefaultState, Free, NoCall

(* The whole-file saves of previews, executes and refreshes lose no        *)
(* configuration, as long as no handler saved a copy that it loaded before *)
(* another save and no write was torn.                                     *)
THEOREM ConfigurationKeptCorrect == Spec => []ConfigurationKept
  <1>1. Init => Kept
    BY InitKept
  <1>2. Core /\ Kept /\ [Next]_vars => Kept'
    BY NextKept
  <1>3. Kept => ConfigurationKept
    BY DEF Kept
  <1>4. QED
    BY <1>1, <1>2, <1>3, CoreCorrect, PTL DEF Spec

(* ... and no proof of a transaction: _merge_tx_progress, the record of an *)
(* execute and a configuration leave proven items alone or name others.    *)
THEOREM ProofsGrowCorrect == Spec => ProofsGrow
  <1>1. Init => Kept
    BY InitKept
  <1>2. Core /\ Kept /\ [Next]_vars => Kept' /\ [~overwritten' => NoProofWithdrawn]_vars
    BY NextKept
  <1>3. QED
    BY <1>1, <1>2, CoreCorrect, PTL DEF Spec, ProofsGrow

-----------------------------------------------------------------------------
(* Nothing is sent twice.                                                  *)

(* The transactions of one item after one nonce. *)
LEMMA SamePlace ==
    ASSUME NEW m, NEW n, NEW nonce, NEW a, NEW b, m = nonce + a, n = nonce + b, a = b
    PROVE  m = n
  OBVIOUS

(* No execute starts, and what was sent and disturbed stays. *)
Continues ==
    /\ \A d \in Calls : calls'[d].op = "execute" =>
           calls[d].op = "execute" /\ calls'[d].preview = calls[d].preview
    /\ disturbed \subseteq disturbed' /\ DOMAIN txs \subseteq DOMAIN txs'
    /\ \A n \in DOMAIN txs :
           txs'[n].preview = txs[n].preview /\ txs'[n].item = txs[n].item

(* A step after which the executes in progress are some of those before    *)
(* (first condition), the ones that ended left a record or sent nothing    *)
(* (second), the file keeps its records (third), and what was sent was     *)
(* sent by an execute, at its nonce (fourth).                              *)
LEMMA OnceStep ==
    ASSUME Core, Once, disturbed \subseteq disturbed',
           \A d \in Calls : calls'[d].op = "execute" =>
               /\ calls[d].op = "execute" /\ calls'[d].preview = calls[d].preview
               /\ calls[d].at \in {"send", "assess"} =>
                      /\ calls'[d].at \in {"send", "assess"}
                      /\ calls'[d].nonce = calls[d].nonce,
           \A d \in Calls : calls[d].op = "execute" /\ calls[d].at \in {"send", "assess"} =>
               \/ calls'[d].op = "execute" /\ calls'[d].preview = calls[d].preview
               \/ calls[d].preview \in disturbed'
               \/ OnRecord(file', calls[d].preview),
           \A n \in DOMAIN txs :
               txs[n].preview \notin disturbed /\ OnRecord(file, txs[n].preview) =>
                   OnRecord(file', txs[n].preview),
           DOMAIN txs \subseteq DOMAIN txs',
           \A n \in DOMAIN txs :
               txs'[n].preview = txs[n].preview /\ txs'[n].item = txs[n].item,
           \A n \in DOMAIN txs' \ DOMAIN txs : \E c \in Calls :
               /\ calls[c].op = "execute" /\ calls[c].at \in {"send", "assess"}
               /\ txs'[n].preview = calls[c].preview
               /\ n = calls[c].nonce + txs'[n].item
    PROVE  Once' /\ Continues
  <1>1. OneExecute'
    BY DEF Once, OneExecute
  <1>2. ASSUME NEW c \in Calls, calls[c].op = "execute", calls[c].preview \notin disturbed,
               NEW n \in DOMAIN txs', txs'[n].preview = calls[c].preview
        PROVE  calls[c].at \in {"send", "assess"} /\ n = calls[c].nonce + txs'[n].item
    <2>1. CASE n \in DOMAIN txs
      BY <1>2, <2>1 DEF Once, SentByCall
    <2>2. CASE n \notin DOMAIN txs
      <3>1. PICK d \in Calls :
              /\ calls[d].op = "execute" /\ calls[d].at \in {"send", "assess"}
              /\ txs'[n].preview = calls[d].preview
              /\ n = calls[d].nonce + txs'[n].item
        BY <2>2
      <3>2. c = d
        BY <1>2, <3>1 DEF Once, OneExecute
      <3>3. QED
        BY <3>1, <3>2
    <2>3. QED
      BY <2>1, <2>2
  <1>3. SentByCall'
    <2>1. SUFFICES ASSUME NEW c \in Calls, calls'[c].op = "execute",
                          calls'[c].preview \notin disturbed',
                          NEW n \in DOMAIN txs', txs'[n].preview = calls'[c].preview
                   PROVE  /\ calls'[c].at \in {"send", "assess"}
                          /\ n = calls'[c].nonce + txs'[n].item
      BY DEF SentByCall
    <2>2. /\ calls[c].op = "execute" /\ calls'[c].preview = calls[c].preview
          /\ calls[c].preview \notin disturbed
      BY <2>1
    <2>3. calls[c].at \in {"send", "assess"} /\ n = calls[c].nonce + txs'[n].item
      BY <1>2, <2>1, <2>2
    <2>4. QED
      BY <2>1, <2>3
  <1>4. ASSUME NEW n \in DOMAIN txs', NEW c \in Calls, calls[c].op = "execute",
               txs'[n].preview = calls[c].preview
        PROVE  \/ txs'[n].preview \in disturbed' \union Executing'
               \/ OnRecord(file', txs'[n].preview)
    <2>1. CASE calls[c].preview \in disturbed
      BY <1>4, <2>1
    <2>2. CASE calls[c].preview \notin disturbed
      <3>1. calls[c].at \in {"send", "assess"}
        BY <1>2, <1>4, <2>2
      <3>2. CASE calls'[c].op = "execute" /\ calls'[c].preview = calls[c].preview
        BY <1>4, <3>2 DEF Executing
      <3>3. QED
        BY <1>4, <3>1, <3>2
    <2>3. QED
      BY <2>1, <2>2
  <1>5. SentRecorded'
    <2>1. SUFFICES ASSUME NEW n \in DOMAIN txs'
                   PROVE  \/ txs'[n].preview \in disturbed' \union Executing'
                          \/ OnRecord(file', txs'[n].preview)
      BY DEF SentRecorded
    <2>2. CASE n \in DOMAIN txs
      <3>1. CASE txs[n].preview \in disturbed
        BY <2>2, <3>1
      <3>2. CASE txs[n].preview \in Executing
        <4>1. PICK c \in Calls : calls[c].op = "execute" /\ txs[n].preview = calls[c].preview
          BY <3>2 DEF Executing
        <4>2. QED
          BY <1>4, <2>2, <4>1
      <3>3. CASE txs[n].preview \notin disturbed /\ OnRecord(file, txs[n].preview)
        BY <2>2, <3>3
      <3>4. QED
        BY <2>2, <3>1, <3>2, <3>3 DEF Once, SentRecorded
    <2>3. CASE n \notin DOMAIN txs
      BY <1>4, <2>3
    <2>4. QED
      BY <2>2, <2>3
  <1>6. SentOnce'
    <2>1. SUFFICES ASSUME NEW m \in DOMAIN txs', NEW n \in DOMAIN txs',
                          txs'[m].preview = txs'[n].preview, txs'[m].item = txs'[n].item,
                          txs'[m].preview \notin disturbed'
                   PROVE  m = n
      BY DEF SentOnce
    <2>2. CASE m \in DOMAIN txs /\ n \in DOMAIN txs
      BY <2>1, <2>2 DEF Once, SentOnce
    <2>3. CASE \E c \in Calls : calls[c].op = "execute" /\ txs'[m].preview = calls[c].preview
      <3>1. PICK c \in Calls : calls[c].op = "execute" /\ txs'[m].preview = calls[c].preview
        BY <2>3
      <3>2. calls[c].preview \notin disturbed
        BY <2>1, <3>1
      <3>3. m = calls[c].nonce + txs'[m].item
        BY <1>2, <3>1, <3>2
      <3>4. n = calls[c].nonce + txs'[n].item
        <4>1. txs'[n].preview = calls[c].preview
          BY <2>1, <3>1
        <4>2. QED
          BY <1>2, <3>1, <3>2, <4>1
      <3>5. QED
        BY <2>1, <3>3, <3>4, SamePlace
    <2>4. QED
      BY <2>1, <2>2, <2>3
  <1>7. Once'
    BY <1>1, <1>3, <1>5, <1>6 DEF Once
  <1>8. QED
    BY <1>7 DEF Continues

(* The transactions of the same previews and items. *)
LEMMA SameTxs ==
    ASSUME txs' = txs
    PROVE  /\ DOMAIN txs \subseteq DOMAIN txs'
           /\ \A n \in DOMAIN txs :
                  txs'[n].preview = txs[n].preview /\ txs'[n].item = txs[n].item
           /\ \A n \in DOMAIN txs' \ DOMAIN txs : FALSE
  OBVIOUS

LEMMA TxPreview ==
    ASSUME Core, NEW n \in DOMAIN txs
    PROVE  txs[n].preview \in Previews /\ txs[n].preview # NoPreview
  <1>1. txs[n] \in TxSet
    BY DEF Core, TypeOK
  <1>2. QED
    BY <1>1 DEF TxSet, Previews, NoPreview

LEMMA TornOnRecord ==
    ASSUME Core, NEW n \in DOMAIN txs
    PROVE  OnRecord(Torn, txs[n].preview)
  <1>1. Torn.preview = NoPreview
    BY DEF Torn, DefaultState
  <1>2. QED
    BY <1>1, TxPreview DEF OnRecord

(* What the end of request c leaves of the requests. *)
LEMMA EndedCalls ==
    ASSUME Core, NEW c \in Calls, calls' = Others(c) \/ calls' = Dropped(c)
    PROVE  /\ calls'[c].op # "execute"
           /\ \A d \in Calls \ {c} :
                  /\ calls'[d].op = calls[d].op /\ calls'[d].preview = calls[d].preview
                  /\ calls'[d].at = calls[d].at /\ calls'[d].nonce = calls[d].nonce
  <1>1. CASE calls' = Others(c)
    <2>1. calls'[c] = NoCall
      BY <1>1 DEF Others
    <2>2. ASSUME NEW d \in Calls \ {c}
          PROVE  /\ calls'[d].op = calls[d].op /\ calls'[d].preview = calls[d].preview
                 /\ calls'[d].at = calls[d].at /\ calls'[d].nonce = calls[d].nonce
      <3>1. calls'[d] = [calls[d] EXCEPT !.stale = ~Free(d)] /\ calls[d] \in CallSet
        BY <1>1, CoreFacts DEF Others
      <3>2. QED
        BY <3>1 DEF CallSet
    <2>3. QED
      BY <2>1, <2>2 DEF NoCall
  <1>2. CASE calls' = Dropped(c)
    BY <1>2 DEF Dropped, NoCall, Core, TypeOK
  <1>3. QED
    BY <1>1, <1>2

(* A save by request c. *)
LEMMA OnceSave ==
    ASSUME Core, Once, NEW c \in Calls, NEW new, NEW kept, SaveAndEnd(c, new, kept),
           calls[c].op = "execute" /\ calls[c].at \in {"send", "assess"} =>
               calls[c].preview \in kept /\ OnRecord(new, calls[c].preview),
           \A n \in DOMAIN txs :
               txs[n].preview \notin disturbed /\ OnRecord(file, txs[n].preview) =>
                   OnRecord(new, txs[n].preview),
           DOMAIN txs \subseteq DOMAIN txs',
           \A n \in DOMAIN txs :
               txs'[n].preview = txs[n].preview /\ txs'[n].item = txs[n].item,
           \A n \in DOMAIN txs' \ DOMAIN txs : \E d \in Calls :
               /\ calls[d].op = "execute" /\ calls[d].at \in {"send", "assess"}
               /\ txs'[n].preview = calls[d].preview
               /\ n = calls[d].nonce + txs'[n].item
    PROVE  Once' /\ Continues
  <1>1. /\ calls'[c].op # "execute"
        /\ \A d \in Calls \ {c} :
               /\ calls'[d].op = calls[d].op /\ calls'[d].preview = calls[d].preview
               /\ calls'[d].at = calls[d].at /\ calls'[d].nonce = calls[d].nonce
    BY EndedCalls DEF SaveAndEnd, Saved
  <1>2. disturbed \subseteq disturbed'
    BY DEF SaveAndEnd, Saved
  <1>3. \A d \in Calls : calls'[d].op = "execute" =>
            /\ calls[d].op = "execute" /\ calls'[d].preview = calls[d].preview
            /\ calls[d].at \in {"send", "assess"} =>
                   /\ calls'[d].at \in {"send", "assess"}
                   /\ calls'[d].nonce = calls[d].nonce
    BY <1>1
  <1>4. file' = new \/ (file' \in {file, Torn} /\ disturbed' = disturbed \union kept)
    BY DEF SaveAndEnd, Saved, SaveFails
  <1>5. \A d \in Calls : calls[d].op = "execute" /\ calls[d].at \in {"send", "assess"} =>
            \/ calls'[d].op = "execute" /\ calls'[d].preview = calls[d].preview
            \/ calls[d].preview \in disturbed'
            \/ OnRecord(file', calls[d].preview)
    BY <1>1, <1>4
  <1>6. \A n \in DOMAIN txs :
            txs[n].preview \notin disturbed /\ OnRecord(file, txs[n].preview) =>
                OnRecord(file', txs[n].preview)
    BY <1>4, TornOnRecord
  <1>7. QED
    BY <1>2, <1>3, <1>5, <1>6, OnceStep

(* A step that leaves the file and the transactions alone, and in which no *)
(* execute starts or ends.                                                 *)
LEMMA OnceCall ==
    ASSUME Core, Once, disturbed \subseteq disturbed', file' = file, txs' = txs,
           \A d \in Calls :
               /\ calls'[d].op = "execute" <=> calls[d].op = "execute"
               /\ calls[d].op = "execute" =>
                      /\ calls'[d].preview = calls[d].preview
                      /\ calls[d].at \in {"send", "assess"} =>
                             /\ calls'[d].at \in {"send", "assess"}
                             /\ calls'[d].nonce = calls[d].nonce
    PROVE  Once' /\ Continues
  BY SameTxs, OnceStep

(* A request c that goes on as k. *)
LEMMA OnceGoesOn ==
    ASSUME Core, Once, disturbed \subseteq disturbed', file' = file, txs' = txs,
           NEW c \in Calls, NEW k, calls' = [calls EXCEPT ![c] = k],
           k.op = "execute" <=> calls[c].op = "execute",
           calls[c].op = "execute" =>
               /\ k.preview = calls[c].preview
               /\ calls[c].at \in {"send", "assess"} =>
                      k.at \in {"send", "assess"} /\ k.nonce = calls[c].nonce
    PROVE  Once' /\ Continues
  <1>1. \A d \in Calls : calls'[d] = IF d = c THEN k ELSE calls[d]
    BY DEF Core, TypeOK
  <1>2. QED
    BY <1>1, OnceCall

LEMMA OnceConfigure ==
    ASSUME Core, Once, NEW d \in Destinations \union {None}, NEW a \in BOOLEAN,
           NEW e \in BOOLEAN, Configure(d, a, e)
    PROVE  Once' /\ Continues
  <1> DEFINE y == Configured(Load, d, a, e)
             new == ClearPreviewState(y)
  <1>1. new.preview = NoPreview
    <2>1. y \in StateSet
      BY CoreFacts DEF Configured, StateSet
    <2> HIDE DEF y
    <2>2. QED
      BY <2>1 DEF ClearPreviewState, StateSet
  <1>2. file' \in {file, Torn, new} /\ disturbed' = disturbed /\ txs' = txs
    BY DEF Configure, SaveFails, chainVars
  <1>3. ASSUME NEW c \in Calls
        PROVE  /\ calls'[c].op = calls[c].op /\ calls'[c].preview = calls[c].preview
               /\ calls'[c].at = calls[c].at /\ calls'[c].nonce = calls[c].nonce
    <2>1. calls' = calls \/ calls'[c] = [calls[c] EXCEPT !.stale = ~Free(c)]
      BY DEF Configure
    <2>2. calls[c] \in CallSet
      BY CoreFacts
    <2>3. QED
      BY <2>1, <2>2 DEF CallSet
  <1> HIDE DEF new
  <1>4. \A n \in DOMAIN txs : OnRecord(new, txs[n].preview)
    BY <1>1, TxPreview DEF OnRecord
  <1>5. \A n \in DOMAIN txs :
            OnRecord(file, txs[n].preview) => OnRecord(file', txs[n].preview)
    BY <1>2, <1>4, TornOnRecord
  <1>6. QED
    BY <1>2, <1>3, <1>5, SameTxs, OnceStep

(* The requests that go on without a save. *)
LEMMA OnceReads ==
    ASSUME Core, Once, NEW c \in Calls,
           \/ StartPreview(c) \/ ReadBalance(c)
           \/ StartState(c) \/ RefreshItem(c) \/ RefreshFails(c)
    PROVE  Once' /\ Continues
  <1>1. calls[c] \in CallSet /\ calls \in [Calls -> CallSet] /\ NoCall \in CallSet
    BY CoreFacts, NoCallGood DEF Core, TypeOK
  <1>2. disturbed' = disturbed /\ file' = file /\ txs' = txs
    BY DEF StartPreview, ReadBalance, StartState, RefreshItem, RefreshFails, chainVars, history
  <1>3. CASE StartPreview(c)
    <2> DEFINE k == [NoCall EXCEPT !.op = "preview", !.at = "plan", !.st = Load,
                                   !.reason = BlockReason(Load)]
    <2>1. k.op = "preview" /\ calls[c].op = "none"
      BY <1>1, <1>3 DEF CallSet, StartPreview, Free
    <2>2. calls' = [calls EXCEPT ![c] = k]
      BY <1>3 DEF StartPreview
    <2> HIDE DEF k
    <2>3. QED
      BY <1>2, <2>1, <2>2, OnceGoesOn
  <1>4. CASE StartState(c)
    <2> DEFINE k == [NoCall EXCEPT !.op = "state", !.at = "refresh", !.st = Load]
    <2>1. k.op = "state" /\ calls[c].op = "none"
      BY <1>1, <1>4 DEF CallSet, StartState, Free
    <2>2. calls' = [calls EXCEPT ![c] = k]
      BY <1>4 DEF StartState
    <2> HIDE DEF k
    <2>3. QED
      BY <1>2, <2>1, <2>2, OnceGoesOn
  <1>5. CASE ReadBalance(c)
    <2>1. PICK seen, read : calls' = [calls EXCEPT ![c].seen = seen, ![c].read = read]
      BY <1>5 DEF ReadBalance, ReadRow
    <2> DEFINE k == [calls[c] EXCEPT !.seen = seen, !.read = read]
    <2>2. /\ k.op = calls[c].op /\ k.preview = calls[c].preview /\ k.at = calls[c].at
          /\ k.nonce = calls[c].nonce
      BY <1>1 DEF CallSet
    <2>3. calls' = [calls EXCEPT ![c] = k]
      BY <1>1, <2>1 DEF CallSet
    <2> HIDE DEF k
    <2>4. QED
      BY <1>2, <2>2, <2>3, OnceGoesOn
  <1>6. CASE RefreshItem(c) \/ RefreshFails(c)
    <2>1. PICK items : calls' = [calls EXCEPT ![c].items = items]
      BY <1>6 DEF RefreshItem, RefreshFails
    <2> DEFINE k == [calls[c] EXCEPT !.items = items]
    <2>2. /\ k.op = calls[c].op /\ k.preview = calls[c].preview /\ k.at = calls[c].at
          /\ k.nonce = calls[c].nonce
      BY <1>1 DEF CallSet
    <2>3. calls' = [calls EXCEPT ![c] = k]
      BY <1>1, <2>1 DEF CallSet
    <2> HIDE DEF k
    <2>4. QED
      BY <1>2, <2>2, <2>3, OnceGoesOn
  <1>7. QED
    BY <1>3, <1>4, <1>5, <1>6

(* No transaction has the preview that is shown now for the first time. *)
LEMMA OnceFinishPreview ==
    ASSUME Core, Once, NEW c \in Calls, NEW p \in Previews, FinishPreview(c, p)
    PROVE  Once' /\ Continues
  <1> DEFINE new == Previewed(c, p)
  <1>1. /\ calls[c].op = "preview" /\ plans[p] = NoPlan
        /\ SaveAndEnd(c, new, {}) /\ txs' = txs
    BY DEF FinishPreview, chainVars
  <1>2. new.preview = p
    <2>1. calls[c].st \in StateSet
      BY CoreFacts DEF CallSet
    <2>2. QED
      BY <2>1 DEF Previewed, StateSet
  <1>3. \A n \in DOMAIN txs : txs[n].preview # p
    <2>1. \A n \in DOMAIN txs : plans[txs[n].preview].reason = "ok"
      BY DEF Core, SentAsPreviewed
    <2>2. NoPlan.reason # "ok"
      BY DEF NoPlan
    <2>3. QED
      BY <1>1, <2>1, <2>2
  <1> HIDE DEF new
  <1>4. \A n \in DOMAIN txs : OnRecord(new, txs[n].preview)
    BY <1>2, <1>3 DEF OnRecord
  <1>5. QED
    BY <1>1, <1>4, SameTxs, OnceSave

LEMMA OnceRefuse ==
    ASSUME Core, Once, NEW c \in Calls, NEW p, NEW confirmed, RefuseExecute(c, p, confirmed)
    PROVE  Once' /\ Continues
  <1> DEFINE new == Blocked(Load)
  <1>1. SaveAndEnd(c, new, {}) /\ txs' = txs /\ calls[c].op = "none"
    BY DEF RefuseExecute, chainVars, Free
  <1>2. /\ Load \in StateSet
        /\ Load = file \/ Load.preview = NoPreview
    BY CoreFacts DEF Load, DefaultState
  <1>3. new.preview = Load.preview /\ new.executed = Load.executed /\ new.result = Load.result
    BY <1>2 DEF Blocked, StateSet
  <1> HIDE DEF new
  <1>4. \A n \in DOMAIN txs : OnRecord(file, txs[n].preview) => OnRecord(new, txs[n].preview)
    BY <1>2, <1>3, TxPreview DEF OnRecord
  <1>5. QED
    BY <1>1, <1>4, SameTxs, OnceSave

(* The replay of a recorded outcome keeps an execute from starting again. *)
LEMMA OnceStart ==
    ASSUME Core, Once, NEW c \in Calls, NEW p \in Previews, NEW dry \in BOOLEAN,
           StartExecute(c, p, dry)
    PROVE  Once'
  <1> DEFINE k == [NoCall EXCEPT !.op = "execute", !.at = "plan", !.st = Load, !.preview = p,
                                 !.dry = dry, !.reason = BlockReason(Load)]
  <1>1. /\ calls' = [calls EXCEPT ![c] = k] /\ calls[c].op = "none"
        /\ file' = file /\ txs' = txs
        /\ disturbed' = disturbed \union ({p} \intersect Executing)
        /\ p = Load.preview /\ p # NoPreview /\ ~Replayed(Load, p)
    BY DEF StartExecute, chainVars, Free
  <1>2. k.op = "execute" /\ k.preview = p
    BY NoCallGood, CoreFacts DEF CallSet
  <1> HIDE DEF k
  <1>3. \A d \in Calls : calls'[d] = IF d = c THEN k ELSE calls[d]
    BY <1>1 DEF Core, TypeOK
  <1>4. Load = file
    BY <1>1 DEF Load, DefaultState
  <1>5. ASSUME p \notin disturbed', NEW n \in DOMAIN txs
        PROVE  txs[n].preview # p
    <2>1. SUFFICES ASSUME txs[n].preview = p
                   PROVE  FALSE
      OBVIOUS
    <2>2. p \notin disturbed /\ p \notin Executing
      BY <1>1, <1>5
    <2>3. OnRecord(file, p)
      BY <2>1, <2>2 DEF Once, SentRecorded
    <2>4. QED
      BY <1>1, <1>4, <2>3 DEF OnRecord, Replayed
  <1>6. OneExecute'
    <2>1. SUFFICES ASSUME NEW a \in Calls, NEW b \in Calls,
                          calls'[a].op = "execute", calls'[b].op = "execute",
                          calls'[a].preview = calls'[b].preview,
                          calls'[a].preview \notin disturbed'
                   PROVE  a = b
      BY DEF OneExecute
    <2>2. CASE a # c /\ b # c
      BY <1>1, <1>3, <2>1, <2>2 DEF Once, OneExecute
    <2>3. ASSUME NEW d \in Calls, d # c, calls[d].op = "execute", calls[d].preview = p
          PROVE  p \in disturbed'
      BY <1>1, <2>3 DEF Executing
    <2>4. QED
      BY <1>2, <1>3, <2>1, <2>2, <2>3
  <1>7. SentByCall'
    <2>1. SUFFICES ASSUME NEW d \in Calls, calls'[d].op = "execute",
                          calls'[d].preview \notin disturbed',
                          NEW n \in DOMAIN txs, txs[n].preview = calls'[d].preview
                   PROVE  /\ calls'[d].at \in {"send", "assess"}
                          /\ n = calls'[d].nonce + txs[n].item
      BY <1>1 DEF SentByCall
    <2>2. d # c
      BY <1>2, <1>3, <1>5, <2>1
    <2>3. QED
      BY <1>1, <1>3, <2>1, <2>2 DEF Once, SentByCall
  <1>8. SentRecorded'
    <2>1. Executing \subseteq Executing'
      BY <1>1, <1>3 DEF Executing
    <2>2. QED
      BY <1>1, <2>1 DEF Once, SentRecorded
  <1>9. SentOnce'
    BY <1>1 DEF Once, SentOnce
  <1>10. QED
    BY <1>6, <1>7, <1>8, <1>9 DEF Once

(* An execute that has sent nothing. *)
LEMMA UnsentExecute ==
    ASSUME Core, Once, NEW c \in Calls, calls[c].op = "execute",
           calls[c].at \notin {"send", "assess"}, NEW n \in DOMAIN txs,
           txs[n].preview = calls[c].preview
    PROVE  txs[n].preview \in disturbed
  BY DEF Once, SentByCall

(* What execute c saves is about its own preview. *)
LEMMA OwnRecord ==
    ASSUME Core, NEW c \in Calls, calls[c].op = "execute", NEW q,
           NEW new, new.preview = calls[c].st.preview, q # calls[c].preview
    PROVE  OnRecord(new, q)
  <1>1. calls[c].preview = calls[c].st.preview
    BY CoreFacts DEF CallGood, Shape
  <1>2. QED
    BY <1>1 DEF OnRecord

LEMMA OnceExecutes ==
    ASSUME Core, Once, NEW c \in Calls, ExecutePlanned(c) \/ ExecuteOwnerProof(c)
    PROVE  Once' /\ Continues
  <1>1. calls[c] \in CallSet /\ CallGood(calls[c], World) /\ calls \in [Calls -> CallSet]
    BY CoreFacts DEF Core, TypeOK
  <1>2. /\ calls[c].op = "execute" /\ calls[c].at \notin {"send", "assess"}
        /\ txs' = txs /\ calls[c].st \in StateSet
    BY <1>1
    DEF ExecutePlanned, ExecuteOwnerProof, PlanRead, CallGood, Shape, chainVars, CallSet
  <1>3. ASSUME NEW new, new.preview = calls[c].st.preview, SaveAndEnd(c, new, {})
        PROVE  Once' /\ Continues
    <2>1. \A n \in DOMAIN txs :
              txs[n].preview \notin disturbed => OnRecord(new, txs[n].preview)
      BY <1>2, <1>3, UnsentExecute, OwnRecord
    <2>2. QED
      BY <1>2, <1>3, <2>1, SameTxs, OnceSave
  <1>4. CASE SaveAndEnd(c, Blocked(calls[c].st), {})
    <2>1. Blocked(calls[c].st).preview = calls[c].st.preview
      BY <1>2 DEF Blocked, StateSet
    <2>2. QED
      BY <1>3, <1>4, <2>1
  <1>5. CASE SaveAndEnd(c, Recorded(calls[c].st, "prepared", << >>, calls[c].preview), {})
    <2>1. Recorded(calls[c].st, "prepared", << >>, calls[c].preview).preview
            = calls[c].st.preview
      BY <1>2 DEF Recorded, StateSet
    <2>2. QED
      BY <1>3, <1>5, <2>1
  <1>6. CASE /\ UNCHANGED <<file, disturbed>>
             /\ \/ calls' = [calls EXCEPT ![c].at = "owner"]
                \/ calls' = [calls EXCEPT ![c].at = "send", ![c].nonce = Len(txs)]
    <2>1. ASSUME NEW k, calls' = [calls EXCEPT ![c] = k],
                 k.op = "execute", k.preview = calls[c].preview
          PROVE  Once' /\ Continues
      BY <1>2, <1>6, <2>1, OnceGoesOn
    <2>2. CASE calls' = [calls EXCEPT ![c].at = "owner"]
      <3> DEFINE k == [calls[c] EXCEPT !.at = "owner"]
      <3>1. k.op = "execute" /\ k.preview = calls[c].preview
        BY <1>1, <1>2 DEF CallSet
      <3>2. calls' = [calls EXCEPT ![c] = k]
        BY <1>1, <2>2
      <3> HIDE DEF k
      <3>3. QED
        BY <2>1, <3>1, <3>2
    <2>3. CASE calls' = [calls EXCEPT ![c].at = "send", ![c].nonce = Len(txs)]
      <3> DEFINE k == [calls[c] EXCEPT !.at = "send", !.nonce = Len(txs)]
      <3>1. k.op = "execute" /\ k.preview = calls[c].preview
        BY <1>1, <1>2 DEF CallSet
      <3>2. calls' = [calls EXCEPT ![c] = k]
        BY <1>1, <2>3 DEF CallSet
      <3> HIDE DEF k
      <3>3. QED
        BY <2>1, <3>1, <3>2
    <2>4. QED
      BY <1>6, <2>2, <2>3
  <1>7. QED
    BY <1>4, <1>5, <1>6 DEF ExecutePlanned, ExecuteOwnerProof

(* The record that an execute leaves. *)
LEMMA RecordedOnRecord ==
    ASSUME NEW x \in StateSet, NEW status \in Statuses, NEW items, NEW p
    PROVE  /\ OnRecord(Recorded(x, status, items, p), p)
           /\ Recorded(x, status, items, p).preview = x.preview
  <1> DEFINE r == [status |-> status, items |-> items]
             z == Recorded(x, status, items, p)
  <1>1. r # NoResult
    <2>1. r.status # NoResult.status
      BY DEF Statuses, NoResult
    <2>2. QED
      BY <2>1
  <1>2. z.executed = p /\ z.result = r /\ z.preview = x.preview
    <2> HIDE DEF r
    <2>1. z = [x EXCEPT !.status = status, !.items = items, !.executed = p, !.result = r]
      BY DEF Recorded, r
    <2>2. QED
      BY <2>1 DEF StateSet
  <1>3. QED
    BY <1>1, <1>2 DEF OnRecord

(* An execute that ends after it sent. *)
LEMMA OnceRecords ==
    ASSUME Core, Once, NEW c \in Calls, calls[c].at \in {"send", "assess"},
           NEW status \in Statuses, NEW items,
           SaveAndEnd(c, Recorded(calls[c].st, status, items, calls[c].preview),
                      {calls[c].preview}),
           DOMAIN txs \subseteq DOMAIN txs',
           \A n \in DOMAIN txs :
               txs'[n].preview = txs[n].preview /\ txs'[n].item = txs[n].item,
           \A n \in DOMAIN txs' \ DOMAIN txs : \E d \in Calls :
               /\ calls[d].op = "execute" /\ calls[d].at \in {"send", "assess"}
               /\ txs'[n].preview = calls[d].preview
               /\ n = calls[d].nonce + txs'[n].item
    PROVE  Once' /\ Continues
  <1> DEFINE p == calls[c].preview
             new == Recorded(calls[c].st, status, items, p)
             kept == {p}
  <1>1. calls[c].op = "execute" /\ calls[c].st \in StateSet
    BY SendFacts
  <1>2. OnRecord(new, p) /\ new.preview = calls[c].st.preview
    BY <1>1, RecordedOnRecord
  <1>3. SaveAndEnd(c, new, kept) /\ calls[c].preview \in kept
    OBVIOUS
  <1> HIDE DEF new, kept
  <1>4. \A n \in DOMAIN txs : OnRecord(new, txs[n].preview)
    BY <1>1, <1>2, OwnRecord
  <1>5. QED
    BY <1>2, <1>3, <1>4, OnceSave

LEMMA OnceSend ==
    ASSUME Core, Once, NEW c \in Calls, Send(c)
    PROVE  Once' /\ Continues
  <1>1. calls[c].at = "send" /\ UNCHANGED <<plans, paused, resumed, unpaused>>
    BY DEF Send, envVars
  <1>2. "execute_failed" \in Statuses
    BY DEF Statuses
  <1>3. CASE UNCHANGED txs /\ SendFailed(c)
    BY <1>1, <1>2, <1>3, SameTxs, OnceRecords DEF SendFailed
  <1>4. ASSUME Accept(c), ItemNonce(c) = Len(txs)
        PROVE  /\ DOMAIN txs \subseteq DOMAIN txs'
               /\ \A n \in DOMAIN txs :
                      txs'[n].preview = txs[n].preview /\ txs'[n].item = txs[n].item
               /\ \A n \in DOMAIN txs' \ DOMAIN txs :
                      /\ calls[c].op = "execute" /\ calls[c].at \in {"send", "assess"}
                      /\ txs'[n].preview = calls[c].preview
                      /\ n = calls[c].nonce + txs'[n].item
    <2>1. /\ World' \in Worlds /\ Len(txs') = Len(txs) + 1
          /\ \A n \in 1 .. Len(txs) : txs'[n] = txs[n]
          /\ txs'[Len(txs) + 1].preview = calls[c].preview
          /\ txs'[Len(txs) + 1].item = Len(calls[c].items) + 1
      BY <1>1, <1>4, AcceptWorld
    <2>2. txs' \in Seq(TxSet)
      BY <2>1 DEF World, Worlds
    <2>3. /\ txs \in Seq(TxSet) /\ Len(txs) \in Nat /\ calls[c].nonce \in Nat
          /\ Len(calls[c].items) \in Nat /\ calls[c].op = "execute"
      BY <1>1, SendFacts
    <2>4. DOMAIN txs = 1 .. Len(txs) /\ DOMAIN txs' = 1 .. Len(txs) + 1
      BY <2>1, <2>2, <2>3
    <2>5. Len(txs) + 1 = calls[c].nonce + (Len(calls[c].items) + 1)
      BY <1>4, <2>3 DEF ItemNonce
    <2>6. \A n \in DOMAIN txs' \ DOMAIN txs : n = Len(txs) + 1
      BY <2>3, <2>4
    <2>7. DOMAIN txs \subseteq DOMAIN txs'
      BY <2>3, <2>4
    <2>8. QED
      BY <1>1, <2>1, <2>3, <2>4, <2>5, <2>6, <2>7
  <1>5. CASE Accept(c) /\ ItemNonce(c) = Len(txs) /\ SendFailed(c)
    BY <1>1, <1>2, <1>4, <1>5, OnceRecords DEF SendFailed
  <1>6. CASE /\ Accept(c) /\ ItemNonce(c) = Len(txs)
             /\ calls' = [calls EXCEPT ![c].at = "assess"]
             /\ UNCHANGED <<file, disturbed>>
    <2>1. ASSUME NEW d \in Calls
          PROVE  /\ calls'[d].op = calls[d].op /\ calls'[d].preview = calls[d].preview
                 /\ calls'[d].nonce = calls[d].nonce
                 /\ calls[d].at \in {"send", "assess"} => calls'[d].at \in {"send", "assess"}
      <3>1. calls'[d] = IF d = c THEN [calls[c] EXCEPT !.at = "assess"] ELSE calls[d]
        BY <1>6 DEF Core, TypeOK
      <3>2. calls[c] \in CallSet
        BY CoreFacts
      <3>3. QED
        BY <3>1, <3>2 DEF CallSet
    <2>2. QED
      BY <1>4, <1>6, <2>1, OnceStep
  <1>7. QED
    BY <1>3, <1>5, <1>6 DEF Send

LEMMA OnceAssess ==
    ASSUME Core, Once, NEW c \in Calls, Assess(c)
    PROVE  Once' /\ Continues
  <1>1. calls[c].at = "assess" /\ txs' = txs
    BY DEF Assess, chainVars
  <1>2. PICK proof \in Proofs(ItemNonce(c) + 1) :
         LET items == Append(calls[c].items,
                             [tx |-> ItemNonce(c) + 1, status |-> proof])
             p == calls[c].preview IN
         \/ SaveAndEnd(c, Recorded(calls[c].st, "execute_failed", calls[c].items, p), {p})
         \/ /\ calls' = [calls EXCEPT ![c].at = "send", ![c].items = items]
            /\ UNCHANGED <<file, disturbed>>
         \/ AssessEnds(c, Recorded(calls[c].st, ExecutedStatus(items), items, p))
    BY DEF Assess
  <1> DEFINE items == Append(calls[c].items,
                             [tx |-> ItemNonce(c) + 1, status |-> proof])
             p == calls[c].preview
  <1>3. \/ SaveAndEnd(c, Recorded(calls[c].st, "execute_failed", calls[c].items, p), {p})
        \/ /\ calls' = [calls EXCEPT ![c].at = "send", ![c].items = items]
           /\ UNCHANGED <<file, disturbed>>
        \/ SaveAndEnd(c, Recorded(calls[c].st, ExecutedStatus(items), items, p), {p})
    BY <1>2, AssessSaves
  <1> HIDE DEF items
  <1>4. "execute_failed" \in Statuses /\ ExecutedStatus(items) \in Statuses
    BY DEF Statuses, ExecutedStatus
  <1>5. CASE SaveAndEnd(c, Recorded(calls[c].st, "execute_failed", calls[c].items, p), {p})
    BY <1>1, <1>4, <1>5, SameTxs, OnceRecords
  <1>6. CASE SaveAndEnd(c, Recorded(calls[c].st, ExecutedStatus(items), items, p), {p})
    BY <1>1, <1>4, <1>6, SameTxs, OnceRecords
  <1>7. CASE /\ calls' = [calls EXCEPT ![c].at = "send", ![c].items = items]
             /\ UNCHANGED <<file, disturbed>>
    <2> DEFINE k == [calls[c] EXCEPT !.at = "send", !.items = items]
    <2>1. calls[c] \in CallSet
      BY CoreFacts
    <2>2. /\ k.op = calls[c].op /\ k.preview = calls[c].preview
          /\ k.at = "send" /\ k.nonce = calls[c].nonce
      BY <2>1 DEF CallSet
    <2>3. calls' = [calls EXCEPT ![c] = k]
      BY <1>7, <2>1 DEF CallSet
    <2> HIDE DEF k
    <2>4. QED
      BY <1>1, <1>7, <2>2, <2>3, OnceGoesOn
  <1>8. QED
    BY <1>3, <1>5, <1>6, <1>7

(* A refresh, however old its copy, saves a record of the preview that its *)
(* copy would execute.                                                     *)
LEMMA OnceFinishState ==
    ASSUME Core, Once, NEW c \in Calls, FinishState(c)
    PROVE  Once' /\ Continues
  <1> DEFINE new == Refreshed(calls[c].st, calls[c].items)
  <1>1. /\ calls[c].at = "refresh" /\ Len(calls[c].items) = Len(calls[c].st.items)
        /\ SaveAndEnd(c, new, {}) /\ txs' = txs
    BY DEF FinishState, chainVars
  <1>2. calls[c].op = "state"
    BY <1>1, CoreFacts DEF CallGood, Shape
  <1>3. /\ new.preview = calls[c].st.preview /\ new.executed = calls[c].st.preview
        /\ calls[c].st.preview # NoPreview => new.result # NoResult
    BY <1>1, CoreFacts, RefreshedGood
  <1> HIDE DEF new
  <1>4. \A n \in DOMAIN txs : OnRecord(new, txs[n].preview)
    BY <1>3, TxPreview DEF OnRecord
  <1>5. QED
    BY <1>1, <1>2, <1>4, SameTxs, OnceSave

LEMMA OnceAbort ==
    ASSUME Core, Once, NEW c \in Calls, Abort(c)
    PROVE  Once' /\ Continues
  <1>1. /\ calls' = Dropped(c) /\ file' = file /\ txs' = txs
        /\ disturbed' = disturbed \union {calls[c].preview}
    BY DEF Abort, chainVars
  <1>2. /\ calls'[c].op # "execute"
        /\ \A d \in Calls \ {c} :
               /\ calls'[d].op = calls[d].op /\ calls'[d].preview = calls[d].preview
               /\ calls'[d].at = calls[d].at /\ calls'[d].nonce = calls[d].nonce
    BY <1>1, EndedCalls
  <1>3. QED
    BY <1>1, <1>2, SameTxs, OnceStep

LEMMA OnceRestart ==
    ASSUME Core, Once, Restart
    PROVE  Once' /\ Continues
  <1>1. /\ calls' = [c \in Calls |-> NoCall] /\ file' \in {file, Torn} /\ txs' = txs
        /\ disturbed' = disturbed \union Executing
    BY DEF Restart, chainVars
  <1>2. \A d \in Calls : calls'[d].op # "execute"
    BY <1>1 DEF NoCall
  <1>3. \A d \in Calls : calls[d].op = "execute" => calls[d].preview \in disturbed'
    BY <1>1 DEF Executing
  <1>4. \A n \in DOMAIN txs :
            OnRecord(file, txs[n].preview) => OnRecord(file', txs[n].preview)
    BY <1>1, TornOnRecord
  <1>5. QED
    BY <1>1, <1>2, <1>3, <1>4, SameTxs, OnceStep

LEMMA OnceMine ==
    ASSUME Core, Once, NEW n \in DOMAIN txs, Mine(n)
    PROVE  Once' /\ Continues
  <1>1. txs \in Seq(TxSet) /\ txs[n] \in TxSet
    BY DEF Core, TypeOK
  <1>2. PICK s : txs' = [txs EXCEPT ![n].state = s]
    BY DEF Mine
  <1>3. ASSUME NEW m \in DOMAIN txs
        PROVE  txs'[m].preview = txs[m].preview /\ txs'[m].item = txs[m].item
    <2>1. txs'[m] = IF m = n THEN [txs[n] EXCEPT !.state = s] ELSE txs[m]
      BY <1>1, <1>2
    <2>2. QED
      BY <1>1, <2>1 DEF TxSet
  <1>4. DOMAIN txs' = DOMAIN txs
    BY <1>1, <1>2
  <1>5. UNCHANGED <<file, calls, disturbed>>
    BY DEF Mine, history
  <1>6. QED
    BY <1>3, <1>4, <1>5, OnceStep

LEMMA NextOnce ==
    ASSUME Core, Once, [Next]_vars
    PROVE  Once' /\ (Continues \/ \E c \in Calls, p \in Previews, dry \in BOOLEAN :
                                       StartExecute(c, p, dry))
  <1>1. CASE UNCHANGED <<file, calls, txs, disturbed>>
    BY <1>1, OnceCall
  <1>2. CASE \E d \in Destinations \union {None}, activate, enabled \in BOOLEAN :
                 Configure(d, activate, enabled)
    BY <1>2, OnceConfigure
  <1>3. ASSUME NEW c \in Calls,
               \/ StartPreview(c) \/ ReadBalance(c)
               \/ \E p \in Previews : FinishPreview(c, p)
               \/ \E p \in Previews \union {NoPreview}, confirmed \in BOOLEAN :
                      RefuseExecute(c, p, confirmed)
               \/ ExecutePlanned(c) \/ ExecuteOwnerProof(c) \/ Send(c) \/ Assess(c)
               \/ StartState(c) \/ RefreshItem(c) \/ RefreshFails(c) \/ FinishState(c)
               \/ Abort(c)
        PROVE  Once' /\ Continues
    BY <1>3, OnceReads, OnceFinishPreview, OnceRefuse, OnceExecutes, OnceSend,
       OnceAssess, OnceFinishState, OnceAbort
  <1>4. CASE \E n \in DOMAIN txs : Mine(n)
    BY <1>4, OnceMine
  <1>5. CASE \/ \E t \in TokenSet : Deposit(t)
             \/ TruthMoves
             \/ \E p \in Previews : Expire(p)
             \/ \E b \in BOOLEAN : SetPaused(b)
    <2>1. UNCHANGED <<file, calls, txs, disturbed>>
      BY <1>5 DEF Deposit, TruthMoves, Expire, SetPaused, chainVars, history
    <2>2. QED
      BY <1>1, <2>1
  <1>6. CASE Restart
    BY <1>6, OnceRestart
  <1>7. CASE \E c \in Calls, p \in Previews, dry \in BOOLEAN : StartExecute(c, p, dry)
    BY <1>7, OnceStart
  <1>8. QED
    BY <1>1, <1>2, <1>3, <1>4, <1>5, <1>6, <1>7 DEF Next, vars, chainVars

LEMMA InitOnce == Init => Once
  BY DEF Init, Once, OneExecute, SentByCall, SentRecorded, SentOnce, NoCall

(* No item of a preview is sent twice by the record that execute keeps in  *)
(* the file, even when refreshes, refusals, previews and configurations    *)
(* save older copies over it.                                              *)
THEOREM SentOnceCorrect == Spec => []SentOnce
  <1>1. Init => Once
    BY InitOnce
  <1>2. Core /\ Once /\ [Next]_vars => Once'
    BY NextOnce
  <1>3. Once => SentOnce
    BY DEF Once
  <1>4. QED
    BY <1>1, <1>2, <1>3, CoreCorrect, PTL DEF Spec

-----------------------------------------------------------------------------
(* The service implements the wipes of WipeOutcome.                        *)

(* A transaction more, or none. *)
LEMMA NewTransaction ==
    ASSUME Core, [Next]_vars
    PROVE  \/ DOMAIN txs' = DOMAIN txs
           \/ \E c \in Calls : Send(c) /\ Accept(c)
  <1>1. CASE \E n \in DOMAIN txs : Mine(n)
    BY <1>1 DEF Mine
  <1>2. CASE \E c \in Calls : Send(c)
    BY <1>2 DEF Send
  <1>3. CASE txs' = txs
    BY <1>3
  <1>4. ASSUME NEW c \in Calls,
               \/ StartPreview(c) \/ ReadBalance(c)
               \/ \E p \in Previews : FinishPreview(c, p)
               \/ \E p \in Previews \union {NoPreview}, confirmed \in BOOLEAN :
                      RefuseExecute(c, p, confirmed)
               \/ \E p \in Previews, dry \in BOOLEAN : StartExecute(c, p, dry)
               \/ ExecutePlanned(c) \/ ExecuteOwnerProof(c) \/ Assess(c)
               \/ StartState(c) \/ RefreshItem(c) \/ RefreshFails(c) \/ FinishState(c)
               \/ Abort(c)
        PROVE  txs' = txs
    BY <1>4
    DEF StartPreview, ReadBalance, FinishPreview, RefuseExecute, StartExecute, ExecutePlanned,
        ExecuteOwnerProof, Assess, StartState, RefreshItem, RefreshFails, FinishState, Abort,
        chainVars
  <1>5. CASE \/ \E d \in Destinations \union {None}, activate, enabled \in BOOLEAN :
                    Configure(d, activate, enabled)
             \/ \E t \in TokenSet : Deposit(t)
             \/ TruthMoves
             \/ \E p \in Previews : Expire(p)
             \/ \E b \in BOOLEAN : SetPaused(b)
             \/ Restart
    BY <1>5 DEF Configure, Deposit, TruthMoves, Expire, SetPaused, Restart, chainVars
  <1>6. QED
    BY <1>1, <1>2, <1>3, <1>4, <1>5 DEF Next, vars

(* A preview that was shown stays, and what was not is shown by a step     *)
(* that sends nothing.                                                     *)
LEMMA PlansStay ==
    ASSUME Core, [Next]_vars
    PROVE  \/ plans' = plans
           \/ /\ txs' = txs
              /\ \E p \in Previews : plans[p] = NoPlan
                                     /\ \A q \in Previews \ {p} : plans'[q] = plans[q]
  <1>1. ASSUME NEW c \in Calls, NEW p \in Previews, FinishPreview(c, p)
        PROVE  /\ txs' = txs /\ plans[p] = NoPlan
               /\ \A q \in Previews \ {p} : plans'[q] = plans[q]
    BY <1>1 DEF FinishPreview, chainVars, Core, TypeOK
  <1>2. ASSUME NEW c \in Calls,
               \/ StartPreview(c) \/ ReadBalance(c)
               \/ \E p \in Previews \union {NoPreview}, confirmed \in BOOLEAN :
                      RefuseExecute(c, p, confirmed)
               \/ \E p \in Previews, dry \in BOOLEAN : StartExecute(c, p, dry)
               \/ ExecutePlanned(c) \/ ExecuteOwnerProof(c) \/ Send(c) \/ Assess(c)
               \/ StartState(c) \/ RefreshItem(c) \/ RefreshFails(c) \/ FinishState(c)
               \/ Abort(c)
        PROVE  plans' = plans
    BY <1>2
    DEF StartPreview, ReadBalance, RefuseExecute, StartExecute, ExecutePlanned,
        ExecuteOwnerProof, Send, Assess, StartState, RefreshItem, RefreshFails, FinishState,
        Abort, history
  <1>3. CASE \/ \E d \in Destinations \union {None}, activate, enabled \in BOOLEAN :
                    Configure(d, activate, enabled)
             \/ \E n \in DOMAIN txs : Mine(n)
             \/ \E t \in TokenSet : Deposit(t)
             \/ TruthMoves
             \/ \E p \in Previews : Expire(p)
             \/ \E b \in BOOLEAN : SetPaused(b)
             \/ Restart
    BY <1>3 DEF Configure, Mine, Deposit, TruthMoves, Expire, SetPaused, Restart, history
  <1>4. CASE UNCHANGED vars
    BY <1>4 DEF vars
  <1>5. QED
    BY <1>1, <1>2, <1>3, <1>4 DEF Next

(* An execute that starts has sent nothing. *)
LEMMA StartedPlans ==
    ASSUME Core, NEW c \in Calls, NEW p \in Previews, NEW dry \in BOOLEAN,
           StartExecute(c, p, dry)
    PROVE  /\ txs' = txs /\ plans' = plans /\ disturbed \subseteq disturbed'
           /\ \A d \in Calls : calls'[d].op = "execute" =>
                  \/ calls[d].op = "execute" /\ calls'[d].preview = calls[d].preview
                  \/ calls'[d].at \notin {"send", "assess"}
  <1> DEFINE k == [NoCall EXCEPT !.op = "execute", !.at = "plan", !.st = Load, !.preview = p,
                                 !.dry = dry, !.reason = BlockReason(Load)]
  <1>1. /\ calls' = [calls EXCEPT ![c] = k] /\ txs' = txs /\ plans' = plans
        /\ disturbed \subseteq disturbed'
    BY DEF StartExecute, chainVars
  <1>2. k.at = "plan"
    BY DEF NoCall
  <1> HIDE DEF k
  <1>3. \A d \in Calls : calls'[d] = IF d = c THEN k ELSE calls[d]
    BY <1>1 DEF Core, TypeOK
  <1>4. QED
    BY <1>1, <1>2, <1>3

(* Whoever sends after a step was executing the same preview before. *)
LEMMA SenderWasExecuting ==
    ASSUME Core, Once, [Next]_vars
    PROVE  /\ disturbed \subseteq disturbed' /\ DOMAIN txs \subseteq DOMAIN txs'
           /\ \A n \in DOMAIN txs :
                  txs'[n].preview = txs[n].preview /\ txs'[n].item = txs[n].item
           /\ \A d \in Calls : calls'[d].op = "execute" =>
                  \/ calls[d].op = "execute" /\ calls'[d].preview = calls[d].preview
                  \/ calls'[d].at \notin {"send", "assess"}
  <1>1. CASE Continues
    BY <1>1 DEF Continues
  <1>2. CASE \E c \in Calls, p \in Previews, dry \in BOOLEAN : StartExecute(c, p, dry)
    BY <1>2, StartedPlans
  <1>3. QED
    BY <1>1, <1>2, NextOnce

(* The stage and the size of a preview that is not disturbed. *)
StageOf(p) ==
    IF plans[p] = NoPlan THEN "new"
    ELSE IF TxsOf(p) = {} THEN "shown"
    ELSE IF p \in Executing THEN "sending" ELSE "over"
SizeOf(p) == IF plans[p].reason = "ok" THEN Len(plans[p].items) ELSE 0

AsSent ==
    \A p \in Previews : p \notin disturbed =>
        WipeOf(p) = [stage |-> StageOf(p), size |-> SizeOf(p), sent |-> ItemsSent(p)]
Sized == \A p \in Previews : SizeOf(p) \in Nat

LEMMA WipeFacts == Once => AsSent
  <1> SUFFICES ASSUME Once, NEW p \in Previews, p \notin disturbed
               PROVE  WipeOf(p) = [stage |-> StageOf(p), size |-> SizeOf(p),
                                   sent |-> ItemsSent(p)]
    BY DEF AsSent
  <1>1. ~ \E m, n \in TxsOf(p) : m # n /\ txs[m].item = txs[n].item
    BY DEF Once, SentOnce, TxsOf
  <1>2. QED
    BY <1>1 DEF WipeOf, StageOf, SizeOf

(* Nothing was sent of a preview that was not shown. *)
LEMMA UnshownUnsent ==
    Core => \A p \in Previews : plans[p] = NoPlan => TxsOf(p) = {}
  <1> SUFFICES ASSUME Core, NEW p \in Previews, plans[p] = NoPlan
               PROVE  TxsOf(p) = {}
    OBVIOUS
  <1>1. plans[p].reason # "ok"
    BY DEF NoPlan
  <1>2. \A n \in DOMAIN txs : plans[txs[n].preview].reason = "ok"
    BY DEF Core, SentAsPreviewed
  <1>3. QED
    BY <1>1, <1>2 DEF TxsOf

LEMMA SizeType == Core => Sized
  <1> SUFFICES ASSUME Core, NEW p \in Previews
               PROVE  SizeOf(p) \in Nat
    BY DEF Sized
  <1>1. plans[p].items \in Seq(ItemSet)
    BY DEF Core, TypeOK, PlanSet
  <1>2. QED
    BY <1>1 DEF SizeOf

(* ... and after a step. *)
LEMMA NextWipeFacts == (Once => AsSent)' /\ (Core => Sized)'
  BY WipeFacts, SizeType, PTL

(* Without a new transaction the same items are sent. *)
LEMMA SameItems ==
    ASSUME NEW p, DOMAIN txs' = DOMAIN txs,
           \A n \in DOMAIN txs :
               txs'[n].preview = txs[n].preview /\ txs'[n].item = txs[n].item
    PROVE  TxsOf(p)' = TxsOf(p) /\ ItemsSent(p)' = ItemsSent(p)
  <1>1. TxsOf(p)' = TxsOf(p)
    BY DEF TxsOf
  <1>2. \A n \in TxsOf(p) : txs'[n].item = txs[n].item
    BY DEF TxsOf
  <1>3. QED
    BY <1>1, <1>2 DEF ItemsSent

(* A wipe that is over is not resumed. *)
LEMMA StillSending ==
    ASSUME Core, Once, Once', [Next]_vars, NEW p \in Previews, p \notin disturbed',
           TxsOf(p)' # {}, p \in Executing'
    PROVE  p \in Executing
  <1>1. PICK d \in Calls : calls'[d].op = "execute" /\ calls'[d].preview = p
    BY DEF Executing
  <1>2. PICK n \in DOMAIN txs' : txs'[n].preview = p
    BY DEF TxsOf
  <1>3. calls'[d].at \in {"send", "assess"}
    BY <1>1, <1>2 DEF Once, SentByCall
  <1>4. calls[d].op = "execute" /\ calls[d].preview = p
    BY <1>1, <1>3, SenderWasExecuting
  <1>5. QED
    BY <1>4 DEF Executing

(* The move of a preview in a step. *)
Moves(v, w) ==
    \/ w = v \/ Wipe!Show(v, w) \/ Wipe!SendNext(v, w) \/ Wipe!End(v, w) \/ Wipe!Forget(v, w)

(* A step that sends nothing. *)
LEMMA QuietWipe ==
    ASSUME Core, Once, Core', Once', [Next]_vars, NEW p \in Previews,
           p \notin disturbed, p \notin disturbed', DOMAIN txs' = DOMAIN txs
    PROVE  Moves(WipeOf(p), WipeOf(p)')
  <1> DEFINE v == [stage |-> StageOf(p), size |-> SizeOf(p), sent |-> ItemsSent(p)]
  <1>1. WipeOf(p) = v /\ WipeOf(p)' = v'
    <2>1. AsSent /\ AsSent'
      BY WipeFacts, NextWipeFacts
    <2>2. QED
      BY <2>1 DEF AsSent
  <1>2. TxsOf(p)' = TxsOf(p) /\ ItemsSent(p)' = ItemsSent(p)
    BY SenderWasExecuting, SameItems
  <1>3. CASE plans'[p] = plans[p]
    <2>1. SizeOf(p)' = SizeOf(p)
      BY <1>3 DEF SizeOf
    <2>2. CASE StageOf(p)' = StageOf(p)
      BY <1>1, <1>2, <2>1, <2>2 DEF Moves
    <2>3. CASE StageOf(p)' # StageOf(p)
      <3>1. StageOf(p) = "sending" /\ StageOf(p)' = "over"
        BY <1>2, <1>3, <2>3, StillSending DEF StageOf
      <3>2. Wipe!End(v, v')
        BY <1>2, <2>1, <3>1 DEF Wipe!End
      <3>3. QED
        BY <1>1, <3>2 DEF Moves
    <2>4. QED
      BY <2>2, <2>3
  <1>4. CASE plans'[p] # plans[p]
    <2>1. plans[p] = NoPlan
      BY <1>4, PlansStay
    <2>2. TxsOf(p) = {} /\ ItemsSent(p) = {}
      BY <2>1, UnshownUnsent DEF ItemsSent
    <2>3. v = Wipe!New
      BY <2>1, <2>2 DEF StageOf, SizeOf, NoPlan, Wipe!New
    <2>4. StageOf(p)' = "shown"
      BY <1>2, <1>4, <2>1, <2>2 DEF StageOf
    <2>5. (SizeOf(p) \in Nat)'
      <3>1. Sized'
        BY NextWipeFacts
      <3>2. QED
        BY <3>1 DEF Sized
    <2>6. Wipe!Show(v, v')
      BY <1>2, <2>2, <2>3, <2>4, <2>5 DEF Wipe!Show
    <2>7. QED
      BY <1>1, <2>6 DEF Moves
  <1>5. QED
    BY <1>3, <1>4

(* What a transaction that was accepted for request c adds. *)
LEMMA AcceptedTx ==
    ASSUME Core, NEW c \in Calls, Send(c), Accept(c)
    PROVE  /\ plans' = plans /\ calls[c].preview \in Executing
           /\ calls[c].preview \in Previews /\ plans[calls[c].preview] # NoPlan
           /\ DOMAIN txs' = DOMAIN txs \union {Len(txs) + 1} /\ Len(txs) + 1 \notin DOMAIN txs
           /\ \A n \in DOMAIN txs : txs'[n] = txs[n]
           /\ txs'[Len(txs) + 1].preview = calls[c].preview
           /\ txs'[Len(txs) + 1].item = Len(calls[c].items) + 1
           /\ Len(calls[c].items) \in Nat
  <1>1. calls[c].at = "send" /\ UNCHANGED <<plans, paused, resumed, unpaused>>
    BY DEF Send, envVars
  <1>2. /\ World' \in Worlds /\ Len(txs') = Len(txs) + 1
        /\ \A n \in 1 .. Len(txs) : txs'[n] = txs[n]
        /\ txs'[Len(txs) + 1].preview = calls[c].preview
        /\ txs'[Len(txs) + 1].item = Len(calls[c].items) + 1
    BY <1>1, AcceptWorld
  <1>3. txs' \in Seq(TxSet)
    BY <1>2 DEF World, Worlds
  <1>4. /\ txs \in Seq(TxSet) /\ Len(txs) \in Nat /\ Len(calls[c].items) \in Nat
        /\ calls[c].op = "execute" /\ calls[c].preview \in Previews
        /\ plans[calls[c].preview] = Plan(c) /\ Plan(c).reason = "ok"
    BY <1>1, SendFacts
  <1>5. DOMAIN txs = 1 .. Len(txs) /\ DOMAIN txs' = 1 .. Len(txs) + 1
    BY <1>2, <1>3, <1>4
  <1>6. DOMAIN txs' = DOMAIN txs \union {Len(txs) + 1} /\ Len(txs) + 1 \notin DOMAIN txs
    BY <1>4, <1>5
  <1>7. calls[c].preview \in Executing
    BY <1>4 DEF Executing
  <1>8. plans[calls[c].preview] # NoPlan
    BY <1>4 DEF NoPlan
  <1>9. QED
    BY <1>1, <1>2, <1>4, <1>5, <1>6, <1>7, <1>8

(* The items before the next one of an execute were sent. *)
LEMMA PrefixSent ==
    ASSUME Core, NEW c \in Calls, calls[c].at = "send",
           NEW j \in 1 .. Len(calls[c].items)
    PROVE  j \in ItemsSent(calls[c].preview)
  <1>1. /\ calls[c].nonce \in Nat /\ Len(calls[c].items) \in Nat
        /\ txs \in Seq(TxSet) /\ Len(txs) \in Nat
        /\ CallGood(calls[c], World)
    BY SendFacts
  <1>2. Sending(calls[c], World) /\ World.txs = txs
    BY <1>1 DEF CallGood, World
  <1>3. Sent(calls[c]) = Len(calls[c].items)
    BY DEF Sent
  <1>4. calls[c].nonce + Len(calls[c].items) <= Len(txs)
    BY <1>2, <1>3 DEF Sending
  <1>5. /\ txs[calls[c].nonce + j].preview = calls[c].preview
        /\ txs[calls[c].nonce + j].item = j
    BY <1>2, <1>3 DEF Sending
  <1>6. calls[c].nonce + j \in DOMAIN txs
    BY <1>1, <1>4
  <1>7. QED
    BY <1>5, <1>6 DEF ItemsSent, TxsOf

(* A preview of which another item is sent. *)
LEMMA SendWipe ==
    ASSUME Core, Once, Core', Once', NEW c \in Calls, Send(c), Accept(c),
           NEW p \in Previews, p = calls[c].preview,
           p \notin disturbed, p \notin disturbed'
    PROVE  Moves(WipeOf(p), WipeOf(p)')
  <1> DEFINE v == [stage |-> StageOf(p), size |-> SizeOf(p), sent |-> ItemsSent(p)]
             new == Len(txs) + 1
             i == Len(calls[c].items) + 1
  <1>1. AsSent /\ AsSent' /\ Sized
    BY WipeFacts, NextWipeFacts, SizeType
  <1>2. WipeOf(p) = v /\ WipeOf(p)' = v'
    BY <1>1 DEF AsSent
  <1>3. /\ plans' = plans /\ p \in Executing /\ plans[p] # NoPlan
        /\ DOMAIN txs' = DOMAIN txs \union {new} /\ new \notin DOMAIN txs
        /\ \A n \in DOMAIN txs : txs'[n] = txs[n]
        /\ txs'[new].preview = p /\ txs'[new].item = i /\ Len(calls[c].items) \in Nat
    BY AcceptedTx
  <1> HIDE DEF new
  <1>4. TxsOf(p)' = TxsOf(p) \union {new}
    BY <1>3 DEF TxsOf
  <1>5. ItemsSent(p)' = ItemsSent(p) \union {i}
    <2>1. \A n \in TxsOf(p) : txs'[n].item = txs[n].item
      BY <1>3 DEF TxsOf
    <2> HIDE DEF i
    <2>2. QED
      BY <1>3, <1>4, <2>1 DEF ItemsSent
  <1>6. i \notin ItemsSent(p)
    <2>1. SUFFICES ASSUME NEW n \in TxsOf(p), txs[n].item = i
                   PROVE  FALSE
      BY DEF ItemsSent
    <2>2. n \in DOMAIN txs' /\ new \in DOMAIN txs' /\ n # new
      BY <1>3 DEF TxsOf
    <2>3. txs'[n].preview = txs'[new].preview /\ txs'[n].item = txs'[new].item
      BY <1>3, <2>1 DEF TxsOf
    <2>4. txs'[n].preview \notin disturbed'
      BY <1>3, <2>3
    <2>5. QED
      BY <2>2, <2>3, <2>4 DEF Once, SentOnce
  <1>7. i \in 1 .. SizeOf(p) /\ SizeOf(p)' = SizeOf(p)
    <2>1. /\ plans'[txs'[new].preview].reason = "ok"
          /\ txs'[new].item \in DOMAIN plans'[txs'[new].preview].items
      BY <1>3 DEF Core, SentAsPreviewed
    <2>2. plans[p].reason = "ok" /\ i \in DOMAIN plans[p].items
      BY <1>3, <2>1
    <2>3. plans[p].items \in Seq(ItemSet)
      BY DEF Core, TypeOK, PlanSet
    <2>4. i \in 1 .. Len(plans[p].items)
      BY <2>2, <2>3
    <2>5. QED
      BY <1>3, <2>2, <2>4 DEF SizeOf
  <1>8. 1 .. i - 1 \subseteq ItemsSent(p)
    <2>1. calls[c].at = "send" /\ i - 1 = Len(calls[c].items)
      BY <1>3 DEF Send
    <2>2. QED
      BY <2>1, PrefixSent
  <1>9. StageOf(p) \in {"shown", "sending"} /\ StageOf(p)' \in {"sending", "over"}
    <2>1. StageOf(p) \in {"shown", "sending"}
      BY <1>3 DEF StageOf
    <2>2. plans'[p] # NoPlan /\ TxsOf(p)' # {}
      BY <1>3, <1>4
    <2>3. QED
      BY <2>1, <2>2 DEF StageOf
  <1> HIDE DEF i
  <1>10. Wipe!SendNext(v, v')
    BY <1>5, <1>6, <1>7, <1>8, <1>9 DEF Wipe!SendNext
  <1>11. QED
    BY <1>2, <1>10 DEF Moves

(* The other previews when a transaction was accepted. *)
LEMMA OtherWipes ==
    ASSUME Core, Once, Core', Once', [Next]_vars, NEW c \in Calls, Send(c), Accept(c),
           NEW p \in Previews, p # calls[c].preview,
           p \notin disturbed, p \notin disturbed'
    PROVE  Moves(WipeOf(p), WipeOf(p)')
  <1> DEFINE v == [stage |-> StageOf(p), size |-> SizeOf(p), sent |-> ItemsSent(p)]
  <1>1. AsSent /\ AsSent'
    BY WipeFacts, NextWipeFacts
  <1>2. WipeOf(p) = v /\ WipeOf(p)' = v'
    BY <1>1 DEF AsSent
  <1>3. /\ plans' = plans
        /\ DOMAIN txs' = DOMAIN txs \union {Len(txs) + 1}
        /\ \A n \in DOMAIN txs : txs'[n] = txs[n]
        /\ txs'[Len(txs) + 1].preview # p
    BY AcceptedTx
  <1>4. TxsOf(p)' = TxsOf(p)
    BY <1>3 DEF TxsOf
  <1>5. ItemsSent(p)' = ItemsSent(p)
    <2>1. \A n \in TxsOf(p) : txs'[n].item = txs[n].item
      BY <1>3 DEF TxsOf
    <2>2. QED
      BY <1>4, <2>1 DEF ItemsSent
  <1>6. SizeOf(p)' = SizeOf(p)
    BY <1>3 DEF SizeOf
  <1>7. CASE StageOf(p)' = StageOf(p)
    BY <1>2, <1>5, <1>6, <1>7 DEF Moves
  <1>8. CASE StageOf(p)' # StageOf(p)
    <2>1. StageOf(p) = "sending" /\ StageOf(p)' = "over"
      BY <1>3, <1>4, <1>8, StillSending DEF StageOf
    <2>2. Wipe!End(v, v')
      BY <1>5, <1>6, <2>1 DEF Wipe!End
    <2>3. QED
      BY <1>2, <2>2 DEF Moves
  <1>9. QED
    BY <1>7, <1>8

(* Every step moves every preview as WipeOutcome allows. *)
LEMMA NextMoves ==
    ASSUME Core, Once, Core', Once', [Next]_vars, NEW p \in Previews
    PROVE  Moves(WipeOf(p), WipeOf(p)')
  <1>1. disturbed \subseteq disturbed'
    BY SenderWasExecuting
  <1>2. CASE p \in disturbed'
    <2>1. WipeOf(p)' = Wipe!Unknown
      BY <1>2 DEF WipeOf, Wipe!Unknown
    <2>2. QED
      BY <2>1 DEF Moves, Wipe!Forget
  <1>3. CASE p \notin disturbed'
    <2>1. p \notin disturbed
      BY <1>1, <1>3
    <2>2. CASE DOMAIN txs' = DOMAIN txs
      BY <1>3, <2>1, <2>2, QuietWipe
    <2>3. ASSUME NEW c \in Calls, Send(c), Accept(c)
          PROVE  Moves(WipeOf(p), WipeOf(p)')
      BY <1>3, <2>1, <2>3, SendWipe, OtherWipes
    <2>4. QED
      BY <2>2, <2>3, NewTransaction
  <1>4. QED
    BY <1>2, <1>3

(* preview, execute and state(), with the requests that overlap, the       *)
(* copies of the file that they save over one another and the failures,    *)
(* implement a wipe that sends the items of a confirmed preview in order,  *)
(* each once, and is never resumed.                                        *)
THEOREM Refinement == Spec => ImplementsWipe
  <1> DEFINE wiped == [p \in Previews |-> WipeOf(p)]
  <1>1. Init => Wipe!Init
    <2>1. SUFFICES ASSUME Init, NEW p \in Previews
                   PROVE  WipeOf(p) = Wipe!New
      BY DEF Wipe!Init
    <2>2. TxsOf(p) = {} /\ p \notin disturbed /\ plans[p] = NoPlan
      BY <2>1 DEF Init, TxsOf
    <2>3. ItemsSent(p) = {}
      BY <2>2 DEF ItemsSent
    <2>4. QED
      BY <2>2, <2>3 DEF WipeOf, NoPlan, Wipe!New
  <1>2. Core /\ Once /\ Core' /\ Once' /\ [Next]_vars => Wipe!Next
    <2>1. SUFFICES ASSUME Core, Once, Core', Once', [Next]_vars, NEW p \in Previews
                   PROVE  \/ UNCHANGED wiped[p]
                          \/ Wipe!Show(wiped[p], wiped'[p]) \/ Wipe!SendNext(wiped[p], wiped'[p])
                          \/ Wipe!End(wiped[p], wiped'[p]) \/ Wipe!Forget(wiped[p], wiped'[p])
      BY DEF Wipe!Next
    <2>2. wiped[p] = WipeOf(p) /\ wiped'[p] = WipeOf(p)'
      OBVIOUS
    <2>3. Moves(wiped[p], wiped'[p])
      BY <2>1, <2>2, NextMoves
    <2> HIDE DEF wiped
    <2>4. QED
      BY <2>3 DEF Moves
  <1>3. Init => Once
    BY InitOnce
  <1>4. Core /\ Once /\ [Next]_vars => Once'
    BY NextOnce
  <1>5. QED
    BY <1>1, <1>2, <1>3, <1>4, CoreCorrect, PTL DEF Spec, ImplementsWipe, Wipe!Spec
=============================================================================
