-------------------------- MODULE SubmissionOutcome --------------------------
(***************************************************************************)
(* What the runtime promises about a transaction it has broadcast, without *)
(* queues, retries or workers.  A transaction is unsent, then in flight    *)
(* (broadcast, its execution not recorded yet), then tracked (an entry of  *)
(* _pending that the receipt worker will look at), and it leaves that      *)
(* state at most once: settled by its receipt, parked for a person to      *)
(* look at, or dropped by one of the failures the code lets through.       *)
(* Settled is final.  A parked transaction can only be dropped, by a       *)
(* restart that loses the process memory.                                  *)
(***************************************************************************)
CONSTANT Txs

VARIABLE outcome

Outcomes == {"unsent", "inflight", "tracked", "settled", "parked", "dropped"}

(* The transitions a transaction may make. *)
Moves ==
    {<<"unsent", "inflight">>, <<"inflight", "tracked">>,
     <<"inflight", "dropped">>, <<"tracked", "settled">>,
     <<"tracked", "parked">>, <<"tracked", "dropped">>,
     <<"parked", "dropped">>}

Init == outcome = [t \in Txs |-> "unsent"]

(* One step of the runtime moves any set of transactions along: a restart *)
(* drops everything that was open, every other step touches one.          *)
Next ==
    /\ outcome' \in [Txs -> Outcomes]
    /\ \A t \in Txs :
          outcome'[t] # outcome[t] => <<outcome[t], outcome'[t]>> \in Moves

Spec == Init /\ [][Next]_outcome
=============================================================================
