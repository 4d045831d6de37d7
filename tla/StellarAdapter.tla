--------------------------- MODULE StellarAdapter ---------------------------
(***************************************************************************)
(* src/modules/infra/stellarSettlementAdapter.ts: submitUsdcPayment,       *)
(* prepareSponsoredUsdcPayment, submitPreparedSponsoredPayment and         *)
(* verifyUsdcPayment, as relations between a call, its answer and the      *)
(* Stellar network, which is external.                                     *)
(*                                                                         *)
(* A chain value is the sequence of the payments handed to the network;    *)
(* the position of a payment stands for its transaction hash.  Every live  *)
(* submission builds a new transaction with the source account's next      *)
(* sequence number, so two submissions are two payments, and of two that   *)
(* carry the same number only one can land.  used is the number of         *)
(* transactions of the source account that have landed.  A sponsored       *)
(* payment is signed first and handed to the network, as often as needed,  *)
(* by a later call: until then its state is "signed".  doubt says that such *)
(* a call threw although the payment could still land, or had landed.      *)
(***************************************************************************)
EXTENDS Naturals, Sequences, FiniteSetsExt

Payment(amounts) ==
  [amount : amounts, state : {"signed", "sent", "landed", "failed"}, seq : Nat,
   doubt : BOOLEAN]

\* What a submission may come to, and the answer the caller gets.
\* unseen: the poll gave up and Horizon does not know the hash yet.
\* lost: sendTransaction threw although the transaction got through.
SubmitOutcomes ==
  {[name |-> "confirmed", reply |-> "confirmed", state |-> "landed"],
   [name |-> "unseen",    reply |-> "submitted", state |-> "sent"],
   [name |-> "lost",      reply |-> "error",     state |-> "sent"],
   [name |-> "failed",    reply |-> "error",     state |-> "failed"]}

submitUsdcPayment(ch, amount, state, used) ==
  Append(ch, [amount |-> amount, state |-> state, seq |-> used + 1, doubt |-> FALSE])

prepareSponsoredUsdcPayment(ch, amount, used) ==
  submitUsdcPayment(ch, amount, "signed", used)

\* A submission of envelope i ends with this answer and leaves it in this state.
Submission(ch, i, state, reply) ==
  [chain |-> [ch EXCEPT ![i].state = state,
                        ![i].doubt = ch[i].doubt \/ (reply = "error" /\ state # "failed")],
   reply |-> reply]

\* The chains and answers one submission of a signed envelope may lead to.  An
\* envelope that has landed is a duplicate, which the adapter takes for success; one
\* that has expired, whose sequence number is used up, or that failed, is dead.
\* refused: a forced failure, no connection, 429, 5xx, tx_insufficient_fee: the call
\* throws, and the envelope, which its caller has saved, is worth what it was.
submitPreparedSponsoredPayment(ch, i, used, names) ==
  (IF "refused" \in names THEN {Submission(ch, i, ch[i].state, "error")} ELSE {})
    \cup
  CASE ch[i].state = "landed" ->
         {Submission(ch, i, "landed", r) : r \in {"confirmed", "submitted"}}
    [] ch[i].state = "failed" \/ (ch[i].state # "landed" /\ ch[i].seq <= used) ->
         {Submission(ch, i, "failed", "error")}
    [] OTHER ->
         {Submission(ch, i, o.state, o.reply) : o \in {x \in SubmitOutcomes : x.name \in names}}

\* getTransaction, with Horizon as a fallback: a node may lag behind the network.
verifyUsdcPayment(ch, hash) ==
  CASE ch[hash].state = "landed" -> {"SUCCESS", "NOT_FOUND"}
    [] ch[hash].state \in {"signed", "sent"} -> {"NOT_FOUND"}
    [] ch[hash].state = "failed" -> {"FAILED", "NOT_FOUND"}

Landed(ch) == {i \in 1..Len(ch) : ch[i].state = "landed"}

LandedTotal(ch) == MapThenSumSet(LAMBDA i : ch[i].amount, Landed(ch))

\* A call threw that did not know what would become of its payment.
Doubtful(ch) == \E i \in 1..Len(ch) : ch[i].doubt

\* The network includes a transaction that was sent, if its sequence number is
\* the next one, or drops it.
Resolutions(ch, i, used) ==
  {[ch EXCEPT ![i].state = s] : s \in IF ch[i].seq = used + 1 THEN {"landed", "failed"}
                                     ELSE {"failed"}}
=============================================================================
