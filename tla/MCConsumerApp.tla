---------------------------- MODULE MCConsumerApp -----------------------------
(* Small instances of ConsumerApp for TLC. *)
EXTENDS ConsumerApp

CONSTANTS ada, ben, out

(* Payments. *)

C(id, kind, from, to, amount, x) ==
  [id |-> id, kind |-> kind, from |-> from, to |-> to, amount |-> amount, pot |-> x]

\* Ada's wallet covers two of her payments; Ben has what he receives.
MCOpening == [w \in Accounts |-> IF w = ada THEN 3 ELSE 0]

AllCalls ==
  {C(1, "send", ada, ada, 2, "p"), C(2, "bill", ada, ada, 1, "p"),
   C(3, "p2p", ada, ben, 2, "p"), C(4, "topup", ben, ben, 1, "p"),
   C(5, "deposit", ada, ada, 1, "p"), C(6, "withdraw", ada, ada, 2, "p"),
   C(7, "create", ben, ben, 1, "q")}

-----------------------------------------------------------------------------
(* Products. *)

R(id, kind, ref, from, to, amount, x, rail) ==
  [id |-> id, kind |-> kind, ref |-> ref, from |-> from, to |-> to, amount |-> amount,
   position |-> x, rail |-> rail]

\* Ada has two ripe positions; a deposit and a claim that may be made twice; a send to
\* Ben's address, one to her own, one to the outside.
MCOpenPositions == [w \in Accounts |-> IF w = ada THEN {31, 32} ELSE {}]

AllRequests ==
  {R(11, "invest", 33, ada, ada, 1, 33, ""), R(12, "invest", 33, ada, ada, 1, 33, ""),
   R(13, "claim", 41, ada, ada, 0, 31, ""), R(14, "claim", 41, ada, ada, 0, 31, ""),
   R(15, "claim", 42, ada, ada, 0, 31, ""), R(16, "claim", 43, ada, ada, 0, 33, ""),
   R(17, "crypto", 0, ada, ben, 2, 0, "stellar"), R(18, "crypto", 0, ada, out, 2, 0, "evm"),
   R(19, "crypto", 0, ada, ada, 1, 0, "stellar"),
   R(20, "inflow", 0, out, ben, 1, 0, "stellar"), R(21, "inflow", 0, out, ben, 1, 0, "evm"),
   R(22, "bank", 0, out, ben, 1, 0, "looked up"), R(23, "bank", 0, out, ada, 1, 0, "")}

\* Bound: three payments or three requests in one behaviour, or one of each.
Mixed ==
  LET payments == {c \in Calls : pc[c] # "done"}
      requests == {r \in Requests : at[r] # "done"}
  IN payments # {} /\ requests # {} => Cardinality(payments) + Cardinality(requests) <= 2

-----------------------------------------------------------------------------
(* A flow and a conversation. *)

\* A payment to Ben every period and a bill that is due once, run by ticks or a user.
MCSchedules == <<[amount |-> 1, once |-> FALSE], [amount |-> 1, once |-> TRUE]>>
MCRuns == {[id |-> 1, tick |-> TRUE], [id |-> 2, tick |-> TRUE], [id |-> 3, tick |-> FALSE]}
MCPaymentOf ==
  [r \in MCRuns |-> <<C(50 + r.id, "p2p", ada, ben, 1, "p"), C(60 + r.id, "bill", ada, ada, 1, "p")>>]

\* What a user may write in a conversation.
Say(kind, amount, to) == [kind |-> kind, amount |-> amount, to |-> to, again |-> FALSE]

MCUtterances ==
  {Say("send", TRUE, to) : to \in Destinations \ {"pronoun"}}
    \cup {Say("send", FALSE, to) : to \in {"none", "name", "pronoun"}}
    \cup {Say("destination", FALSE, to) : to \in {"bank", "part", "account"}}
    \cup {Say(kind, FALSE, "none") :
            kind \in {"cancel", "defer", "pick", "kyc", "bill", "ask", "deposit", "button",
                      "bankName", "balance", "fund", "corridor", "text"}}
    \cup {Say("amount", TRUE, "none"), [Say("amount", TRUE, "none") EXCEPT !.again = TRUE],
          Say("recipient", FALSE, "name"), Say("digits", FALSE, "account"),
          Say("bill", TRUE, "account"), Say("crypto", TRUE, "account"), Say("corridor", TRUE, "none")}

\* Two attempts to authorise, each of a bank transfer, a bill or a send.
MCExecutionOf ==
  [a \in {1, 2} |->
     [SEND_MONEY |-> C(70 + a, "bank", ada, ada, 2, "p"), PAY_BILL |-> C(80 + a, "bill", ada, ada, 1, "p"),
      SEND_YC |-> C(90 + a, "send", ada, ada, 1, "p")]]

Executions == UNION {{MCExecutionOf[a][name] : name \in {"SEND_MONEY", "PAY_BILL", "SEND_YC"}} : a \in {1, 2}}

EveryCall ==
  AllCalls \cup UNION {{MCPaymentOf[r][i] : i \in {1, 2}} : r \in MCRuns} \cup Executions

\* Bound: after three messages only a send is paid, and the third overlaps another only
\* if one of the two cancels or gives an amount; the second attempt comes second;
\* messages are handled before or after a payment, whose steps neither read nor write what
\* the handlers do; what becomes of a payment later is left to the other scenarios; the
\* end is when both attempts are over.
Brief ==
  /\ heard > 2 => \A a \in Attempts : auth[a].review.intent \in {"none", "SEND_YC"}
  /\ LET handled == {n \in Messages : handling[n].at # "idle"}
     IN heard > 2 /\ Cardinality(handled) > 1 =>
          \E n \in handled : said(n).kind \in {"cancel", "amount"}
  /\ auth[1].at = "start" => auth[2].at = "start"
  /\ (\E n \in Messages : handling[n].at # "idle") => \A c \in Executions : pc[c] \in {"start", "done"}
  /\ day = 0 /\ \A c \in Executions : order[c] # "none" => pc[c] # "done" \/ order[c] = "open"
  /\ \/ \E a \in Attempts : auth[a].at # "done"
     \/ \E c \in Executions : pc[c] # "done"

\* Bound: a flow that is run twice, a conversation, or what users ask for themselves; of
\* that, three payments at once only when no pot is opened or filled.
OneKind ==
  LET asked == {c \in UserCalls : pc[c] # "done"}
      asking == asked # {} \/ (\E r \in Requests : at[r] # "done")
      talking == heard < MaxMessages \/ intent.status # "none"
  IN /\ Mixed
     /\ Cardinality(asked) > 2 => \A c \in asked : c.kind \notin {"create", "deposit", "topup"}
     /\ flow.status # "none" => ~asking /\ ~talking
     /\ Cardinality({r \in Runs : run[r].at # "start"}) <= 2
     /\ talking => ~asking
     /\ talking => Brief
=============================================================================
