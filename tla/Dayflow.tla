------------------------------- MODULE Dayflow --------------------------------
(***************************************************************************)
(* A flow of scheduled payments (src/modules/dayflow/dayflowFlowService.ts)*)
(* and what pays it when it is due: the tick of the autopay scheduler      *)
(* (dayflowAutomationService.ts) and the endpoint a user calls.  A run     *)
(* reads the flow, makes the payments that are due one after the other     *)
(* with the calls of ConsumerPayments, and writes all schedules back in    *)
(* one UPDATE.                                                             *)
(***************************************************************************)
EXTENDS ConsumerPayments, Sequences

CONSTANTS
  Payer,       \* the wallet the flow pays from
  Schedules,   \* sequence of [amount, once], in the order of the flow's array
  Runs,        \* [id, tick]
  PaymentOf,   \* run and position -> the call that pays, with its fresh reference
  Overlaps     \* bound: what may overlap or befall a run, of
               \* {"manual", "edit", "stop", "throw"}

ASSUME DayflowAssumption ==
  /\ Payer \in Accounts /\ Overlaps \subseteq {"manual", "edit", "stop", "throw"}
  /\ Schedules \in Seq([amount : Nat \ {0}, once : BOOLEAN])    \* of no amount, none is paid
  /\ \A r \in Runs, i \in DOMAIN Schedules :
       /\ PaymentOf[r][i] \in Calls \ UserCalls /\ PaymentOf[r][i].amount = Schedules[i].amount
       /\ PaymentOf[r][i].kind \in {"p2p", "swap", "bill"}   \* send, savings, bill
  /\ \A r, q \in Runs, i, j \in DOMAIN Schedules :      \* fresh references
       PaymentOf[r][i] = PaymentOf[q][j] => r = q /\ i = j

VARIABLES
  flow,        \* the dayflow_flows row
  run,         \* run -> where it is and the schedules it works on
  edit         \* the schedules an UPDATE to come writes back, or NoEdit

flowVars == <<flow, run, edit>>

Never == MaxDays + 1      \* nextRunAt = null
NoEdit == <<>>

Working(r) == run[r].at \notin {"start", "done"}
NoRun(at) == [at |-> at, i |-> 1, wallet |-> 0, schedules |-> NoEdit, spent |-> 0]

\* createAndActivateFlow: a flow in mode payOnDue; all its schedules are due.  Its second
\* UPDATE writes the schedules again, with their budgets, and may be outstanding.
FlowInit ==
  /\ \E status \in {"none", "active"} :
       flow = [status |-> status, spent |-> 0,
               schedules |-> [i \in DOMAIN Schedules |-> [autoPay |-> TRUE, next |-> 0]]]
  /\ run = [r \in Runs |-> NoRun("start")]
  /\ edit \in {NoEdit, IF flow.status = "active" THEN flow.schedules ELSE NoEdit}

Due(s) == s.autoPay /\ s.next <= day
DueFrom(x) == {i \in DOMAIN Schedules : i >= x.i /\ Due(x.schedules[i])}

\* The flag `running` keeps ticks apart.  Bound: other runs and edits do too.
MayRun(r) ==
  /\ \A q \in Runs : Working(q) => "manual" \in Overlaps /\ ~(r.tick /\ q.tick)
  /\ edit # NoEdit => "edit" \in Overlaps

\* runDueSchedulesForUser: the wallet, then the active flow that is due.
RunLoad(r) ==
  /\ run[r].at = "start" /\ MayRun(r)
  /\ flow.status = "active" /\ \E i \in DOMAIN Schedules : Due(flow.schedules[i])
  /\ run' = [run EXCEPT ![r] = [NoRun("next") EXCEPT !.wallet = balance[Payer],
                                                     !.schedules = flow.schedules]]
  /\ UNCHANGED <<vars, flow, edit>>

\* executeSchedulePayment of the next due schedule; one the wallet did not cover when it
\* was read is passed over, and stays due.
RunPay(r) ==
  /\ run[r].at = "next" /\ DueFrom(run[r]) # {}
  /\ LET i == Min(DueFrom(run[r]))
     IN IF run[r].wallet < Schedules[i].amount
          THEN run' = [run EXCEPT ![r].i = i + 1] /\ UNCHANGED pc
          ELSE /\ Goto(PaymentOf[r][i], "start")
               /\ run' = [run EXCEPT ![r].at = "paying", ![r].i = i]
  /\ UNCHANGED <<ledgerVars, order, row, fetched, reversing, potVars, flow, edit>>

\* Whether a call that ended has moved its money.
Moved(c) ==
  IF c.kind = "bill" THEN order[c] # "none" /\ ~Reversed(c)
  ELSE findMovementByKey(Key(c, "credit"))

\* Mutant: a payment does not move the date.
AfterExecutionStays(s, once) == [autoPay |-> TRUE, next |-> s.next]

\* computeScheduleNextRunAfterExecution (a day of the model is a period).
AfterExecution(s, once) ==
  IF once THEN [autoPay |-> FALSE, next |-> Never] ELSE [autoPay |-> TRUE, next |-> day + 1]

\* A schedule whose payment threw stays due.  A payment whose money did not move throws.
\* Bound: one that has moved its money throws (notifications, reads and rows that follow
\* the ledger) only with "throw".
RunPaid(r) ==
  /\ run[r].at = "paying"
  /\ LET x == run[r]
         c == PaymentOf[r][x.i]
     IN /\ pc[c] = "done"
        /\ \E threw \in BOOLEAN :
             /\ ~Moved(c) => threw
             /\ Moved(c) /\ threw => "throw" \in Overlaps
             /\ run' = [run EXCEPT ![r] =
                  IF threw
                    THEN [x EXCEPT !.at = "next", !.i = @ + 1]
                    ELSE [x EXCEPT !.at = "next", !.i = @ + 1, !.spent = @ + Schedules[x.i].amount,
                                   !.schedules[x.i] = AfterExecution(@, Schedules[x.i].once)]]
  /\ UNCHANGED <<vars, flow, edit>>

\* UPDATE dayflow_flows SET schedules, spent_amount = spent_amount + $3: the schedules as
\* this run knows them.
RunSave(r) ==
  /\ run[r].at = "next" /\ DueFrom(run[r]) = {}
  /\ flow' = [flow EXCEPT !.schedules = run[r].schedules, !.spent = @ + run[r].spent]
  /\ run' = [run EXCEPT ![r] = NoRun("done")]
  /\ UNCHANGED <<vars, edit>>

\* The server stops.  Bound: not between a payment and the UPDATE.
RunStops(r) ==
  /\ Working(r)
  /\ "stop" \in Overlaps \/ (run[r].spent = 0 /\ run[r].at = "next")
  /\ run' = [run EXCEPT ![r] = NoRun("done")]
  /\ UNCHANGED <<vars, flow, edit>>

\* updateFlowSchedule: SELECT ... FOR UPDATE outside a transaction holds no lock, and the
\* UPDATE writes every schedule back; what the user changes is left out.  EditWrite is also
\* the second UPDATE of createAndActivateFlow.
EditRead ==
  /\ flow.status = "active" /\ edit = NoEdit
  /\ (\E r \in Runs : Working(r)) => "edit" \in Overlaps
  /\ edit' = flow.schedules
  /\ UNCHANGED <<vars, flow, run>>

EditWrite ==
  /\ edit # NoEdit
  /\ flow' = [flow EXCEPT !.schedules = edit]
  /\ edit' = NoEdit
  /\ UNCHANGED <<vars, run>>

\* cancelFlow: a run that has read the flow goes on.
cancelFlow ==
  /\ flow.status = "active"
  /\ flow' = [flow EXCEPT !.status = "cancelled"]
  /\ UNCHANGED <<vars, run, edit>>

FlowNext ==
  \/ \E r \in Runs : RunLoad(r) \/ RunPay(r) \/ RunPaid(r) \/ RunSave(r) \/ RunStops(r)
  \/ EditRead \/ EditWrite \/ cancelFlow

-----------------------------------------------------------------------------
PaidFor(i) == {r \in Runs : Moved(PaymentOf[r][i])}
InHand(r) ==
  run[r].spent + (IF run[r].at = "paying" /\ Moved(PaymentOf[r][run[r].i])
                    THEN Schedules[run[r].i].amount ELSE 0)

\* Whatever ticks, calls and edits do between two dates, and whichever payments throw before
\* their money moved (or whose orders fail later), a schedule is paid once per date at most,
\* and spent_amount, with what a run is about to add to it, is what was paid.  Where runs
\* overlap each other or an edit, or the server stops or a payment throws after its money
\* moved (Overlaps), the code promises no such thing.
SchedulePaidOnce ==
  /\ \A i \in DOMAIN Schedules :
       Cardinality(PaidFor(i)) <= (IF Schedules[i].once THEN 1 ELSE day + 1)
  /\ flow.spent + Total(InHand, Runs)
       = Total(LAMBDA i : Schedules[i].amount * Cardinality(PaidFor(i)), DOMAIN Schedules)
=============================================================================
