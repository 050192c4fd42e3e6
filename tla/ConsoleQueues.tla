---------------------------- MODULE ConsoleQueues ----------------------------
(***************************************************************************)
(* The console's reviewer queues (console/src/components/AdminQueues.tsx,  *)
(* BudgetOperations.tsx): a screen loads its lists, a reviewer picks a     *)
(* row, writes what was found and submits a decision, and the screen       *)
(* reloads.  The server re-checks the row under its own lock, and other    *)
(* reviewers decide rows too.                                              *)
(*                                                                         *)
(* A refresh reads each list of its screen at a moment of its own and      *)
(* applies all of them when the last has settled (Promise.allSettled);     *)
(* refreshes carry no number, so an older one may answer last.  The model  *)
(* is of one mounted screen: leaving it discards its state, and coming     *)
(* back is a new behaviour.  Sections that are not mounted are those with  *)
(* nothing in them.                                                        *)
(***************************************************************************)
EXTENDS Naturals, Sequences, FiniteSets

CONSTANTS QueueRows,       \* rows of all queues
          SectionOf,       \* row |-> its section
          Mounts,          \* sets of sections a mounted screen has rows in
          MaxRefreshes     \* bound on refreshes in flight

VARIABLES mounted,         \* the sections of the screen
          openRows,        \* server: rows that wait for a decision
          listed,          \* the rows each section holds
          listFailed,      \* sections that show an error instead of their table
          refreshes,       \* refreshes in flight, oldest first
          picked,          \* section |-> the row its form is open for
          noted,           \* section |-> its note has ten characters
          sent,            \* section |-> the decision in flight
          accepted,        \* rows whose decision this console saw accepted
          overtaken        \* the refresh applied last had been overtaken

queueVars == <<mounted, openRows, listed, listFailed, refreshes, picked, noted, sent,
               accepted, overtaken>>

AdminSections == {"workflow", "intents", "tasks"}

Sections == AdminSections \cup {"budget"}

RowsOf(s) == {r \in QueueRows : SectionOf[r] = s}

NoRow == "none"

NotSent == [row |-> NoRow, stage |-> "idle"]

submitting(s) == sent[s] # NotSent

(* A failed list is replaced by an error, its old rows are not shown.      *)
Shown(s) == IF s \in listFailed THEN {} ELSE listed[s]

----------------------------------------------------------------------------
(* Refreshing.                                                             *)

(* A refresh: its lists, whether a newer one was applied before it, and    *)
(* the form that waits for it (the budget screen awaits its reload).       *)
Asked(waiting) ==
    [results |-> [s \in mounted |-> <<"sent">>], late |-> FALSE, waiting |-> waiting]

WithRefresh(waiting) == Append(refreshes, Asked(waiting))

(* The Refresh button of the admin screen.                                 *)
RefreshAdmin ==
    /\ mounted \subseteq AdminSections
    /\ Len(refreshes) < MaxRefreshes
    /\ refreshes' = WithRefresh(FALSE)
    /\ UNCHANGED <<mounted, openRows, listed, listFailed, picked, noted, sent, accepted, overtaken>>

(* The budget screen's Refresh button and its thirty-second timer          *)
(* (NoTimer: a screen without them).                                       *)
NoTimer == FALSE /\ UNCHANGED queueVars

PollBudget ==
    /\ "budget" \in mounted
    /\ Len(refreshes) < MaxRefreshes
    /\ refreshes' = WithRefresh(FALSE)
    /\ UNCHANGED <<mounted, openRows, listed, listFailed, picked, noted, sent, accepted, overtaken>>

(* The server answers one list of a refresh with the rows now open.        *)
ListRead(i, s) ==
    /\ refreshes[i].results[s] = <<"sent">>
    /\ refreshes' = [refreshes EXCEPT ![i].results[s] = <<"rows", openRows \cap RowsOf(s)>>]
    /\ UNCHANGED <<mounted, openRows, listed, listFailed, picked, noted, sent, accepted, overtaken>>

ListFails(i, s) ==
    /\ refreshes[i].results[s] = <<"sent">>
    /\ refreshes' = [refreshes EXCEPT ![i].results[s] = <<"failed">>]
    /\ UNCHANGED <<mounted, openRows, listed, listFailed, picked, noted, sent, accepted, overtaken>>

(* All lists of a refresh have settled: each is applied or its error is    *)
(* shown.  The refreshes sent before it are overtaken.                     *)
RefreshApplied(i) ==
    LET done == refreshes[i]
        got(s) == done.results[s][1] = "rows"
    IN  /\ \A s \in mounted : done.results[s] # <<"sent">>
        /\ listed' = [s \in Sections |->
                        IF s \in mounted /\ got(s) THEN done.results[s][2] ELSE listed[s]]
        /\ listFailed' = {s \in mounted : ~got(s)}
        /\ overtaken' = done.late
        /\ refreshes' = [j \in 1 .. Len(refreshes) - 1 |->
                            IF j < i THEN [refreshes[j] EXCEPT !.late = TRUE]
                            ELSE refreshes[j + 1]]
        /\ sent' = IF done.waiting THEN [sent EXCEPT !["budget"] = NotSent] ELSE sent
        /\ UNCHANGED <<mounted, openRows, picked, noted, accepted>>

----------------------------------------------------------------------------
(* Picking a row and deciding it.                                          *)

(* The table's buttons stay enabled while a decision is in flight.         *)
Pick(s, r) ==
    /\ r \in Shown(s)
    /\ picked' = [picked EXCEPT ![s] = r]
    /\ UNCHANGED <<mounted, openRows, listed, listFailed, refreshes, noted, sent, accepted, overtaken>>

(* Typing takes the note past ten characters, or back under them.          *)
WriteNote(s) ==
    /\ picked[s] # NoRow
    /\ s # "tasks"
    /\ noted' = [noted EXCEPT ![s] = ~@]
    /\ UNCHANGED <<mounted, openRows, listed, listFailed, refreshes, picked, sent, accepted, overtaken>>

(* The budget form keeps its note.                                         *)
CancelForm(s) ==
    /\ picked[s] # NoRow
    /\ ~submitting(s)
    /\ picked' = [picked EXCEPT ![s] = NoRow]
    /\ noted' = [noted EXCEPT ![s] = (s = "budget" /\ @)]
    /\ UNCHANGED <<mounted, openRows, listed, listFailed, refreshes, sent, accepted, overtaken>>

(* What a section's table and form offer, besides deciding.                *)
TableAndForm(s) ==
    \/ \E r \in RowsOf(s) : Pick(s, r)
    \/ WriteNote(s)
    \/ CancelForm(s)

WorkflowForm == "workflow" \in mounted /\ TableAndForm("workflow")
IntentForm == "intents" \in mounted /\ TableAndForm("intents")
TaskForm == "tasks" \in mounted /\ TableAndForm("tasks")
BudgetForm == "budget" \in mounted /\ TableAndForm("budget")

(* The three forms that need a note of ten characters, and the one that    *)
(* needs none.                                                             *)
noteTooShort(s) == s # "tasks" /\ ~noted[s]

Submit(s) ==
    /\ picked[s] # NoRow
    /\ ~noteTooShort(s)
    /\ ~submitting(s)
    /\ sent' = [sent EXCEPT ![s] = [row |-> picked[s], stage |-> "sent"]]
    /\ UNCHANGED <<mounted, openRows, listed, listFailed, refreshes, picked, noted, accepted, overtaken>>

SubmitWorkflow == Submit("workflow")
SubmitIntent == Submit("intents")
SubmitTask == Submit("tasks")
Reconcile == Submit("budget")

(* The server decides a row that still waits and refuses any other.        *)
ServerDecides(s) ==
    /\ sent[s].stage = "sent"
    /\ sent' = [sent EXCEPT ![s].stage = IF sent[s].row \in openRows THEN "done" ELSE "refused"]
    /\ openRows' = openRows \ {sent[s].row}
    /\ UNCHANGED <<mounted, listed, listFailed, refreshes, picked, noted, accepted, overtaken>>

(* After a decision the screen reloads (NoReload: it does not).            *)
NoReload(s) == refreshes

Reloaded(s) == WithRefresh(s = "budget")

(* Accepted: whatever row is picked by now is dropped, the note with it,   *)
(* and the screen reloads.                                                 *)
DecisionAccepted(s) ==
    /\ sent[s].stage = "done"
    /\ Len(refreshes) < MaxRefreshes
    /\ accepted' = accepted \cup {sent[s].row}
    /\ picked' = [picked EXCEPT ![s] = NoRow]
    /\ noted' = [noted EXCEPT ![s] = FALSE]
    /\ refreshes' = Reloaded(s)
    /\ sent' = [sent EXCEPT ![s] = IF s = "budget" THEN [@ EXCEPT !.stage = "reloading"] ELSE NotSent]
    /\ UNCHANGED <<mounted, openRows, listed, listFailed, overtaken>>

(* Refused, or the answer lost: the form stays as it is (FormStaysBusy:    *)
(* without the finally clause).                                            *)
FormStaysBusy(s) == sent

FormReleased(s) == [sent EXCEPT ![s] = NotSent]

DecisionFails(s) ==
    /\ sent[s].stage \in {"sent", "done", "refused"}
    /\ sent' = FormReleased(s)
    /\ UNCHANGED <<mounted, openRows, listed, listFailed, refreshes, picked, noted, accepted, overtaken>>

OtherReviewerDecides(r) ==
    /\ r \in openRows
    /\ openRows' = openRows \ {r}
    /\ UNCHANGED <<mounted, listed, listFailed, refreshes, picked, noted, sent, accepted, overtaken>>

QueueInit ==
    /\ mounted \in Mounts
    /\ openRows = {r \in QueueRows : SectionOf[r] \in mounted}
    /\ listed = [s \in Sections |-> {}]
    /\ listFailed = {}
    /\ refreshes = <<Asked(FALSE)>>
    /\ picked = [s \in Sections |-> NoRow]
    /\ noted = [s \in Sections |-> FALSE]
    /\ sent = [s \in Sections |-> NotSent]
    /\ accepted = {}
    /\ overtaken = FALSE

ServerReads(i) ==
    \E s \in mounted : ListRead(i, s) \/ ListFails(i, s)

DecisionSettles(s) ==
    s \in mounted /\ (ServerDecides(s) \/ DecisionAccepted(s) \/ DecisionFails(s))

QueueNext ==
    \/ RefreshAdmin
    \/ PollBudget
    \/ \E i \in DOMAIN refreshes : ServerReads(i) \/ RefreshApplied(i)
    \/ WorkflowForm
    \/ IntentForm
    \/ TaskForm
    \/ BudgetForm
    \/ \E s \in Sections : DecisionSettles(s)
    \/ SubmitWorkflow
    \/ SubmitIntent
    \/ SubmitTask
    \/ Reconcile
    \/ \E r \in QueueRows : OtherReviewerDecides(r)

(* Fetches settle, oldest first, and the polling timer fires.              *)
ServerAnswers == refreshes # <<>> /\ ServerReads(1)
RefreshSettles == refreshes # <<>> /\ RefreshApplied(1)

QueueFairness ==
    /\ WF_queueVars(PollBudget) /\ WF_queueVars(ServerAnswers)
    /\ WF_queueVars(RefreshSettles)
    /\ \A s \in Sections : WF_queueVars(DecisionSettles(s))

QueueSpec == QueueInit /\ [][QueueNext]_queueVars

FairQueueSpec == QueueSpec /\ QueueFairness

----------------------------------------------------------------------------
(* Every variable has its type.                                            *)
QueueTypeOK ==
    /\ openRows \subseteq QueueRows /\ accepted \subseteq QueueRows
    /\ \A s \in Sections : /\ listed[s] \subseteq RowsOf(s)
                           /\ picked[s] \in RowsOf(s) \cup {NoRow}
                           /\ noted[s] \in BOOLEAN
                           /\ sent[s].row \in RowsOf(s) \cup {NoRow}
    /\ listFailed \subseteq Sections
    /\ overtaken \in BOOLEAN
    /\ Len(refreshes) <= MaxRefreshes

(* A row whose decision this console saw accepted is off its table once    *)
(* the screen has settled, unless the last refresh applied had been        *)
(* overtaken by a newer one (AdminQueues and BudgetOperations reload after *)
(* every decision, and their refreshes carry no sequence number).          *)
DecidedRowsLeave ==
    refreshes = <<>> /\ ~overtaken =>
        \A r \in accepted : r \notin Shown(SectionOf[r])

(* A form that waits for the answer to the decision it sent.               *)
AwaitsAnswer == \E s \in mounted : submitting(s)

(* A budget screen that shows, or may show, a reservation already decided. *)
Outdated(r) == "budget" \in mounted /\ r \notin openRows
=============================================================================
