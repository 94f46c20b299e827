---------------------------- MODULE SchedulesPage ----------------------------
(* views/Schedules.vue, the list, its form and the bindings of a schedule.     *)
(* The value of a row is its name, mode and windows together; of profiles and  *)
(* blocklists there is one pair, which each schedule binds or not.  The grid   *)
(* of the form is in ScheduleGrid.                                             *)
EXTENDS Page, SequencesExt, Functions

Schedule == [id : Item, value : Value]
ScheduleBinding == BOOLEAN   \* whether the pair is bound to a schedule

SchedulesTypeOK ==
    /\ TypedCalls
    /\ \A k \in DOMAIN ui.schedules : ui.schedules[k] \in Schedule
    /\ ui.original \in Schedule \cup {None}
    /\ {ui.loading, ui.showModal, ui.submitting, ui.deleting} \subseteq BOOLEAN
    /\ {ui.pendingDelete, ui.expandedId} \subseteq Item \cup {None}
    /\ ui.bindings \in [Item -> ScheduleBinding \cup {None}]
    /\ \A busy \in {ui.bindingsLoading, ui.bindingSubmitting, ui.bindingRemoving} :
          busy \in [Item -> BOOLEAN]
    /\ RowsType(srv.rows) /\ srv.bound \subseteq Item

Listed == {ui.schedules[k].id : k \in DOMAIN ui.schedules}
FirstOfId(list, i) == SelectInSeq(list, LAMBDA s : s.id = i)

\* What the page offers: the list, unless a dialog covers it, and in the open
\* panel a binding to add or the one to remove.
SchedulesCovered == ui.showModal \/ ui.pendingDelete # None
SchedulesCreateOffered == ~SchedulesCovered
SchedulesRowsOffered == IF SchedulesCovered \/ ui.loading THEN {} ELSE DOMAIN ui.schedules
Panel ==
    IF SchedulesCovered \/ ui.loading \/ ui.expandedId \notin Listed THEN {} ELSE {ui.expandedId}
SubmitOffered == ui.showModal /\ ~ui.submitting
SchedulesDeleteOffered == ui.pendingDelete # None /\ ~ui.deleting

SchedulesInit ==
    /\ page = "schedules"
    /\ ui = [schedules |-> <<>>, original |-> None, loading |-> TRUE, showModal |-> FALSE,
             submitting |-> FALSE, deleting |-> FALSE, pendingDelete |-> None,
             expandedId |-> None, bindings |-> NoRows,
             bindingsLoading |-> [i \in Item |-> FALSE],
             bindingSubmitting |-> [i \in Item |-> FALSE],
             bindingRemoving |-> [i \in Item |-> FALSE]]
    /\ \E r \in OneRow, bound \in SUBSET Item :
          bound \subseteq Ids(r.rows) /\ srv = [rows |-> r.rows, bound |-> bound]
    /\ calls = {Call(1, "listSchedules", None)} /\ writes = 0 /\ crossed = FALSE

\* Schedules, profiles and blocklists are read together, once.
SchedulesRefreshed(c) ==
    /\ c \in Ended("listSchedules")
    /\ ui' = [ui EXCEPT !.loading = FALSE,
                        !.schedules = IF c.at = "ok" THEN SetToSeq(c.data.rows) ELSE @]
    /\ Done(c) /\ UNCHANGED <<page, srv>>

SchedulesOpenCreate ==
    /\ SchedulesCreateOffered
    /\ ui' = [ui EXCEPT !.showModal = TRUE, !.original = None]
    /\ Local

SchedulesOpenEdit(k) ==
    /\ k \in SchedulesRowsOffered
    /\ ui' = [ui EXCEPT !.showModal = TRUE, !.original = ui.schedules[k]]
    /\ Local

\* mutant: Escape and the backdrop do not wait for the call.
SchedulesCloseModalAnytime ==
    /\ ui.showModal
    /\ ui' = [ui EXCEPT !.showModal = FALSE]
    /\ Local

SchedulesCloseModal ==
    /\ SubmitOffered
    /\ ui' = [ui EXCEPT !.showModal = FALSE]
    /\ Local

\* Nothing tells an id that is taken from one that is free.
SchedulesSubmitCreate ==
    /\ SubmitOffered /\ ui.original = None
    /\ ui' = [ui EXCEPT !.submitting = TRUE]
    /\ \E i \in Item, v \in Value : Asks("createSchedule", [id |-> i, value |-> v])
    /\ UNCHANGED <<page, srv>>

\* A form left as it was is closed without a call.
SubmitEdit ==
    /\ SubmitOffered /\ ui.original # None
    /\ \/ ui' = [ui EXCEPT !.showModal = FALSE] /\ Local
       \/ /\ ui' = [ui EXCEPT !.submitting = TRUE]
          /\ \E v \in Value \ {ui.original.value} :
                Asks("updateSchedule", [id |-> ui.original.id, value |-> v])
          /\ UNCHANGED <<page, srv>>

\* mutant: an edited row is left as it was.
SubmittedStale(c) ==
    /\ c \in Ended("createSchedule") \cup Ended("updateSchedule")
    /\ ui' = IF c.at = "failed" THEN [ui EXCEPT !.submitting = FALSE]
             ELSE [ui EXCEPT !.submitting = FALSE, !.showModal = FALSE,
                     !.schedules = IF c.op = "createSchedule" THEN Append(@, c.data) ELSE @]
    /\ Done(c) /\ UNCHANGED <<page, srv>>

\* A created row goes to the end, an edited one where the first of its id is.
SchedulesSubmitted(c) ==
    /\ c \in Ended("createSchedule") \cup Ended("updateSchedule")
    /\ ui' = IF c.at = "failed" THEN [ui EXCEPT !.submitting = FALSE]
             ELSE [ui EXCEPT !.submitting = FALSE, !.showModal = FALSE,
                     !.schedules =
                        IF c.op = "createSchedule" THEN Append(@, c.data)
                        ELSE IF c.data.id \notin Listed THEN @
                        ELSE [@ EXCEPT ![FirstOfId(ui.schedules, c.data.id)] = c.data]]
    /\ Done(c) /\ UNCHANGED <<page, srv>>

SchedulesAskDelete(k) ==
    /\ k \in SchedulesRowsOffered
    /\ ui' = [ui EXCEPT !.pendingDelete = ui.schedules[k].id]
    /\ Local

\* Cancel, the backdrop and Escape, even while the schedule is being deleted.
SchedulesCancelDelete ==
    /\ ui.pendingDelete # None
    /\ ui' = [ui EXCEPT !.pendingDelete = None]
    /\ Local

SchedulesConfirmDelete ==
    /\ SchedulesDeleteOffered
    /\ ui' = [ui EXCEPT !.deleting = TRUE]
    /\ Asks("deleteSchedule", [id |-> ui.pendingDelete])
    /\ UNCHANGED <<page, srv>>

SchedulesDeleted(c) ==
    /\ c \in Ended("deleteSchedule")
    /\ ui' = IF c.at = "failed" THEN [ui EXCEPT !.deleting = FALSE]
             ELSE [ui EXCEPT
                     !.deleting = FALSE, !.pendingDelete = None,
                     !.schedules = Kept(@, {k \in DOMAIN @ : @[k].id # c.arg.id}),
                     !.bindings[c.arg.id] = None,
                     !.expandedId = IF @ = c.arg.id THEN None ELSE @]
    /\ Done(c) /\ UNCHANGED <<page, srv>>

\* The bindings of a schedule are read once; a read that failed counts as one
\* that found none.
ToggleBindings(i) ==
    /\ i \in {ui.schedules[k].id : k \in SchedulesRowsOffered}
    /\ IF ui.expandedId = i
       THEN ui' = [ui EXCEPT !.expandedId = None] /\ Local
       ELSE IF ui.bindings[i] # None
       THEN ui' = [ui EXCEPT !.expandedId = i] /\ Local
       ELSE /\ ui' = [ui EXCEPT !.expandedId = i, !.bindingsLoading[i] = TRUE]
            /\ AsksAside("listScheduleBindings", [id |-> i])
            /\ UNCHANGED <<page, srv>>

GotBindings(c) ==
    /\ c \in Ended("listScheduleBindings")
    /\ ui' = [ui EXCEPT !.bindingsLoading[c.arg.id] = FALSE,
                        !.bindings[c.arg.id] = c.at = "ok" /\ c.data.bound]
    /\ Done(c) /\ UNCHANGED <<page, srv>>

\* The pair is bound to another schedule, as far as the page has read.
CheckBindingConflict(i) == \E j \in Item \ {i} : ui.bindings[j] = TRUE

SubmitBinding(i) ==
    /\ i \in Panel /\ ~ui.bindingSubmitting[i] /\ ~ui.bindingsLoading[i]
    /\ ~CheckBindingConflict(i)
    /\ ui' = [ui EXCEPT !.bindingSubmitting[i] = TRUE]
    /\ AsksAside("addScheduleBinding", [id |-> i])
    /\ UNCHANGED <<page, srv>>

BindingAdded(c) ==
    /\ c \in Ended("addScheduleBinding")
    /\ ui' = [ui EXCEPT !.bindingSubmitting[c.arg.id] = FALSE,
                        !.bindings[c.arg.id] = IF c.at = "ok" THEN TRUE ELSE @]
    /\ Done(c) /\ UNCHANGED <<page, srv>>

RemoveBinding(i) ==
    /\ i \in Panel /\ ~ui.bindingsLoading[i]
    /\ ui.bindings[i] = TRUE /\ ~ui.bindingRemoving[i]
    /\ ui' = [ui EXCEPT !.bindingRemoving[i] = TRUE]
    /\ AsksAside("deleteScheduleBinding", [id |-> i])
    /\ UNCHANGED <<page, srv>>

BindingRemoved(c) ==
    /\ c \in Ended("deleteScheduleBinding")
    /\ ui' = [ui EXCEPT !.bindingRemoving[c.arg.id] = FALSE,
                        !.bindings[c.arg.id] = IF c.at = "ok" THEN FALSE ELSE @]
    /\ Done(c) /\ UNCHANGED <<page, srv>>

-----------------------------------------------------------------------------
(* The node.  Creating a schedule replaces one of the same id and keeps what   *)
(* it binds; a binding needs no schedule; deleting a schedule takes its        *)
(* bindings along.                                                             *)

SchedulesStored(i) == i \in Ids(srv.rows)

ServesSchedules(c) ==
    \/ /\ c.op = "listSchedules" /\ UNCHANGED srv
       /\ Answers(c, [rows |-> {[id |-> i, value |-> srv.rows[i]] : i \in Ids(srv.rows)}])
    \/ /\ c.op = "updateSchedule" /\ ~SchedulesStored(c.arg.id) /\ Refuses(c)
    \/ /\ c.op = "createSchedule" \/ (c.op = "updateSchedule" /\ SchedulesStored(c.arg.id))
       /\ srv' = [srv EXCEPT !.rows[c.arg.id] = c.arg.value]
       /\ Answers(c, c.arg)
    \/ /\ c.op = "deleteSchedule"
       /\ srv' = [rows |-> [srv.rows EXCEPT ![c.arg.id] = None],
                  bound |-> srv.bound \ {c.arg.id}]
       /\ Answers(c, None)

ServesBindings(c) ==
    \/ /\ c.op = "listScheduleBindings" /\ ~SchedulesStored(c.arg.id) /\ Refuses(c)
    \/ /\ c.op = "listScheduleBindings" /\ SchedulesStored(c.arg.id) /\ UNCHANGED srv
       /\ Answers(c, [bound |-> c.arg.id \in srv.bound])
    \/ /\ c.op = "addScheduleBinding"
       /\ srv' = [srv EXCEPT !.bound = @ \cup {c.arg.id}] /\ Answers(c, None)
    \/ /\ c.op = "deleteScheduleBinding"
       /\ srv' = [srv EXCEPT !.bound = @ \ {c.arg.id}] /\ Answers(c, None)

SchedulesServes(c) ==
    /\ c.at = "sent" /\ (ServesSchedules(c) \/ ServesBindings(c))
    /\ UNCHANGED <<page, ui>>

SchedulesNext ==
    \/ SchedulesOpenCreate \/ SchedulesCloseModal \/ SchedulesSubmitCreate \/ SubmitEdit
    \/ SchedulesConfirmDelete \/ SchedulesCancelDelete
    \/ \E k \in DOMAIN ui.schedules : SchedulesOpenEdit(k) \/ SchedulesAskDelete(k)
    \/ \E i \in Item : ToggleBindings(i) \/ SubmitBinding(i) \/ RemoveBinding(i)
    \/ \E c \in calls : \/ SchedulesRefreshed(c) \/ SchedulesSubmitted(c)
                        \/ SchedulesDeleted(c) \/ GotBindings(c)
                        \/ BindingAdded(c) \/ BindingRemoved(c) \/ SchedulesServes(c) \/ Fails(c)

-----------------------------------------------------------------------------

\* Once everything is answered and no call crossed another, there is a row for
\* every stored schedule and no other, one of its rows shows what is stored, and
\* the bindings the page has read are those of the node.
ShowsSchedules ==
    Settled => /\ Listed = Ids(srv.rows)
               /\ \A i \in Listed : [id |-> i, value |-> srv.rows[i]] \in Range(ui.schedules)
               /\ \A i \in Listed : ui.bindings[i] # None => ui.bindings[i] = (i \in srv.bound)

\* A schedule and a binding are each changed by one call at a time, whatever
\* Escape, the backdrops and the panels do: the form that is on its way stays
\* open until the answer closes it, and a binding has its buttons disabled exactly
\* as long as the call that adds or removes it is under way.
OneChangeEach ==
    LET forms == Pending("createSchedule") \cup Pending("updateSchedule")
        of(op, i) == Cardinality({c \in Pending(op) : c.arg.id = i})
    IN /\ Cardinality(forms) = (IF ui.submitting THEN 1 ELSE 0)
       /\ \A c \in forms :
             ui.showModal /\ (c.op = "createSchedule") = (ui.original = None)
       /\ \A i \in Item :
             /\ of("addScheduleBinding", i) = (IF ui.bindingSubmitting[i] THEN 1 ELSE 0)
             /\ of("deleteScheduleBinding", i) = (IF ui.bindingRemoving[i] THEN 1 ELSE 0)

\* A schedule has one row.  Not so: creating one under an id that is taken
\* replaces it at the node and adds a row.
OneRowEach == Cardinality(Listed) = Len(ui.schedules)

\* The page binds the pair to no second schedule.  Not so: it asks the panels
\* that have been opened.
BindsNoPairTwice ==
    [][\A i \in Item : ui'.bindingSubmitting[i] /\ ~ui.bindingSubmitting[i]
          => srv.bound \subseteq {i}]_pageVars

=============================================================================
