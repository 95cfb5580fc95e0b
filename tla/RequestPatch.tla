---------------------------- MODULE RequestPatch ----------------------------
(***************************************************************************)
(* What one PATCH of a request does to its document, as a function of the  *)
(* stored document and of the operations in the body.  RequestAPI.patch    *)
(* runs the operations in order on an in-memory copy and saves it only if  *)
(* none of them raised, so a PATCH either applies completely or not at     *)
(* all; the operators below give the outcome without the loop.             *)
(* RequestPatchLoop runs the loop itself and compares.                     *)
(***************************************************************************)
EXTENDS Naturals, Sequences

CONSTANTS
    Values,     \* outputs and error classes, compared only for equality
    NoValue     \* the None an unset output or error_class holds

ASSUME NoValueAssumption == NoValue \notin Values

\* brewtils.models.Request, as the handlers and the metrics use it.
STATUS_LIST ==
    {"CREATED", "RECEIVED", "IN_PROGRESS", "CANCELED", "SUCCESS", "ERROR"}

COMPLETED_STATUSES == {"CANCELED", "SUCCESS", "ERROR"}

\* Fields a PATCH may not change once the request is completed.
GuardedFields == {"output", "error_class"}

\* One operation.  "unsupported" stands for each of the three operations the
\* handler refuses: another verb, another path, another status value.
PatchOps ==
    [path : {"status"}, value : STATUS_LIST]
        \union [path : GuardedFields, value : Values]
        \union [path : {"unsupported"}, value : {NoValue}]

-----------------------------------------------------------------------------

\* Mutant of RejectsOp: the guard on completed requests is dropped.
UnguardedRejectsOp(doc, op) == op.path = "unsupported"

\* The branches that raise ModelValidationError.  status_before is the stored
\* status: a status operation earlier in the same body lifts no guard.
RejectsOp(doc, op) ==
    \/ op.path = "unsupported"
    \/ /\ op.path \in GuardedFields
       /\ doc.status \in COMPLETED_STATUSES
       /\ op.value # doc[op.path]

Rejected(doc, ops) == \E i \in DOMAIN ops : RejectsOp(doc, ops[i])

\* Mutant of LastWritten: the paths are not told apart.
AnyPathLastWritten(ops, field) ==
    {ops[i].value : i \in {k \in DOMAIN ops : k = Len(ops)}}

\* Mutant of LastWritten: the first operation on a field wins.
FirstWritten(ops, field) ==
    {ops[i].value : i \in {k \in DOMAIN ops :
        /\ ops[k].path = field
        /\ \A j \in DOMAIN ops : j < k => ops[j].path # field}}

\* The value the last operation on a field gives it: at most one element.
LastWritten(ops, field) ==
    {ops[i].value : i \in {k \in DOMAIN ops :
        /\ ops[k].path = field
        /\ \A j \in DOMAIN ops : j > k => ops[j].path # field}}

FinalValue(doc, ops, field) ==
    IF LastWritten(ops, field) = {}
    THEN doc[field]
    ELSE CHOOSE v \in LastWritten(ops, field) : TRUE

\* The document an accepted PATCH saves.
PatchedDoc(doc, ops) ==
    [doc EXCEPT !.status      = FinalValue(doc, ops, "status"),
                !.output      = FinalValue(doc, ops, "output"),
                !.error_class = FinalValue(doc, ops, "error_class")]

\* Mutant of Completes: only a success wakes the waiter.
SuccessCompletes(ops) ==
    \E i \in DOMAIN ops : ops[i].path = "status" /\ ops[i].value = "SUCCESS"

\* The body names a completed status, so the handler looks for a waiter.
Completes(ops) ==
    \E i \in DOMAIN ops :
        ops[i].path = "status" /\ ops[i].value \in COMPLETED_STATUSES

-----------------------------------------------------------------------------

\* The event a status operation gives the handler, if it gives one.
NamedBy(status) ==
    IF status = "IN_PROGRESS" THEN "REQUEST_STARTED" ELSE "REQUEST_COMPLETED"

\* The name the event ends up with: that of the last status operation that
\* names one.  CREATED and RECEIVED name none and leave an earlier name.
EventNames(ops) ==
    LET naming == {k \in DOMAIN ops :
            /\ ops[k].path = "status"
            /\ ops[k].value \in COMPLETED_STATUSES \union {"IN_PROGRESS"}}
    IN  {NamedBy(ops[i].value) : i \in {k \in naming :
            \A j \in naming : j <= k}}

\* Mutant of EventError: an error class counts although it was there before.
RepeatedEventError(doc, ops) ==
    \E i \in DOMAIN ops : ops[i].path = "error_class"

\* Mutant of EventError: the first error class of a request does not count.
FirstEventErrorMissed(doc, ops) ==
    \E i \in DOMAIN ops :
        /\ ops[i].path = "error_class"
        /\ ops[i].value # doc.error_class
        /\ doc.error_class # NoValue

\* The event's error flag: raised by an error_class that was not there before,
\* and by nothing else an accepted PATCH does.
EventError(doc, ops) ==
    \E i \in DOMAIN ops :
        ops[i].path = "error_class" /\ ops[i].value # doc.error_class

=============================================================================
