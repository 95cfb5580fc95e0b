-------------------------- MODULE RequestPatchLoop --------------------------
(***************************************************************************)
(* The for-loop of RequestAPI.patch, one operation per step, started on    *)
(* every document and every body of the instance.  It is the reference the *)
(* definitions of RequestPatch are held against.                           *)
(***************************************************************************)
EXTENDS RequestPatch

CONSTANT Bodies       \* the operation sequences a PATCH may carry

ASSUME BodiesAssumption == Bodies \subseteq Seq(PatchOps)

VARIABLES
    stored,     \* the document in Mongo when the handler read it
    operations, \* the parsed body
    next,       \* index of the next operation
    req,        \* the handler's in-memory copy
    found,      \* wait_event was looked up in the request map
    event,      \* request.event: its name and its error flag
    outcome     \* "running", then "saved" or "rejected"

vars == <<stored, operations, next, req, found, event, outcome>>

Documents ==
    [status : STATUS_LIST, output : Values \union {NoValue},
     error_class : Values \union {NoValue}]

Init ==
    /\ stored \in Documents
    /\ operations \in Bodies
    /\ next = 1
    /\ req = stored
    /\ found = FALSE
    /\ event = [name |-> "none", error |-> FALSE]
    /\ outcome = "running"

op == operations[next]

Running == outcome = "running" /\ next <= Len(operations)

\* Mutant of ReplaceStatus: the event is named after the status.
StatusNamesEvent ==
    /\ Running
    /\ op.path = "status"
    /\ req' = [req EXCEPT !.status = op.value]
    /\ event' = [event EXCEPT !.name = op.value]
    /\ found' = (found \/ op.value \in COMPLETED_STATUSES)
    /\ next' = next + 1
    /\ UNCHANGED <<stored, operations, outcome>>

ReplaceStatus ==
    /\ Running
    /\ op.path = "status"
    /\ req' = [req EXCEPT !.status = op.value]
    /\ \/ /\ op.value = "IN_PROGRESS"
          /\ event' = [event EXCEPT !.name = "REQUEST_STARTED"]
          /\ found' = found
       \/ /\ op.value \in COMPLETED_STATUSES
          /\ event' = [event EXCEPT !.name = "REQUEST_COMPLETED"]
          /\ found' = TRUE
       \/ /\ op.value \notin COMPLETED_STATUSES \union {"IN_PROGRESS"}
          /\ UNCHANGED <<event, found>>
    /\ next' = next + 1
    /\ UNCHANGED <<stored, operations, outcome>>

\* An output or error_class that is there already is skipped.
SkipUnchanged ==
    /\ Running
    /\ op.path \in GuardedFields
    /\ req[op.path] = op.value
    /\ next' = next + 1
    /\ UNCHANGED <<stored, operations, req, found, event, outcome>>

\* Mutant of ReplaceField: the guard reads the status the loop has reached, so
\* an operation that reopens the request lifts it.
LateGuardReplaceField ==
    /\ Running
    /\ op.path \in GuardedFields
    /\ req[op.path] # op.value
    /\ req.status \notin COMPLETED_STATUSES
    /\ req' = [req EXCEPT ![op.path] = op.value]
    /\ event' = [event EXCEPT !.error = @ \/ op.path = "error_class"]
    /\ next' = next + 1
    /\ UNCHANGED <<stored, operations, found, outcome>>

ReplaceField ==
    /\ Running
    /\ op.path \in GuardedFields
    /\ req[op.path] # op.value
    /\ stored.status \notin COMPLETED_STATUSES
    /\ req' = [req EXCEPT ![op.path] = op.value]
    /\ event' = [event EXCEPT !.error = @ \/ op.path = "error_class"]
    /\ next' = next + 1
    /\ UNCHANGED <<stored, operations, found, outcome>>

Raise ==
    /\ Running
    /\ \/ op.path = "unsupported"
       \/ /\ op.path \in GuardedFields
          /\ req[op.path] # op.value
          /\ stored.status \in COMPLETED_STATUSES
    /\ outcome' = "rejected"
    /\ UNCHANGED <<stored, operations, next, req, found, event>>

Save ==
    /\ outcome = "running"
    /\ next > Len(operations)
    /\ outcome' = "saved"
    /\ UNCHANGED <<stored, operations, next, req, found, event>>

Next == ReplaceStatus \/ SkipUnchanged \/ ReplaceField \/ Raise \/ Save

Spec == Init /\ [][Next]_vars

-----------------------------------------------------------------------------

\* Types of the loop's variables; the event carries one of two names.
TypeOK ==
    /\ stored \in Documents
    /\ req \in Documents
    /\ operations \in Bodies
    /\ next \in 1 .. Len(operations) + 1
    /\ found \in BOOLEAN
    /\ event \in [name : {"none", "REQUEST_STARTED", "REQUEST_COMPLETED"},
                 error : BOOLEAN]
    /\ outcome \in {"running", "saved", "rejected"}

\* The saved document is the one PatchedDoc computes, and a saved body is one
\* that Rejected accepts: the later modules may use these definitions for the
\* loop of RequestAPI.patch.
SavedAsDefined ==
    outcome = "saved" =>
        /\ ~Rejected(stored, operations)
        /\ req = PatchedDoc(stored, operations)
        /\ found = Completes(operations)

\* A raised ModelValidationError is one Rejected foretells.
RejectedAsDefined == outcome = "rejected" => Rejected(stored, operations)

\* The event of an accepted PATCH carries the name and the error flag of
\* EventNames and EventError.
EventAsDefined ==
    outcome = "saved" =>
        /\ EventNames(operations) = {event.name} \ {"none"}
        /\ event.error = EventError(stored, operations)

\* However the operations are ordered, a PATCH of a completed request never
\* touches its output or its error class (RequestAPI.patch notes the status
\* before the loop, so completing and reopening inside one body lift no guard).
CompletedFieldsKept ==
    (stored.status \in COMPLETED_STATUSES) =>
        \A field \in GuardedFields : req[field] = stored[field]

=============================================================================
