----------------------- MODULE RequestPatchLoopProofs -----------------------
(***************************************************************************)
(* That the loop of RequestAPI.patch computes what RequestPatch defines,   *)
(* for every document and every body, however long.                        *)
(***************************************************************************)
EXTENDS RequestPatchLoop, Integers, TLAPS

-----------------------------------------------------------------------------
(***************************************************************************)
(* The loop invariant: the definitions, over the operations done so far.   *)
(***************************************************************************)

\* The operations done.
Done == 1 .. next - 1

\* i is the last of the indices in S.
IsLast(i, S) == i \in S /\ \A j \in S : j <= i

Writing(field) == {k \in Done : operations[k].path = field}

\* A field holds what the last operation on it wrote, if there was one.
FieldAsFar(field) ==
    \/ Writing(field) = {} /\ req[field] = stored[field]
    \/ \E i \in Writing(field) :
           IsLast(i, Writing(field)) /\ req[field] = operations[i].value

FieldsAsFar == FieldAsFar("status") /\ FieldAsFar("output") /\ FieldAsFar("error_class")

\* A waiter was looked for if a completed status was written.
FoundAsFar ==
    found <=> \E k \in Writing("status") : operations[k].value \in COMPLETED_STATUSES

Naming ==
    {k \in Writing("status") :
        operations[k].value \in COMPLETED_STATUSES \union {"IN_PROGRESS"}}

NameAsFar ==
    \/ Naming = {} /\ event.name = "none"
    \/ \E i \in Naming : IsLast(i, Naming) /\ event.name = NamedBy(operations[i].value)

ErrorAsFar ==
    event.error <=> \E k \in Writing("error_class") : operations[k].value # stored.error_class

NoneRejected == \A k \in Done : ~RejectsOp(stored, operations[k])

Ends ==
    /\ outcome = "saved" => next = Len(operations) + 1
    /\ outcome = "rejected" => next <= Len(operations) /\ RejectsOp(stored, operations[next])

LoopInv ==
    /\ FieldsAsFar /\ FoundAsFar /\ NameAsFar /\ ErrorAsFar
    /\ NoneRejected /\ CompletedFieldsKept /\ Ends

-----------------------------------------------------------------------------
(***************************************************************************)
(* Types.                                                                  *)
(***************************************************************************)

\* The operation at hand is one of those a body may hold.
LEMMA OpType ==
    ASSUME TypeOK, Running
    PROVE  /\ next \in 1 .. Len(operations) /\ Len(operations) \in Nat
           /\ op \in PatchOps
           /\ \/ op.path = "status" /\ op.value \in STATUS_LIST
              \/ op.path \in GuardedFields /\ op.value \in Values
              \/ op.path = "unsupported"
<1>1. operations \in Seq(PatchOps)
  BY BodiesAssumption DEF TypeOK
<1>2. next \in 1 .. Len(operations) /\ Len(operations) \in Nat
  BY <1>1 DEF TypeOK, Running
<1>3. op \in PatchOps
  BY <1>1, <1>2 DEF op
<1>4. QED
  BY <1>2, <1>3 DEF PatchOps

\* Every variable of the loop keeps its type, for every set of values and
\* bodies.
THEOREM TypeCorrect == Spec => []TypeOK
<1>1. Init => TypeOK
  <2> SUFFICES ASSUME Init PROVE TypeOK
    OBVIOUS
  <2>1. operations \in Seq(PatchOps) /\ next = 1
    BY BodiesAssumption DEF Init
  <2>2. next \in 1 .. Len(operations) + 1
    BY <2>1
  <2>3. QED
    BY <2>2 DEF Init, TypeOK
<1>2. TypeOK /\ [Next]_vars => TypeOK'
  <2> SUFFICES ASSUME TypeOK, [Next]_vars PROVE TypeOK'
    OBVIOUS
  <2>1. CASE ReplaceStatus
    <3>1. /\ Running /\ next' = next + 1 /\ UNCHANGED <<stored, operations, outcome>>
          /\ op.path = "status"
      BY <2>1 DEF ReplaceStatus
    <3>2. next' \in 1 .. Len(operations') + 1
      BY <3>1, OpType
    <3>3. op.value \in STATUS_LIST
      BY <3>1, OpType DEF GuardedFields
    <3>4. req' \in Documents
      BY <2>1, <3>3 DEF ReplaceStatus, TypeOK, Documents
    <3>5. /\ event' \in [name : {"none", "REQUEST_STARTED", "REQUEST_COMPLETED"},
                         error : BOOLEAN]
          /\ found' \in BOOLEAN
      BY <2>1 DEF ReplaceStatus, TypeOK
    <3>6. QED
      BY <3>1, <3>2, <3>4, <3>5 DEF TypeOK
  <2>2. CASE SkipUnchanged
    <3>1. Running /\ next' = next + 1 /\ UNCHANGED <<stored, operations, req, found, event, outcome>>
      BY <2>2 DEF SkipUnchanged
    <3>2. next' \in 1 .. Len(operations') + 1
      BY <3>1, OpType
    <3>3. QED
      BY <3>1, <3>2 DEF TypeOK
  <2>3. CASE ReplaceField
    <3>1. /\ Running /\ next' = next + 1 /\ UNCHANGED <<stored, operations, found, outcome>>
          /\ op.path \in GuardedFields
      BY <2>3 DEF ReplaceField
    <3>2. next' \in 1 .. Len(operations') + 1
      BY <3>1, OpType
    <3>3. op.value \in Values
      BY <3>1, OpType DEF GuardedFields
    <3>4. req' \in Documents
      BY <2>3, <3>1, <3>3 DEF ReplaceField, TypeOK, Documents, GuardedFields
    <3>5. event' \in [name : {"none", "REQUEST_STARTED", "REQUEST_COMPLETED"}, error : BOOLEAN]
      BY <2>3 DEF ReplaceField, TypeOK
    <3>6. QED
      BY <3>1, <3>2, <3>4, <3>5 DEF TypeOK
  <2>4. CASE Raise \/ Save
    BY <2>4 DEF Raise, Save, TypeOK
  <2>5. CASE UNCHANGED vars
    BY <2>5 DEF vars, TypeOK
  <2>6. QED
    BY <2>1, <2>2, <2>3, <2>4, <2>5 DEF Next
<1>3. QED
  BY <1>1, <1>2, PTL DEF Spec

-----------------------------------------------------------------------------
(***************************************************************************)
(* One more operation.                                                     *)
(***************************************************************************)

\* The loop has gone on by one operation.
Advances == Running /\ next' = next + 1 /\ UNCHANGED <<stored, operations>>

\* Its index comes after those of the operations done.
LEMMA OneMoreDone ==
    ASSUME TypeOK, Advances
    PROVE  /\ Done' = Done \union {next}
           /\ \A k \in Done : k < next
           /\ next \notin Done
<1>1. next \in 1 .. Len(operations) /\ Len(operations) \in Nat
  BY OpType DEF Advances
<1>2. QED
  BY <1>1 DEF Done, Advances

\* It is the last operation on its field, and on no other.
LEMMA OneMoreWriting ==
    ASSUME TypeOK, Advances, NEW field
    PROVE  /\ op.path = field => /\ Writing(field)' = Writing(field) \union {next}
                                 /\ IsLast(next, Writing(field)')
           /\ op.path # field => Writing(field)' = Writing(field)
<1>1. next \in Nat
  BY OpType DEF Advances
<1>2. Done' = Done \union {next} /\ \A k \in Done : k < next
  BY OneMoreDone
<1>3. UNCHANGED operations
  BY DEF Advances
<1>4. Done \subseteq Int
  BY DEF Done
<1>5. QED
  BY <1>1, <1>2, <1>3, <1>4 DEF Writing, IsLast, op

\* The operation at hand is the last on its field, and the fields it does not
\* write stay as they are.
LEMMA FieldStep ==
    ASSUME TypeOK, Advances, NEW field, FieldAsFar(field),
           IF op.path = field THEN req'[field] = op.value ELSE req'[field] = req[field]
    PROVE  FieldAsFar(field)'
<1>1. CASE op.path = field
  <2>1. IsLast(next, Writing(field)') /\ next \in Writing(field)'
    BY <1>1, OneMoreWriting DEF IsLast
  <2>2. req'[field] = operations'[next].value
    BY <1>1 DEF Advances, op
  <2>3. QED
    BY <2>1, <2>2 DEF FieldAsFar
<1>2. CASE op.path # field
  <2>1. Writing(field)' = Writing(field)
    BY <1>2, OneMoreWriting
  <2>2. QED
    BY <1>2, <2>1 DEF FieldAsFar, IsLast, Advances
<1>3. QED
  BY <1>1, <1>2

\* A status names the event, and completes the request, or does neither.
LEMMA StatusStep ==
    ASSUME TypeOK, LoopInv, ReplaceStatus
    PROVE  LoopInv'
<1>1. /\ Advances /\ op.path = "status" /\ op.value \in STATUS_LIST
      /\ UNCHANGED outcome /\ outcome = "running"
  BY OpType DEF ReplaceStatus, Advances, Running, GuardedFields
<1>2. /\ Writing("status")' = Writing("status") \union {next}
      /\ IsLast(next, Writing("status")')
      /\ Writing("error_class")' = Writing("error_class")
      /\ UNCHANGED <<stored, operations>>
  BY <1>1, OneMoreWriting DEF Advances
<1>3. /\ req'.status = op.value /\ req'.output = req.output
      /\ req'.error_class = req.error_class /\ event'.error = event.error
  BY DEF ReplaceStatus, TypeOK, Documents
<1>4. FieldsAsFar'
  <2>1. FieldAsFar("status") /\ FieldAsFar("output") /\ FieldAsFar("error_class")
    BY DEF LoopInv, FieldsAsFar
  <2>2. FieldAsFar("status")'
    BY <1>1, <1>3, <2>1, FieldStep
  <2>3. FieldAsFar("output")'
    BY <1>1, <1>3, <2>1, FieldStep
  <2>4. FieldAsFar("error_class")'
    BY <1>1, <1>3, <2>1, FieldStep
  <2>5. QED
    BY <2>2, <2>3, <2>4 DEF FieldsAsFar
<1>5. FoundAsFar'
  <2>1. found' = (found \/ op.value \in COMPLETED_STATUSES)
    BY DEF ReplaceStatus, TypeOK, COMPLETED_STATUSES
  <2>2. QED
    BY <1>2, <2>1 DEF LoopInv, FoundAsFar, op
<1>6. NameAsFar'
  <2>1. CASE op.value \in COMPLETED_STATUSES \union {"IN_PROGRESS"}
    <3>1. event'.name = NamedBy(op.value)
      BY <2>1 DEF ReplaceStatus, TypeOK, NamedBy, COMPLETED_STATUSES
    <3>2. IsLast(next, Naming')
      BY <1>2, <2>1 DEF IsLast, Naming, op
    <3>3. next \in Naming' /\ event'.name = NamedBy(operations'[next].value)
      BY <1>2, <3>1, <3>2 DEF IsLast, op
    <3>4. QED
      BY <3>2, <3>3 DEF NameAsFar
  <2>2. CASE op.value \notin COMPLETED_STATUSES \union {"IN_PROGRESS"}
    <3>1. UNCHANGED event
      BY <2>2 DEF ReplaceStatus
    <3>2. Naming' = Naming
      BY <1>2, <2>2 DEF Naming, op
    <3>3. QED
      BY <1>2, <3>1, <3>2 DEF LoopInv, NameAsFar, IsLast
  <2>3. QED
    BY <2>1, <2>2
<1>7. ErrorAsFar'
  BY <1>2, <1>3 DEF LoopInv, ErrorAsFar
<1>8. NoneRejected'
  <2>1. ~RejectsOp(stored, op)
    BY <1>1 DEF RejectsOp, GuardedFields
  <2>2. QED
    BY <1>1, <1>2, <2>1, OneMoreDone DEF LoopInv, NoneRejected, op
<1>9. CompletedFieldsKept'
  BY <1>2, <1>3 DEF LoopInv, CompletedFieldsKept, GuardedFields
<1>10. QED
  BY <1>1, <1>4, <1>5, <1>6, <1>7, <1>8, <1>9 DEF LoopInv, Ends

\* What output and error_class share: they name no event.
LEMMA GuardedStep ==
    ASSUME TypeOK, LoopInv, Advances, op.path \in GuardedFields,
           outcome = "running", UNCHANGED <<found, outcome>>, event'.name = event.name
    PROVE  FoundAsFar' /\ NameAsFar' /\ Ends'
<1>1. Writing("status")' = Writing("status") /\ UNCHANGED operations
  BY OneMoreWriting DEF GuardedFields, Advances
<1>2. Naming' = Naming
  BY <1>1 DEF Naming
<1>3. QED
  BY <1>1, <1>2 DEF LoopInv, FoundAsFar, NameAsFar, IsLast, Ends

\* A value that is there already is skipped, and would have changed nothing.
LEMMA SkipStep ==
    ASSUME TypeOK, LoopInv, SkipUnchanged
    PROVE  LoopInv'
<1>1. /\ Advances /\ op.path \in GuardedFields /\ req[op.path] = op.value
      /\ UNCHANGED <<req, found, event, outcome>> /\ outcome = "running"
  BY DEF SkipUnchanged, Advances, Running
<1>2. FieldsAsFar'
  <2>1. \A field \in {"status", "output", "error_class"} :
            FieldAsFar(field) /\ IF op.path = field THEN req'[field] = op.value
                                                    ELSE req'[field] = req[field]
    BY <1>1 DEF LoopInv, FieldsAsFar, GuardedFields
  <2>2. \A field \in {"status", "output", "error_class"} : FieldAsFar(field)'
    BY <1>1, <2>1, FieldStep
  <2>3. QED
    BY <2>2 DEF FieldsAsFar
<1>3. FoundAsFar' /\ NameAsFar' /\ Ends'
  BY <1>1, GuardedStep
<1>4. ErrorAsFar'
  <2>1. CASE op.path = "error_class"
    <3>1. Writing("error_class")' = Writing("error_class") \union {next} /\ UNCHANGED <<stored, operations>>
      BY <1>1, <2>1, OneMoreWriting DEF Advances
    <3>2. op.value # stored.error_class =>
              \E k \in Writing("error_class") : operations[k].value # stored.error_class
      BY <1>1, <2>1 DEF LoopInv, FieldsAsFar, FieldAsFar
    <3>3. QED
      BY <1>1, <3>1, <3>2 DEF LoopInv, ErrorAsFar, op
  <2>2. CASE op.path # "error_class"
    <3>1. Writing("error_class")' = Writing("error_class") /\ UNCHANGED <<stored, operations>>
      BY <1>1, <2>2, OneMoreWriting DEF Advances
    <3>2. QED
      BY <1>1, <3>1 DEF LoopInv, ErrorAsFar
  <2>3. QED
    BY <2>1, <2>2
<1>5. NoneRejected'
  <2>1. ~RejectsOp(stored, op)
    BY <1>1 DEF RejectsOp, GuardedFields, LoopInv, CompletedFieldsKept
  <2>2. QED
    BY <1>1, <2>1, OneMoreDone DEF LoopInv, NoneRejected, op, Advances
<1>6. CompletedFieldsKept'
  BY <1>1 DEF LoopInv, CompletedFieldsKept, Advances
<1>7. QED
  BY <1>2, <1>3, <1>4, <1>5, <1>6 DEF LoopInv

\* A new value is written, and if it is an error class it raises the flag: it
\* is none that the stored document has, or one had raised the flag before.
LEMMA ReplaceFieldStep ==
    ASSUME TypeOK, LoopInv, ReplaceField
    PROVE  LoopInv'
<1>1. /\ Advances /\ op.path \in GuardedFields /\ req[op.path] # op.value
      /\ stored.status \notin COMPLETED_STATUSES
      /\ UNCHANGED <<found, outcome>> /\ outcome = "running"
  BY DEF ReplaceField, Advances, Running
<1>2. /\ event'.name = event.name
      /\ event'.error = (event.error \/ op.path = "error_class")
  BY DEF ReplaceField, TypeOK
<1>3. FieldsAsFar'
  <2>1. \A field \in {"status", "output", "error_class"} : FieldAsFar(field)
    BY DEF LoopInv, FieldsAsFar
  <2>2. \A field \in {"status", "output", "error_class"} :
            IF op.path = field THEN req'[field] = op.value ELSE req'[field] = req[field]
    BY DEF ReplaceField, TypeOK, Documents, GuardedFields
  <2>3. \A field \in {"status", "output", "error_class"} : FieldAsFar(field)'
    BY <1>1, <2>1, <2>2, FieldStep
  <2>4. QED
    BY <2>3 DEF FieldsAsFar
<1>4. FoundAsFar' /\ NameAsFar' /\ Ends'
  BY <1>1, <1>2, GuardedStep
<1>5. ErrorAsFar'
  <2>1. CASE op.path = "error_class"
    <3>1. Writing("error_class")' = Writing("error_class") \union {next} /\ UNCHANGED <<stored, operations>>
      BY <1>1, <2>1, OneMoreWriting DEF Advances
    <3>2. \/ op.value # stored.error_class
          \/ \E k \in Writing("error_class") : operations[k].value # stored.error_class
      BY <1>1, <2>1 DEF LoopInv, FieldsAsFar, FieldAsFar
    <3>3. QED
      BY <1>2, <2>1, <3>1, <3>2 DEF ErrorAsFar, op
  <2>2. CASE op.path # "error_class"
    <3>1. Writing("error_class")' = Writing("error_class") /\ UNCHANGED <<stored, operations>>
      BY <1>1, <2>2, OneMoreWriting DEF Advances
    <3>2. event'.error = event.error
      BY <1>2, <2>2 DEF TypeOK
    <3>3. QED
      BY <3>1, <3>2 DEF LoopInv, ErrorAsFar
  <2>3. QED
    BY <2>1, <2>2
<1>6. NoneRejected'
  <2>1. ~RejectsOp(stored, op)
    BY <1>1 DEF RejectsOp, GuardedFields
  <2>2. QED
    BY <1>1, <2>1, OneMoreDone DEF LoopInv, NoneRejected, op, Advances
<1>7. CompletedFieldsKept'
  BY <1>1 DEF CompletedFieldsKept, Advances
<1>8. QED
  BY <1>3, <1>4, <1>5, <1>6, <1>7 DEF LoopInv

\* The loop ends: with an operation that is refused, or with none left.
LEMMA EndStep ==
    ASSUME TypeOK, LoopInv, Raise \/ Save
    PROVE  LoopInv'
<1>1. UNCHANGED <<stored, operations, next, req, found, event>>
  BY DEF Raise, Save
<1>2. /\ FieldsAsFar' /\ FoundAsFar' /\ NameAsFar' /\ ErrorAsFar'
      /\ NoneRejected' /\ CompletedFieldsKept'
  BY <1>1 DEF LoopInv, FieldsAsFar, FieldAsFar, FoundAsFar, NameAsFar, Naming, ErrorAsFar,
              Writing, NoneRejected, CompletedFieldsKept, Done, IsLast
<1>3. Ends'
  <2>1. CASE Raise
    <3>1. RejectsOp(stored, op) /\ next <= Len(operations) /\ outcome' = "rejected"
      BY <2>1 DEF Raise, Running, RejectsOp, LoopInv, CompletedFieldsKept
    <3>2. QED
      BY <1>1, <3>1 DEF Ends, op
  <2>2. CASE Save
    <3>1. next > Len(operations) /\ outcome' = "saved" /\ next \in 1 .. Len(operations) + 1
      BY <2>2 DEF Save, TypeOK
    <3>2. Len(operations) \in Nat
      BY BodiesAssumption DEF TypeOK
    <3>3. next = Len(operations) + 1
      BY <3>1, <3>2
    <3>4. QED
      BY <1>1, <3>1, <3>3 DEF Ends
  <2>3. QED
    BY <2>1, <2>2
<1>4. QED
  BY <1>2, <1>3 DEF LoopInv

\* The loop invariant.
LEMMA LoopHolds == Spec => []LoopInv
<1>1. Init => LoopInv
  <2> SUFFICES ASSUME Init PROVE LoopInv
    OBVIOUS
  <2>1. Done = {} /\ req = stored /\ outcome = "running"
    BY DEF Init, Done
  <2>2. \A field : Writing(field) = {}
    BY <2>1 DEF Writing
  <2>3. FieldsAsFar
    BY <2>1, <2>2 DEF FieldsAsFar, FieldAsFar
  <2>4. FoundAsFar /\ NameAsFar /\ ErrorAsFar
    BY <2>2 DEF Init, FoundAsFar, NameAsFar, ErrorAsFar, Naming
  <2>5. QED
    BY <2>1, <2>3, <2>4 DEF LoopInv, NoneRejected, CompletedFieldsKept, Ends
<1>2. TypeOK /\ LoopInv /\ [Next]_vars => LoopInv'
  <2> SUFFICES ASSUME TypeOK, LoopInv, [Next]_vars PROVE LoopInv'
    OBVIOUS
  <2>1. CASE UNCHANGED vars
    BY <2>1 DEF vars, LoopInv, FieldsAsFar, FieldAsFar, FoundAsFar, NameAsFar, Naming, ErrorAsFar,
                Writing, NoneRejected, CompletedFieldsKept, Done, IsLast, Ends
  <2>2. QED
    BY <2>1, StatusStep, SkipStep, ReplaceFieldStep, EndStep DEF Next
<1>3. QED
  BY <1>1, <1>2, TypeCorrect, PTL DEF Spec

-----------------------------------------------------------------------------
(***************************************************************************)
(* What the loop computes.                                                 *)
(***************************************************************************)

\* When all operations are done, the last one on a field is the one that
\* LastWritten finds.
LEMMA FieldWritten ==
    ASSUME Done = DOMAIN operations, NEW field, FieldAsFar(field)
    PROVE  req[field] = FinalValue(stored, operations, field)
<1>1. Done \subseteq Int
  BY DEF Done
<1>2. CASE Writing(field) = {} /\ req[field] = stored[field]
  <2>1. LastWritten(operations, field) = {}
    BY <1>2 DEF LastWritten, Writing
  <2>2. QED
    BY <1>2, <2>1 DEF FinalValue
<1>3. ASSUME NEW i \in Writing(field), IsLast(i, Writing(field)), req[field] = operations[i].value
      PROVE  req[field] = FinalValue(stored, operations, field)
  <2>1. LastWritten(operations, field) = {operations[i].value}
    <3>1. \A k \in Done : /\ operations[k].path = field
                          /\ \A j \in Done : j > k => operations[j].path # field
                          <=> k = i
      BY <1>1, <1>3 DEF IsLast, Writing
    <3>2. QED
      BY <1>3, <3>1 DEF LastWritten, Writing
  <2>2. QED
    BY <1>3, <2>1 DEF FinalValue
<1>4. QED
  BY <1>2, <1>3 DEF FieldAsFar

\* Every operation is done when the loop saves.
LEMMA AllDone ==
    ASSUME TypeOK, LoopInv, outcome = "saved"
    PROVE  Done = DOMAIN operations
<1>1. operations \in Seq(PatchOps)
  BY BodiesAssumption DEF TypeOK
<1>2. QED
  BY <1>1 DEF LoopInv, Ends, Done

\* For every document and body, the loop saves PatchedDoc of a body that
\* Rejected accepts and looks for a waiter if Completes says so
\* (SavedAsDefined); RequestLifecycle stands on these three definitions.
THEOREM LoopSavesAsDefined == Spec => []SavedAsDefined
<1>1. TypeOK /\ LoopInv => SavedAsDefined
  <2> SUFFICES ASSUME TypeOK, LoopInv, outcome = "saved"
               PROVE  /\ ~Rejected(stored, operations)
                      /\ req = PatchedDoc(stored, operations)
                      /\ found = Completes(operations)
    BY DEF SavedAsDefined
  <2>1. Done = DOMAIN operations
    BY AllDone
  <2>2. ~Rejected(stored, operations)
    BY <2>1 DEF LoopInv, NoneRejected, Rejected
  <2>3. /\ req.status = FinalValue(stored, operations, "status")
        /\ req.output = FinalValue(stored, operations, "output")
        /\ req.error_class = FinalValue(stored, operations, "error_class")
    BY <2>1, FieldWritten DEF LoopInv, FieldsAsFar
  <2>4. req = PatchedDoc(stored, operations)
    BY <2>3 DEF TypeOK, Documents, PatchedDoc
  <2>5. found = Completes(operations)
    BY <2>1 DEF LoopInv, FoundAsFar, Completes, Writing, TypeOK
  <2>6. QED
    BY <2>2, <2>4, <2>5
<1>2. QED
  BY <1>1, LoopHolds, TypeCorrect, PTL

\* A body is refused only if Rejected says so (RejectedAsDefined).
THEOREM LoopRejectsAsDefined == Spec => []RejectedAsDefined
<1>1. TypeOK /\ LoopInv => RejectedAsDefined
  <2> SUFFICES ASSUME TypeOK, LoopInv, outcome = "rejected"
               PROVE  Rejected(stored, operations)
    BY DEF RejectedAsDefined
  <2>1. operations \in Seq(PatchOps)
    BY BodiesAssumption DEF TypeOK
  <2>2. next \in DOMAIN operations /\ RejectsOp(stored, operations[next])
    BY <2>1 DEF LoopInv, Ends, TypeOK
  <2>3. QED
    BY <2>2 DEF Rejected
<1>2. QED
  BY <1>1, LoopHolds, TypeCorrect, PTL

\* The event of a saved body is that of EventNames and EventError
\* (EventAsDefined).
THEOREM LoopNamesEventAsDefined == Spec => []EventAsDefined
<1>1. TypeOK /\ LoopInv => EventAsDefined
  <2> SUFFICES ASSUME TypeOK, LoopInv, outcome = "saved"
               PROVE  /\ EventNames(operations) = {event.name} \ {"none"}
                      /\ event.error = EventError(stored, operations)
    BY DEF EventAsDefined
  <2>1. Done = DOMAIN operations /\ Done \subseteq Int
    BY AllDone DEF Done
  <2>2. Naming = {k \in DOMAIN operations :
                     /\ operations[k].path = "status"
                     /\ operations[k].value \in COMPLETED_STATUSES \union {"IN_PROGRESS"}}
    BY <2>1 DEF Naming, Writing
  <2>3. EventNames(operations) =
            {NamedBy(operations[i].value) : i \in {k \in Naming : \A j \in Naming : j <= k}}
    BY <2>2 DEF EventNames
  <2>4. ASSUME Naming = {}, event.name = "none"
        PROVE  EventNames(operations) = {event.name} \ {"none"}
    BY <2>3, <2>4
  <2>5. ASSUME NEW i \in Naming, IsLast(i, Naming), event.name = NamedBy(operations[i].value)
        PROVE  EventNames(operations) = {event.name} \ {"none"}
    <3>1. {k \in Naming : \A j \in Naming : j <= k} = {i}
      BY <2>1, <2>2, <2>5 DEF IsLast
    <3>2. event.name # "none"
      BY <2>5 DEF NamedBy
    <3>3. QED
      BY <2>3, <2>5, <3>1, <3>2
  <2>6. event.error = EventError(stored, operations)
    BY <2>1 DEF LoopInv, ErrorAsFar, EventError, Writing, TypeOK
  <2>7. QED
    BY <2>4, <2>5, <2>6 DEF LoopInv, NameAsFar
<1>2. QED
  BY <1>1, LoopHolds, TypeCorrect, PTL

\* A PATCH of a completed request leaves its output and its error class alone,
\* in whatever order the operations come (CompletedFieldsKept).
THEOREM LoopKeepsCompletedFields == Spec => []CompletedFieldsKept
<1>1. LoopInv => CompletedFieldsKept
  BY DEF LoopInv
<1>2. QED
  BY <1>1, LoopHolds, PTL

=============================================================================
