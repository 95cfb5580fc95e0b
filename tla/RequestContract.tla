--------------------------- MODULE RequestContract ---------------------------
(***************************************************************************)
(* What brew-view promises whoever POSTs a request, without documents,     *)
(* waiters, Thrift calls or plugins.  RequestLifecycle implements it as    *)
(* long as Thrift connections open, messages are delivered once and only   *)
(* plugins PATCH (its property Contract).                                  *)
(***************************************************************************)
CONSTANT RequestIds

VARIABLES
    life,       \* what became of the request
    waits,      \* its caller waits for the result
    answer      \* what its caller was told

vars == <<life, waits, answer>>

Answers == {"accepted", "result", "refused", "late", "error", "dropped"}

TypeOK ==
    /\ life \in [RequestIds -> {"unborn", "live", "completed", "gone"}]
    /\ waits \in [RequestIds -> BOOLEAN]
    /\ answer \in [RequestIds -> {"none", "pending"} \union Answers]

Init ==
    /\ life = [r \in RequestIds |-> "unborn"]
    /\ waits = [r \in RequestIds |-> FALSE]
    /\ answer = [r \in RequestIds |-> "none"]

Pending(r) == answer[r] = "pending"

Ask(r, w) ==
    /\ life[r] = "unborn"
    /\ life' = [life EXCEPT ![r] = "live"]
    /\ waits' = [waits EXCEPT ![r] = w]
    /\ answer' = [answer EXCEPT ![r] = "pending"]

\* A request completes once and stays completed.
Complete(r) ==
    /\ life[r] = "live"
    /\ life' = [life EXCEPT ![r] = "completed"]
    /\ UNCHANGED <<waits, answer>>

Tell(r, a) ==
    /\ Pending(r)
    /\ answer' = [answer EXCEPT ![r] = a]
    /\ UNCHANGED waits

Accept(r) == ~waits[r] /\ Tell(r, "accepted") /\ UNCHANGED life

\* A caller that waits gets a result, and only a final one.
GiveResult(r) ==
    /\ waits[r]
    /\ life[r] = "completed"
    /\ Tell(r, "result")
    /\ UNCHANGED life

\* A caller that waits may be told that it waited too long, or asked wrongly.
GiveUp(r) ==
    /\ waits[r]
    /\ \E a \in {"late", "error"} : Tell(r, a)
    /\ UNCHANGED life

\* A refusal takes the request away in the same step.
Refuse(r) ==
    /\ Tell(r, "refused")
    /\ life' = [life EXCEPT ![r] = "gone"]

\* The server goes down with every open call, perhaps having just completed
\* a request.
Outage ==
    /\ answer' = [r \in RequestIds |->
                     IF Pending(r) THEN "dropped" ELSE answer[r]]
    /\ \/ UNCHANGED life
       \/ \E r \in RequestIds :
              life[r] = "live" /\ life' = [life EXCEPT ![r] = "completed"]
    /\ UNCHANGED waits

Next ==
    \/ \E r \in RequestIds :
           \/ \E w \in BOOLEAN : Ask(r, w)
           \/ Complete(r)
           \/ Accept(r)
           \/ GiveResult(r)
           \/ GiveUp(r)
           \/ Refuse(r)
    \/ Outage

Spec == Init /\ [][Next]_vars

=============================================================================
