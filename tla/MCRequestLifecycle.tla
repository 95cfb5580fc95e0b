------------------------- MODULE MCRequestLifecycle -------------------------
(***************************************************************************)
(* The instance of RequestLifecycle that TLC checks.                       *)
(***************************************************************************)
EXTENDS RequestLifecycle, TLC

\* A client cancels, reopens, resets, or rewrites the result of a request, or
\* sends something unsupported after a valid operation.
MCStrayPatches ==
    {<<Op("status", "CANCELED")>>,
     <<Op("status", "IN_PROGRESS")>>,
     <<Op("status", "CREATED")>>,
     <<Op("status", "SUCCESS"), Op("unsupported", NoValue)>>}
        \union {<<Op("output", v)>> : v \in Values}
        \union {<<Op("status", "SUCCESS"), Op("status", "RECEIVED"),
                  Op("error_class", v)>> : v \in Values}

MCSymmetry == Permutations(RequestIds)

=============================================================================
