---------------------------- MODULE BuildOutcome ----------------------------
(***************************************************************************)
(* What getCompiledContract promises, without a word of a cache, its files *)
(* and their hashes: a build returns what a compiler would have made of    *)
(* the source at one moment between its call and its return, or nothing.   *)
(* Where the source does not keep still for the store, a build that may    *)
(* use the cache can be given what an earlier text was compiled to.        *)
(* BuildCache implements this specification.                               *)
(***************************************************************************)

CONSTANTS
    Builders,   \* the builds
    Request,    \* what they may be asked: a name, with coverage or not, past the cache or not
    Versions,   \* texts of the source
    Declares,   \* the contracts a text declares
    Steady,     \* the source keeps still from a compilation to its store
    Nil         \* nothing

VARIABLES
    main,      \* the text of the source
    busy,      \* busy[b]: the build is under way
    req,       \* req[b]: what it was asked
    seen,      \* seen[b]: the text it looked at last
    result     \* result[b]: what it returned

vars == <<main, busy, req, seen, result>>

Init ==
    /\ main \in Versions
    /\ busy = [b \in Builders |-> FALSE]
    /\ req \in [Builders -> Request]
    /\ seen = [b \in Builders |-> Nil]
    /\ result = [b \in Builders |-> Nil]

Ask(b) ==
    /\ ~busy[b]
    /\ busy' = [busy EXCEPT ![b] = TRUE]
    /\ \E r \in Request : req' = [req EXCEPT ![b] = r]
    /\ seen' = [seen EXCEPT ![b] = Nil]
    /\ result' = [result EXCEPT ![b] = Nil]
    /\ UNCHANGED main

Look(b) ==
    /\ busy[b]
    /\ seen' = [seen EXCEPT ![b] = main]
    /\ UNCHANGED <<main, busy, req, result>>

\* The texts that the contract may be of: past the cache, the source as it is; else the one
\* that the build looked at last.
Texts(b) ==
    {v \in Versions : IF req[b].noCache THEN v = main ELSE Steady => v = seen[b]}

Compiled(b, v) == [name |-> req[b].name, main |-> v, coverage |-> req[b].coverage]

\* A build that fails or is killed returns nothing.
Answer(b) ==
    /\ busy[b]
    /\ busy' = [busy EXCEPT ![b] = FALSE]
    /\ seen' = [seen EXCEPT ![b] = Nil]
    /\ \/ result' = [result EXCEPT ![b] = Nil]
       \/ \E v \in Texts(b) :
             /\ req[b].name \in Declares[v]
             /\ result' = [result EXCEPT ![b] = Compiled(b, v)]
    /\ UNCHANGED <<main, req>>

Edit ==
    /\ main' \in Versions
    /\ UNCHANGED <<busy, req, seen, result>>

Next == (\E b \in Builders : Ask(b) \/ Look(b) \/ Answer(b)) \/ Edit

Spec == Init /\ [][Next]_vars

-----------------------------------------------------------------------------

\* A build that returns a contract returns the one it was asked for, in the mode it was asked
\* for: bytecode with coverage markers is never passed off as the plain one
\* (build_cache.go:78-80, 117).
AnswersTheRequest ==
    \A b \in Builders :
        result[b] # Nil
        => /\ result[b].name = req[b].name /\ result[b].coverage = req[b].coverage
           /\ result[b].name \in Declares[result[b].main]

=============================================================================
