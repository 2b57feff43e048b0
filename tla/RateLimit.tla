----------------------------- MODULE RateLimit -----------------------------
(***************************************************************************)
(* What the tools' execution pools and their shared token bucket promise:  *)
(* a call that is made is executed once and answered, and at most Limit    *)
(* calls of all tools together are executed at any time.  Which waiting    *)
(* call is next is left open.                                              *)
(***************************************************************************)
EXTENDS Integers, FiniteSets

CONSTANTS
    Calls,        \* the tool calls
    Limit         \* rate_limit

VARIABLE call

vars == <<call>>

Init == call = [c \in Calls |-> "none"]

Move(c, from, to) ==
    /\ call[c] = from
    /\ call' = [call EXCEPT ![c] = to]

Executing == {c \in Calls : call[c] = "executing"}

Begin(c) == Move(c, "made", "executing") /\ Cardinality(Executing) < Limit

(* A call whose arguments are refused is answered without being executed. *)
Make(c)   == Move(c, "none", "made") \/ Move(c, "none", "answered")
End(c)    == Move(c, "executing", "answered")

Answered == {c \in Calls : call[c] = "answered"}

(* The caller takes the answers of C and may call again. *)
Take(C) ==
    /\ C # {}
    /\ call' = [c \in Calls |-> IF c \in C THEN "none" ELSE call[c]]

Next ==
    \/ \E c \in Calls : Make(c) \/ Begin(c) \/ End(c)
    \/ \E C \in SUBSET Answered : Take(C)

Spec == Init /\ [][Next]_vars
=============================================================================
