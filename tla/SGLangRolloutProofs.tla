------------------------- MODULE SGLangRolloutProofs -------------------------
(***************************************************************************)
(* Proofs about SGLangRollout, for any requests, tools, lengths and rate   *)
(* limit: the tools' tokens are conserved, the pools implement RateLimit,  *)
(* tool instances outlive the calls on them, and every call of a message   *)
(* is answered, in order, before the model is asked again.                 *)
(*                                                                         *)
(* The argument.  Tokens in the semaphore, calls that are executed and     *)
(* releases on their way always add up to rate_limit, so that a token in   *)
(* the semaphore means that fewer than rate_limit calls are executed       *)
(* (PoolIInv; part 1, about ToolPool alone).  A call that is under way     *)
(* belongs to the last message of a request that waits for its tools       *)
(* (Underway), whose instances exist from create to release (Instanced).   *)
(* A conversation the engine may be asked about is empty or ends with the  *)
(* answers to all calls of its last message (Chats).  A request that may   *)
(* still be given a turn has had fewer than max_turns, and while the       *)
(* engine works on one its budget of tokens is not negative (Limits).      *)
(***************************************************************************)
EXTENDS SGLangRollout, CommonLemmas, TLAPS

-----------------------------------------------------------------------------
(* Part 1: the pools, whoever drives them (ToolPool) *)

(* The pools' own invariant. *)
PoolIInv == PoolTypeOK /\ TokensAreConserved

(* What the callers of the pools may do to them in a step. *)
CallerStep ==
    \/ \E c \in Calls : Submit(c) \/ Refuse(c)
    \/ \E C \in SUBSET Answered : Collect(C) /\ UNCHANGED <<queue, tokens, releases>>
    \/ UNCHANGED pool

PoolOwnStep == Acquire \/ Release \/ \E c \in Calls : PoolStep(c)

-----------------------------------------------------------------------------
(* Counting *)

(* A set of calls is finite. *)
LEMMA AtFinite ==
    ASSUME NEW s
    PROVE  IsFiniteSet(At(s)) /\ Cardinality(At(s)) \in Nat
<1>1. IsFiniteSet(Calls)
  BY PoolAssumption, FS_Product DEF Calls
<1>2. At(s) \in SUBSET Calls
  BY DEF At
<1> QED
  BY <1>1, <1>2, FS_Subset, FS_CardinalityType

(* A call that begins is one more that is executed, *)
LEMMA OneMore ==
    ASSUME PoolTypeOK, NEW c \in Calls, ToStage(c, "waiting", "running")
    PROVE  Cardinality(At("running")') = Cardinality(At("running")) + 1
<1>1. At("running")' = At("running") \cup {c}
  BY DEF PoolTypeOK, ToStage, At
<1>2. c \notin At("running")
  BY DEF ToStage, At
<1> QED
  BY <1>1, <1>2, AtFinite, FS_AddElement

(* one that ends is one less, *)
LEMMA OneLess ==
    ASSUME PoolTypeOK, NEW c \in Calls, NEW to \in {"returned", "raised"},
           ToStage(c, "running", to)
    PROVE  Cardinality(At("running")') = Cardinality(At("running")) - 1
<1>1. At("running")' = At("running") \ {c}
  BY DEF PoolTypeOK, ToStage, At
<1>2. c \in At("running")
  BY DEF ToStage, At
<1> QED
  BY <1>1, <1>2, AtFinite, FS_RemoveElement

(* and other moves leave those that are executed alone. *)
LEMMA NoneMoves ==
    ASSUME PoolTypeOK, NEW c \in Calls, NEW from, NEW to \in Stages,
           from # "running", to # "running", ToStage(c, from, to)
    PROVE  At("running")' = At("running")
  BY DEF PoolTypeOK, ToStage, At

-----------------------------------------------------------------------------
(* Tokens *)

(* A caller keeps the invariant. *)
LEMMA CallerKeeps == ASSUME PoolIInv, CallerStep PROVE PoolIInv'
<1> USE DEF PoolIInv
<1>1. ASSUME NEW c \in Calls, Submit(c) \/ Refuse(c) PROVE PoolIInv'
  <2>1. PoolTypeOK'
    BY <1>1 DEF PoolTypeOK, Submit, Refuse, ToStage, Stages
  <2>2. At("running")' = At("running")
    BY <1>1, NoneMoves DEF Submit, Refuse, Stages
  <2> QED
    BY <1>1, <2>1, <2>2 DEF Submit, Refuse, TokensAreConserved
<1>2. ASSUME NEW C \in SUBSET Answered, Collect(C), UNCHANGED <<queue, tokens, releases>>
      PROVE  PoolIInv'
  <2>1. PoolTypeOK'
    BY <1>2 DEF PoolTypeOK, Collect, Stages
  <2>2. At("running")' = At("running")
    BY <1>2 DEF PoolTypeOK, Collect, Answered, At
  <2> QED
    BY <1>2, <2>1, <2>2 DEF TokensAreConserved
<1>3. CASE UNCHANGED pool
  BY <1>3 DEF pool, PoolTypeOK, TokensAreConserved, At
<1> QED
  BY <1>1, <1>2, <1>3 DEF CallerStep

(* The call at the head of the queue is a call. *)
LEMMA HeadIsCall == ASSUME PoolTypeOK, queue # <<>> PROVE Head(queue) \in Calls
  BY DEF PoolTypeOK

(* Pools and bucket keep the invariant. *)
LEMMA PoolKeeps == ASSUME PoolIInv, PoolOwnStep PROVE PoolIInv'
<1> USE DEF PoolIInv
<1>1. CASE Acquire
  <2>1. PoolTypeOK'
    BY <1>1 DEF Acquire, PoolTypeOK, ToStage, Stages
  <2>2. Cardinality(At("running")') = Cardinality(At("running")) + 1
    BY <1>1, HeadIsCall, OneMore DEF Acquire
  <2> QED
    BY <1>1, <2>1, <2>2, AtFinite DEF Acquire, PoolTypeOK, TokensAreConserved
<1>2. CASE Release
  <2>1. PoolTypeOK'
    BY <1>2 DEF Release, PoolTypeOK
  <2>2. At("running")' = At("running")
    BY <1>2 DEF Release, At
  <2> QED
    BY <1>2, <2>1, <2>2, AtFinite DEF Release, PoolTypeOK, TokensAreConserved
<1>3. ASSUME NEW c \in Calls, Enter(c) PROVE PoolIInv'
  <2>1. PoolTypeOK'
    BY <1>3 DEF Enter, PoolTypeOK, ToStage, Stages
  <2>2. At("running")' = At("running")
    BY <1>3, NoneMoves DEF Enter, Stages
  <2> QED
    BY <1>3, <2>1, <2>2 DEF Enter, TokensAreConserved
<1>4. ASSUME NEW c \in Calls, Finish(c) PROVE PoolIInv'
  <2>1. PoolTypeOK'
    BY <1>4 DEF Finish, PoolTypeOK, ToStage, Stages
  <2>2. Cardinality(At("running")') = Cardinality(At("running")) - 1
    BY <1>4, OneLess DEF Finish
  <2> QED
    BY <1>4, <2>1, <2>2, AtFinite DEF Finish, PoolTypeOK, TokensAreConserved
<1> QED
  BY <1>1, <1>2, <1>3, <1>4 DEF PoolOwnStep, PoolStep

(* At the start all tokens are in the semaphore. *)
LEMMA PoolStart == PoolInit => PoolIInv
<1> SUFFICES ASSUME PoolInit PROVE PoolIInv
  OBVIOUS
<1>1. PoolTypeOK
  BY PoolAssumption DEF PoolInit, PoolTypeOK, Stages
<1>2. Cardinality(At("running")) = 0
  <2>1. At("running") = {}
    BY DEF PoolInit, At
  <2> QED
    BY <2>1, FS_EmptySet
<1>3. tokens = RateLimit /\ releases = 0 /\ RateLimit \in Nat
  BY PoolAssumption DEF PoolInit
<1> QED
  BY <1>1, <1>2, <1>3 DEF PoolIInv, TokensAreConserved

-----------------------------------------------------------------------------
(* The pools implement RateLimit *)

(* No call has been made. *)
LEMMA PoolInitRefines == PoolInit => Limited!Init
  BY DEF PoolInit, Limited!Init

(* What RateLimit sees of a call *)
Seen(s) ==
    CASE s \in {"submitted", "waiting"}  -> "made"
      [] s = "running"                   -> "executing"
      [] s \in {"returned", "raised"}    -> "answered"
      [] OTHER                           -> "none"

Map == [c \in Calls |-> Seen(stage[c])]

(* A call goes on in RateLimit as it does here. *)
LEMMA MoveRefines ==
    ASSUME PoolTypeOK, NEW c \in Calls, NEW from \in Stages, NEW to \in Stages,
           ToStage(c, from, to)
    PROVE  Limited!Move(c, Seen(from), Seen(to))
<1>1. Map[c] = Seen(from)
  BY DEF Map, ToStage
<1>2. Map' = [Map EXCEPT ![c] = Seen(to)]
  BY DEF Map, ToStage, PoolTypeOK
<1> QED
  BY <1>1, <1>2 DEF Limited!Move, Map, Seen

(* A move within what RateLimit sees as one is none. *)
LEMMA StayRefines ==
    ASSUME PoolTypeOK, NEW c \in Calls, NEW from \in Stages, NEW to \in Stages,
           ToStage(c, from, to), Seen(from) = Seen(to)
    PROVE  UNCHANGED Limited!vars
<1>1. Map' = Map
  BY DEF Map, ToStage, PoolTypeOK
<1> QED
  BY <1>1 DEF Limited!vars, Map, Seen

(* A step of a caller makes calls or takes answers, or is none. *)
LEMMA CallerRefines == ASSUME PoolIInv, CallerStep PROVE [Limited!Next]_(Limited!vars)
<1> USE DEF PoolIInv
<1>1. ASSUME NEW c \in Calls, Submit(c) \/ Refuse(c) PROVE Limited!Next
  <2>1. Limited!Move(c, "none", "made") \/ Limited!Move(c, "none", "answered")
    BY <1>1, MoveRefines DEF Submit, Refuse, Stages, Seen
  <2> QED
    BY <2>1 DEF Limited!Make, Limited!Next
<1>2. ASSUME NEW C \in SUBSET Answered, Collect(C)
      PROVE  [Limited!Next]_(Limited!vars)
  <2>1. C \in SUBSET Limited!Answered
    BY DEF Limited!Answered, Answered, At
  <2>2. Map' = [c \in Calls |-> IF c \in C THEN "none" ELSE Map[c]]
    BY <1>2 DEF Map, Collect, Seen
  <2>3. CASE C = {}
    BY <2>2, <2>3 DEF Limited!vars, Map, Seen
  <2>4. CASE C # {}
    <3>1. Limited!Take(C)
      BY <2>2, <2>4 DEF Limited!Take, Map, Seen
    <3> QED
      BY <2>1, <3>1 DEF Limited!Next
  <2> QED
    BY <2>3, <2>4
<1>3. CASE UNCHANGED pool
  BY <1>3 DEF pool, Limited!vars
<1> QED
  BY <1>1, <1>2, <1>3 DEF CallerStep

(* RateLimit counts as the pool does. *)
LEMMA SameCount == ASSUME NEW S PROVE Limited!Cardinality(S) = Cardinality(S)
  BY DEF Limited!Cardinality, Cardinality

(* A step of the pools or the bucket begins or ends a call, or is none: a  *)
(* call begins with a token, so that fewer than rate_limit are executed.   *)
LEMMA PoolRefines == ASSUME PoolIInv, PoolOwnStep PROVE [Limited!Next]_(Limited!vars)
<1> USE DEF PoolIInv
<1>1. CASE Acquire
  <2>1. PICK c \in Calls : c = Head(queue)
    BY <1>1, HeadIsCall DEF Acquire
  <2>2. Limited!Move(c, "made", "executing")
    BY <1>1, <2>1, MoveRefines DEF Acquire, Stages, Seen
  <2>3. Limited!Executing = At("running")
    BY DEF Limited!Executing, At
  <2>4. Cardinality(At("running")) < RateLimit
    BY <1>1, AtFinite, PoolAssumption DEF Acquire, TokensAreConserved, PoolTypeOK
  <2>5. Limited!Begin(c)
    BY <2>2, <2>3, <2>4, SameCount DEF Limited!Begin
  <2> QED
    BY <2>5 DEF Limited!Next
<1>2. CASE Release
  BY <1>2 DEF Release, Limited!vars
<1>3. ASSUME NEW c \in Calls, Enter(c) PROVE UNCHANGED Limited!vars
  BY <1>3, StayRefines DEF Enter, Stages, Seen
<1>4. ASSUME NEW c \in Calls, Finish(c) PROVE Limited!Next
  <2>1. Limited!Move(c, "executing", "answered")
    BY <1>4, MoveRefines DEF Finish, Stages, Seen
  <2> QED
    BY <2>1 DEF Limited!End, Limited!Next
<1> QED
  BY <1>1, <1>2, <1>3, <1>4 DEF PoolOwnStep, PoolStep

-----------------------------------------------------------------------------
(* Part 2: the rollout *)

Types ==
    /\ phase \in {"idle", "running", "crashed"}
    /\ state \in [Requests -> States]
    /\ messages \in [Requests -> Seq(Message)]
    /\ instances \subseteq Calls

(* Calls under way are those of a message that waits for its tools. *)
Underway == \A c \in Calls : stage[c] # "none" => c \in CalledSet(c[1])

Holding == States \ {"pending", "completed"}

(* A request has instances from create to release, between batches none. *)
Instanced ==
    /\ \A c \in Calls : c \in instances <=> state[c[1]] \in Holding
    /\ phase = "idle" => \A r \in Requests : state[r] = "completed"

(* Up to message n the last message of the assistant is answered. *)
AnsweredUpTo(m, n) ==
    \E i \in 1..n :
        /\ m[i].role = "assistant"
        /\ Len(m[i].calls) = n - i
        /\ \A k \in 1..(n - i) : m[i + k].role = "tool" /\ m[i + k].name = m[i].calls[k]

(* A message of the assistant continues an answered conversation. *)
WellFormed(m) ==
    \A n \in 1..(Len(m) - 1) : m[n + 1].role = "assistant" => AnsweredUpTo(m, n)

Calling(m) ==
    /\ m # <<>>
    /\ m[Len(m)].role = "assistant"
    /\ m[Len(m)].calls \in CallLists

Chats ==
    \A r \in Requests :
        /\ WellFormed(messages[r])
        /\ state[r] = "pending" => messages[r] = <<>>
        /\ state[r] \in {"created", "running", "responded"} =>
              messages[r] = <<>> \/ AnsweredUpTo(messages[r], Len(messages[r]))
        /\ state[r] = "tool_calling" => Calling(messages[r])

IInv == Types /\ Underway /\ Instanced /\ Chats

-----------------------------------------------------------------------------
(* Conversations *)

(* A message added leaves those before it as they were. *)
LEMMA AppendKeeps ==
    ASSUME NEW m \in Seq(Message), NEW t \in Seq(Message)
    PROVE  /\ m \o t \in Seq(Message)
           /\ Len(m \o t) = Len(m) + Len(t)
           /\ \A j \in 1..Len(m) : (m \o t)[j] = m[j]
           /\ \A k \in 1..Len(t) : (m \o t)[Len(m) + k] = t[k]
  OBVIOUS

(* What was answered stays answered. *)
LEMMA AnsweredKeeps ==
    ASSUME NEW m \in Seq(Message), NEW t \in Seq(Message), NEW n \in 0..Len(m),
           AnsweredUpTo(m, n)
    PROVE  AnsweredUpTo(m \o t, n)
<1>1. PICK i \in 1..n :
        /\ m[i].role = "assistant"
        /\ Len(m[i].calls) = n - i
        /\ \A k \in 1..(n - i) : m[i + k].role = "tool" /\ m[i + k].name = m[i].calls[k]
  BY DEF AnsweredUpTo
<1>2. Len(m) \in Nat /\ i \in 1..Len(m)
  OBVIOUS
<1>3. (m \o t)[i] = m[i]
  BY <1>2, AppendKeeps
<1>4. \A k \in 1..(n - i) : (m \o t)[i + k] = m[i + k]
  <2> TAKE k \in 1..(n - i)
  <2>1. i + k \in 1..Len(m)
    BY <1>2
  <2> QED
    BY <2>1, AppendKeeps
<1>5. /\ (m \o t)[i].role = "assistant"
      /\ Len((m \o t)[i].calls) = n - i
  BY <1>1, <1>3
<1>6. ASSUME NEW k \in 1..(n - i)
      PROVE  /\ (m \o t)[i + k].role = "tool"
             /\ (m \o t)[i + k].name = (m \o t)[i].calls[k]
  BY <1>1, <1>3, <1>4
<1> HIDE <1>1, <1>3
<1> QED
  BY <1>5, <1>6 DEF AnsweredUpTo

(* Messages of tools keep a conversation well formed, *)
LEMMA ToolsKeep ==
    ASSUME NEW m \in Seq(Message), NEW t \in Seq(Message), WellFormed(m),
           \A k \in 1..Len(t) : t[k].role # "assistant"
    PROVE  WellFormed(m \o t)
<1> SUFFICES ASSUME NEW n \in 1..(Len(m \o t) - 1), (m \o t)[n + 1].role = "assistant"
             PROVE  AnsweredUpTo(m \o t, n)
  BY DEF WellFormed
<1>1. Len(m \o t) = Len(m) + Len(t) /\ Len(m) \in Nat /\ Len(t) \in Nat
  BY AppendKeeps
<1>2. n < Len(m)
  <2> SUFFICES ASSUME n >= Len(m) PROVE FALSE
    BY <1>1
  <2>1. n + 1 - Len(m) \in 1..Len(t) /\ n + 1 = Len(m) + (n + 1 - Len(m))
    BY <1>1
  <2> QED
    BY <2>1, AppendKeeps
<1>3. n + 1 \in 1..Len(m) /\ n \in 1..(Len(m) - 1) /\ n \in 0..Len(m)
  BY <1>1, <1>2
<1>4. m[n + 1].role = "assistant"
  BY <1>3, AppendKeeps
<1>5. AnsweredUpTo(m, n)
  BY <1>3, <1>4 DEF WellFormed
<1> QED
  BY <1>3, <1>5, AnsweredKeeps

(* and so does one of the assistant that continues an answered one. *)
LEMMA AssistantKeeps ==
    ASSUME NEW m \in Seq(Message), NEW a \in Message, WellFormed(m),
           m = <<>> \/ AnsweredUpTo(m, Len(m))
    PROVE  WellFormed(Append(m, a))
<1>1. Append(m, a) = m \o <<a>> /\ <<a>> \in Seq(Message) /\ Len(m) \in Nat
  OBVIOUS
<1>2. Len(m \o <<a>>) = Len(m) + 1
  BY <1>1, AppendKeeps
<1> SUFFICES ASSUME NEW n \in 1..Len(m), (m \o <<a>>)[n + 1].role = "assistant"
             PROVE  AnsweredUpTo(m \o <<a>>, n)
  BY <1>1, <1>2 DEF WellFormed
<1>3. AnsweredUpTo(m, n)
  <2>1. CASE n = Len(m)
    BY <1>1, <2>1
  <2>2. CASE n < Len(m)
    <3>1. n + 1 \in 1..Len(m) /\ n \in 1..(Len(m) - 1)
      BY <1>1, <2>2
    <3>2. m[n + 1].role = "assistant"
      BY <1>1, <3>1, AppendKeeps
    <3> QED
      BY <3>1, <3>2 DEF WellFormed
  <2> QED
    BY <1>1, <2>1, <2>2
<1>4. <<a>> \in Seq(Message) /\ n \in 0..Len(m)
  BY <1>1
<1> QED
  BY <1>3, <1>4, AnsweredKeeps, Zenon

(* All responses to the last message answer it. *)
LEMMA ResponsesAnswer ==
    ASSUME NEW m \in Seq(Message), Calling(m), NEW t \in Seq(Message),
           Len(t) = Len(m[Len(m)].calls),
           \A k \in 1..Len(t) : t[k] = ToolMessage(m[Len(m)].calls[k])
    PROVE  AnsweredUpTo(m \o t, Len(m \o t))
<1>1. Len(m) \in Nat /\ Len(m) >= 1 /\ Len(t) \in Nat
  BY DEF Calling
<1>2. Len(m \o t) = Len(m) + Len(t)
  BY AppendKeeps
<1>3. (m \o t)[Len(m)] = m[Len(m)]
  BY <1>1, AppendKeeps
<1>4. \A k \in 1..Len(t) : (m \o t)[Len(m) + k] = t[k]
  BY AppendKeeps
<1> DEFINE w == m \o t
           i == Len(m)
<1>5. w[i].role = "assistant" /\ Len(w[i].calls) = Len(w) - i /\ i \in 1..Len(w)
  BY <1>1, <1>2, <1>3 DEF Calling
<1>6. ASSUME NEW k \in 1..(Len(w) - i)
      PROVE  w[i + k].role = "tool" /\ w[i + k].name = w[i].calls[k]
  <2>1. k \in 1..Len(t)
    BY <1>1, <1>2
  <2>2. w[i + k] = ToolMessage(w[i].calls[k])
    BY <1>3, <1>4, <2>1
  <2>3. \A x : ToolMessage(x).role = "tool" /\ ToolMessage(x).name = x
    BY DEF ToolMessage
  <2> QED
    BY <2>2, <2>3, Zenon
<1> HIDE DEF w, i
<1>7. AnsweredUpTo(w, Len(w))
  BY <1>5, <1>6 DEF AnsweredUpTo
<1> QED
  BY <1>7 DEF w

-----------------------------------------------------------------------------
(* The initial states and the steps *)

(* A call that is under way is of a request that waits for its tools. *)
LEMMA CallersWait ==
    ASSUME NEW r, NEW c \in CalledSet(r)
    PROVE  state[r] = "tool_calling" /\ c[1] = r
  BY DEF CalledSet, Called

(* A request that does not wait for tools has no call under way. *)
LEMMA IdleRequest ==
    ASSUME Underway, NEW c \in Calls, state[c[1]] # "tool_calling"
    PROVE  stage[c] = "none"
  BY CallersWait DEF Underway

(* What a request calls depends on its state and conversation alone. *)
LEMMA SameCalls ==
    ASSUME NEW r, state'[r] = state[r], messages'[r] = messages[r]
    PROVE  CalledSet(r)' = CalledSet(r)
  BY DEF CalledSet, Called

(* At the start nothing is under way. *)
LEMMA InitIInv == Init => IInv
<1> SUFFICES ASSUME Init PROVE IInv
  OBVIOUS
<1>1. /\ stage = [c \in Calls |-> "none"]
      /\ phase = "idle" /\ instances = {}
      /\ state = [r \in Requests |-> "completed"]
      /\ messages = [r \in Requests |-> <<>>]
  BY DEF Init, PoolInit
<1>2. Types /\ Underway
  BY <1>1 DEF Types, Underway, States
<1>3. Instanced
  BY <1>1 DEF Instanced, Holding, Calls
<1>4. Chats
  BY <1>1 DEF Chats, WellFormed
<1> QED
  BY <1>2, <1>3, <1>4 DEF IInv

(* Steps that leave requests and instances alone, and only have calls under *)
(* way that were or that a request waits for.                               *)
LEMMA PassiveIInv ==
    ASSUME IInv, UNCHANGED <<state, messages, instances>>,
           phase' \in {"idle", "running", "crashed"},
           phase' = "idle" => \A r \in Requests : state[r] = "completed",
           \A c \in Calls : stage'[c] = "none" \/ stage[c] # "none" \/ c \in CalledSet(c[1])
    PROVE  IInv'
<1>1. Types'
  BY DEF IInv, Types
<1>2. Underway'
  BY SameCalls DEF IInv, Underway
<1>3. Instanced' /\ Chats'
  BY DEF IInv, Instanced, Chats
<1> QED
  BY <1>1, <1>2, <1>3 DEF IInv

(* Request r moves on, its calls and those of others as they should be. *)
LEMMA ActiveIInv ==
    ASSUME IInv, NEW r \in Requests, NEW s \in States, NEW m \in Seq(Message),
           state' = [state EXCEPT ![r] = s],
           messages' = [messages EXCEPT ![r] = m],
           UNCHANGED phase, phase = "running",
           instances' \subseteq Calls,
           \A c \in Calls : c[1] # r => (c \in instances' <=> c \in instances),
           \A c \in Calls : c[1] = r => (c \in instances' <=> s \in Holding),
           \A c \in Calls : stage'[c] = "none" \/ stage[c] # "none",
           \A c \in Calls : c[1] = r => stage'[c] = "none",
           WellFormed(m),
           s = "pending" => m = <<>>,
           s \in {"created", "running", "responded"} => m = <<>> \/ AnsweredUpTo(m, Len(m)),
           s = "tool_calling" => Calling(m)
    PROVE  IInv'
<1>1. /\ state'[r] = s /\ messages'[r] = m
      /\ \A q \in Requests : q # r => state'[q] = state[q] /\ messages'[q] = messages[q]
  BY DEF IInv, Types
<1>2. Types'
  BY DEF IInv, Types
<1>3. \A c \in Calls : c[1] \in Requests
  BY DEF Calls
<1>4. Underway'
  <2> SUFFICES ASSUME NEW c \in Calls, stage'[c] # "none" PROVE c \in CalledSet(c[1])'
    BY DEF Underway
  <2>1. c[1] # r /\ stage[c] # "none"
    OBVIOUS
  <2>2. c \in CalledSet(c[1])
    BY <2>1 DEF IInv, Underway
  <2> QED
    BY <1>1, <1>3, <2>1, <2>2, SameCalls
<1>5. Instanced'
  BY <1>1, <1>3 DEF IInv, Instanced
<1>6. Chats'
  <2> SUFFICES ASSUME NEW q \in Requests
               PROVE  /\ WellFormed(messages'[q])
                      /\ state'[q] = "pending" => messages'[q] = <<>>
                      /\ state'[q] \in {"created", "running", "responded"} =>
                            messages'[q] = <<>> \/ AnsweredUpTo(messages'[q], Len(messages'[q]))
                      /\ state'[q] = "tool_calling" => Calling(messages'[q])
    BY DEF Chats, WellFormed, AnsweredUpTo, Calling
  <2>1. CASE q = r
    BY <1>1, <2>1
  <2>2. CASE q # r
    BY <1>1, <2>2 DEF IInv, Chats
  <2> QED
    BY <2>1, <2>2
<1> QED
  BY <1>2, <1>4, <1>5, <1>6 DEF IInv

(* What a request calls are calls. *)
LEMMA CalledAreCalls ==
    ASSUME IInv, NEW r \in Requests
    PROVE  /\ Called(r) \in Seq(Tools)
           /\ CalledSet(r) \subseteq Calls
<1>1. Called(r) \in Seq(Tools)
  BY RolloutAssumption DEF IInv, Chats, Calling, Called
<1>2. \A i \in DOMAIN Called(r) : Called(r)[i] \in Tools
  BY <1>1
<1> QED
  BY <1>1, <1>2 DEF CalledSet, Calls

-----------------------------------------------------------------------------
(* One lemma per action *)

(* A batch starts with no call under way and no instance. *)
LEMMA StartBatchIInv == ASSUME IInv, StartBatch PROVE IInv'
<1> USE DEF IInv
<1>1. /\ phase = "idle" /\ phase' = "running"
      /\ state' = [r \in Requests |-> "pending"]
      /\ messages' = [r \in Requests |-> <<>>]
      /\ stage' = stage /\ instances' = instances
  BY DEF StartBatch, pool
<1>2. \A c \in Calls : c[1] \in Requests
  BY DEF Calls
<1>3. \A c \in Calls : stage[c] = "none" /\ c \notin instances
  BY <1>1, <1>2, IdleRequest DEF Instanced, Holding
<1>4. Types'
  BY <1>1 DEF Types, States
<1>5. Underway'
  BY <1>1, <1>3 DEF Underway
<1>6. Instanced'
  BY <1>1, <1>2, <1>3 DEF Instanced, Holding
<1>7. Chats'
  BY <1>1 DEF Chats, WellFormed
<1> QED
  BY <1>4, <1>5, <1>6, <1>7

(* It ends when all requests are completed. *)
LEMMA EndBatchIInv == ASSUME IInv, EndBatch PROVE IInv'
<1>1. UNCHANGED <<stage, state, messages, instances>> /\ phase' = "idle"
  BY DEF EndBatch, pool, conversation
<1> QED
  BY <1>1, PassiveIInv DEF EndBatch

(* A coroutine that raises ends the batch. *)
LEMMA CrashIInv == ASSUME IInv, Crash PROVE IInv'
<1>1. UNCHANGED <<stage, state, messages, instances>> /\ phase' = "crashed"
  BY DEF Crash, pool, conversation
<1> QED
  BY <1>1, PassiveIInv

(* Instances come with create, *)
LEMMA CreateToolsIInv ==
    ASSUME IInv, phase = "running", NEW r \in Requests, CreateTools(r) PROVE IInv'
<1>1. /\ state' = [state EXCEPT ![r] = "created"] /\ state[r] = "pending"
      /\ instances' = instances \cup {r} \X Tools
      /\ UNCHANGED <<stage, messages, phase>>
  BY DEF CreateTools, Goto, pool, conversation
<1>2. /\ WellFormed(messages[r]) /\ messages[r] = <<>>
      /\ messages[r] \in Seq(Message)
      /\ messages' = [messages EXCEPT ![r] = messages[r]]
  BY <1>1 DEF IInv, Chats, Types
<1>3. \A c \in Calls : c[1] = r => stage'[c] = "none"
  BY <1>1, IdleRequest DEF IInv
<1>4. /\ instances' \subseteq Calls
      /\ \A c \in Calls : c[1] # r => (c \in instances' <=> c \in instances)
      /\ \A c \in Calls : c[1] = r => c \in instances'
  BY <1>1 DEF IInv, Types, Calls
<1>5. "created" \in States /\ "created" \in Holding
  BY DEF States, Holding
<1> QED
  BY <1>1, <1>2, <1>3, <1>4, <1>5, ActiveIInv

(* stay while the engine and the tools work, *)
LEMMA KeepsInstances ==
    ASSUME IInv, NEW r \in Requests, state[r] \in Holding, UNCHANGED instances
    PROVE  /\ instances' \subseteq Calls
           /\ \A c \in Calls : c[1] # r => (c \in instances' <=> c \in instances)
           /\ \A c \in Calls : c[1] = r => c \in instances'
  BY DEF IInv, Types, Instanced

(* through the call of the engine, *)
LEMMA CallEngineIInv ==
    ASSUME IInv, phase = "running", NEW r \in Requests, CallEngine(r) PROVE IInv'
<1>1. CASE Crash
  BY <1>1, CrashIInv
<1>2. CASE ~Crash
  <2>1. /\ state' = [state EXCEPT ![r] = "running"] /\ state[r] \in {"created", "responded"}
        /\ UNCHANGED <<stage, messages, phase, instances>>
    BY <1>2 DEF CallEngine, Ready, Goto, pool, conversation
  <2>2. /\ WellFormed(messages[r])
        /\ messages[r] = <<>> \/ AnsweredUpTo(messages[r], Len(messages[r]))
        /\ messages[r] \in Seq(Message)
        /\ messages' = [messages EXCEPT ![r] = messages[r]]
    BY <2>1 DEF IInv, Chats, Types
  <2>3. \A c \in Calls : c[1] = r => stage'[c] = "none"
    BY <2>1, IdleRequest DEF IInv
  <2>4. "running" \in States /\ "running" \in Holding /\ state[r] \in Holding
    BY <2>1 DEF States, Holding
  <2> QED
    BY <2>1, <2>2, <2>3, <2>4, KeepsInstances, ActiveIInv
<1> QED
  BY <1>1, <1>2

(* its reply, *)
LEMMA ReplyIInv ==
    ASSUME IInv, phase = "running", NEW r \in Requests, Reply(r) PROVE IInv'
<1>1. PICK n \in {1, Budget(r)}, calls \in CallLists \cup {<<>>},
           reason \in {"length", "stop", "tool_calls"} :
        /\ AddAssistant(r, n, calls, reason)
        /\ reason = "tool_calls" => calls \in CallLists
  BY DEF Reply
<1> DEFINE a == [role |-> "assistant", calls |-> calls]
           m == Append(messages[r], a)
           s == IF reason = "tool_calls" /\ ~(turns[r] + 1 >= MaxTurns)
                THEN "tool_calling" ELSE "closing"
<1>2. /\ state' = [state EXCEPT ![r] = s] /\ state[r] = "running"
      /\ messages' = [messages EXCEPT ![r] = m]
      /\ UNCHANGED <<stage, phase, instances>>
  BY <1>1 DEF Reply, AddAssistant, Goto, pool, Types, IInv
<1>3. /\ WellFormed(messages[r]) /\ messages[r] \in Seq(Message)
      /\ messages[r] = <<>> \/ AnsweredUpTo(messages[r], Len(messages[r]))
  BY <1>2 DEF IInv, Chats, Types
<1>4. a \in Message
  BY DEF Message
<1>5. WellFormed(m) /\ m \in Seq(Message)
  BY <1>3, <1>4, AssistantKeeps
<1>6. s = "tool_calling" => Calling(m)
  <2> SUFFICES ASSUME s = "tool_calling" PROVE Calling(m)
    OBVIOUS
  <2>1. calls \in CallLists
    BY <1>1
  <2>2. m # <<>> /\ m[Len(m)] = a
    BY <1>3, <1>4
  <2> QED
    BY <2>1, <2>2 DEF Calling
<1>7. \A c \in Calls : c[1] = r => stage'[c] = "none"
  BY <1>2, IdleRequest DEF IInv
<1>8. s \in {"tool_calling", "closing"} /\ s \in States /\ s \in Holding /\ state[r] \in Holding
  BY <1>2 DEF States, Holding
<1>9. \A c \in Calls : stage'[c] = "none" \/ stage[c] # "none"
  BY <1>2
<1> HIDE DEF m, s
<1> QED
  BY <1>2, <1>5, <1>6, <1>7, <1>8, <1>9, KeepsInstances, ActiveIInv

(* the calls of tools *)
LEMMA CallToolIInv ==
    ASSUME IInv, PoolTypeOK, NEW r \in Requests, CallTool(r)
    PROVE  IInv' /\ \E c \in Calls : Submit(c) \/ Refuse(c)
<1>1. PICK c \in CalledSet(r) : Submit(c) \/ Refuse(c)
  BY DEF CallTool
<1>2. c \in Calls /\ c[1] = r
  BY CalledAreCalls, CallersWait
<1>3. \A d \in Calls : stage'[d] = "none" \/ stage[d] # "none" \/ d \in CalledSet(d[1])
  BY <1>1, <1>2 DEF Submit, Refuse, ToStage, PoolTypeOK
<1>4. UNCHANGED <<state, messages, instances, phase>>
  BY DEF CallTool, conversation
<1> QED
  BY <1>1, <1>2, <1>3, <1>4, PassiveIInv DEF IInv, Types, Instanced

(* and what the pools do with them, *)
LEMMA PoolNextIInv == ASSUME IInv, PoolTypeOK, PoolNext PROVE IInv'
<1>1. UNCHANGED <<state, messages, instances, phase>>
  BY DEF PoolNext, conversation
<1>2. \A c \in Calls : stage'[c] = "none" \/ stage[c] # "none"
  <2>1. CASE Acquire
    BY <2>1 DEF Acquire, ToStage
  <2>2. CASE Release
    BY <2>2 DEF Release
  <2>3. ASSUME NEW c \in Calls, PoolStep(c)
        PROVE  \A d \in Calls : stage'[d] = "none" \/ stage[d] # "none"
    BY <2>3 DEF PoolStep, Enter, Finish, ToStage, PoolTypeOK
  <2> QED
    BY <2>1, <2>2, <2>3 DEF PoolNext
<1> QED
  BY <1>1, <1>2, PassiveIInv DEF IInv, Types, Instanced

(* to the responses, which take the answers of all calls, *)
LEMMA AddToolResponsesIInv ==
    ASSUME IInv, phase = "running", NEW r \in Requests, AddToolResponses(r) PROVE IInv'
<1>1. PICK lens \in [DOMAIN Called(r) -> ToolResponseLens], added \in DOMAIN Called(r),
           s \in {"closing", "responded"} :
        /\ state' = [state EXCEPT ![r] = s]
        /\ messages' = [messages EXCEPT ![r] = @ \o Responses(r, added)]
        /\ s = "responded" => added = Len(Called(r))
  BY DEF AddToolResponses, Goto
<1>2. /\ state[r] = "tool_calling" /\ AllAnswered(r)
      /\ Collect(CalledSet(r) \cap Answered)
      /\ UNCHANGED <<phase, instances>>
  BY DEF AddToolResponses
<1> DEFINE t == Responses(r, added)
           m == messages[r] \o t
<1>3. /\ Called(r) \in Seq(Tools) /\ Called(r) = messages[r][Len(messages[r])].calls
      /\ added \in 1..Len(Called(r))
  BY <1>2, CalledAreCalls DEF Called
<1>4. /\ t \in Seq(Message) /\ Len(t) = added
      /\ \A k \in 1..Len(t) : t[k] = ToolMessage(Called(r)[k]) /\ t[k].role # "assistant"
  <2>1. \A k \in 1..added : ToolMessage(Called(r)[k]) \in Message
    BY <1>3 DEF ToolMessage, Message
  <2>2. added \in Nat
    BY <1>3
  <2> QED
    BY <1>3, <2>1, <2>2 DEF Responses, ToolMessage
<1> HIDE DEF t
<1>5. /\ messages[r] \in Seq(Message) /\ WellFormed(messages[r]) /\ Calling(messages[r])
      /\ messages' = [messages EXCEPT ![r] = m]
  BY <1>1, <1>2 DEF IInv, Chats, Types, t
<1>6. m \in Seq(Message) /\ WellFormed(m)
  BY <1>4, <1>5, ToolsKeep, AppendKeeps
<1>7. s = "responded" => AnsweredUpTo(m, Len(m))
  BY <1>1, <1>3, <1>4, <1>5, ResponsesAnswer
<1>8. /\ \A c \in Calls : stage'[c] = "none" \/ stage[c] # "none"
      /\ \A c \in Calls : c[1] = r => stage'[c] = "none"
  <2>1. ASSUME NEW c \in Calls, c[1] = r, stage[c] # "none"
        PROVE  c \in CalledSet(r) \cap Answered
    <3>1. c \in CalledSet(r)
      BY <2>1 DEF IInv, Underway
    <3> QED
      BY <1>2, <2>1, <3>1 DEF AllAnswered, Answered, At
  <2> QED
    BY <1>2, <2>1 DEF Collect
<1>9. s \in States /\ s \in Holding /\ state[r] \in Holding
  BY <1>2 DEF States, Holding
<1> HIDE DEF m
<1> QED
  BY <1>1, <1>2, <1>5, <1>6, <1>7, <1>8, <1>9, KeepsInstances, ActiveIInv

(* and go with release. *)
LEMMA CloseIInv ==
    ASSUME IInv, phase = "running", NEW r \in Requests, Close(r) PROVE IInv'
<1>1. CASE Crash
  BY <1>1, CrashIInv
<1>2. CASE ~Crash
  <2>1. /\ state' = [state EXCEPT ![r] = "completed"] /\ state[r] = "closing"
        /\ instances' = instances \ {r} \X Tools
        /\ UNCHANGED <<stage, messages, phase>>
    BY <1>2 DEF Close, Goto, pool, conversation
  <2>2. /\ WellFormed(messages[r])
        /\ messages[r] \in Seq(Message)
        /\ messages' = [messages EXCEPT ![r] = messages[r]]
    BY <2>1 DEF IInv, Chats, Types
  <2>3. \A c \in Calls : c[1] = r => stage'[c] = "none"
    BY <2>1, IdleRequest DEF IInv
  <2>4. /\ instances' \subseteq Calls
        /\ \A c \in Calls : c[1] # r => (c \in instances' <=> c \in instances)
        /\ \A c \in Calls : c[1] = r => c \notin instances'
    BY <2>1 DEF IInv, Types, Calls
  <2>5. "completed" \in States /\ "completed" \notin Holding
    BY DEF States, Holding
  <2> QED
    BY <2>1, <2>2, <2>3, <2>4, <2>5, ActiveIInv
<1> QED
  BY <1>1, <1>2

-----------------------------------------------------------------------------
(* Lengths, turns and parameters *)

Pending == {"pending", "created", "running", "responded", "tool_calling"}

Parameters == [temperature : Kinds \cup {"train"}, max_new_tokens : Nat]

(* What an engine call may set, and what it keeps of the old values. *)
Arguments == [max_new_tokens : Nat] \cup Parameters

(* The rest of the types, and what keeps turns and budgets in them. *)
Limits ==
    /\ batch \in Seq(Kinds) /\ Len(batch) <= MaxBatches
    /\ phase = "running" => batch # <<>>
    /\ length \in [Requests -> Nat]
    /\ turns \in [Requests -> 0..MaxTurns]
    /\ finish \in [Requests -> {"none", "stop", "length", "tool_calls"}]
    /\ params \in Parameters
    /\ old \in [Requests -> Arguments \cup {<<>>}]
    /\ \A r \in Requests : state[r] \in Pending => turns[r] < MaxTurns
    /\ \A r \in Requests : state[r] = "running" => Budget(r) >= 0

(* Lengths are numbers. *)
LEMMA Lengths ==
    /\ MaxTurns \in Nat /\ MaxTurns >= 1 /\ PromptLen \in Nat /\ ResponseLength \in Nat
    /\ HeaderLen \in Nat /\ EndLen \in Nat /\ MaxBatches \in Nat /\ MaxModelLen \in Nat
    /\ ToolResponseLens \subseteq Nat
BY RolloutAssumption

(* The tokens of the first k responses. *)
LEMMA ResponseTokens ==
    ASSUME NEW n \in Nat, NEW lens \in [1..n -> Nat], NEW k \in 1..n
    PROVE  Sum1(lens, k) \in Nat
<1> DEFINE f == CHOOSE f : f = [i \in 0..k |-> IF i = 0 THEN 0 ELSE f[i - 1] + lens[i]]
<1>1. Sum1(lens, k) = f[k]
  BY Zenon DEF Sum1
<1>2. k \in Nat /\ \A i \in 1..k : lens[i] \in Nat
  OBVIOUS
<1>3. IsPrefixSum(f, lens, k)
  <2>1. \E g : IsPrefixSum(g, lens, k)
    BY <1>2, PrefixSumExists
  <2> QED
    BY <2>1, Zenon DEF IsPrefixSum
<1> HIDE DEF f
<1> QED
  BY <1>1, <1>2, <1>3, PrefixSumNat

(* A budget is a number; that of a request is its length's and messages'. *)
LEMMA BudgetType ==
    ASSUME length \in [Requests -> Nat], NEW r \in Requests
    PROVE  Header(r) \in Nat /\ Budget(r) \in Int
<1>1. Header(r) \in Nat
  BY Lengths DEF Header
<1> QED
  BY <1>1, Lengths DEF Budget, Min2

(* Setting parameters keeps them parameters. *)
LEMMA OverrideType ==
    ASSUME NEW p \in Parameters, NEW a \in Arguments \cup {<<>>}
    PROVE  Override(p, a) \in Parameters
<1>1. p = [temperature |-> p.temperature, max_new_tokens |-> p.max_new_tokens]
      /\ p.temperature \in Kinds \cup {"train"} /\ p.max_new_tokens \in Nat
      /\ DOMAIN p = {"temperature", "max_new_tokens"}
  BY DEF Parameters
<1> DEFINE q == Override(p, a)
<1>2. q = [k \in {"temperature", "max_new_tokens"} |-> IF k \in DOMAIN a THEN a[k] ELSE p[k]]
  BY <1>1 DEF Override
<1>3. q["temperature"] \in Kinds \cup {"train"} /\ q["max_new_tokens"] \in Nat
  <2>1. CASE a \in [max_new_tokens : Nat]
    <3>1. DOMAIN a = {"max_new_tokens"} /\ a["max_new_tokens"] \in Nat
      BY <2>1
    <3> QED
      BY <1>1, <1>2, <3>1
  <2>2. CASE a \in Parameters
    <3>1. /\ DOMAIN a = {"temperature", "max_new_tokens"} /\ a["max_new_tokens"] \in Nat
          /\ a["temperature"] \in Kinds \cup {"train"}
      BY <2>2 DEF Parameters
    <3> QED
      BY <1>1, <1>2, <3>1
  <2>3. CASE a = <<>>
    <3>1. DOMAIN a = {}
      BY <2>3
    <3> QED
      BY <1>1, <1>2, <3>1
  <2> QED
    BY <2>1, <2>2, <2>3 DEF Arguments
<1> HIDE DEF q
<1>4. q = [temperature |-> q["temperature"], max_new_tokens |-> q["max_new_tokens"]]
  BY <1>2
<1> QED
  BY <1>3, <1>4 DEF Parameters, q

(* At the start. *)
LEMMA InitLimits == Init => Limits
<1> SUFFICES ASSUME Init PROVE Limits
  OBVIOUS
<1>1. /\ batch = <<>> /\ phase = "idle" /\ params = Default
      /\ state = [r \in Requests |-> "completed"] /\ turns = [r \in Requests |-> 0]
      /\ length = [r \in Requests |-> PromptLen] /\ old = [r \in Requests |-> <<>>]
      /\ finish = [r \in Requests |-> "none"]
  BY DEF Init
<1>2. params \in Parameters
  BY <1>1, Lengths DEF Default, Parameters
<1> QED
  BY <1>1, <1>2, Lengths DEF Limits, Pending

(* A step that leaves the conversations and the batch alone. *)
LEMMA StillLimits ==
    ASSUME Limits, UNCHANGED <<batch, conversation, sampling>>, UNCHANGED state,
           phase' = "running" => phase = "running"
    PROVE  Limits'
BY DEF Limits, Budget, Header, conversation, sampling

(* A request that moves on without a message or a call of the engine. *)
LEMMA MoveLimits ==
    ASSUME Limits, Types, UNCHANGED <<batch, conversation, sampling, phase>>,
           NEW r \in Requests, NEW s \in States \ {"running"}, state' = [state EXCEPT ![r] = s],
           s \in Pending => state[r] \in Pending
    PROVE  Limits'
<1>1. /\ state'[r] = s
      /\ \A q \in Requests : q # r => state'[q] = state[q]
  BY DEF Types
<1>2. \A q \in Requests : Budget(q)' = Budget(q)
  BY DEF Budget, Header, conversation
<1> QED
  BY <1>1, <1>2 DEF Limits, conversation, sampling

(* A batch begins. *)
LEMMA StartBatchLimits == ASSUME Limits, StartBatch PROVE Limits'
<1>1. PICK k \in Kinds : batch' = Append(batch, k)
  BY DEF StartBatch
<1>2. /\ Len(batch) < MaxBatches /\ UNCHANGED <<params, old>>
      /\ state' = [r \in Requests |-> "pending"] /\ turns' = [r \in Requests |-> 0]
      /\ length' = [r \in Requests |-> PromptLen]
      /\ finish' = [r \in Requests |-> "none"]
  BY DEF StartBatch, sampling
<1>3. batch' \in Seq(Kinds) /\ Len(batch') <= MaxBatches /\ batch' # <<>>
  BY <1>1, <1>2, Lengths DEF Limits
<1> QED
  BY <1>2, <1>3, Lengths DEF Limits, Pending

(* The engine is called. *)
LEMMA CallEngineLimits ==
    ASSUME Limits, Types, phase = "running", NEW r \in Requests, CallEngine(r) PROVE Limits'
<1>1. CASE Crash
  BY <1>1, StillLimits DEF Crash
<1>2. CASE ~Crash
  <2>1. /\ Budget(r) \in Int /\ Budget(r) >= 0
        /\ old' = [old EXCEPT ![r] = [k \in DOMAIN Kwargs(r) |-> params[k]]]
        /\ params' = Override(params, Kwargs(r))
        /\ state' = [state EXCEPT ![r] = "running"]
        /\ UNCHANGED <<phase, batch, conversation>>
        /\ state[r] \in {"created", "responded"}
    <3>1. Budget(r) \in Int
      BY BudgetType DEF Limits
    <3> QED
      BY <1>2, <3>1 DEF CallEngine, Goto, Ready
  <2>2. Kwargs(r) \in Arguments
    <3>1. Kind \in Kinds
      BY DEF Limits, Kind
    <3> HIDE DEF Kind
    <3>2. Kwargs(r) = [max_new_tokens |-> Budget(r)]
          \/ Kwargs(r) = [temperature |-> Kind, max_new_tokens |-> Budget(r)]
      BY Zenon DEF Kwargs
    <3> QED
      BY <2>1, <3>1, <3>2 DEF Arguments, Parameters
  <2>3. params' \in Parameters
    BY <2>1, <2>2, OverrideType DEF Limits
  <2>4. [k \in DOMAIN Kwargs(r) |-> params[k]] \in Arguments
    <3>1. /\ params["temperature"] \in Kinds \cup {"train"}
          /\ params["max_new_tokens"] \in Nat
      BY DEF Limits, Parameters
    <3>2. CASE Kwargs(r) \in [max_new_tokens : Nat]
      <4>1. DOMAIN Kwargs(r) = {"max_new_tokens"}
        BY <3>2
      <4>2. [k \in DOMAIN Kwargs(r) |-> params[k]] = [max_new_tokens |-> params["max_new_tokens"]]
        BY <4>1
      <4> QED
        BY <3>1, <4>2 DEF Arguments
    <3>3. CASE Kwargs(r) \in Parameters
      <4>1. DOMAIN Kwargs(r) = {"temperature", "max_new_tokens"}
        BY <3>3 DEF Parameters
      <4>2. [k \in DOMAIN Kwargs(r) |-> params[k]]
                = [temperature |-> params["temperature"],
                   max_new_tokens |-> params["max_new_tokens"]]
        BY <4>1
      <4> QED
        BY <3>1, <4>2 DEF Arguments, Parameters
    <3> QED
      BY <2>2, <3>2, <3>3 DEF Arguments
  <2>5. old' \in [Requests -> Arguments \cup {<<>>}]
    BY <2>1, <2>4 DEF Limits
  <2>6. \A q \in Requests : Budget(q)' = Budget(q)
    BY <2>1 DEF Budget, Header, conversation
  <2>7. /\ state'[r] = "running" /\ state[r] \in Pending
        /\ \A q \in Requests : q # r => state'[q] = state[q]
    BY <2>1 DEF Types, Pending
  <2>8. UNCHANGED <<batch, phase, length, turns, finish>>
    BY <2>1 DEF conversation
  <2> QED
    BY <2>1, <2>3, <2>5, <2>6, <2>7, <2>8 DEF Limits
<1> QED
  BY <1>1, <1>2

(* It answers: the last turn ends the request. *)
LEMMA ReplyLimits ==
    ASSUME Limits, Types, NEW r \in Requests, Reply(r) PROVE Limits'
<1>1. PICK n \in {1, Budget(r)}, calls \in CallLists \cup {<<>>},
           reason \in {"length", "stop", "tool_calls"} :
        AddAssistant(r, n, calls, reason)
  BY DEF Reply
<1> DEFINE last == turns[r] + 1 >= MaxTurns
           end == IF reason = "length" THEN 0 ELSE EndLen
           s == IF reason = "tool_calls" /\ ~last THEN "tool_calling" ELSE "closing"
<1>2. /\ state[r] = "running"
      /\ params' = Override(params, old[r]) /\ old' = [old EXCEPT ![r] = <<>>]
      /\ length' = [length EXCEPT ![r] = length[r] + Header(r) + n + end]
      /\ turns' = [turns EXCEPT ![r] = turns[r] + 1]
      /\ finish' = [finish EXCEPT ![r] = IF last THEN "stop" ELSE reason]
      /\ state' = [state EXCEPT ![r] = s]
      /\ UNCHANGED <<batch, phase>>
      /\ messages' = [messages EXCEPT ![r] = Append(messages[r], [role |-> "assistant", calls |-> calls])]
  BY <1>1 DEF Reply, AddAssistant, Goto, Limits, Types
<1>3. length[r] \in Nat /\ Header(r) \in Nat /\ Budget(r) \in Int /\ Budget(r) >= 0
  BY <1>2, BudgetType DEF Limits
<1>4. n \in Nat /\ end \in Nat
  BY <1>3, Lengths
<1>5. length' \in [Requests -> Nat]
  <2>1. length[r] + Header(r) + n + end \in Nat
    BY <1>3, <1>4
  <2> QED
    BY <1>2, <2>1 DEF Limits
<1>6. turns[r] \in Nat /\ turns[r] < MaxTurns
  BY <1>2, Lengths DEF Limits, Pending
<1>7. turns' \in [Requests -> 0..MaxTurns] /\ (s \in Pending => turns'[r] < MaxTurns)
  BY <1>2, <1>6, Lengths DEF Limits, Pending
<1>8. finish' \in [Requests -> {"none", "stop", "length", "tool_calls"}]
  BY <1>2 DEF Limits
<1>9. params' \in Parameters /\ old' \in [Requests -> Arguments \cup {<<>>}]
  <2>1. old[r] \in Arguments \cup {<<>>} /\ params \in Parameters
    BY DEF Limits
  <2>2. params' \in Parameters
    BY <1>2, <2>1, OverrideType
  <2> QED
    BY <1>2, <2>2 DEF Limits
<1>10. ASSUME NEW q \in Requests
       PROVE  /\ state'[q] \in Pending => turns'[q] < MaxTurns
              /\ state'[q] = "running" => Budget(q)' >= 0
  <2>1. CASE q = r
    <3>1. state'[q] = s /\ s # "running"
      BY <1>2, <2>1 DEF Types
    <3> HIDE DEF s
    <3> QED
      BY <1>7, <2>1, <3>1
  <2>2. CASE q # r
    <3>1. /\ state'[q] = state[q] /\ turns'[q] = turns[q] /\ length'[q] = length[q]
          /\ messages'[q] = messages[q]
      BY <1>2, <2>2 DEF Types, Limits
    <3>2. Budget(q)' = Budget(q)
      BY <3>1 DEF Budget, Header
    <3> QED
      BY <3>1, <3>2 DEF Limits
  <2> QED
    BY <2>1, <2>2
<1>11. batch' \in Seq(Kinds) /\ Len(batch') <= MaxBatches /\ (phase' = "running" => batch' # <<>>)
  BY <1>2 DEF Limits
<1> QED
  BY <1>5, <1>7, <1>8, <1>9, <1>10, <1>11 DEF Limits

(* The tools answer. *)
LEMMA AddToolResponsesLimits ==
    ASSUME Limits, IInv, NEW r \in Requests, AddToolResponses(r) PROVE Limits'
<1>1. PICK lens \in [DOMAIN Called(r) -> ToolResponseLens], added \in DOMAIN Called(r),
           s \in {"closing", "responded"} :
        /\ state' = [state EXCEPT ![r] = s]
        /\ messages' = [messages EXCEPT ![r] = @ \o Responses(r, added)]
        /\ length' = [length EXCEPT ![r] = @ + Sum1(lens, added)]
        /\ finish' = [finish EXCEPT ![r] = "stop"] \/ UNCHANGED finish
  BY Zenon DEF AddToolResponses, Goto
<1>2. state[r] = "tool_calling" /\ UNCHANGED <<phase, batch, turns, params, old>>
  BY DEF AddToolResponses, sampling
<1>3. Sum1(lens, added) \in Nat
  <2>1. Called(r) \in Seq(Tools)
    BY <1>2, CalledAreCalls DEF Called
  <2>2. /\ DOMAIN Called(r) = 1..Len(Called(r)) /\ Len(Called(r)) \in Nat
        /\ lens \in [1..Len(Called(r)) -> Nat]
    <3>1. DOMAIN Called(r) = 1..Len(Called(r)) /\ Len(Called(r)) \in Nat
      BY <2>1
    <3>2. ToolResponseLens \subseteq Nat
      BY Lengths
    <3> QED
      BY <3>1, <3>2
  <2> QED
    BY <2>2, ResponseTokens, Zenon
<1>4. length' \in [Requests -> Nat] /\ \A q \in Requests : q # r => length'[q] = length[q]
  BY <1>1, <1>3 DEF Limits
<1>5. finish' \in [Requests -> {"none", "stop", "length", "tool_calls"}]
  BY <1>1 DEF Limits
<1>6. ASSUME NEW q \in Requests
      PROVE  /\ state'[q] \in Pending => turns'[q] < MaxTurns
             /\ state'[q] = "running" => Budget(q)' >= 0
  <2>1. CASE q = r
    <3>1. state'[q] = s /\ s # "running" /\ state[q] \in Pending
      BY <1>1, <1>2, <2>1 DEF Types, IInv, Pending
    <3> QED
      BY <1>2, <3>1 DEF Limits
  <2>2. CASE q # r
    <3>1. state'[q] = state[q] /\ length'[q] = length[q] /\ messages'[q] = messages[q]
      BY <1>1, <1>4, <2>2 DEF Types, IInv
    <3>2. Budget(q)' = Budget(q)
      BY <3>1 DEF Budget, Header
    <3> QED
      BY <1>2, <3>1, <3>2 DEF Limits
  <2> QED
    BY <2>1, <2>2
<1> QED
  BY <1>2, <1>4, <1>5, <1>6 DEF Limits

-----------------------------------------------------------------------------
(* To the pools, a step of the rollout is one of a caller or their own. *)

Inv == PoolIInv /\ IInv /\ Limits

(* The rollout calls tools, takes their answers, or leaves them alone. *)
LEMMA Callers ==
    ASSUME Inv, [Next]_vars PROVE CallerStep \/ PoolOwnStep
<1> USE DEF Inv
<1>1. CASE PoolNext
  BY <1>1 DEF PoolNext, PoolOwnStep
<1>2. ASSUME NEW r \in Requests, CallTool(r) PROVE CallerStep
  BY <1>2, CallToolIInv DEF PoolIInv, CallerStep
<1>3. ASSUME NEW r \in Requests, AddToolResponses(r) PROVE CallerStep
  <2>1. /\ Collect(CalledSet(r) \cap Answered)
        /\ UNCHANGED <<queue, tokens, releases>>
    BY <1>3 DEF AddToolResponses
  <2>2. CalledSet(r) \cap Answered \in SUBSET Answered
    OBVIOUS
  <2> HIDE DEF Inv
  <2> QED
    BY <2>1, <2>2, Zenon DEF CallerStep
<1>4. ASSUME NEW r \in Requests,
             CreateTools(r) \/ CallEngine(r) \/ Reply(r) \/ ToolRaises(r) \/ Close(r)
      PROVE  CallerStep
  BY <1>4 DEF CreateTools, CallEngine, Reply, ToolRaises, Close, Crash, CallerStep
<1>5. CASE StartBatch \/ EndBatch \/ UNCHANGED vars
  BY <1>5 DEF StartBatch, EndBatch, vars, pool, CallerStep
<1> QED
  BY <1>1, <1>2, <1>3, <1>4, <1>5 DEF Next, Work, Coroutine

(* Every step of the rollout keeps the invariant. *)
LEMMA NextInv == ASSUME Inv, [Next]_vars PROVE Inv'
<1> USE DEF Inv
<1>1. PoolIInv'
  BY Callers, CallerKeeps, PoolKeeps
<1>2. IInv'
  <2>1. CASE StartBatch
    BY <2>1, StartBatchIInv
  <2>2. CASE EndBatch
    BY <2>2, EndBatchIInv
  <2>3. CASE PoolNext
    BY <2>3, PoolNextIInv DEF PoolIInv
  <2>4. ASSUME NEW r \in Requests, Coroutine(r) PROVE IInv'
    <3>1. phase = "running"
      BY <2>4 DEF Coroutine
    <3>2. CASE CreateTools(r)
      BY <3>1, <3>2, CreateToolsIInv
    <3>3. CASE CallEngine(r)
      BY <3>1, <3>3, CallEngineIInv
    <3>4. CASE Reply(r)
      BY <3>1, <3>4, ReplyIInv
    <3>5. CASE CallTool(r)
      BY <3>5, CallToolIInv DEF PoolIInv
    <3>6. CASE ToolRaises(r)
      BY <3>6, CrashIInv DEF ToolRaises
    <3>7. CASE AddToolResponses(r)
      BY <3>1, <3>7, AddToolResponsesIInv
    <3>8. CASE Close(r)
      BY <3>1, <3>8, CloseIInv
    <3> QED
      BY <2>4, <3>2, <3>3, <3>4, <3>5, <3>6, <3>7, <3>8 DEF Coroutine
  <2>5. CASE UNCHANGED vars
    BY <2>5, PassiveIInv DEF vars, IInv, Types, Instanced
  <2> QED
    BY <2>1, <2>2, <2>3, <2>4, <2>5 DEF Next, Work
<1>3. Limits'
  <2> USE DEF IInv
  <2>1. CASE StartBatch
    BY <2>1, StartBatchLimits
  <2>2. CASE EndBatch
    BY <2>2, StillLimits DEF EndBatch
  <2>3. CASE PoolNext
    BY <2>3, StillLimits DEF PoolNext
  <2>4. ASSUME NEW r \in Requests, Coroutine(r) PROVE Limits'
    <3>1. phase = "running"
      BY <2>4 DEF Coroutine
    <3>2. CASE CreateTools(r)
      <4>1. /\ state[r] = "pending" /\ state' = [state EXCEPT ![r] = "created"]
            /\ UNCHANGED <<batch, conversation, sampling, phase>>
        BY <3>2 DEF CreateTools, Goto
      <4> QED
        BY <4>1, MoveLimits DEF States, Pending
    <3>3. CASE CallEngine(r)
      BY <3>1, <3>3, CallEngineLimits
    <3>4. CASE Reply(r)
      BY <3>4, ReplyLimits
    <3>5. CASE CallTool(r)
      BY <3>5, StillLimits DEF CallTool
    <3>6. CASE ToolRaises(r)
      BY <3>6, StillLimits DEF ToolRaises, Crash
    <3>7. CASE AddToolResponses(r)
      BY <3>7, AddToolResponsesLimits
    <3>8. CASE Close(r)
      <4>1. CASE Crash
        BY <4>1, StillLimits DEF Crash
      <4>2. CASE ~Crash
        <5>1. /\ state' = [state EXCEPT ![r] = "completed"]
              /\ UNCHANGED <<batch, conversation, sampling, phase>>
          BY <3>8, <4>2 DEF Close, Goto
        <5> QED
          BY <5>1, MoveLimits DEF States, Pending
      <4> QED
        BY <4>1, <4>2
    <3> QED
      BY <2>4, <3>2, <3>3, <3>4, <3>5, <3>6, <3>7, <3>8 DEF Coroutine
  <2>5. CASE UNCHANGED vars
    BY <2>5, StillLimits DEF vars, conversation, sampling
  <2> QED
    BY <2>1, <2>2, <2>3, <2>4, <2>5 DEF Next, Work
<1> QED
  BY <1>1, <1>2, <1>3

-----------------------------------------------------------------------------
(* Theorems *)

(* The invariant the others rest on. *)
THEOREM Invariant == Spec => []Inv
<1>1. Init => Inv
  BY InitIInv, InitLimits, PoolStart DEF Init, Inv
<1>2. Inv /\ [Next]_vars => Inv'
  BY NextInv
<1> QED
  BY <1>1, <1>2, PTL DEF Spec

(* Type correctness: no request is given more than max_turns turns, however *)
(* its messages, tools and lengths go, and the engine's parameters stay     *)
(* complete while calls of several requests set and restore them.           *)
THEOREM RolloutTypes == Spec => []TypeOK
<1>1. Inv => TypeOK
  BY DEF Inv, PoolIInv, IInv, Types, Limits, TypeOK, Parameters
<1> QED
  BY <1>1, Invariant, PTL

(* No tool call, whether it returns, raises or outlives its batch, loses a *)
(* token of the limiter or makes one up.                                   *)
THEOREM Tokens == Spec => []TokensAreConserved
<1>1. Inv => TokensAreConserved
  BY DEF Inv, PoolIInv
<1> QED
  BY <1>1, Invariant, PTL

(* A tool never works for a request whose instance it does not have. *)
THEOREM Instances == Spec => []InstancesOutliveCalls
<1>1. ASSUME Inv PROVE InstancesOutliveCalls
  <2>1. \A c \in Calls : c[1] \in Requests
    BY DEF Calls
  <2>2. \A c \in Calls : stage[c] # "none" => c \in instances
    <3> SUFFICES ASSUME NEW c \in Calls, stage[c] # "none" PROVE c \in instances
      OBVIOUS
    <3>1. state[c[1]] = "tool_calling"
      BY <1>1, IdleRequest DEF Inv, IInv
    <3> QED
      BY <1>1, <3>1 DEF Inv, IInv, Instanced, Holding, States
  <2>3. ASSUME phase = "idle" PROVE instances = {}
    BY <1>1, <2>1, <2>3 DEF Inv, IInv, Types, Instanced, Holding
  <2> QED
    BY <2>2, <2>3 DEF InstancesOutliveCalls
<1> QED
  BY <1>1, Invariant, PTL

(* The model is asked again only when all calls of its message have been *)
(* answered, in their order.                                             *)
THEOREM AnsweredInOrder == Spec => []EveryCallIsAnswered
<1>1. ASSUME Inv PROVE EveryCallIsAnswered
  <2> SUFFICES ASSUME NEW r \in Requests, NEW j \in 2..Len(messages[r]),
                      messages[r][j].role = "assistant"
               PROVE  \E i \in 1..(j - 1) :
                         /\ messages[r][i].role = "assistant"
                         /\ Len(messages[r][i].calls) = j - i - 1
                         /\ \A k \in 1..(j - i - 1) :
                               /\ messages[r][i + k].role = "tool"
                               /\ messages[r][i + k].name = messages[r][i].calls[k]
    BY DEF EveryCallIsAnswered
  <2> DEFINE m == messages[r]
             n == j - 1
  <2>1. m \in Seq(Message) /\ WellFormed(m) /\ Len(m) \in Nat
    BY <1>1 DEF Inv, IInv, Types, Chats
  <2>2. n \in 1..(Len(m) - 1) /\ n + 1 = j
    BY <2>1
  <2>3. AnsweredUpTo(m, n)
    BY <2>1, <2>2 DEF WellFormed
  <2>4. PICK i \in 1..n :
          /\ m[i].role = "assistant"
          /\ Len(m[i].calls) = n - i
          /\ \A k \in 1..(n - i) : m[i + k].role = "tool" /\ m[i + k].name = m[i].calls[k]
    BY <2>3 DEF AnsweredUpTo
  <2>5. n - i = j - i - 1 /\ i \in 1..(j - 1)
    BY <2>2
  <2> HIDE DEF m, n
  <2> QED
    BY <2>4, <2>5, Zenon DEF m
<1> QED
  BY <1>1, Invariant, PTL

(* The pools and the bucket, driven by the rollout, keep the limit. *)
THEOREM Refinement == Spec => RefinesRateLimit
<1>1. Init => Limited!Init
  BY PoolInitRefines DEF Init
<1>2. Inv /\ [Next]_vars => [Limited!Next]_(Limited!vars)
  BY Callers, CallerRefines, PoolRefines DEF Inv
<1> QED
  BY <1>1, <1>2, Invariant, PTL DEF Spec, RefinesRateLimit, Limited!Spec
=============================================================================
