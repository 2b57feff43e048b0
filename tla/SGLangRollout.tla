---------------------------- MODULE SGLangRollout ----------------------------
(***************************************************************************)
(* SGLangRollout._req_level_generate_sequences: the requests of a batch    *)
(* run as coroutines of one event loop, each taking turns between the      *)
(* engine and its tools.                                                   *)
(*                                                                         *)
(* A coroutine creates an instance of its request in every tool, asks the  *)
(* engine for a message, awaits the tools the message calls, adds their    *)
(* responses and asks again, until a message calls no tool, is cut off by  *)
(* its length, or the turns or the context are used up; then it collects   *)
(* the rewards and releases its instances.  Coroutines interleave where    *)
(* they await: an action is what one of them does between two awaits.      *)
(* Sampling parameters are one object of the rollout: each engine call     *)
(* sets its own and puts the old ones back when the engine has answered.   *)
(* The first exception of a coroutine ends the batch and is raised on.     *)
(*                                                                         *)
(* Abstractions.  A message is its role and the tools it calls, a sequence *)
(* of tokens its length, chat format chatml.  The engine is external: it   *)
(* answers a prompt with at most max_new_tokens tokens, refuses a negative *)
(* number of them, and reads the parameters when it is called.  Every      *)
(* request has all tools, and a message calls a tool once.  The code tool  *)
(* is SandboxFusionTool, the search tool SearchTool.  A message with calls *)
(* none of which can be parsed ends the request as an answer does.         *)
(***************************************************************************)
EXTENDS ToolPool

CONSTANTS
    CallLists,        \* the tool calls a message may have
    Kinds,            \* of batch: train, validate, greedy
    MaxBatches,       \* bound: batches
    MaxTurns,         \* multi_turn.max_turns
    PromptLen,        \* of every prompt, generation header included
    ResponseLength,   \* response_length
    MaxModelLen,      \* max_model_len
    HeaderLen, EndLen,      \* assistant_prefix_msg, assistant_suffix_msg
    ToolResponseLens        \* of a tool's message, frame included

Code   == "code"
Search == "search"

ASSUME RolloutAssumption ==
    /\ Tools \subseteq {Code, Search}
    /\ CallLists \subseteq Seq(Tools) \ {<<>>}
    /\ Kinds \subseteq {"train", "validate", "greedy"}
    /\ {MaxTurns, PromptLen, ResponseLength, HeaderLen, EndLen} \subseteq Nat \ {0}
    /\ MaxBatches \in Nat
    /\ MaxModelLen \in Nat /\ MaxModelLen > PromptLen
    /\ ToolResponseLens \subseteq Nat \ {0}

VARIABLES
    phase,        \* of the rollout: idle, running a batch, crashed
    batch,        \* the batches so far, by kind
    state,        \* where each request is
    messages,     \* what was added to the conversation
    length,       \* len(input_ids)
    turns,        \* current_turns
    finish,       \* finish_reason_type
    instances,    \* the keys of the tools' _instance_dict
    params,       \* self.sampling_params
    old           \* old_sampling_params_args of each engine call

conversation == <<messages, length, turns, finish>>
sampling == <<params, old>>
vars == <<stage, queue, tokens, releases, phase, batch, state, messages, length, turns,
          finish, instances, params, old>>

Default == [temperature |-> "train", max_new_tokens |-> ResponseLength]

States == {"pending", "created", "running", "tool_calling", "responded", "closing",
           "completed"}
Message == [role : {"assistant"}, calls : CallLists \cup {<<>>}]
           \cup [role : {"tool"}, name : Tools]

TypeOK ==
    /\ PoolTypeOK
    /\ phase \in {"idle", "running", "crashed"}
    /\ batch \in Seq(Kinds) /\ Len(batch) <= MaxBatches
    /\ state \in [Requests -> States]
    /\ messages \in [Requests -> Seq(Message)]
    /\ length \in [Requests -> Nat]
    /\ turns \in [Requests -> 0..MaxTurns]
    /\ finish \in [Requests -> {"none", "stop", "length", "tool_calls"}]
    /\ instances \subseteq Calls
    /\ params \in [temperature : Kinds \cup {"train"}, max_new_tokens : Nat]

Init ==
    /\ PoolInit
    /\ phase = "idle"
    /\ batch = <<>>
    /\ state = [r \in Requests |-> "completed"]
    /\ messages = [r \in Requests |-> <<>>]
    /\ length = [r \in Requests |-> PromptLen]
    /\ turns = [r \in Requests |-> 0]
    /\ finish = [r \in Requests |-> "none"]
    /\ instances = {}
    /\ params = Default
    /\ old = [r \in Requests |-> <<>>]

Min2(a, b) == IF a < b THEN a ELSE b
Goto(r, s) == state' = [state EXCEPT ![r] = s]

-----------------------------------------------------------------------------
(* The batch *)

StartBatch ==
    /\ phase = "idle"
    /\ Len(batch) < MaxBatches
    /\ \E k \in Kinds : batch' = Append(batch, k)
    /\ phase' = "running"
    /\ state' = [r \in Requests |-> "pending"]
    /\ messages' = [r \in Requests |-> <<>>]
    /\ length' = [r \in Requests |-> PromptLen]
    /\ turns' = [r \in Requests |-> 0]
    /\ finish' = [r \in Requests |-> "none"]
    /\ UNCHANGED <<pool, instances, sampling>>

(* asyncio.gather has all requests. *)
EndBatch ==
    /\ phase = "running"
    /\ \A r \in Requests : state[r] = "completed"
    /\ phase' = "idle"
    /\ UNCHANGED <<pool, batch, state, conversation, instances, sampling>>

Kind == batch[Len(batch)]

(* A coroutine raises. *)
Crash ==
    /\ phase' = "crashed"
    /\ UNCHANGED <<pool, batch, state, conversation, instances, sampling>>

-----------------------------------------------------------------------------
(* The coroutine of request r *)

(* _handle_pending_state *)
CreateTools(r) ==
    /\ state[r] = "pending"
    /\ Goto(r, "created")
    /\ instances' = instances \cup {r} \X Tools
    /\ UNCHANGED <<pool, phase, batch, conversation, sampling>>

(* The prompt ends with the header the model writes after, unless an *)
(* assistant or tool message was added since.                        *)
Header(r) == IF messages[r] = <<>> THEN 0 ELSE HeaderLen

(* max_new_tokens *)
Budget(r) == Min2(ResponseLength, MaxModelLen - (length[r] + Header(r)) - 1)

Kwargs(r) ==
    IF Kind = "train" THEN [max_new_tokens |-> Budget(r)]
    ELSE [temperature |-> Kind, max_new_tokens |-> Budget(r)]

Override(f, g) == [k \in DOMAIN f |-> IF k \in DOMAIN g THEN g[k] ELSE f[k]]

Ready(r) == state[r] \in {"created", "responded"}

(* _handle_engine_call: the parameters are set and the engine is called. *)
CallEngine(r) ==
    /\ Ready(r)
    /\ IF Budget(r) < 0
       THEN Crash
       ELSE /\ old' = [old EXCEPT ![r] = [k \in DOMAIN Kwargs(r) |-> params[k]]]
            /\ params' = Override(params, Kwargs(r))
            /\ Goto(r, "running")
            /\ UNCHANGED <<pool, phase, batch, conversation, instances>>

(* add_assistant_message and what follows it in the loop; a message cut  *)
(* off by its length has no end.                                         *)
AddAssistant(r, n, calls, reason) ==
    LET last == turns[r] + 1 >= MaxTurns IN
    /\ messages' = [messages EXCEPT ![r] = Append(@, [role |-> "assistant", calls |-> calls])]
    /\ length' = [length EXCEPT ![r] = @ + Header(r) + n
                                       + (IF reason = "length" THEN 0 ELSE EndLen)]
    /\ turns' = [turns EXCEPT ![r] = @ + 1]
    /\ finish' = [finish EXCEPT ![r] = IF last THEN "stop" ELSE reason]
    /\ Goto(r, IF reason = "tool_calls" /\ ~last THEN "tool_calling" ELSE "closing")

(* The engine answers: the old parameters are put back and the message is *)
(* added.                                                                 *)
Reply(r) ==
    /\ state[r] = "running"
    /\ params' = Override(params, old[r])
    /\ old' = [old EXCEPT ![r] = <<>>]
    /\ \/ AddAssistant(r, Budget(r), <<>>, "length")
       \/ \E n \in {1, Budget(r)} :
             /\ n <= Budget(r)
             /\ \/ AddAssistant(r, n, <<>>, "stop")
                \/ \E calls \in CallLists : AddAssistant(r, n, calls, "tool_calls")
    /\ UNCHANGED <<pool, phase, batch, instances>>

(* The tools the last message calls. *)
Called(r) ==
    IF state[r] # "tool_calling" THEN <<>> ELSE messages[r][Len(messages[r])].calls

CalledSet(r) == {<<r, Called(r)[i]>> : i \in DOMAIN Called(r)}

(* A task of asyncio.gather starts tool.execute. *)
CallTool(r) ==
    /\ \E c \in CalledSet(r) :
          \/ Submit(c)
          \/ ToolOf(c) = Search /\ Refuse(c)
    /\ UNCHANGED <<phase, batch, state, conversation, instances, sampling>>

(* SandboxFusionTool.execute calls None.strip() when the function raised. *)
ToolRaises(r) ==
    /\ \E c \in CalledSet(r) : ToolOf(c) = Code /\ stage[c] = "raised"
    /\ Crash

Sum1(s, k) == LET sum[i \in 0..k] == IF i = 0 THEN 0 ELSE sum[i - 1] + s[i] IN sum[k]

(* Mutant: the first result is enough to go on. *)
AnyAnswered(r) == CalledSet(r) \cap Answered # {}

(* Every call is answered; SearchTool turns an exception into a response. *)
AllAnswered(r) ==
    \A c \in CalledSet(r) : stage[c] = "returned" \/ (ToolOf(c) = Search /\ stage[c] = "raised")

ToolMessage(t) == [role |-> "tool", name |-> t]

(* Mutant: a tool that failed is left without a response. *)
SuccessfulResponses(r, k) ==
    LET returned(t) == stage[<<r, t>>] = "returned"
        names == SelectSeq(SubSeq(Called(r), 1, k), returned)
    IN [i \in DOMAIN names |-> ToolMessage(names[i])]

(* The messages of the first k tools called. *)
Responses(r, k) == [i \in 1..k |-> ToolMessage(Called(r)[i])]

(* add_tool_response_message for each result, until the context is full. *)
AddToolResponses(r) ==
    /\ state[r] = "tool_calling"
    /\ AllAnswered(r)
    /\ \E lens \in [DOMAIN Called(r) -> ToolResponseLens] :
          LET full(k) == length[r] + Sum1(lens, k) >= MaxModelLen
          IN \E added \in DOMAIN Called(r) :
                /\ full(added) \/ added = Len(Called(r))
                /\ \A j \in 1..(added - 1) : ~full(j)
                /\ messages' = [messages EXCEPT ![r] = @ \o Responses(r, added)]
                /\ length' = [length EXCEPT ![r] = @ + Sum1(lens, added)]
                /\ IF full(added)
                   THEN Goto(r, "closing") /\ finish' = [finish EXCEPT ![r] = "stop"]
                   ELSE Goto(r, "responded") /\ UNCHANGED finish
    /\ Collect(CalledSet(r) \cap Answered)
    /\ UNCHANGED <<queue, tokens, releases, phase, batch, turns, instances, sampling>>

(* calc_reward_and_release_fn and finalize, which takes stop and length. *)
Close(r) ==
    /\ state[r] = "closing"
    /\ IF {r} \X Tools \subseteq instances /\ finish[r] # "tool_calls"
       THEN /\ Goto(r, "completed")
            /\ instances' = instances \ {r} \X Tools
            /\ UNCHANGED <<pool, phase, batch, conversation, sampling>>
       ELSE Crash

Coroutine(r) ==
    /\ phase = "running"
    /\ \/ CreateTools(r) \/ CallEngine(r) \/ Reply(r) \/ CallTool(r)
       \/ ToolRaises(r) \/ AddToolResponses(r) \/ Close(r)

-----------------------------------------------------------------------------

PoolNext ==
    /\ Acquire \/ Release \/ \E c \in Calls : PoolStep(c)
    /\ UNCHANGED <<phase, batch, state, conversation, instances, sampling>>

Work == EndBatch \/ \E r \in Requests : Coroutine(r)

Next == StartBatch \/ Work \/ PoolNext

Spec == Init /\ [][Next]_vars

(* The event loop resumes a coroutine whose result has come, the engine    *)
(* and the tools' functions end (requests to them have timeouts), and Ray  *)
(* runs what a pool or the bucket can run.  A batch is finitely much work, *)
(* so it is enough that some of what is possible goes on.                  *)
Fairness == WF_vars(Work) /\ WF_vars(PoolNext)

FairSpec == Spec /\ Fairness

-----------------------------------------------------------------------------
(* Properties *)

(* A tool works on the instance of the request that called it from create  *)
(* to release: no call of a request is under way that has no instance, no  *)
(* instance is released while a call of its request still runs in a pool,  *)
(* and a batch that ended leaves no instance behind in any tool.           *)
InstancesOutliveCalls ==
    /\ \A c \in Calls : stage[c] # "none" => c \in instances
    /\ phase = "idle" => instances = {}

(* The chat the model continues is well formed: before every assistant     *)
(* message but the first come the responses to exactly the calls of the    *)
(* previous one, in their order, however the tools finished.               *)
EveryCallIsAnswered ==
    \A r \in Requests : \A j \in 2..Len(messages[r]) :
        messages[r][j].role = "assistant" =>
            \E i \in 1..(j - 1) :
                /\ messages[r][i].role = "assistant"
                /\ Len(messages[r][i].calls) = j - i - 1
                /\ \A k \in 1..(j - i - 1) :
                      /\ messages[r][i + k].role = "tool"
                      /\ messages[r][i + k].name = messages[r][i].calls[k]

(* A batch ends, with all requests or with an exception: no interleaving   *)
(* of requests, pools and bucket leaves them waiting for each other.       *)
BatchEnds == phase = "running" ~> phase # "running"

(* update_sampling_params, docstring: "Parameters are automatically fall   *)
(* back to their original values upon exiting the block."  Between batches *)
(* no block is open.                                                       *)
ParametersFallBack == phase = "idle" => params = Default
=============================================================================
