------------------------------- MODULE ToolLoop -------------------------------
(***************************************************************************)
(* The conversations with the language model and the tools it calls: the   *)
(* loop of the brain (brain/pipeline.go runToolLoop, which stages, ticks,  *)
(* scheduled tasks and chat wakes run), the streams of a chat session      *)
(* (chat/handler.go, session.go, history.go), and the executor they share  *)
(* (tools/executor.go).                                                    *)
(*                                                                         *)
(* The model answers what it likes.  A tool runs in a goroutine of its own *)
(* and may take for ever; one that fails changes nothing here (what tools  *)
(* do is in the modules of the site).  One action is one call of the model,*)
(* one statement on chat_messages, or one step of the executor.  What the  *)
(* brain saves is only displayed, and left out; texts and events too.      *)
(***************************************************************************)
EXTENDS Integers, Sequences, FiniteSets, SequencesExt

CONSTANTS Brains,            \* goroutines in the loop of the brain
          Chats,             \* requests that stream the one chat session
          MaxIter,           \* maxIter of the loop of the brain
          ChatMaxIter,       \* chatMaxToolIterations
          MaxContinuations,  \* maxContinuations
          MaxLLMRetries,     \* maxLLMRetries
          HistoryLimit,      \* historyLimit
          MaxCalls,          \* bound on the calls of tools, in one answer or several
          MaxTurns,          \* bound on the loops started
          MaxTroubles        \* bound on the failing statements and the deaths of the process

Loops == Brains \cup Chats
Iterations(l) == IF l \in Brains THEN MaxIter ELSE ChatMaxIter

ASSUME ToolLoopAssumption ==
    /\ Brains \cap Chats = {} /\ IsFiniteSet(Loops)
    /\ {MaxIter, ChatMaxIter, MaxContinuations, MaxLLMRetries, HistoryLimit} \subseteq Nat \ {0}
    /\ {MaxCalls, MaxTurns, MaxTroubles} \subseteq Nat

VARIABLES loops,      \* what each goroutine is doing
          rows,       \* chat_messages of the session
          tools,      \* the goroutines of the executor, by call
          effects,    \* the calls that have taken effect, in order
          session,    \* the entry of the session in the handler
          answers,    \* number of answers with calls so far
          asked,      \* number of calls in them
          turns,      \* number of loops started so far
          clean,      \* history: the streams came one at a time
          broken,     \* history: the answers of which a row was lost (0: of one without calls)
          troubles    \* number of troubles so far

vars == <<loops, rows, tools, effects, session, answers, asked, turns, clean, broken, troubles>>
bounds == <<answers, asked, turns>>
past == <<clean, broken, troubles>>

User == [role |-> "user", answer |-> 0, call |-> 0, calls |-> 0, said |-> ""]
Assistant(a, k) == [User EXCEPT !.role = "assistant", !.answer = a, !.calls = k]
Result(a, j, said) == [User EXCEPT !.role = "tool", !.answer = a, !.call = j, !.said = said]
Message == {User} \cup {Assistant(a, k) : a \in 0..MaxCalls, k \in 0..MaxCalls}
                  \cup {Result(a, j, said) : a \in 1..MaxCalls, j \in 1..MaxCalls, said \in {"ok", "failed"}}

Idle == [pc |-> "idle", msgs |-> <<>>, own |-> 0, iter |-> 0, cont |-> 0, tries |-> 0,
         answer |-> 0, calls |-> 0, call |-> 0, cancelled |-> FALSE]
NoSession == [there |-> FALSE, inUse |-> 0]

\* The variables have their types, and a loop that asks keeps to its bounds.
TypeOK ==
    /\ \A l \in Loops :
          /\ loops[l].pc \in {"idle", "entered", "send", "load", "llm", "save", "call", "wait", "result", "leave"}
          /\ loops[l].msgs \in Seq(Message)
          /\ loops[l].pc = "llm" => /\ loops[l].iter < Iterations(l)
                                    /\ loops[l].tries < MaxLLMRetries
                                    /\ loops[l].cont < MaxContinuations
          /\ loops[l].pc \in {"call", "wait", "result"} => loops[l].call \in 1..loops[l].calls
    /\ rows \in Seq(Message)
    /\ \A id \in DOMAIN tools : tools[id].at \in {"running", "ok", "failed"}
    /\ ToSet(effects) \subseteq DOMAIN tools
    /\ session.inUse \in 0..Cardinality(Chats)
    /\ answers \in 0..asked /\ asked \in 0..MaxCalls /\ turns \in 0..MaxTurns
    /\ broken \subseteq 0..answers /\ troubles \in 0..MaxTroubles

Init ==
    /\ loops = [l \in Loops |-> Idle]
    /\ rows = <<>> /\ tools = <<>> /\ effects = <<>>
    /\ session = NoSession
    /\ answers = 0 /\ asked = 0 /\ turns = 0
    /\ clean = TRUE /\ broken = {} /\ troubles = 0

Goto(l, pc) == loops' = [loops EXCEPT ![l].pc = pc]

\* A loop of the brain returns; a stream of the chat has its entry to release.
Ended(l) == IF l \in Brains THEN Idle ELSE [Idle EXCEPT !.pc = "leave"]
End(l) == loops' = [loops EXCEPT ![l] = Ended(l)]

\* A statement that fails, or the death of the process.
Trouble == troubles < MaxTroubles /\ troubles' = troubles + 1
Fine == UNCHANGED <<broken, troubles>>
\* A row of answer a is not written.
Lost(a) == Trouble /\ broken' = broken \cup {a}

-----------------------------------------------------------------------------
(* A turn begins *)

\* A stage, a tick, a task or a chat wake.
StartBrain(b) ==
    /\ b \in Brains /\ loops[b].pc = "idle" /\ turns < MaxTurns
    /\ turns' = turns + 1
    /\ loops' = [loops EXCEPT ![b] = [Idle EXCEPT !.pc = "llm", !.msgs = <<User>>]]
    /\ UNCHANGED <<rows, tools, effects, session, answers, asked, past>>

\* getOrCreateSession, under the lock of the handler.
HandleStream(c) ==
    /\ c \in Chats /\ loops[c].pc = "idle" /\ turns < MaxTurns
    /\ turns' = turns + 1
    /\ session' = [session EXCEPT !.there = TRUE]
    /\ Goto(c, "entered")
    /\ clean' = (clean /\ \A o \in Chats : loops[o].pc = "idle")
    /\ UNCHANGED <<rows, tools, effects, answers, asked, broken, troubles>>

\* inUse is counted after the lock is released.
MarkInUse(c) ==
    /\ loops[c].pc = "entered"
    /\ session' = [session EXCEPT !.inUse = @ + 1]
    /\ Goto(c, "send")
    /\ UNCHANGED <<rows, tools, effects, bounds, past>>

\* A request whose message is not saved gets an error.
SaveUserMessage(c) ==
    /\ loops[c].pc = "send"
    /\ \/ rows' = Append(rows, User) /\ Goto(c, "load") /\ Fine
       \/ Trouble /\ End(c) /\ UNCHANGED <<rows, broken>>
    /\ UNCHANGED <<tools, effects, session, bounds, clean>>

\* LoadHistory reads the newest rows, oldest first.  Then the provider is found.
LoadHistory(c) ==
    /\ loops[c].pc = "load"
    /\ LET from == IF Len(rows) > HistoryLimit THEN Len(rows) - HistoryLimit ELSE 0
           history == SubSeq(rows, from + 1, Len(rows))
       IN  loops' = [loops EXCEPT ![c].msgs = history, ![c].own = Len(history), ![c].pc = "llm"]
    /\ UNCHANGED <<rows, tools, effects, session, bounds, past>>

\* Or the history cannot be read, or there is no provider.
NoProvider(c) ==
    /\ loops[c].pc = "load"
    /\ End(c)
    /\ UNCHANGED <<rows, tools, effects, session, bounds, past>>

\* The request is over, with done or with an error for the client.
Leave(c) ==
    /\ loops[c].pc = "leave"
    /\ session' = [session EXCEPT !.inUse = @ - 1]
    /\ loops' = [loops EXCEPT ![c] = Idle]
    /\ UNCHANGED <<rows, tools, effects, bounds, past>>

\* Two hours may pass at any time, but no request spends them between the lock and
\* the count.
Unasked == \A c \in Chats : loops[c].pc # "entered"

\* Mutant: the cleanup looks at the time of the last request only.
CleanupIdle ==
    /\ session.there /\ Unasked
    /\ session' = [session EXCEPT !.there = FALSE]
    /\ UNCHANGED <<loops, rows, tools, effects, bounds, past>>

\* cleanupLoop removes a session nobody uses and nobody asked for in two hours.
Cleanup ==
    /\ session.there /\ Unasked /\ session.inUse = 0
    /\ session' = NoSession
    /\ UNCHANGED <<loops, rows, tools, effects, bounds, past>>

-----------------------------------------------------------------------------
(* The model answers *)

\* The next iteration, with the messages so far.
NextIteration(l, r) ==
    IF r.iter + 1 < Iterations(l) THEN [r EXCEPT !.iter = @ + 1, !.tries = 0, !.pc = "llm"]
    ELSE Ended(l)

\* The answer calls k tools.
AnswerCalls(l, k) ==
    /\ loops[l].pc = "llm" /\ ~loops[l].cancelled /\ asked + k <= MaxCalls
    /\ answers' = answers + 1 /\ asked' = asked + k
    /\ loops' = [loops EXCEPT ![l].msgs = Append(@, Assistant(answers + 1, k)), ![l].answer = answers + 1,
                              ![l].calls = k, ![l].call = 1,
                              ![l].pc = IF l \in Brains THEN "call" ELSE "save"]
    /\ UNCHANGED <<rows, tools, effects, session, turns, past>>

LastSaid(r) == [r EXCEPT !.msgs = Append(@, Assistant(0, 0)), !.calls = 0, !.pc = "save"]
CutOff(r) == [r EXCEPT !.cont = @ + 1, !.msgs = @ \o <<Assistant(0, 0), User>>]
Retried(r) == [r EXCEPT !.tries = @ + 1]

\* The answer calls none: it is the last one.
AnswerEnds(l) ==
    /\ loops[l].pc = "llm" /\ ~loops[l].cancelled
    /\ loops' = [loops EXCEPT ![l] = IF l \in Brains THEN Idle ELSE LastSaid(loops[l])]
    /\ UNCHANGED <<rows, tools, effects, session, bounds, past>>

\* The answer of the brain's model was cut off at max_tokens: it is asked to go on,
\* the last time it gives up.
AnswerCutOff(b) ==
    /\ b \in Brains /\ loops[b].pc = "llm" /\ ~loops[b].cancelled
    /\ loops' = [loops EXCEPT ![b] =
          IF @.cont + 1 >= MaxContinuations THEN Idle ELSE NextIteration(b, CutOff(loops[b]))]
    /\ UNCHANGED <<rows, tools, effects, session, bounds, past>>

\* callWithRetry tries again after a timeout, a rate limit or an API error, unless
\* the context ended; it gives up at once if the provider cannot be reached.
CallFails(b, transient) ==
    /\ b \in Brains /\ loops[b].pc = "llm"
    /\ loops' = [loops EXCEPT ![b] =
          IF transient /\ ~@.cancelled /\ @.tries + 1 < MaxLLMRetries THEN Retried(loops[b]) ELSE Idle]
    /\ UNCHANGED <<rows, tools, effects, session, bounds, past>>

\* A stream that fails ends the turn of the chat; what was said is not saved.
StreamFails(c) ==
    /\ c \in Chats /\ loops[c].pc = "llm"
    /\ End(c)
    /\ UNCHANGED <<rows, tools, effects, session, bounds, past>>

\* A message that cannot be saved is logged, and the stream goes on without its row.
Save(c) ==
    \/ rows' = Append(rows, Last(loops[c].msgs)) /\ Fine
    \/ Lost(loops[c].answer) /\ UNCHANGED rows

SaveAssistant(c) ==
    /\ loops[c].pc = "save"
    /\ Save(c)
    /\ IF loops[c].calls = 0 THEN End(c) ELSE Goto(c, "call")
    /\ UNCHANGED <<tools, effects, session, bounds, clean>>

-----------------------------------------------------------------------------
(* Tools *)

Id(l) == <<loops[l].answer, loops[l].call>>

\* The call has its result: on to the next one, or to the next iteration.
AfterCall(l, r) ==
    IF r.call < r.calls THEN [r EXCEPT !.call = @ + 1, !.pc = "call"]
    ELSE NextIteration(l, [r EXCEPT !.answer = 0, !.calls = 0, !.call = 0])

Answered(r, said) == [r EXCEPT !.msgs = Append(@, Result(r.answer, r.call, said))]

\* Mutant: an unknown tool is logged and skipped.
RefuseCallSilently(l) ==
    /\ loops[l].pc = "call"
    /\ loops' = [loops EXCEPT ![l] = IF l \in Brains THEN AfterCall(l, @)
                                     ELSE [Answered(@, "failed") EXCEPT !.pc = "result"]]
    /\ UNCHANGED <<rows, tools, effects, session, bounds, past>>

\* A tool that is not known, or, for the brain, arguments that are no JSON.
RefuseCall(l) ==
    /\ loops[l].pc = "call"
    /\ loops' = [loops EXCEPT ![l] = IF l \in Brains THEN AfterCall(l, Answered(@, "failed"))
                                     ELSE [Answered(@, "failed") EXCEPT !.pc = "result"]]
    /\ UNCHANGED <<rows, tools, effects, session, bounds, past>>

\* Execute starts a goroutine and waits for it or for its context, which ends
\* after toolTimeout for the brain and with the request for the chat.  The
\* arguments of a chat that are no JSON are taken as none.
Execute(l) ==
    /\ loops[l].pc = "call"
    /\ tools' = [id \in DOMAIN tools \cup {Id(l)} |->
                    IF id = Id(l) THEN [at |-> "running", by |-> l, waited |-> TRUE] ELSE tools[id]]
    /\ Goto(l, "wait")
    /\ UNCHANGED <<rows, effects, session, bounds, past>>

\* The tool returns, in time or not; its result goes to a channel with room for it.
ToolReturns(id, ok) ==
    /\ tools[id].at = "running"
    /\ tools' = [tools EXCEPT ![id].at = IF ok THEN "ok" ELSE "failed"]
    /\ effects' = IF ok THEN Append(effects, id) ELSE effects
    /\ UNCHANGED <<loops, rows, session, bounds, past>>

GotResult(l, said) ==
    loops' = [loops EXCEPT ![l] = IF l \in Brains THEN AfterCall(l, Answered(@, said))
                                  ELSE [Answered(@, said) EXCEPT !.pc = "result"]]

\* Mutant: Execute does not wait for the goroutine.
TakeResultEarly(l) ==
    /\ loops[l].pc = "wait"
    /\ GotResult(l, IF tools[Id(l)].at = "failed" THEN "failed" ELSE "ok")
    /\ UNCHANGED <<rows, tools, effects, session, bounds, past>>

TakeResult(l) ==
    /\ loops[l].pc = "wait" /\ tools[Id(l)].at \in {"ok", "failed"}
    /\ GotResult(l, tools[Id(l)].at)
    /\ UNCHANGED <<rows, tools, effects, session, bounds, past>>

\* Mutant: the brain runs its tools in the context of the worker.
TimeOutCancelled(l) ==
    /\ loops[l].pc = "wait" /\ loops[l].cancelled
    /\ GotResult(l, "failed")
    /\ tools' = [tools EXCEPT ![Id(l)].waited = FALSE]
    /\ UNCHANGED <<rows, effects, session, bounds, past>>

\* The context ends first.  The model is told that the call failed, and the
\* goroutine goes on.
TimeOut(l) ==
    /\ loops[l].pc = "wait" /\ (l \in Brains \/ loops[l].cancelled)
    /\ GotResult(l, "failed")
    /\ tools' = [tools EXCEPT ![Id(l)].waited = FALSE]
    /\ UNCHANGED <<rows, effects, session, bounds, past>>

SaveResult(c) ==
    /\ loops[c].pc = "result"
    /\ Save(c)
    /\ loops' = [loops EXCEPT ![c] = AfterCall(c, @)]
    /\ UNCHANGED <<tools, effects, session, bounds, clean>>

-----------------------------------------------------------------------------
(* The end of a context, and of the process *)

\* The client disconnects, or the worker is stopped.
Cancel(l) ==
    /\ loops[l].pc \notin {"idle", "leave"} /\ ~loops[l].cancelled
    /\ loops' = [loops EXCEPT ![l].cancelled = TRUE]
    /\ UNCHANGED <<rows, tools, effects, session, bounds, past>>

\* The streams with rows of calls to come: the rows of their answers stay as they are.
MidAnswer == {c \in Chats : loops[c].pc \in {"call", "wait", "result"}}

\* The process dies with the tools it runs, and is started again: rows, and what tools
\* did, are on disk.
Crash ==
    /\ Trouble
    /\ loops' = [l \in Loops |-> Idle]
    /\ tools' = [id \in DOMAIN tools |-> [tools[id] EXCEPT !.at = IF @ = "running" THEN "failed" ELSE @]]
    /\ session' = NoSession
    /\ broken' = broken \cup {loops[c].answer : c \in MidAnswer}
    /\ UNCHANGED <<rows, effects, bounds, clean>>

LoopStep(l) ==
    \/ MarkInUse(l) \/ SaveUserMessage(l) \/ LoadHistory(l) \/ NoProvider(l) \/ Leave(l)
    \/ \E k \in 1..MaxCalls : AnswerCalls(l, k)
    \/ AnswerEnds(l) \/ AnswerCutOff(l) \/ StreamFails(l) \/ SaveAssistant(l)
    \/ \E transient \in BOOLEAN : CallFails(l, transient)
    \/ RefuseCall(l) \/ Execute(l) \/ TakeResult(l) \/ TimeOut(l) \/ SaveResult(l)

Next ==
    \/ \E l \in Loops : StartBrain(l) \/ HandleStream(l) \/ LoopStep(l) \/ Cancel(l)
    \/ \E id \in DOMAIN tools, ok \in BOOLEAN : ToolReturns(id, ok)
    \/ Cleanup \/ Crash

Spec == Init /\ [][Next]_vars

\* A goroutine that can take its next step takes it: the calls of the model and of
\* tools have timeouts, for a chat the end of its request.  Nothing makes a tool return.
Fairness == \A l \in Loops : WF_vars(LoopStep(l))

FairSpec == Spec /\ Fairness

-----------------------------------------------------------------------------
(* Properties *)

\* Every call is followed by its result, in order, and every result has its call, but
\* for those of some answers.
WellFormed(msgs, except) ==
    \A i \in DOMAIN msgs : msgs[i].answer \notin except =>
        /\ \A j \in 1..msgs[i].calls :
              /\ i + j \in DOMAIN msgs
              /\ msgs[i + j].role = "tool" /\ msgs[i + j].answer = msgs[i].answer /\ msgs[i + j].call = j
        /\ msgs[i].role = "tool" =>
              LET at == i - msgs[i].call
              IN  at \in DOMAIN msgs /\ msgs[at].answer = msgs[i].answer /\ msgs[at].calls >= msgs[i].call

\* What a loop asks the model is a conversation the model's provider accepts: each
\* call of this turn has its result, after refused calls, timeouts and cancelled
\* contexts too; and so has each call of the history of a chat, if its streams came
\* one at a time and the limit cuts nothing off, except those of just the answers of
\* which a failing save or the death of the process lost a row
\* (pipeline.go executeToolCalls, session.go streamWithTools).
AskedWellFormed ==
    \A l \in Loops : loops[l].pc = "llm" =>
        /\ WellFormed(SubSeq(loops[l].msgs, loops[l].own + 1, Len(loops[l].msgs)), {})
        /\ l \in Chats /\ clean /\ Len(rows) <= HistoryLimit => WellFormed(loops[l].msgs, broken)

\* The model is told of a success only when the call has taken effect, whoever
\* else is running tools and whatever timed out (executor.go Execute).
SuccessIsTrue ==
    \A l \in Loops : \A i \in DOMAIN loops[l].msgs :
        LET msg == loops[l].msgs[i]
        IN  msg.said = "ok" => <<msg.answer, msg.call>> \in ToSet(effects)

\* The calls of one loop take effect in the order in which the model made them,
\* except one that timed out, which may come at any later time (executor.go Execute).
EffectsInOrder ==
    \A m, n \in DOMAIN effects :
        LET a == effects[m]
            b == effects[n]
            earlier == a[1] < b[1] \/ (a[1] = b[1] /\ a[2] < b[2])
        IN  tools[a].by = tools[b].by /\ tools[a].waited /\ earlier => m < n

\* The session of a stream stays in the handler for as long as the stream runs, over
\* the two hours after which the cleanup takes a session, and the count is that of the
\* streams (handler.go HandleStream, cleanupLoop).
SessionKept ==
    LET using == {c \in Chats : loops[c].pc \notin {"idle", "entered"}}
    IN  /\ session.inUse = Cardinality(using)
        /\ using # {} => session.there

\* A loop of the brain ends even if a tool never returns, and a stream of the chat
\* ends once its client has gone: no loop is started any more after MaxTurns, and from
\* then on at most chats whose clients are connected stay
\* (pipeline.go executeToolCalls, executor.go Execute).
LoopsEnd ==
    <>[](\A l \in Loops : loops[l].pc = "idle" \/ (l \in Chats /\ ~loops[l].cancelled))

\* What the model is told of its calls is what they did, in the order it made them,
\* and the loops keep to their bounds on iterations, retries and continuations.
LoopInv == TypeOK /\ SuccessIsTrue /\ EffectsInOrder
================================================================================
