---------------------------- MODULE ToolLoop_proofs ----------------------------
(***************************************************************************)
(* For any number of loops, calls and turns, and any limits: what the      *)
(* model is told of its calls is what they did, in the order it made them, *)
(* what it is asked is a conversation of calls and their results, and the  *)
(* session of a stream stays while the stream runs.                        *)
(***************************************************************************)
EXTENDS ToolLoop, FiniteSetTheorems, SequenceTheorems, TLAPS

LoopRec ==
    [pc : {"idle", "entered", "send", "load", "llm", "save", "call", "wait", "result", "leave"},
     msgs : Seq(Message), own : Nat, iter : Nat, cont : Nat, tries : Nat,
     answer : Nat, calls : Nat, call : Nat, cancelled : BOOLEAN]
ToolRec == [at : {"running", "ok", "failed"}, by : Loops, waited : BOOLEAN]

\* What a loop holds is right for the step it is at, when n answers were given.
LoopOK(l, r, n) ==
    /\ r \in LoopRec
    /\ r.iter < Iterations(l) /\ r.tries < MaxLLMRetries /\ r.cont < MaxContinuations
    /\ l \in Brains => r.pc \in {"idle", "llm", "call", "wait"}
    /\ r.pc \in {"idle", "entered", "send", "load", "llm", "leave"} => r.answer = 0 /\ r.calls = 0
    /\ r.pc = "save" => (r.answer = 0 /\ r.calls = 0) \/ (r.answer > 0 /\ r.calls > 0 /\ r.call = 1)
    /\ r.pc \in {"call", "wait", "result"} => r.answer > 0 /\ r.call \in 1..r.calls
    /\ r.pc \in {"save", "result"} => r.msgs # <<>>
    /\ r.answer <= n /\ r.calls <= MaxCalls

Types ==
    /\ DOMAIN loops = Loops /\ loops = [l \in Loops |-> loops[l]]
    /\ \A l \in Loops : LoopOK(l, loops[l], answers)
    /\ rows \in Seq(Message)
    /\ DOMAIN tools \subseteq Nat \X Nat /\ \A id \in DOMAIN tools : tools[id] \in ToolRec
    /\ effects \in Seq(Nat \X Nat) /\ ToSet(effects) \subseteq DOMAIN tools
    /\ answers \in 0..asked /\ asked \in 0..MaxCalls /\ turns \in 0..MaxTurns

\* The session of a stream, from the moment the handler has looked it up.
Streaming == {c \in Chats : loops[c].pc \notin {"idle", "entered"}}
SessionIInv ==
    /\ session \in [there : BOOLEAN, inUse : Nat]
    /\ session.inUse = Cardinality(Streaming)
    /\ Streaming # {} => session.there
    /\ \A c \in Chats : loops[c].pc = "entered" => session.there

Before(a, b) == a[1] < b[1] \/ (a[1] = b[1] /\ a[2] < b[2])

\* An answer is of one loop.
AnswersApart ==
    /\ \A l, m \in Loops : loops[l].answer > 0 /\ loops[l].answer = loops[m].answer => l = m
    /\ \A id \in DOMAIN tools : id[1] <= answers
    /\ \A id \in DOMAIN tools, l \in Loops : loops[l].answer > 0 /\ loops[l].answer = id[1] => tools[id].by = l

\* The calls a loop has executed come before the one it is at, and one that runs and
\* is waited for is the one its loop is at.
InTurn(l, r, ts) ==
    /\ \A id \in DOMAIN ts : ts[id].by = l =>
          /\ r.pc \in {"save", "call"} /\ r.answer > 0 => Before(id, <<r.answer, r.call>>)
          /\ r.pc \in {"wait", "result"} => id = <<r.answer, r.call>> \/ Before(id, <<r.answer, r.call>>)
          /\ ts[id].at = "running" /\ ts[id].waited => r.pc = "wait" /\ id = <<r.answer, r.call>>
    /\ r.pc = "wait" => <<r.answer, r.call>> \in DOMAIN ts /\ ts[<<r.answer, r.call>>].by = l
CallsInTurn ==
    /\ \A l \in Loops : InTurn(l, loops[l], tools)
    /\ \A id \in DOMAIN tools : tools[id].at = "ok" => id \in ToSet(effects)

\* What is said of a call is true, in the rows that later turns read too.
TrueOf(msgs, effs) ==
    \A i \in DOMAIN msgs : msgs[i].said = "ok" => <<msgs[i].answer, msgs[i].call>> \in ToSet(effs)
AllTrue == TrueOf(rows, effects) /\ \A l \in Loops : TrueOf(loops[l].msgs, effects)

LoopIInv == Types /\ SessionIInv /\ AnswersApart /\ CallsInTurn /\ AllTrue /\ EffectsInOrder

\* What was lost, and how often.
PastOK == broken \subseteq 0..answers /\ troubles \in 0..MaxTroubles

--------------------------------------------------------------------------------
(* Facts about the operators of the model *)

\* The messages are what they are made from.
LEMMA UserMessage == User \in Message /\ User.said = "" /\ User.role = "user" /\ User.calls = 0
  BY DEF Message, User

LEMMA AssistantMessage ==
  ASSUME NEW a \in 0..MaxCalls, NEW k \in 0..MaxCalls
  PROVE  /\ Assistant(a, k) \in Message
         /\ Assistant(a, k).said = "" /\ Assistant(a, k).role = "assistant"
         /\ Assistant(a, k).answer = a /\ Assistant(a, k).calls = k
<1>1. Assistant(a, k) \in Message
  BY DEF Message
<1> QED
  BY <1>1 DEF Assistant, User

LEMMA AssistantSaysNothing ==
  \A a \in 0..MaxCalls, k \in 0..MaxCalls : Assistant(a, k) \in Message /\ Assistant(a, k).said = ""
<1> TAKE a \in 0..MaxCalls, k \in 0..MaxCalls
<1>1. Assistant(a, k) \in Message
  BY DEF Message
<1> QED
  BY <1>1 DEF Assistant, User

LEMMA ResultMessage ==
  ASSUME NEW a \in 1..MaxCalls, NEW j \in 1..MaxCalls, NEW said \in {"ok", "failed"}
  PROVE  /\ Result(a, j, said) \in Message
         /\ Result(a, j, said).said = said /\ Result(a, j, said).role = "tool"
         /\ Result(a, j, said).answer = a /\ Result(a, j, said).call = j
         /\ Result(a, j, said).calls = 0
<1>1. Result(a, j, said) \in Message
  BY DEF Message
<1> QED
  BY <1>1 DEF Result, User

LEMMA OneMessage ==
  ASSUME NEW m \in Message
  PROVE  <<m>> \in Seq(Message) /\ DOMAIN <<m>> = {1} /\ <<m>>[1] = m
  OBVIOUS

LEMMA TwoMore ==
  ASSUME NEW msgs \in Seq(Message), NEW a \in Message, NEW b \in Message
  PROVE  msgs \o <<a, b>> = Append(Append(msgs, a), b)
<1> DEFINE s == msgs \o <<a, b>>
           u == Append(Append(msgs, a), b)
<1>1. /\ s \in Seq(Message) /\ Len(s) = Len(msgs) + 2
      /\ \A i \in 1..Len(msgs) : s[i] = msgs[i]
      /\ s[Len(msgs) + 1] = a /\ s[Len(msgs) + 2] = b
  OBVIOUS
<1>2. /\ u \in Seq(Message) /\ Len(u) = Len(msgs) + 2
      /\ \A i \in 1..Len(msgs) : u[i] = msgs[i]
      /\ u[Len(msgs) + 1] = a /\ u[Len(msgs) + 2] = b
  OBVIOUS
<1> HIDE DEF s, u
<1>3. \A i \in 1..(Len(msgs) + 2) : i \in 1..Len(msgs) \/ i = Len(msgs) + 1 \/ i = Len(msgs) + 2
  OBVIOUS
<1>4. \A i \in 1..Len(s) : s[i] = u[i]
  BY <1>1, <1>2, <1>3
<1>5. s = u
  BY <1>1, <1>2, <1>4, SeqEqual
<1> QED
  BY <1>5 DEF s, u

\* What the loop of the brain starts with.
LEMMA BrainStart ==
  LET r == [Idle EXCEPT !.pc = "llm", !.msgs = <<User>>]
  IN  /\ r \in LoopRec /\ r.pc = "llm" /\ r.msgs = <<User>> /\ r.iter = 0 /\ r.cont = 0 /\ r.tries = 0
      /\ r.answer = 0 /\ r.calls = 0 /\ r.own = 0
<1>1. Idle \in LoopRec /\ Idle.iter = 0 /\ Idle.cont = 0 /\ Idle.tries = 0 /\ Idle.answer = 0 /\ Idle.calls = 0
      /\ Idle.own = 0
  BY DEF Idle, LoopRec
<1>2. <<User>> \in Seq(Message)
  BY UserMessage, OneMessage
<1> QED
  BY <1>1, <1>2 DEF LoopRec

\* A conversation that goes on with a true message is a true one.
LEMMA AppendTrue ==
  ASSUME NEW effs, NEW msgs \in Seq(Message), TrueOf(msgs, effs), NEW msg \in Message,
         msg.said = "ok" => <<msg.answer, msg.call>> \in ToSet(effs)
  PROVE  Append(msgs, msg) \in Seq(Message) /\ Append(msgs, msg) # <<>> /\ TrueOf(Append(msgs, msg), effs)
<1>1. /\ Append(msgs, msg) \in Seq(Message) /\ Len(Append(msgs, msg)) = Len(msgs) + 1
      /\ DOMAIN Append(msgs, msg) = 1..(Len(msgs) + 1) /\ DOMAIN msgs = 1..Len(msgs) /\ Len(msgs) \in Nat
      /\ \A i \in 1..Len(msgs) : Append(msgs, msg)[i] = msgs[i]
      /\ Append(msgs, msg)[Len(msgs) + 1] = msg
  OBVIOUS
<1>2. \A i \in 1..(Len(msgs) + 1) : i \in 1..Len(msgs) \/ i = Len(msgs) + 1
  BY <1>1
<1>3. TrueOf(Append(msgs, msg), effs)
  BY <1>1, <1>2 DEF TrueOf
<1>4. Append(msgs, msg) # <<>>
  BY <1>1
<1> QED
  BY <1>1, <1>3, <1>4

\* A loop that has nothing of an answer is right where it is.
LEMMA IdleOK ==
  ASSUME NEW l \in Loops, NEW n \in Nat
  PROVE  /\ LoopOK(l, Idle, n) /\ LoopOK(l, Ended(l), n)
         /\ Idle.msgs = <<>> /\ Ended(l).msgs = <<>> /\ Idle.answer = 0 /\ Ended(l).answer = 0
         /\ Idle.pc = "idle" /\ Ended(l).pc = (IF l \in Brains THEN "idle" ELSE "leave")
<1>1. Iterations(l) \in Nat \ {0} /\ MaxLLMRetries \in Nat \ {0} /\ MaxContinuations \in Nat \ {0} /\ MaxCalls \in Nat
  BY ToolLoopAssumption DEF Iterations
<1>2. Idle \in LoopRec /\ Idle.msgs = <<>> /\ Idle.answer = 0 /\ Idle.pc = "idle"
  BY DEF Idle, LoopRec
<1>3. LoopOK(l, Idle, n)
  BY <1>1, <1>2 DEF LoopOK, Idle
<1>4. CASE l \in Brains
  BY <1>2, <1>3, <1>4 DEF Ended
<1>5. CASE l \notin Brains
  <2>1. Ended(l) = [pc |-> "leave", msgs |-> <<>>, own |-> 0, iter |-> 0, cont |-> 0, tries |-> 0,
                    answer |-> 0, calls |-> 0, call |-> 0, cancelled |-> FALSE]
    BY <1>5 DEF Ended, Idle
  <2>2. Ended(l) \in LoopRec
    BY <2>1 DEF LoopRec
  <2> QED
    BY <1>1, <1>2, <1>3, <1>5, <2>1, <2>2 DEF LoopOK
<1> QED
  BY <1>2, <1>3, <1>4, <1>5

\* So it is after an iteration, with the messages it had or none.
LEMMA NextIterationOK ==
  ASSUME NEW l \in Loops, NEW n \in Nat, NEW r \in LoopRec, r.answer = 0, r.calls = 0,
         r.iter < Iterations(l), r.cont < MaxContinuations
  PROVE  LET s == NextIteration(l, r)
         IN  /\ LoopOK(l, s, n) /\ s.answer = 0 /\ s.pc \in {"idle", "leave", "llm"}
             /\ l \in Chats => s.pc \in {"leave", "llm"}
             /\ s.msgs \in {r.msgs, <<>>}
             /\ s.pc = "llm" => s.msgs = r.msgs /\ s.own = r.own
<1>1. Iterations(l) \in Nat \ {0} /\ MaxLLMRetries \in Nat \ {0} /\ MaxCalls \in Nat /\ (l \in Chats => l \notin Brains)
  BY ToolLoopAssumption DEF Iterations
<1>2. CASE r.iter + 1 < Iterations(l)
  <2> DEFINE s == [r EXCEPT !.iter = r.iter + 1, !.tries = 0, !.pc = "llm"]
  <2>1. NextIteration(l, r) = s
    BY <1>2 DEF NextIteration
  <2>2. /\ s.iter = r.iter + 1 /\ s.tries = 0 /\ s.pc = "llm" /\ s.cont = r.cont
        /\ s.answer = 0 /\ s.calls = 0 /\ s.msgs = r.msgs /\ s.own = r.own
    BY DEF LoopRec
  <2>4. s \in LoopRec
    <3>1. r.iter + 1 \in Nat
      BY DEF LoopRec
    <3> QED
      BY <3>1 DEF LoopRec
  <2> HIDE DEF s
  <2>3. LoopOK(l, s, n)
    BY <1>1, <1>2, <2>2, <2>4 DEF LoopOK
  <2> QED
    BY <2>1, <2>2, <2>3
<1>3. CASE ~(r.iter + 1 < Iterations(l))
  BY <1>1, <1>3, IdleOK DEF NextIteration
<1> QED
  BY <1>2, <1>3

--------------------------------------------------------------------------------
(* A step of one loop *)

\* What a loop l that becomes r keeps of the invariant, with the tools ts that it leaves.
MovesTo(l, r, ts) ==
    /\ loops' = [loops EXCEPT ![l] = r]
    /\ LoopOK(l, r, answers') /\ InTurn(l, r, ts) /\ TrueOf(r.msgs, effects)
    /\ r.answer \in {0, loops[l].answer} \/ r.answer > answers

\* The tools as they are, but for some that are not waited for any more.
LessWaited ==
    /\ DOMAIN tools' = DOMAIN tools
    /\ \A id \in DOMAIN tools : /\ tools'[id] \in ToolRec
                                /\ tools'[id].by = tools[id].by /\ tools'[id].at = tools[id].at
                                /\ tools'[id].waited => tools[id].waited

LEMMA LoopMoves ==
  ASSUME LoopIInv, NEW l \in Loops, NEW r, MovesTo(l, r, tools'), LessWaited, effects' = effects,
         answers' \in 0..asked', answers' >= answers, asked' \in 0..MaxCalls, turns' \in 0..MaxTurns,
         rows' \in Seq(Message), TrueOf(rows', effects)
  PROVE  Types' /\ AnswersApart' /\ CallsInTurn' /\ AllTrue' /\ EffectsInOrder'
<1>1. /\ DOMAIN loops' = Loops /\ loops'[l] = r
      /\ \A m \in Loops : m # l => loops'[m] = loops[m]
      /\ loops' = [m \in Loops |-> loops'[m]]
  BY DEF LoopIInv, Types, MovesTo
<1>2. answers \in Nat /\ answers' \in Nat /\ \A m \in Loops : loops[m] \in LoopRec /\ loops[m].answer \in Nat /\ loops[m].answer <= answers
  <2>1. asked \in Nat /\ asked' \in Nat /\ answers \in Nat /\ answers' \in Nat
    BY ToolLoopAssumption DEF LoopIInv, Types
  <2> QED
    BY <2>1 DEF LoopIInv, Types, LoopOK, LoopRec
<1>3. \A m \in Loops : LoopOK(m, loops'[m], answers')
  <2>1. ASSUME NEW m \in Loops, m # l PROVE LoopOK(m, loops[m], answers')
    <3>1. LoopOK(m, loops[m], answers) /\ loops[m].answer <= answers'
      BY <1>2 DEF LoopIInv, Types
    <3> QED
      BY <3>1 DEF LoopOK
  <2> QED
    BY <1>1, <2>1 DEF MovesTo
<1>4. Types'
  BY <1>1, <1>3 DEF LoopIInv, Types, LessWaited
<1>5. AnswersApart'
  <2>1. r \in LoopRec /\ r.answer \in Nat
    BY DEF MovesTo, LoopOK, LoopRec
  <2>2. \A id \in DOMAIN tools : id[1] <= answers /\ id[1] \in Nat
    BY DEF LoopIInv, Types, AnswersApart
  <2>3. \A id \in DOMAIN tools' : id[1] <= answers'
    BY <1>2, <2>2 DEF LessWaited
  <2>4. \A m, k \in Loops : loops'[m].answer > 0 /\ loops'[m].answer = loops'[k].answer => m = k
    BY <1>1, <1>2, <2>1 DEF LoopIInv, AnswersApart, MovesTo
  <2>5. \A id \in DOMAIN tools, m \in Loops :
           loops'[m].answer > 0 /\ loops'[m].answer = id[1] => tools'[id].by = m
    <3>1. \A id \in DOMAIN tools, m \in Loops :
             loops[m].answer > 0 /\ loops[m].answer = id[1] => tools'[id].by = m
      BY DEF LoopIInv, AnswersApart, LessWaited
    <3>2. \A id \in DOMAIN tools : r.answer > 0 /\ r.answer = id[1] => r.answer = loops[l].answer
      BY <1>2, <2>1, <2>2 DEF MovesTo
    <3> QED
      BY <1>1, <3>1, <3>2
  <2> QED
    BY <2>3, <2>4, <2>5 DEF AnswersApart, LessWaited
<1>6. CallsInTurn'
  <2>1. ASSUME NEW m \in Loops, m # l PROVE InTurn(m, loops[m], tools')
    <3>1. InTurn(m, loops[m], tools)
      BY DEF LoopIInv, CallsInTurn
    <3> QED
      BY <3>1 DEF InTurn, LessWaited
  <2> QED
    BY <1>1, <2>1 DEF LoopIInv, CallsInTurn, MovesTo, LessWaited
<1>7. AllTrue'
  BY <1>1 DEF LoopIInv, AllTrue, MovesTo
<1>8. EffectsInOrder'
  <2>1. \A m \in DOMAIN effects : effects[m] \in DOMAIN tools
    BY DEF LoopIInv, Types, ToSet
  <2> QED
    BY <2>1 DEF LoopIInv, EffectsInOrder, LessWaited
<1> QED
  BY <1>4, <1>5, <1>6, <1>7, <1>8

\* No step within a stream, and none of the brain, concerns the session.
LEMMA SessionSame ==
  ASSUME LoopIInv, NEW l \in Loops, NEW r, loops' = [loops EXCEPT ![l] = r], session' = session,
         l \in Chats => loops[l].pc \notin {"idle", "entered"} /\ r.pc \notin {"idle", "entered"}
  PROVE  SessionIInv'
<1>1. \A c \in Chats : c \in Loops /\ (c # l => loops'[c] = loops[c]) /\ (c = l => loops'[c] = r)
  BY DEF LoopIInv, Types, Loops
<1>2. Streaming' = Streaming
  BY <1>1 DEF Streaming
<1> QED
  BY <1>1, <1>2 DEF LoopIInv, SessionIInv

\* Both together, for the steps that only move a loop.
LEMMA OnlyMoves ==
  ASSUME LoopIInv, NEW l \in Loops, NEW r, MovesTo(l, r, tools),
         l \in Chats => loops[l].pc \notin {"idle", "entered"} /\ r.pc \notin {"idle", "entered"},
         rows' \in Seq(Message), TrueOf(rows', effects),
         UNCHANGED <<tools, effects, session, answers, asked>>, turns' \in 0..MaxTurns
  PROVE  LoopIInv'
<1>1. LessWaited /\ MovesTo(l, r, tools') /\ loops' = [loops EXCEPT ![l] = r]
  BY DEF LessWaited, LoopIInv, Types, MovesTo
<1>2. answers' \in 0..asked' /\ answers' >= answers /\ asked' \in 0..MaxCalls
  BY ToolLoopAssumption DEF LoopIInv, Types
<1>3. Types' /\ AnswersApart' /\ CallsInTurn' /\ AllTrue' /\ EffectsInOrder'
  BY <1>1, <1>2, LoopMoves
<1>4. SessionIInv'
  BY <1>1, SessionSame
<1> QED
  BY <1>3, <1>4 DEF LoopIInv

\* A loop that waits for no call has none that runs and is waited for, so that it may go
\* where it has no call.
LEMMA OutOfCalls ==
  ASSUME LoopIInv, NEW l \in Loops, NEW r,
         r.pc \notin {"save", "call", "wait", "result"},
         loops[l].pc # "wait" \/ tools[Id(l)].at # "running"
  PROVE  InTurn(l, r, tools)
<1>1. InTurn(l, loops[l], tools)
  BY DEF LoopIInv, CallsInTurn
<1> QED
  BY <1>1 DEF InTurn, Id

\* Where a loop is, as the lemmas above need it.
LEMMA LoopFacts ==
  ASSUME LoopIInv, NEW l \in Loops
  PROVE  /\ loops[l] \in LoopRec /\ LoopOK(l, loops[l], answers) /\ loops = [m \in Loops |-> loops[m]]
         /\ InTurn(l, loops[l], tools) /\ TrueOf(loops[l].msgs, effects) /\ loops[l].msgs \in Seq(Message)
         /\ answers \in Nat /\ answers <= MaxCalls /\ turns \in 0..MaxTurns
         /\ rows \in Seq(Message) /\ TrueOf(rows, effects)
<1>1. answers \in Nat /\ answers <= MaxCalls
  BY ToolLoopAssumption DEF LoopIInv, Types
<1> QED
  BY <1>1 DEF LoopIInv, Types, LoopOK, LoopRec, CallsInTurn, AllTrue

--------------------------------------------------------------------------------
(* The actions *)

LEMMA InitInv == Init => LoopIInv
<1> SUFFICES ASSUME Init PROVE LoopIInv
  OBVIOUS
<1>1. /\ \A l \in Loops : loops[l] = Idle
      /\ DOMAIN loops = Loops /\ loops = [l \in Loops |-> loops[l]]
      /\ rows = <<>> /\ DOMAIN tools = {} /\ effects = <<>> /\ answers = 0 /\ asked = 0 /\ turns = 0
      /\ DOMAIN effects = {} /\ DOMAIN rows = {}
  BY DEF Init
<1>2. \A l \in Loops : LoopOK(l, Idle, answers)
  BY <1>1, IdleOK
<1>3. Idle.pc = "idle" /\ Idle.answer = 0 /\ Idle.msgs = <<>>
  BY DEF Idle
<1>4. Types
  <2>1. rows \in Seq(Message) /\ effects \in Seq(Nat \X Nat) /\ ToSet(effects) = {}
    BY <1>1 DEF ToSet
  <2>2. answers \in 0..asked /\ asked \in 0..MaxCalls /\ turns \in 0..MaxTurns
    BY <1>1, ToolLoopAssumption
  <2> QED
    BY <1>1, <1>2, <2>1, <2>2 DEF Types
<1>5. SessionIInv
  <2>1. Streaming = {} /\ \A c \in Chats : loops[c].pc = "idle"
    BY <1>1, <1>3 DEF Streaming, Loops
  <2>2. Cardinality({}) = 0
    BY FS_EmptySet
  <2>3. session = [there |-> FALSE, inUse |-> 0]
    BY DEF Init, NoSession
  <2> QED
    BY <2>1, <2>2, <2>3 DEF SessionIInv
<1>6. AnswersApart /\ CallsInTurn
  BY <1>1, <1>3 DEF AnswersApart, CallsInTurn, InTurn
<1>7. AllTrue /\ EffectsInOrder
  BY <1>1, <1>3 DEF AllTrue, TrueOf, EffectsInOrder
<1> QED
  BY <1>4, <1>5, <1>6, <1>7 DEF LoopIInv

LEMMA StartBrainKeeps ==
  ASSUME LoopIInv, NEW b \in Loops, StartBrain(b)
  PROVE  LoopIInv'
<1> DEFINE r == [Idle EXCEPT !.pc = "llm", !.msgs = <<User>>]
<1>1. b \in Brains /\ b \notin Chats /\ loops[b].pc = "idle" /\ loops' = [loops EXCEPT ![b] = r]
  BY ToolLoopAssumption DEF StartBrain
<1>2. UNCHANGED <<rows, tools, effects, session, answers, asked>> /\ turns' \in 0..MaxTurns
  BY ToolLoopAssumption, LoopFacts DEF StartBrain
<1>3. LoopOK(b, r, answers') /\ r.pc = "llm" /\ r.answer = 0 /\ r.msgs = <<User>>
  <2>1. LoopOK(b, Idle, answers') /\ Idle.iter = 0 /\ Idle.cont = 0 /\ Idle.tries = 0
    BY <1>2, IdleOK, LoopFacts DEF Idle
  <2>2. /\ r \in LoopRec /\ r.pc = "llm" /\ r.msgs = <<User>> /\ r.iter = 0 /\ r.cont = 0 /\ r.tries = 0
        /\ r.answer = 0 /\ r.calls = 0
    BY BrainStart
  <2>3. answers' \in Nat /\ MaxCalls \in Nat
    BY <1>2, LoopFacts, ToolLoopAssumption
  <2> HIDE DEF r
  <2> QED
    BY <1>1, <2>1, <2>2, <2>3 DEF LoopOK
<1> HIDE DEF r
<1>4. TrueOf(r.msgs, effects)
  BY <1>3, UserMessage, OneMessage DEF TrueOf
<1>5. InTurn(b, r, tools)
  BY <1>1, <1>3, OutOfCalls
<1>6. MovesTo(b, r, tools)
  BY <1>1, <1>3, <1>4, <1>5 DEF MovesTo
<1>7. rows' \in Seq(Message) /\ TrueOf(rows', effects)
  BY <1>2, LoopFacts
<1> QED
  BY <1>1, <1>2, <1>6, <1>7, OnlyMoves

\* A step that changes where a loop is, and nothing else of it.
LEMMA GoesTo ==
  ASSUME LoopIInv, NEW l \in Loops,
         NEW pc \in {"idle", "entered", "send", "load", "llm", "save", "call", "wait", "result", "leave"},
         Goto(l, pc)
  PROVE  LET r == [loops[l] EXCEPT !.pc = pc]
         IN  /\ loops' = [loops EXCEPT ![l] = r] /\ r \in LoopRec /\ r.pc = pc
             /\ r.msgs = loops[l].msgs /\ r.answer = loops[l].answer /\ r.calls = loops[l].calls
             /\ r.call = loops[l].call /\ r.iter = loops[l].iter /\ r.tries = loops[l].tries
             /\ r.cont = loops[l].cont /\ r.own = loops[l].own /\ r.cancelled = loops[l].cancelled
  BY LoopFacts DEF Goto, LoopRec

\* The steps of a stream before it asks: entered, counted, its message saved.
LEMMA Entering ==
  ASSUME LoopIInv, NEW c \in Chats, NEW pc \in {"entered", "send", "load"}, Goto(c, pc),
         loops[c].pc \in {"idle", "entered", "send"}, UNCHANGED <<tools, effects, answers, asked>>,
         turns' \in 0..MaxTurns, rows' \in Seq(Message), TrueOf(rows', effects)
  PROVE  /\ Types' /\ AnswersApart' /\ CallsInTurn' /\ AllTrue' /\ EffectsInOrder'
         /\ loops'[c].pc = pc /\ \A d \in Chats : d # c => loops'[d] = loops[d]
<1> DEFINE r == [loops[c] EXCEPT !.pc = pc]
<1>1. c \in Loops /\ c \notin Brains
  BY ToolLoopAssumption DEF Loops
<1>2. /\ loops' = [loops EXCEPT ![c] = r] /\ r \in LoopRec /\ r.pc = pc
      /\ r.msgs = loops[c].msgs /\ r.answer = loops[c].answer /\ r.calls = loops[c].calls
      /\ r.call = loops[c].call /\ r.iter = loops[c].iter /\ r.tries = loops[c].tries
      /\ r.cont = loops[c].cont
  <2>1. pc \in {"idle", "entered", "send", "load", "llm", "save", "call", "wait", "result", "leave"}
    OBVIOUS
  <2> QED
    BY <1>1, <2>1, LoopFacts DEF Goto, LoopRec
<1> HIDE DEF r
<1>3. LoopOK(c, r, answers')
  BY <1>1, <1>2, LoopFacts DEF LoopOK
<1>4. InTurn(c, r, tools) /\ TrueOf(r.msgs, effects)
  BY <1>1, <1>2, OutOfCalls, LoopFacts
<1>5. MovesTo(c, r, tools') /\ LessWaited
  BY <1>2, <1>3, <1>4 DEF MovesTo, LessWaited, LoopIInv, Types
<1>6. answers' \in 0..asked' /\ answers' >= answers /\ asked' \in 0..MaxCalls
  BY ToolLoopAssumption DEF LoopIInv, Types
<1>7. Types' /\ AnswersApart' /\ CallsInTurn' /\ AllTrue' /\ EffectsInOrder'
  BY <1>1, <1>5, <1>6, LoopMoves
<1>8. \A d \in Chats : d \in Loops
  BY DEF Loops
<1> QED
  BY <1>1, <1>2, <1>7, <1>8, LoopFacts

LEMMA HandleStreamKeeps ==
  ASSUME LoopIInv, NEW c \in Loops, HandleStream(c)
  PROVE  LoopIInv'
<1>1. /\ c \in Chats /\ loops[c].pc = "idle" /\ Goto(c, "entered")
      /\ UNCHANGED <<rows, tools, effects, answers, asked>> /\ turns' \in 0..MaxTurns
  BY ToolLoopAssumption, LoopFacts DEF HandleStream
<1>2. /\ Types' /\ AnswersApart' /\ CallsInTurn' /\ AllTrue' /\ EffectsInOrder'
      /\ loops'[c].pc = "entered" /\ \A d \in Chats : d # c => loops'[d] = loops[d]
  BY <1>1, LoopFacts, Entering
<1>3. session' = [session EXCEPT !.there = TRUE]
  BY DEF HandleStream
<1>4. session' \in [there : BOOLEAN, inUse : Nat] /\ session'.there
      /\ session'.inUse = session.inUse
  BY <1>3 DEF LoopIInv, SessionIInv
<1>5. Streaming' = Streaming
  BY <1>1, <1>2 DEF Streaming
<1> QED
  BY <1>2, <1>4, <1>5 DEF LoopIInv, SessionIInv

\* The streams are finitely many.
LEMMA StreamsFinite ==
  IsFiniteSet(Streaming) /\ IsFiniteSet(Chats) /\ Cardinality(Streaming) \in 0..Cardinality(Chats)
<1>1. IsFiniteSet(Chats) /\ Streaming \subseteq Chats
  BY ToolLoopAssumption, FS_Subset DEF Loops, Streaming
<1> QED
  BY <1>1, FS_Subset, FS_CardinalityType

LEMMA MarkInUseKeeps ==
  ASSUME LoopIInv, NEW c \in Loops, MarkInUse(c)
  PROVE  LoopIInv'
<1>1. /\ loops[c].pc = "entered" /\ Goto(c, "send")
      /\ UNCHANGED <<rows, tools, effects, answers, asked, turns>>
  BY DEF MarkInUse, bounds
<1>2. c \in Chats
  BY <1>1, LoopFacts DEF LoopOK, Loops
<1>3. /\ Types' /\ AnswersApart' /\ CallsInTurn' /\ AllTrue' /\ EffectsInOrder'
      /\ loops'[c].pc = "send" /\ \A d \in Chats : d # c => loops'[d] = loops[d]
  BY <1>1, <1>2, LoopFacts, Entering
<1>4. session' = [session EXCEPT !.inUse = session.inUse + 1]
  BY DEF MarkInUse
<1>5. /\ session' \in [there : BOOLEAN, inUse : Nat] /\ session'.there = session.there
      /\ session'.inUse = session.inUse + 1
  BY <1>4 DEF LoopIInv, SessionIInv
<1>6. Streaming' = Streaming \cup {c} /\ c \notin Streaming
  BY <1>1, <1>2, <1>3 DEF Streaming
<1>7. Cardinality(Streaming') = Cardinality(Streaming) + 1
  BY <1>6, StreamsFinite, FS_AddElement
<1> QED
  BY <1>1, <1>2, <1>3, <1>5, <1>7 DEF LoopIInv, SessionIInv

\* A loop ends, wherever it does not wait for a tool.
LEMMA Ends ==
  ASSUME LoopIInv, NEW l \in Loops, End(l), loops[l].pc \notin {"idle", "entered", "wait"},
         rows' \in Seq(Message), TrueOf(rows', effects),
         UNCHANGED <<tools, effects, session, answers, asked, turns>>
  PROVE  LoopIInv'
<1>1. /\ LoopOK(l, Ended(l), answers') /\ Ended(l).msgs = <<>> /\ Ended(l).answer = 0
      /\ Ended(l).pc = IF l \in Brains THEN "idle" ELSE "leave"
  BY IdleOK, LoopFacts
<1>2. InTurn(l, Ended(l), tools)
  BY <1>1, OutOfCalls
<1>3. MovesTo(l, Ended(l), tools)
  BY <1>1, <1>2 DEF MovesTo, End, TrueOf
<1>4. l \in Chats => l \notin Brains
  BY ToolLoopAssumption
<1> QED
  BY <1>1, <1>3, <1>4, LoopFacts, OnlyMoves

LEMMA SaveUserMessageKeeps ==
  ASSUME LoopIInv, NEW c \in Loops, SaveUserMessage(c)
  PROVE  LoopIInv'
<1>1. /\ loops[c].pc = "send" /\ UNCHANGED <<tools, effects, session, answers, asked, turns>>
      /\ (Goto(c, "load") /\ rows' = Append(rows, User)) \/ (End(c) /\ UNCHANGED rows)
  BY DEF SaveUserMessage, bounds
<1>2. c \in Chats
  BY <1>1, LoopFacts DEF LoopOK, Loops
<1>3. CASE End(c) /\ UNCHANGED rows
  BY <1>1, <1>3, LoopFacts, Ends
<1>4. CASE Goto(c, "load") /\ rows' = Append(rows, User)
  <2>1. rows' \in Seq(Message) /\ TrueOf(rows', effects)
    BY <1>4, UserMessage, LoopFacts, AppendTrue
  <2>2. /\ Types' /\ AnswersApart' /\ CallsInTurn' /\ AllTrue' /\ EffectsInOrder'
        /\ loops'[c].pc = "load" /\ \A d \in Chats : d # c => loops'[d] = loops[d]
    BY <1>1, <1>2, <1>4, <2>1, LoopFacts, Entering
  <2>3. Streaming' = Streaming
    BY <1>1, <1>2, <2>2 DEF Streaming
  <2> QED
    BY <1>1, <1>2, <2>2, <2>3 DEF LoopIInv, SessionIInv
<1> QED
  BY <1>1, <1>3, <1>4

LEMMA LoadHistoryKeeps ==
  ASSUME LoopIInv, NEW c \in Loops, LoadHistory(c)
  PROVE  LoopIInv'
<1> DEFINE from == IF Len(rows) > HistoryLimit THEN Len(rows) - HistoryLimit ELSE 0
           history == SubSeq(rows, from + 1, Len(rows))
           r == [loops[c] EXCEPT !.msgs = history, !.own = Len(history), !.pc = "llm"]
<1>1. loops[c].pc = "load" /\ UNCHANGED <<rows, tools, effects, session, answers, asked, turns>>
  BY DEF LoadHistory, bounds
<1>2. loops' = [loops EXCEPT ![c] = r] /\ loops[c] \in LoopRec
  BY LoopFacts DEF LoadHistory, LoopRec
<1>3. from \in 0..Len(rows) /\ Len(rows) \in Nat /\ rows \in Seq(Message)
  BY LoopFacts, ToolLoopAssumption
<1> HIDE DEF from
<1>4. /\ history \in Seq(Message) /\ Len(history) \in Nat /\ DOMAIN history = 1..Len(history)
      /\ \A i \in 1..Len(history) : from + i \in DOMAIN rows /\ history[i] = rows[from + i]
  BY <1>3
<1> HIDE DEF history
<1>5. TrueOf(history, effects)
  BY <1>4, LoopFacts DEF TrueOf
<1>6. /\ r \in LoopRec /\ r.msgs = history /\ r.pc = "llm" /\ r.answer = loops[c].answer
      /\ r.calls = loops[c].calls /\ r.iter = loops[c].iter /\ r.tries = loops[c].tries
      /\ r.cont = loops[c].cont
  BY <1>2, <1>4 DEF LoopRec
<1> HIDE DEF r
<1>7. c \in Chats /\ LoopOK(c, r, answers')
  BY <1>1, <1>6, LoopFacts DEF LoopOK, Loops
<1>8. InTurn(c, r, tools)
  BY <1>1, <1>6, OutOfCalls
<1>9. MovesTo(c, r, tools)
  BY <1>2, <1>5, <1>6, <1>7, <1>8 DEF MovesTo
<1> QED
  BY <1>1, <1>6, <1>9, LoopFacts, OnlyMoves

LEMMA EndingKeeps ==
  ASSUME LoopIInv, NEW l \in Loops, NoProvider(l) \/ StreamFails(l)
  PROVE  LoopIInv'
<1>1. /\ loops[l].pc \in {"load", "llm"} /\ End(l)
      /\ UNCHANGED <<rows, tools, effects, session, answers, asked, turns>>
  BY DEF NoProvider, StreamFails, bounds
<1> QED
  BY <1>1, LoopFacts, Ends

LEMMA LeaveKeeps ==
  ASSUME LoopIInv, NEW c \in Loops, Leave(c)
  PROVE  LoopIInv'
<1>1. /\ loops[c].pc = "leave" /\ loops' = [loops EXCEPT ![c] = Idle]
      /\ UNCHANGED <<rows, tools, effects, answers, asked, turns>>
  BY DEF Leave, bounds
<1>2. c \in Chats
  BY <1>1, LoopFacts DEF LoopOK, Loops
<1>3. LoopOK(c, Idle, answers') /\ Idle.msgs = <<>> /\ Idle.answer = 0 /\ Idle.pc = "idle"
  BY <1>1, IdleOK, LoopFacts
<1>4. InTurn(c, Idle, tools)
  BY <1>1, <1>3, OutOfCalls
<1>5. MovesTo(c, Idle, tools') /\ LessWaited
  BY <1>1, <1>3, <1>4 DEF MovesTo, TrueOf, LessWaited, LoopIInv, Types
<1>6. answers' \in 0..asked' /\ answers' >= answers /\ asked' \in 0..MaxCalls
  BY <1>1, ToolLoopAssumption DEF LoopIInv, Types
<1>7. Types' /\ AnswersApart' /\ CallsInTurn' /\ AllTrue' /\ EffectsInOrder'
  BY <1>1, <1>5, <1>6, LoopMoves, LoopFacts
<1>8. /\ loops'[c].pc = "idle" /\ \A d \in Chats : d # c => loops'[d] = loops[d]
  BY <1>1, <1>3, LoopFacts DEF Loops
<1>9. Streaming' = Streaming \ {c} /\ c \in Streaming
  BY <1>1, <1>2, <1>8 DEF Streaming
<1>10. Cardinality(Streaming') = Cardinality(Streaming) - 1 /\ Cardinality(Streaming) \in Nat /\ Cardinality(Streaming') \in Nat
  <2>1. IsFiniteSet(Streaming) /\ IsFiniteSet(Streaming \ {c})
    BY StreamsFinite, FS_RemoveElement
  <2> QED
    BY <1>9, <2>1, FS_RemoveElement, FS_CardinalityType
<1>11. /\ session' = [session EXCEPT !.inUse = session.inUse - 1]
       /\ session \in [there : BOOLEAN, inUse : Nat] /\ session.inUse = Cardinality(Streaming)
  BY DEF Leave, LoopIInv, SessionIInv
<1>12. /\ session' \in [there : BOOLEAN, inUse : Nat] /\ session'.there = session.there
       /\ session'.inUse = Cardinality(Streaming')
  BY <1>10, <1>11
<1>13. SessionIInv'
  BY <1>2, <1>8, <1>9, <1>12 DEF LoopIInv, SessionIInv
<1> QED
  BY <1>7, <1>13 DEF LoopIInv

LEMMA AnswerCallsKeeps ==
  ASSUME LoopIInv, NEW l \in Loops, NEW k \in 1..MaxCalls, AnswerCalls(l, k)
  PROVE  LoopIInv'
<1> DEFINE msgs == Append(loops[l].msgs, Assistant(answers + 1, k))
           pc == IF l \in Brains THEN "call" ELSE "save"
           r == [loops[l] EXCEPT !.msgs = msgs, !.answer = answers + 1, !.calls = k, !.call = 1, !.pc = pc]
<1>1. /\ loops[l].pc = "llm" /\ asked + k <= MaxCalls /\ answers' = answers + 1 /\ asked' = asked + k
      /\ UNCHANGED <<rows, tools, effects, session, turns>>
  BY DEF AnswerCalls
<1>2. answers' \in 0..asked' /\ answers' \in 1..MaxCalls /\ asked' \in 0..MaxCalls /\ k \in 0..MaxCalls /\ answers \in Nat
  BY <1>1, ToolLoopAssumption DEF LoopIInv, Types
<1>3. msgs \in Seq(Message) /\ msgs # <<>> /\ TrueOf(msgs, effects)
  <2>1. Assistant(answers + 1, k) \in Message /\ Assistant(answers + 1, k).said = ""
    <3>1. answers + 1 \in 0..MaxCalls
      BY <1>1, <1>2
    <3> QED
      BY <1>2, <3>1, AssistantSaysNothing
  <2> QED
    BY <2>1, LoopFacts, AppendTrue
<1>4. loops' = [loops EXCEPT ![l] = r]
  BY LoopFacts DEF AnswerCalls, LoopRec
<1> HIDE DEF msgs
<1>5. /\ r \in LoopRec /\ r.msgs = msgs /\ r.answer = answers' /\ r.calls = k /\ r.call = 1
      /\ r.iter = loops[l].iter /\ r.tries = loops[l].tries /\ r.cont = loops[l].cont
      /\ r.pc = IF l \in Brains THEN "call" ELSE "save"
  <2>1. loops[l] \in LoopRec /\ pc \in {"call", "save"} /\ answers + 1 \in Nat /\ k \in Nat
    BY <1>2, LoopFacts
  <2> HIDE DEF pc
  <2> QED
    BY <1>1, <1>3, <2>1 DEF LoopRec, pc
<1> HIDE DEF r
<1>6. LoopOK(l, r, answers')
  BY <1>1, <1>2, <1>3, <1>5, LoopFacts DEF LoopOK
<1>7. InTurn(l, r, tools)
  <2>1. \A id \in DOMAIN tools : id \in Nat \X Nat /\ id[1] <= answers
    BY DEF LoopIInv, Types, AnswersApart
  <2>2. \A id \in DOMAIN tools : Before(id, <<r.answer, r.call>>)
    BY <1>1, <1>2, <1>5, <2>1 DEF Before
  <2>3. InTurn(l, loops[l], tools)
    BY LoopFacts
  <2> QED
    BY <1>1, <1>5, <2>2, <2>3 DEF InTurn
<1>8. MovesTo(l, r, tools') /\ LessWaited
  BY <1>1, <1>2, <1>3, <1>4, <1>5, <1>6, <1>7 DEF MovesTo, LessWaited, LoopIInv, Types
<1>9. Types' /\ AnswersApart' /\ CallsInTurn' /\ AllTrue' /\ EffectsInOrder'
  <2>1. answers' >= answers
    BY <1>1, <1>2
  <2> QED
    BY <1>1, <1>2, <1>8, <2>1, LoopMoves, LoopFacts
<1>10. SessionIInv'
  BY <1>1, <1>4, <1>5, SessionSame
<1> QED
  BY <1>9, <1>10 DEF LoopIInv

LEMMA AnswerEndsKeeps ==
  ASSUME LoopIInv, NEW l \in Loops, AnswerEnds(l)
  PROVE  LoopIInv'
<1>1. loops[l].pc = "llm" /\ UNCHANGED <<rows, tools, effects, session, answers, asked, turns>>
  BY DEF AnswerEnds, bounds
<1>2. CASE l \in Brains
  <2>1. End(l)
    BY <1>2 DEF AnswerEnds, End, Ended
  <2> QED
    BY <1>1, <2>1, LoopFacts, Ends
<1>3. CASE l \notin Brains
  <2> DEFINE msgs == Append(loops[l].msgs, Assistant(0, 0))
             r == [loops[l] EXCEPT !.msgs = msgs, !.calls = 0, !.pc = "save"]
  <2>1. loops' = [loops EXCEPT ![l] = r]
    BY <1>3 DEF AnswerEnds, LastSaid
  <2>2. msgs \in Seq(Message) /\ msgs # <<>> /\ TrueOf(msgs, effects)
    <3>1. 0 \in 0..MaxCalls
      BY ToolLoopAssumption
    <3>2. Assistant(0, 0) \in Message /\ Assistant(0, 0).said = ""
      BY <3>1, AssistantMessage
    <3> QED
      BY <3>2, LoopFacts, AppendTrue
  <2> HIDE DEF msgs
  <2>3. /\ r \in LoopRec /\ r.msgs = msgs /\ r.answer = loops[l].answer /\ r.calls = 0
        /\ r.iter = loops[l].iter /\ r.tries = loops[l].tries /\ r.cont = loops[l].cont
        /\ r.pc = "save"
    BY <2>2, LoopFacts DEF LoopRec
  <2> HIDE DEF r
  <2>4. LoopOK(l, r, answers') /\ r.answer = 0
    BY <1>1, <1>3, <2>2, <2>3, LoopFacts DEF LoopOK
  <2>5. InTurn(l, r, tools)
    <3>1. InTurn(l, loops[l], tools) /\ ~(r.answer > 0)
      BY <2>4, LoopFacts
    <3> QED
      BY <1>1, <2>3, <3>1 DEF InTurn
  <2>6. MovesTo(l, r, tools)
    BY <2>1, <2>2, <2>3, <2>4, <2>5 DEF MovesTo
  <2> QED
    BY <1>1, <2>3, <2>6, LoopFacts, OnlyMoves
<1> QED
  BY <1>2, <1>3

LEMMA AnswerCutOffKeeps ==
  ASSUME LoopIInv, NEW b \in Loops, AnswerCutOff(b)
  PROVE  LoopIInv'
<1>1. /\ b \in Brains /\ loops[b].pc = "llm"
      /\ UNCHANGED <<rows, tools, effects, session, answers, asked, turns>>
  BY DEF AnswerCutOff, bounds
<1>2. CASE loops[b].cont + 1 >= MaxContinuations
  <2>1. End(b)
    BY <1>1, <1>2 DEF AnswerCutOff, End, Ended
  <2> QED
    BY <1>1, <2>1, LoopFacts, Ends
<1>3. CASE ~(loops[b].cont + 1 >= MaxContinuations)
  <2> DEFINE msgs == loops[b].msgs \o <<Assistant(0, 0), User>>
             r == [loops[b] EXCEPT !.cont = loops[b].cont + 1, !.msgs = msgs]
  <2>1. loops' = [loops EXCEPT ![b] = NextIteration(b, r)]
    BY <1>3 DEF AnswerCutOff, CutOff
  <2>2. msgs \in Seq(Message) /\ TrueOf(msgs, effects)
    <3> DEFINE said == Append(loops[b].msgs, Assistant(0, 0))
    <3>1. 0 \in 0..MaxCalls
      BY ToolLoopAssumption
    <3>2. Assistant(0, 0) \in Message /\ Assistant(0, 0).said = ""
      BY <3>1, AssistantMessage
    <3>3. said \in Seq(Message) /\ TrueOf(said, effects)
      BY <3>2, LoopFacts, AppendTrue
    <3>4. Append(said, User) \in Seq(Message) /\ TrueOf(Append(said, User), effects)
      BY <3>3, UserMessage, AppendTrue
    <3>5. msgs = Append(said, User)
      <4>1. loops[b].msgs \in Seq(Message) /\ User \in Message
        BY LoopFacts, UserMessage
      <4> QED
        BY <3>2, <4>1, TwoMore
    <3> QED
      BY <3>4, <3>5
  <2> HIDE DEF msgs
  <2>3. /\ r \in LoopRec /\ r.msgs = msgs /\ r.answer = loops[b].answer /\ r.calls = loops[b].calls
        /\ r.iter = loops[b].iter /\ r.cont = loops[b].cont + 1 /\ r.cont \in Nat
    <3>1. loops[b].cont + 1 \in Nat
      BY LoopFacts DEF LoopRec
    <3> QED
      BY <2>2, <3>1, LoopFacts DEF LoopRec
  <2> HIDE DEF r
  <2>4. r.answer = 0 /\ r.calls = 0 /\ r.iter < Iterations(b) /\ r.cont < MaxContinuations
    BY <1>1, <1>3, <2>3, LoopFacts, ToolLoopAssumption DEF LoopOK
  <2> DEFINE s == NextIteration(b, r)
  <2>5. /\ LoopOK(b, s, answers') /\ s.answer = 0 /\ s.pc \in {"idle", "leave", "llm"}
        /\ s.msgs \in {msgs, <<>>}
    BY <1>1, <2>3, <2>4, NextIterationOK, LoopFacts
  <2> HIDE DEF s
  <2>6. TrueOf(s.msgs, effects) /\ InTurn(b, s, tools)
    BY <1>1, <2>2, <2>5, OutOfCalls DEF TrueOf
  <2>7. MovesTo(b, s, tools)
    BY <2>1, <2>5, <2>6 DEF MovesTo, s
  <2> QED
    BY <1>1, <2>7, LoopFacts, OnlyMoves, ToolLoopAssumption
<1> QED
  BY <1>2, <1>3

LEMMA CallFailsKeeps ==
  ASSUME LoopIInv, NEW b \in Loops, NEW transient \in BOOLEAN, CallFails(b, transient)
  PROVE  LoopIInv'
<1>1. /\ b \in Brains /\ loops[b].pc = "llm"
      /\ UNCHANGED <<rows, tools, effects, session, answers, asked, turns>>
  BY DEF CallFails, bounds
<1> DEFINE again == transient /\ ~loops[b].cancelled /\ loops[b].tries + 1 < MaxLLMRetries
           r == [loops[b] EXCEPT !.tries = loops[b].tries + 1]
<1>2. loops' = [loops EXCEPT ![b] = IF again THEN r ELSE Idle]
  BY DEF CallFails, Retried
<1>3. CASE ~again
  <2>1. End(b)
    BY <1>1, <1>2, <1>3 DEF End, Ended
  <2> QED
    BY <1>1, <2>1, LoopFacts, Ends
<1>4. CASE again
  <2>1. /\ r \in LoopRec /\ r.msgs = loops[b].msgs /\ r.answer = loops[b].answer /\ r.calls = loops[b].calls
        /\ r.iter = loops[b].iter /\ r.cont = loops[b].cont /\ r.tries = loops[b].tries + 1 /\ r.pc = "llm"
    <3>1. loops[b].tries + 1 \in Nat
      BY LoopFacts DEF LoopRec
    <3> QED
      BY <1>1, <3>1, LoopFacts DEF LoopRec
  <2>2. loops' = [loops EXCEPT ![b] = r]
    BY <1>2, <1>4
  <2>3. LoopOK(b, r, answers')
    <3>1. r.tries < MaxLLMRetries
      BY <1>4, <2>1
    <3> HIDE DEF r, again
    <3> QED
      BY <1>1, <2>1, <3>1, LoopFacts DEF LoopOK
  <2> HIDE DEF r
  <2>4. InTurn(b, r, tools) /\ TrueOf(r.msgs, effects)
    BY <1>1, <2>1, OutOfCalls, LoopFacts
  <2>5. MovesTo(b, r, tools)
    BY <2>1, <2>2, <2>3, <2>4 DEF MovesTo
  <2> QED
    BY <1>1, <2>5, LoopFacts, OnlyMoves, ToolLoopAssumption
<1> QED
  BY <1>3, <1>4

\* The last message of a conversation is one of it.
LEMMA LastTrue ==
  ASSUME NEW effs, NEW msgs \in Seq(Message), msgs # <<>>, TrueOf(msgs, effs)
  PROVE  /\ Last(msgs) \in Message
         /\ Last(msgs).said = "ok" => <<Last(msgs).answer, Last(msgs).call>> \in ToSet(effs)
<1>1. Len(msgs) \in DOMAIN msgs
  OBVIOUS
<1> QED
  BY <1>1 DEF Last, TrueOf

\* The rows are true with the last message, and without it.
LEMMA SavedTrue ==
  ASSUME LoopIInv, NEW c \in Loops, Save(c), loops[c].msgs # <<>>
  PROVE  rows' \in Seq(Message) /\ TrueOf(rows', effects)
<1>1. rows' = rows \/ rows' = Append(rows, Last(loops[c].msgs))
  BY DEF Save
<1>2. Append(rows, Last(loops[c].msgs)) \in Seq(Message) /\ TrueOf(Append(rows, Last(loops[c].msgs)), effects)
  BY LoopFacts, LastTrue, AppendTrue
<1> QED
  BY <1>1, <1>2, LoopFacts

LEMMA SaveAssistantKeeps ==
  ASSUME LoopIInv, NEW c \in Loops, SaveAssistant(c)
  PROVE  LoopIInv'
<1>1. /\ loops[c].pc = "save" /\ Save(c)
      /\ UNCHANGED <<tools, effects, session, answers, asked, turns>>
  BY DEF SaveAssistant, bounds
<1>2. c \notin Brains /\ loops[c].msgs # <<>>
  BY <1>1, LoopFacts DEF LoopOK
<1>3. rows' \in Seq(Message) /\ TrueOf(rows', effects)
  BY <1>1, <1>2, SavedTrue
<1>4. CASE loops[c].calls = 0
  BY <1>1, <1>3, <1>4, Ends DEF SaveAssistant
<1>5. CASE loops[c].calls # 0
  <2> DEFINE r == [loops[c] EXCEPT !.pc = "call"]
  <2>1. Goto(c, "call")
    BY <1>5 DEF SaveAssistant
  <2>2. /\ loops' = [loops EXCEPT ![c] = r] /\ r \in LoopRec /\ r.pc = "call"
        /\ r.msgs = loops[c].msgs /\ r.answer = loops[c].answer /\ r.calls = loops[c].calls
        /\ r.call = loops[c].call /\ r.iter = loops[c].iter /\ r.tries = loops[c].tries
        /\ r.cont = loops[c].cont
    BY <2>1, GoesTo
  <2> HIDE DEF r
  <2>3. loops[c].answer > 0 /\ loops[c].call = 1 /\ loops[c].calls > 0 /\ loops[c].calls \in Nat
    BY <1>1, <1>5, LoopFacts DEF LoopOK, LoopRec
  <2>4. LoopOK(c, r, answers')
    <3>1. r.call \in 1..r.calls
      BY <2>2, <2>3
    <3> QED
      BY <1>1, <1>2, <2>2, <2>3, <3>1, LoopFacts DEF LoopOK
  <2>5. InTurn(c, r, tools) /\ TrueOf(r.msgs, effects)
    BY <1>1, <2>2, <2>3, LoopFacts DEF InTurn
  <2>6. MovesTo(c, r, tools)
    BY <2>2, <2>4, <2>5 DEF MovesTo
  <2> QED
    BY <1>1, <1>3, <2>2, <2>6, LoopFacts, OnlyMoves
<1> QED
  BY <1>4, <1>5

--------------------------------------------------------------------------------
(* The calls of tools *)

\* A loop whose calls so far are none that runs and is waited for goes on, to the next
\* call or to the next iteration.
LEMMA AfterCallOK ==
  ASSUME NEW l \in Loops, NEW n \in Nat, NEW r \in LoopRec, NEW ts, NEW s, s = AfterCall(l, r),
         r.answer > 0, r.answer <= n, r.call \in 1..r.calls, r.calls <= MaxCalls,
         r.iter < Iterations(l), r.tries < MaxLLMRetries, r.cont < MaxContinuations,
         DOMAIN ts \subseteq Nat \X Nat,
         \A id \in DOMAIN ts : ts[id].by = l =>
             /\ id = <<r.answer, r.call>> \/ Before(id, <<r.answer, r.call>>)
             /\ ~(ts[id].at = "running" /\ ts[id].waited)
  PROVE  /\ LoopOK(l, s, n) /\ InTurn(l, s, ts) /\ s.answer \in {0, r.answer}
         /\ s.msgs \in {r.msgs, <<>>} /\ (l \in Chats => s.pc \notin {"idle", "entered"})
<1>1. CASE r.call < r.calls
  <2>1. s = [r EXCEPT !.call = r.call + 1, !.pc = "call"]
    BY <1>1 DEF AfterCall
  <2>2. r.call + 1 \in Nat /\ r.call + 1 \in 1..r.calls /\ r.call \in Nat /\ r.answer \in Nat
    BY <1>1 DEF LoopRec
  <2>3. /\ s \in LoopRec /\ s.call = r.call + 1 /\ s.pc = "call" /\ s.msgs = r.msgs /\ s.answer = r.answer
        /\ s.calls = r.calls /\ s.iter = r.iter /\ s.tries = r.tries /\ s.cont = r.cont
    BY <2>1, <2>2 DEF LoopRec
  <2>4. LoopOK(l, s, n)
    BY <2>2, <2>3 DEF LoopOK
  <2>5. \A id \in DOMAIN ts : ts[id].by = l => Before(id, <<s.answer, s.call>>)
    <3>1. \A id \in Nat \X Nat : id = <<r.answer, r.call>> \/ Before(id, <<r.answer, r.call>>)
             => Before(id, <<r.answer, r.call + 1>>)
      BY <2>2 DEF Before
    <3> QED
      BY <2>3, <3>1
  <2> QED
    BY <2>3, <2>4, <2>5 DEF InTurn
<1>2. CASE ~(r.call < r.calls)
  <2> DEFINE q == [r EXCEPT !.answer = 0, !.calls = 0, !.call = 0]
  <2>1. s = NextIteration(l, q)
    BY <1>2 DEF AfterCall
  <2>2. /\ q \in LoopRec /\ q.answer = 0 /\ q.calls = 0 /\ q.msgs = r.msgs /\ q.iter = r.iter /\ q.cont = r.cont
    BY DEF LoopRec
  <2> HIDE DEF q
  <2>3. /\ LoopOK(l, s, n) /\ s.answer = 0 /\ s.pc \in {"idle", "leave", "llm"}
        /\ l \in Chats => s.pc \in {"leave", "llm"}
        /\ s.msgs \in {q.msgs, <<>>}
    BY <2>1, <2>2, NextIterationOK
  <2> QED
    BY <2>2, <2>3 DEF InTurn
<1> QED
  BY <1>1, <1>2

\* A loop whose call has its result, said of it or refused, or that did not come in time.
LEMMA GotOK ==
  ASSUME LoopIInv, NEW l \in Loops, loops[l].pc \in {"call", "wait"}, NEW said \in {"ok", "failed"},
         GotResult(l, said), said = "ok" => Id(l) \in ToSet(effects), LessWaited,
         \A id \in DOMAIN tools : tools[id].by = l => ~(tools'[id].at = "running" /\ tools'[id].waited),
         UNCHANGED <<rows, effects, session, answers, asked, turns>>
  PROVE  LoopIInv'
<1> DEFINE msgs == Append(loops[l].msgs, Result(loops[l].answer, loops[l].call, said))
           r == [loops[l] EXCEPT !.msgs = msgs]
           t == IF l \in Brains THEN AfterCall(l, r) ELSE [r EXCEPT !.pc = "result"]
<1>1. Answered(loops[l], said) = r
  BY DEF Answered
<1>2. loops' = [loops EXCEPT ![l] = t]
  <2> HIDE DEF r
  <2> QED
    BY <1>1 DEF GotResult
<1>3. /\ loops[l] \in LoopRec /\ loops[l].answer > 0 /\ loops[l].call \in 1..loops[l].calls
      /\ loops[l].calls <= MaxCalls /\ loops[l].iter < Iterations(l) /\ loops[l].tries < MaxLLMRetries
      /\ loops[l].cont < MaxContinuations /\ loops[l].answer <= answers /\ answers \in Nat
      /\ answers <= MaxCalls /\ loops[l].answer \in Nat /\ loops[l].calls \in Nat
  BY LoopFacts DEF LoopOK, LoopRec
<1>4. msgs \in Seq(Message) /\ msgs # <<>> /\ TrueOf(msgs, effects)
  <2>1. loops[l].answer \in 1..MaxCalls /\ loops[l].call \in 1..MaxCalls
    BY <1>3, ToolLoopAssumption
  <2> DEFINE msg == Result(loops[l].answer, loops[l].call, said)
  <2>2. msg \in Message /\ msg.said = said /\ msg.answer = loops[l].answer /\ msg.call = loops[l].call
    BY <2>1, ResultMessage
  <2> HIDE DEF msg
  <2>3. msg.said = "ok" => <<msg.answer, msg.call>> \in ToSet(effects)
    BY <2>2 DEF Id
  <2>4. Append(loops[l].msgs, msg) \in Seq(Message) /\ Append(loops[l].msgs, msg) # <<>>
        /\ TrueOf(Append(loops[l].msgs, msg), effects)
    BY <2>2, <2>3, LoopFacts, AppendTrue
  <2> QED
    BY <2>4 DEF msg
<1> HIDE DEF msgs
<1>5. /\ r \in LoopRec /\ r.msgs = msgs /\ r.answer = loops[l].answer /\ r.call = loops[l].call
      /\ r.calls = loops[l].calls /\ r.iter = loops[l].iter /\ r.tries = loops[l].tries /\ r.cont = loops[l].cont
  BY <1>3, <1>4 DEF LoopRec
<1> HIDE DEF r
<1>6. /\ DOMAIN tools' \subseteq Nat \X Nat
      /\ \A id \in DOMAIN tools' : tools'[id].by = l =>
            /\ id = <<r.answer, r.call>> \/ Before(id, <<r.answer, r.call>>)
            /\ ~(tools'[id].at = "running" /\ tools'[id].waited)
  <2>1. InTurn(l, loops[l], tools)
    BY LoopFacts
  <2>2. \A id \in DOMAIN tools : tools[id].by = l =>
            id = <<loops[l].answer, loops[l].call>> \/ Before(id, <<loops[l].answer, loops[l].call>>)
    BY <1>3, <2>1 DEF InTurn
  <2>3. DOMAIN tools' \subseteq Nat \X Nat
    BY DEF LessWaited, LoopIInv, Types
  <2> QED
    BY <1>5, <2>2, <2>3 DEF LessWaited
<1>7. /\ LoopOK(l, t, answers') /\ InTurn(l, t, tools') /\ t.answer \in {0, loops[l].answer}
      /\ TrueOf(t.msgs, effects) /\ (l \in Chats => t.pc \notin {"idle", "entered"})
  <2>1. CASE l \in Brains
    <3>1. t = AfterCall(l, r)
      BY <2>1
    <3> HIDE DEF t
    <3>2. /\ LoopOK(l, t, answers') /\ InTurn(l, t, tools') /\ t.answer \in {0, r.answer}
          /\ t.msgs \in {r.msgs, <<>>} /\ (l \in Chats => t.pc \notin {"idle", "entered"})
      BY <1>3, <1>5, <1>6, <3>1, AfterCallOK
    <3>3. TrueOf(<<>>, effects)
      BY DEF TrueOf
    <3> QED
      BY <1>4, <1>5, <3>2, <3>3
  <2>2. CASE l \notin Brains
    <3>1. t = [r EXCEPT !.pc = "result"]
      BY <2>2
    <3>2. /\ t \in LoopRec /\ t.pc = "result" /\ t.msgs = r.msgs /\ t.answer = r.answer /\ t.call = r.call
          /\ t.calls = r.calls /\ t.iter = r.iter /\ t.tries = r.tries /\ t.cont = r.cont
      BY <1>5, <3>1 DEF LoopRec
    <3> HIDE DEF t
    <3>3. LoopOK(l, t, answers')
      BY <1>3, <1>4, <1>5, <2>2, <3>2 DEF LoopOK
    <3>4. InTurn(l, t, tools')
      BY <1>6, <3>2 DEF InTurn
    <3> QED
      BY <1>4, <1>5, <3>2, <3>3, <3>4
  <2> QED
    BY <2>1, <2>2
<1> HIDE DEF t
<1>8. MovesTo(l, t, tools')
  BY <1>2, <1>7 DEF MovesTo
<1>9. answers' \in 0..asked' /\ answers' >= answers /\ asked' \in 0..MaxCalls
  BY ToolLoopAssumption DEF LoopIInv, Types
<1>10. Types' /\ AnswersApart' /\ CallsInTurn' /\ AllTrue' /\ EffectsInOrder'
  BY <1>8, <1>9, LoopMoves, LoopFacts
<1>11. SessionIInv'
  <2>1. l \in Chats => loops[l].pc \notin {"idle", "entered"} /\ t.pc \notin {"idle", "entered"}
    BY <1>7
  <2> QED
    BY <1>2, <2>1, SessionSame
<1> QED
  BY <1>10, <1>11 DEF LoopIInv

LEMMA RefuseCallKeeps ==
  ASSUME LoopIInv, NEW l \in Loops, RefuseCall(l)
  PROVE  LoopIInv'
<1>1. /\ loops[l].pc = "call" /\ GotResult(l, "failed") /\ tools' = tools
      /\ UNCHANGED <<rows, effects, session, answers, asked, turns>>
  BY DEF RefuseCall, GotResult, bounds
<1>2. LessWaited
  BY <1>1 DEF LessWaited, LoopIInv, Types
<1>3. \A id \in DOMAIN tools : tools[id].by = l => ~(tools'[id].at = "running" /\ tools'[id].waited)
  BY <1>1, LoopFacts DEF InTurn
<1> QED
  BY <1>1, <1>2, <1>3, GotOK

LEMMA TakeResultKeeps ==
  ASSUME LoopIInv, NEW l \in Loops, TakeResult(l)
  PROVE  LoopIInv'
<1>1. /\ loops[l].pc = "wait" /\ tools[Id(l)].at \in {"ok", "failed"} /\ tools' = tools
      /\ GotResult(l, tools[Id(l)].at) /\ UNCHANGED <<rows, effects, session, answers, asked, turns>>
  BY DEF TakeResult, bounds
<1>2. LessWaited
  BY <1>1 DEF LessWaited, LoopIInv, Types
<1>3. InTurn(l, loops[l], tools)
  BY LoopFacts
<1>4. \A id \in DOMAIN tools : tools[id].by = l => ~(tools'[id].at = "running" /\ tools'[id].waited)
  BY <1>1, <1>3 DEF InTurn, Id
<1>5. tools[Id(l)].at = "ok" => Id(l) \in ToSet(effects)
  BY <1>1, <1>3 DEF InTurn, Id, LoopIInv, CallsInTurn
<1> QED
  BY <1>1, <1>2, <1>4, <1>5, GotOK

LEMMA TimeOutKeeps ==
  ASSUME LoopIInv, NEW l \in Loops, TimeOut(l)
  PROVE  LoopIInv'
<1>1. /\ loops[l].pc = "wait" /\ GotResult(l, "failed") /\ tools' = [tools EXCEPT ![Id(l)].waited = FALSE]
      /\ UNCHANGED <<rows, effects, session, answers, asked, turns>>
  BY DEF TimeOut, bounds
<1>2. InTurn(l, loops[l], tools)
  BY LoopFacts
<1>3. Id(l) \in DOMAIN tools /\ \A id \in DOMAIN tools : tools[id] \in ToolRec
  BY <1>1, <1>2 DEF InTurn, Id, LoopIInv, Types
<1>4. /\ DOMAIN tools' = DOMAIN tools /\ tools'[Id(l)] = [tools[Id(l)] EXCEPT !.waited = FALSE]
      /\ \A id \in DOMAIN tools : id # Id(l) => tools'[id] = tools[id]
  BY <1>1, <1>3
<1>5. /\ tools'[Id(l)] \in ToolRec /\ tools'[Id(l)].by = tools[Id(l)].by /\ tools'[Id(l)].at = tools[Id(l)].at
      /\ tools'[Id(l)].waited = FALSE
  BY <1>3, <1>4 DEF ToolRec
<1>6. LessWaited
  BY <1>3, <1>4, <1>5 DEF LessWaited
<1>7. \A id \in DOMAIN tools : tools[id].by = l => ~(tools'[id].at = "running" /\ tools'[id].waited)
  BY <1>1, <1>2, <1>4, <1>5 DEF InTurn, Id
<1> QED
  BY <1>1, <1>6, <1>7, GotOK

LEMMA SaveResultKeeps ==
  ASSUME LoopIInv, NEW c \in Loops, SaveResult(c)
  PROVE  LoopIInv'
<1> DEFINE s == AfterCall(c, loops[c])
<1>1. /\ loops[c].pc = "result" /\ Save(c)
      /\ loops' = [loops EXCEPT ![c] = s] /\ UNCHANGED <<tools, effects, session, answers, asked, turns>>
  BY DEF SaveResult, bounds
<1>2. loops[c].msgs # <<>> /\ c \in Chats
  BY <1>1, LoopFacts DEF LoopOK, Loops
<1>3. rows' \in Seq(Message) /\ TrueOf(rows', effects)
  BY <1>1, <1>2, SavedTrue
<1>4. /\ loops[c] \in LoopRec /\ loops[c].answer > 0 /\ loops[c].call \in 1..loops[c].calls
      /\ loops[c].calls <= MaxCalls /\ loops[c].iter < Iterations(c) /\ loops[c].tries < MaxLLMRetries
      /\ loops[c].cont < MaxContinuations /\ loops[c].answer <= answers' /\ answers' \in Nat
  BY <1>1, LoopFacts DEF LoopOK
<1>5. /\ DOMAIN tools \subseteq Nat \X Nat
      /\ \A id \in DOMAIN tools : tools[id].by = c =>
            /\ id = <<loops[c].answer, loops[c].call>> \/ Before(id, <<loops[c].answer, loops[c].call>>)
            /\ ~(tools[id].at = "running" /\ tools[id].waited)
  BY <1>1, LoopFacts DEF InTurn, LoopIInv, Types
<1> HIDE DEF s
<1>6. /\ LoopOK(c, s, answers') /\ InTurn(c, s, tools) /\ s.answer \in {0, loops[c].answer}
      /\ s.msgs \in {loops[c].msgs, <<>>} /\ (c \in Chats => s.pc \notin {"idle", "entered"})
  BY <1>4, <1>5, AfterCallOK DEF s
<1>7. TrueOf(s.msgs, effects)
  <2>1. TrueOf(<<>>, effects)
    BY DEF TrueOf
  <2> QED
    BY <1>6, <2>1, LoopFacts
<1>8. MovesTo(c, s, tools)
  BY <1>1, <1>6, <1>7 DEF MovesTo
<1> QED
  BY <1>1, <1>3, <1>6, <1>8, LoopFacts, OnlyMoves

\* A call is executed once: its goroutine is a new one.
LEMMA ExecuteKeeps ==
  ASSUME LoopIInv, NEW l \in Loops, Execute(l)
  PROVE  LoopIInv'
<1> DEFINE r == [loops[l] EXCEPT !.pc = "wait"]
           id0 == <<loops[l].answer, loops[l].call>>
<1>1. /\ loops[l].pc = "call" /\ Goto(l, "wait") /\ UNCHANGED <<rows, effects, session, answers, asked, turns>>
      /\ tools' = [id \in DOMAIN tools \cup {id0} |->
                      IF id = id0 THEN [at |-> "running", by |-> l, waited |-> TRUE] ELSE tools[id]]
  BY DEF Execute, bounds, Id
<1>2. /\ loops' = [loops EXCEPT ![l] = r] /\ r \in LoopRec /\ r.pc = "wait"
      /\ r.msgs = loops[l].msgs /\ r.answer = loops[l].answer /\ r.calls = loops[l].calls
      /\ r.call = loops[l].call /\ r.iter = loops[l].iter /\ r.tries = loops[l].tries
      /\ r.cont = loops[l].cont
  BY <1>1, GoesTo
<1> HIDE DEF r
<1>3. /\ loops[l].answer > 0 /\ loops[l].answer <= answers /\ loops[l].answer \in Nat /\ loops[l].call \in Nat
      /\ loops[l].call \in 1..loops[l].calls /\ answers \in Nat
  BY <1>1, LoopFacts DEF LoopOK, LoopRec
<1>4. LoopOK(l, r, answers')
  BY <1>1, <1>2, <1>3, LoopFacts DEF LoopOK
<1>5. id0 \in Nat \X Nat /\ id0[1] = loops[l].answer /\ id0[2] = loops[l].call
  BY <1>3
<1>6. InTurn(l, loops[l], tools)
  BY LoopFacts
<1>7. id0 \notin DOMAIN tools
  <2>1. SUFFICES ASSUME id0 \in DOMAIN tools PROVE FALSE
    OBVIOUS
  <2>2. tools[id0].by = l
    BY <1>3, <1>5, <2>1 DEF LoopIInv, AnswersApart
  <2>3. Before(id0, id0)
    BY <1>1, <1>3, <1>6, <2>1, <2>2 DEF InTurn
  <2> QED
    BY <1>3, <2>3 DEF Before
<1> HIDE DEF id0
<1>8. /\ DOMAIN tools' = DOMAIN tools \cup {id0}
      /\ tools'[id0] = [at |-> "running", by |-> l, waited |-> TRUE]
      /\ \A id \in DOMAIN tools : tools'[id] = tools[id] /\ id # id0
  BY <1>1, <1>7
<1>9. tools'[id0] \in ToolRec /\ tools'[id0].at = "running" /\ tools'[id0].by = l
  BY <1>8 DEF ToolRec
<1>10. /\ DOMAIN loops' = Loops /\ loops'[l] = r /\ loops' = [m \in Loops |-> loops'[m]]
       /\ \A m \in Loops : m # l => loops'[m] = loops[m]
       /\ \A m \in Loops : loops'[m].answer = loops[m].answer
  BY <1>2, LoopFacts
<1>11. Types'
  <2>1. \A m \in Loops : LoopOK(m, loops'[m], answers')
    BY <1>1, <1>4, <1>10, LoopFacts
  <2>2. DOMAIN tools' \subseteq Nat \X Nat /\ \A id \in DOMAIN tools' : tools'[id] \in ToolRec
    BY <1>5, <1>8, <1>9 DEF LoopIInv, Types
  <2>3. ToSet(effects) \subseteq DOMAIN tools'
    BY <1>8 DEF LoopIInv, Types
  <2> QED
    BY <1>1, <1>10, <2>1, <2>2, <2>3 DEF LoopIInv, Types
<1>12. AnswersApart'
  <2>1. \A m \in Loops : loops[m].answer > 0 /\ loops[m].answer = id0[1] => tools'[id0].by = m
    BY <1>5, <1>9 DEF LoopIInv, AnswersApart
  <2> QED
    BY <1>1, <1>3, <1>5, <1>8, <1>10, <2>1 DEF LoopIInv, AnswersApart
<1>13. CallsInTurn'
  <2>1. ASSUME NEW m \in Loops, m # l PROVE InTurn(m, loops[m], tools')
    <3>1. InTurn(m, loops[m], tools)
      BY LoopFacts
    <3> QED
      BY <1>8, <1>9, <2>1, <3>1 DEF InTurn
  <2>2. InTurn(l, r, tools')
    <3>1. id0 = <<r.answer, r.call>> /\ id0 = <<loops[l].answer, loops[l].call>>
      BY <1>2 DEF id0
    <3>2. \A id \in DOMAIN tools : tools[id].by = l =>
             Before(id, id0) /\ ~(tools[id].at = "running" /\ tools[id].waited)
      BY <1>1, <1>3, <1>6, <3>1 DEF InTurn
    <3> QED
      BY <1>2, <1>8, <1>9, <3>1, <3>2 DEF InTurn
  <2>3. \A id \in DOMAIN tools' : tools'[id].at = "ok" => id \in ToSet(effects')
    BY <1>1, <1>8, <1>9 DEF LoopIInv, CallsInTurn
  <2> QED
    BY <1>10, <2>1, <2>2, <2>3 DEF CallsInTurn
<1>14. AllTrue'
  <2>1. \A m \in Loops : TrueOf(loops'[m].msgs, effects)
    BY <1>2, <1>10, LoopFacts
  <2> QED
    BY <1>1, <2>1, LoopFacts DEF AllTrue
<1>15. EffectsInOrder'
  <2>1. \A m \in DOMAIN effects : effects[m] \in DOMAIN tools
    BY DEF LoopIInv, Types, ToSet
  <2> QED
    BY <1>1, <1>8, <2>1 DEF LoopIInv, EffectsInOrder
<1>16. SessionIInv'
  BY <1>1, <1>2, SessionSame
<1> QED
  BY <1>11, <1>12, <1>13, <1>14, <1>15, <1>16 DEF LoopIInv

\* One that is waited for is the last its loop has executed, so that it may take effect.
LEMMA ToolReturnsKeeps ==
  ASSUME LoopIInv, NEW id \in DOMAIN tools, NEW ok \in BOOLEAN, ToolReturns(id, ok)
  PROVE  LoopIInv'
<1>1. /\ tools[id].at = "running" /\ tools' = [tools EXCEPT ![id].at = IF ok THEN "ok" ELSE "failed"]
      /\ effects' = IF ok THEN Append(effects, id) ELSE effects
      /\ UNCHANGED <<loops, rows, session, answers, asked, turns>>
  BY DEF ToolReturns, bounds
<1>2. /\ DOMAIN tools \subseteq Nat \X Nat /\ \A i \in DOMAIN tools : tools[i] \in ToolRec
      /\ effects \in Seq(Nat \X Nat) /\ id \in Nat \X Nat
      /\ \A m \in DOMAIN effects : effects[m] \in DOMAIN tools
  BY DEF LoopIInv, Types, ToSet
<1>3. /\ DOMAIN tools' = DOMAIN tools
      /\ tools'[id] = [tools[id] EXCEPT !.at = IF ok THEN "ok" ELSE "failed"]
      /\ \A i \in DOMAIN tools : i # id => tools'[i] = tools[i]
  BY <1>1
<1>4. /\ tools'[id] \in ToolRec /\ tools'[id].by = tools[id].by /\ tools'[id].waited = tools[id].waited
      /\ tools'[id].at = IF ok THEN "ok" ELSE "failed"
  BY <1>2, <1>3 DEF ToolRec
<1>5. \A i \in DOMAIN tools : tools'[i].by = tools[i].by /\ tools'[i].waited = tools[i].waited
  BY <1>3, <1>4
<1>6. /\ effects' \in Seq(Nat \X Nat) /\ (ok => id \in ToSet(effects'))
      /\ \A i \in ToSet(effects) : i \in ToSet(effects')
      /\ \A i \in ToSet(effects') : i = id \/ i \in ToSet(effects)
  <2>1. CASE ~ok
    BY <1>1, <1>2, <2>1
  <2>2. CASE ok
    <3>1. effects' = Append(effects, id) /\ effects' \in Seq(Nat \X Nat)
      BY <1>1, <1>2, <2>2
    <3>2. /\ DOMAIN effects' = 1..(Len(effects) + 1) /\ DOMAIN effects = 1..Len(effects) /\ Len(effects) \in Nat
          /\ \A m \in 1..Len(effects) : effects'[m] = effects[m]
          /\ effects'[Len(effects) + 1] = id
      BY <1>2, <3>1
    <3>3. \A m \in 1..(Len(effects) + 1) : m \in 1..Len(effects) \/ m = Len(effects) + 1
      BY <3>2
    <3>4. \A m \in 1..Len(effects) : m \in 1..(Len(effects) + 1)
      BY <3>2
    <3>5. Len(effects) + 1 \in 1..(Len(effects) + 1)
      BY <3>2
    <3> QED
      BY <3>1, <3>2, <3>3, <3>4, <3>5 DEF ToSet
  <2> QED
    BY <2>1, <2>2
<1>7. Types'
  <2>1. \A i \in DOMAIN tools' : tools'[i] \in ToolRec
    BY <1>2, <1>3, <1>4
  <2>2. ToSet(effects') \subseteq DOMAIN tools'
    BY <1>3, <1>6 DEF LoopIInv, Types
  <2>3. /\ DOMAIN loops' = Loops /\ loops' = [l \in Loops |-> loops'[l]] /\ rows' \in Seq(Message)
        /\ answers' \in 0..asked' /\ asked' \in 0..MaxCalls /\ turns' \in 0..MaxTurns
    BY <1>1 DEF LoopIInv, Types
  <2>4. \A l \in Loops : LoopOK(l, loops'[l], answers')
    BY <1>1, LoopFacts
  <2>5. DOMAIN tools' \subseteq Nat \X Nat
    BY <1>2, <1>3
  <2> QED
    BY <1>6, <2>1, <2>2, <2>3, <2>4, <2>5 DEF Types
<1>8. AnswersApart'
  BY <1>1, <1>3, <1>5 DEF LoopIInv, AnswersApart
<1>9. CallsInTurn'
  <2>1. ASSUME NEW l \in Loops PROVE InTurn(l, loops[l], tools')
    <3>1. InTurn(l, loops[l], tools)
      BY LoopFacts
    <3>2. \A i \in DOMAIN tools : tools'[i].at = "running" => tools[i].at = "running"
      BY <1>3, <1>4
    <3> QED
      BY <1>3, <1>5, <3>1, <3>2 DEF InTurn
  <2>2. \A i \in DOMAIN tools' : tools'[i].at = "ok" => i \in ToSet(effects')
    BY <1>3, <1>4, <1>6 DEF LoopIInv, CallsInTurn
  <2> QED
    BY <1>1, <2>1, <2>2 DEF CallsInTurn
<1>10. AllTrue'
  <2>1. \A msgs : TrueOf(msgs, effects) => TrueOf(msgs, effects')
    BY <1>6 DEF TrueOf
  <2> QED
    BY <1>1, <2>1 DEF LoopIInv, AllTrue
<1>11. EffectsInOrder'
  <2>1. CASE ~ok
    <3>1. effects' = effects
      BY <1>1, <2>1
    <3> QED
      BY <1>2, <1>5, <3>1 DEF LoopIInv, EffectsInOrder
  <2>2. CASE ok
    <3>1. effects' = Append(effects, id)
      BY <1>1, <2>2
    <3>2. /\ DOMAIN effects' = 1..(Len(effects) + 1) /\ DOMAIN effects = 1..Len(effects) /\ Len(effects) \in Nat
          /\ \A m \in 1..Len(effects) : effects'[m] = effects[m]
          /\ effects'[Len(effects) + 1] = id
      BY <1>2, <3>1
    <3>3. ASSUME NEW b \in DOMAIN tools, tools[id].by = tools[b].by, tools[id].waited
          PROVE  ~Before(id, b)
      <4>1. tools[id].by \in Loops
        BY <1>2 DEF ToolRec
      <4>2. InTurn(tools[id].by, loops[tools[id].by], tools)
        BY <4>1, LoopFacts
      <4>3. b = id \/ Before(b, id)
        BY <1>1, <3>3, <4>2 DEF InTurn
      <4>4. id[1] \in Nat /\ id[2] \in Nat /\ b[1] \in Nat /\ b[2] \in Nat
        BY <1>2
      <4> QED
        BY <4>3, <4>4 DEF Before
    <3>4. SUFFICES ASSUME NEW m \in DOMAIN effects', NEW n \in DOMAIN effects',
                          tools'[effects'[m]].by = tools'[effects'[n]].by, tools'[effects'[m]].waited,
                          Before(effects'[m], effects'[n])
                   PROVE  m < n
      BY DEF EffectsInOrder, Before
    <3>5. /\ m \in 1..Len(effects) \/ m = Len(effects) + 1
          /\ n \in 1..Len(effects) \/ n = Len(effects) + 1
      BY <3>2
    <3>6. CASE m = Len(effects) + 1
      <4>1. effects'[m] = id /\ effects'[n] \in DOMAIN tools
        BY <1>2, <3>2, <3>5, <3>6
      <4> QED
        BY <1>5, <3>3, <3>4, <4>1
    <3>7. CASE m \in 1..Len(effects) /\ n = Len(effects) + 1
      BY <3>2, <3>7
    <3>8. CASE m \in 1..Len(effects) /\ n \in 1..Len(effects)
      <4>1. /\ effects'[m] = effects[m] /\ effects'[n] = effects[n]
            /\ effects[m] \in DOMAIN tools /\ effects[n] \in DOMAIN tools
        BY <1>2, <3>2, <3>8
      <4> QED
        BY <1>5, <3>2, <3>4, <3>8, <4>1 DEF LoopIInv, EffectsInOrder, Before
    <3> QED
      BY <3>5, <3>6, <3>7, <3>8
  <2> QED
    BY <2>1, <2>2
<1>12. SessionIInv'
  BY <1>1 DEF LoopIInv, SessionIInv, Streaming
<1> QED
  BY <1>7, <1>8, <1>9, <1>10, <1>11, <1>12 DEF LoopIInv

LEMMA CancelKeeps ==
  ASSUME LoopIInv, NEW l \in Loops, Cancel(l)
  PROVE  LoopIInv'
<1> DEFINE r == [loops[l] EXCEPT !.cancelled = TRUE]
<1>1. loops' = [loops EXCEPT ![l] = r] /\ UNCHANGED <<rows, tools, effects, session, answers, asked, turns>>
  BY DEF Cancel, bounds
<1>2. /\ r \in LoopRec /\ r.pc = loops[l].pc /\ r.msgs = loops[l].msgs /\ r.answer = loops[l].answer
      /\ r.calls = loops[l].calls /\ r.call = loops[l].call /\ r.iter = loops[l].iter
      /\ r.tries = loops[l].tries /\ r.cont = loops[l].cont
  BY LoopFacts DEF LoopRec
<1> HIDE DEF r
<1>3. LoopOK(l, r, answers')
  BY <1>1, <1>2, LoopFacts DEF LoopOK
<1>4. InTurn(l, r, tools') /\ TrueOf(r.msgs, effects) /\ LessWaited
  BY <1>1, <1>2, LoopFacts DEF InTurn, LessWaited, LoopIInv, Types
<1>5. MovesTo(l, r, tools')
  BY <1>1, <1>2, <1>3, <1>4 DEF MovesTo
<1>6. answers' \in 0..asked' /\ answers' >= answers /\ asked' \in 0..MaxCalls
  BY <1>1, ToolLoopAssumption DEF LoopIInv, Types
<1>7. Types' /\ AnswersApart' /\ CallsInTurn' /\ AllTrue' /\ EffectsInOrder'
  BY <1>1, <1>4, <1>5, <1>6, LoopMoves, LoopFacts
<1>8. SessionIInv'
  <2>1. \A c \in Chats : loops'[c].pc = loops[c].pc
    BY <1>1, <1>2, LoopFacts DEF Loops
  <2>2. Streaming' = Streaming
    BY <2>1 DEF Streaming
  <2> QED
    BY <1>1, <2>1, <2>2 DEF LoopIInv, SessionIInv
<1> QED
  BY <1>7, <1>8 DEF LoopIInv

\* The steps of the handler on the session alone.
LEMMA OnlySession ==
  ASSUME LoopIInv, UNCHANGED <<loops, rows, tools, effects, answers, asked, turns>>, SessionIInv'
  PROVE  LoopIInv'
  BY DEF LoopIInv, Types, AnswersApart, CallsInTurn, AllTrue, EffectsInOrder

LEMMA CleanupKeeps ==
  ASSUME LoopIInv, Cleanup
  PROVE  LoopIInv'
<1>1. /\ session.there /\ Unasked /\ session.inUse = 0
      /\ session' = [there |-> FALSE, inUse |-> 0]
      /\ UNCHANGED <<loops, rows, tools, effects, answers, asked, turns>>
  BY DEF Cleanup, NoSession, bounds
<1>2. Streaming = {} /\ \A c \in Chats : loops[c].pc # "entered"
  BY <1>1, StreamsFinite, FS_EmptySet DEF LoopIInv, SessionIInv, Unasked
<1>3. Streaming' = {} /\ Cardinality({}) = 0
  BY <1>1, <1>2, FS_EmptySet DEF Streaming
<1>4. SessionIInv'
  BY <1>1, <1>2, <1>3 DEF SessionIInv
<1> QED
  BY <1>1, <1>4, OnlySession

\* After a crash no loop runs, and no tool.
LEMMA CrashKeeps ==
  ASSUME LoopIInv, Crash
  PROVE  LoopIInv'
<1> DEFINE killed(id) == [tools[id] EXCEPT !.at = IF tools[id].at = "running" THEN "failed" ELSE tools[id].at]
<1>1. /\ loops' = [l \in Loops |-> Idle] /\ session' = [there |-> FALSE, inUse |-> 0]
      /\ tools' = [id \in DOMAIN tools |-> killed(id)]
      /\ UNCHANGED <<rows, effects, answers, asked, turns>>
  BY DEF Crash, NoSession, bounds
<1>2. \A l \in Loops : LoopOK(l, Idle, answers)
  BY IdleOK, LoopFacts
<1>3. Idle.pc = "idle" /\ Idle.answer = 0 /\ Idle.msgs = <<>>
  BY DEF Idle
<1>4. DOMAIN tools' = DOMAIN tools /\ \A id \in DOMAIN tools :
          /\ tools'[id] \in ToolRec /\ tools'[id].by = tools[id].by /\ tools'[id].waited = tools[id].waited
          /\ tools'[id].at # "running" /\ (tools'[id].at = "ok" => tools[id].at = "ok")
  <2>1. \A id \in DOMAIN tools : tools[id] \in ToolRec /\ tools'[id] = killed(id)
    BY <1>1 DEF LoopIInv, Types
  <2> QED
    BY <1>1, <2>1 DEF ToolRec
<1>5. Types'
  BY <1>1, <1>2, <1>4 DEF LoopIInv, Types
<1>6. SessionIInv'
  <2>1. Streaming' = {} /\ \A c \in Chats : loops'[c].pc = "idle"
    BY <1>1, <1>3 DEF Streaming, Loops
  <2>2. Cardinality({}) = 0
    BY FS_EmptySet
  <2> QED
    BY <1>1, <2>1, <2>2 DEF SessionIInv
<1> HIDE DEF killed
<1>7. AnswersApart' /\ CallsInTurn'
  <2>1. \A l \in Loops : loops'[l].pc = "idle" /\ loops'[l].answer = 0
    BY <1>1, <1>3
  <2>2. AnswersApart'
    BY <1>1, <1>4, <2>1 DEF LoopIInv, AnswersApart
  <2>3. \A l \in Loops : InTurn(l, loops'[l], tools')
    BY <1>4, <2>1 DEF InTurn
  <2>4. \A id \in DOMAIN tools : tools'[id].at = "ok" => id \in ToSet(effects)
    BY <1>4 DEF LoopIInv, CallsInTurn
  <2> QED
    BY <1>1, <1>4, <2>2, <2>3, <2>4 DEF CallsInTurn
<1>8. AllTrue'
  <2>1. TrueOf(<<>>, effects)
    BY DEF TrueOf
  <2> QED
    BY <1>1, <1>3, <2>1 DEF LoopIInv, AllTrue
<1>9. EffectsInOrder'
  <2>1. \A m \in DOMAIN effects : effects[m] \in DOMAIN tools
    BY DEF LoopIInv, Types, ToSet
  <2> QED
    BY <1>1, <1>4, <2>1 DEF LoopIInv, EffectsInOrder
<1> QED
  BY <1>5, <1>6, <1>7, <1>8, <1>9 DEF LoopIInv

LEMMA StepKeeps ==
  ASSUME LoopIInv, [Next]_vars
  PROVE  LoopIInv'
<1>1. CASE UNCHANGED vars
  <2>1. UNCHANGED <<loops, rows, tools, effects, answers, asked, turns, session>>
    BY <1>1 DEF vars
  <2>2. SessionIInv'
    BY <2>1 DEF LoopIInv, SessionIInv, Streaming
  <2> QED
    BY <2>1, <2>2, OnlySession
<1>2. ASSUME NEW l \in Loops, LoopStep(l) PROVE LoopIInv'
  BY <1>2, MarkInUseKeeps, SaveUserMessageKeeps, LoadHistoryKeeps, EndingKeeps, LeaveKeeps, AnswerCallsKeeps,
     AnswerEndsKeeps, AnswerCutOffKeeps, SaveAssistantKeeps, CallFailsKeeps, RefuseCallKeeps, ExecuteKeeps,
     TakeResultKeeps, TimeOutKeeps, SaveResultKeeps DEF LoopStep
<1> QED
  BY <1>1, <1>2, StartBrainKeeps, HandleStreamKeeps, CancelKeeps, ToolReturnsKeeps, CleanupKeeps, CrashKeeps DEF Next

\* What is lost is of an answer that was given.
LEMMA PastKept ==
  ASSUME LoopIInv, PastOK, [Next]_vars
  PROVE  PastOK'
<1>0. MaxTroubles \in Nat /\ MaxCalls \in Nat
  BY ToolLoopAssumption
<1>1. asked \in Nat /\ answers \in Nat /\ \A l \in Loops : loops[l].answer \in 0..answers
  <2>1. asked \in Nat /\ answers \in Nat
    BY <1>0 DEF LoopIInv, Types
  <2> QED
    BY <2>1 DEF LoopIInv, Types, LoopOK, LoopRec
<1>2. ASSUME answers' = answers \/ answers' = answers + 1, UNCHANGED <<broken, troubles>> PROVE PastOK'
  BY <1>1, <1>2 DEF PastOK
<1>3. ASSUME NEW lost \in SUBSET (0..answers), Trouble, broken' = broken \cup lost, answers' = answers PROVE PastOK'
  BY <1>0, <1>1, <1>3 DEF PastOK, Trouble
<1>4. ASSUME NEW c \in Loops, SaveUserMessage(c) \/ SaveAssistant(c) \/ SaveResult(c) PROVE PastOK'
  <2>1. answers' = answers /\ {loops[c].answer} \in SUBSET (0..answers) /\ {} \in SUBSET (0..answers)
    BY <1>1, <1>4 DEF SaveUserMessage, SaveAssistant, SaveResult, bounds
  <2>2. \/ UNCHANGED <<broken, troubles>>
        \/ Trouble /\ broken' = broken \cup {}
        \/ Trouble /\ broken' = broken \cup {loops[c].answer}
    BY <1>4 DEF SaveUserMessage, SaveAssistant, SaveResult, Save, Fine, Lost
  <2> QED
    BY <1>2, <1>3, <2>1, <2>2
<1>5. CASE Crash
  <2> DEFINE lost == {loops[c].answer : c \in MidAnswer}
  <2>1. lost \in SUBSET (0..answers)
    BY <1>1 DEF MidAnswer, Loops
  <2>2. Trouble /\ broken' = broken \cup lost /\ answers' = answers
    BY <1>5 DEF Crash, bounds
  <2> HIDE DEF lost
  <2> QED
    BY <1>3, <2>1, <2>2
<1>6. ASSUME NEW l \in Loops, LoopStep(l) PROVE PastOK'
  <2>1. CASE SaveUserMessage(l) \/ SaveAssistant(l) \/ SaveResult(l)
    BY <1>4, <2>1
  <2>2. CASE \E k \in 1..MaxCalls : AnswerCalls(l, k)
    BY <1>2, <2>2 DEF AnswerCalls, past
  <2>3. CASE \E transient \in BOOLEAN : CallFails(l, transient)
    BY <1>2, <2>3 DEF CallFails, bounds, past
  <2>4. CASE \/ MarkInUse(l) \/ LoadHistory(l) \/ NoProvider(l) \/ Leave(l) \/ AnswerEnds(l) \/ AnswerCutOff(l)
             \/ StreamFails(l) \/ RefuseCall(l) \/ Execute(l) \/ TakeResult(l) \/ TimeOut(l)
    BY <1>2, <2>4
    DEF MarkInUse, LoadHistory, NoProvider, Leave, AnswerEnds, AnswerCutOff, StreamFails, RefuseCall, Execute,
        TakeResult, TimeOut, bounds, past
  <2> QED
    BY <1>6, <2>1, <2>2, <2>3, <2>4 DEF LoopStep
<1>7. ASSUME NEW l \in Loops, StartBrain(l) \/ HandleStream(l) \/ Cancel(l) PROVE PastOK'
  BY <1>2, <1>7 DEF StartBrain, HandleStream, Cancel, bounds, past
<1>8. ASSUME NEW id, NEW ok, ToolReturns(id, ok) PROVE PastOK'
  BY <1>2, <1>8 DEF ToolReturns, bounds, past
<1>9. CASE Cleanup \/ UNCHANGED vars
  BY <1>2, <1>9 DEF Cleanup, bounds, past, vars
<1> QED
  BY <1>5, <1>6, <1>7, <1>8, <1>9 DEF Next

--------------------------------------------------------------------------------
(* Theorems *)

\* The inductive invariant: an answer is of one loop, a loop is at its last call, and a
\* call that was said to succeed has taken effect (tools/executor.go Execute).
THEOREM LoopInvariant == Spec => [](LoopIInv /\ PastOK)
<1>1. Init => PastOK
  BY ToolLoopAssumption DEF Init, PastOK
<1>2. LoopIInv /\ PastOK /\ [Next]_vars => (LoopIInv /\ PastOK)'
  BY StepKeeps, PastKept
<1> QED
  BY InitInv, <1>1, <1>2, PTL DEF Spec

\* What the model is told of its calls is what they did, in the order it made them,
\* however many loops run tools and whatever times out, and every loop keeps to its
\* bounds (pipeline.go runToolLoop, session.go streamWithTools, executor.go Execute).
THEOREM ToldWhatTheyDid == Spec => []LoopInv
<1>1. LoopIInv /\ PastOK => LoopInv
  <2> SUFFICES ASSUME LoopIInv, PastOK PROVE LoopInv
    OBVIOUS
  <2>1. TypeOK
    <3>1. ASSUME NEW l \in Loops
          PROVE  /\ loops[l].pc \in {"idle", "entered", "send", "load", "llm", "save", "call", "wait", "result", "leave"}
                 /\ loops[l].msgs \in Seq(Message)
                 /\ loops[l].pc = "llm" => /\ loops[l].iter < Iterations(l)
                                           /\ loops[l].tries < MaxLLMRetries
                                           /\ loops[l].cont < MaxContinuations
                 /\ loops[l].pc \in {"call", "wait", "result"} => loops[l].call \in 1..loops[l].calls
      BY LoopFacts DEF LoopOK, LoopRec
    <3>2. \A id \in DOMAIN tools : tools[id].at \in {"running", "ok", "failed"}
      BY DEF LoopIInv, Types, ToolRec
    <3>3. session.inUse \in 0..Cardinality(Chats)
      BY StreamsFinite DEF LoopIInv, SessionIInv
    <3> QED
      BY <3>1, <3>2, <3>3 DEF TypeOK, LoopIInv, Types, PastOK
  <2>2. SuccessIsTrue
    BY DEF LoopIInv, AllTrue, TrueOf, SuccessIsTrue
  <2> QED
    BY <2>1, <2>2 DEF LoopInv, LoopIInv
<1> QED
  BY LoopInvariant, <1>1, PTL

\* The session of a stream is in the handler for as long as the stream runs, and is
\* counted by as many as stream (chat/handler.go HandleStream, cleanupLoop).
THEOREM SessionsAreKept == Spec => []SessionKept
<1>1. LoopIInv => SessionKept
  BY DEF LoopIInv, SessionIInv, Streaming, SessionKept
<1> QED
  BY LoopInvariant, <1>1, PTL

--------------------------------------------------------------------------------
(* What the model is asked *)

\* After its first base messages, every call of a conversation has its result and every
\* result its call, but for those of the answers in B; of the message at o, the last
\* results may be missing.
ResultAt(msgs, i, j) ==
    i + j \in 1..Len(msgs) /\ msgs[i + j].role = "tool" /\ msgs[i + j].answer = msgs[i].answer /\ msgs[i + j].call = j
CallAt(msgs, base, i) ==
    LET at == i - msgs[i].call
    IN  at \in (base + 1)..Len(msgs) /\ msgs[at].answer = msgs[i].answer /\ msgs[at].calls >= msgs[i].call
Formed(msgs, base, o, B) ==
    \A i \in (base + 1)..Len(msgs) : msgs[i].answer \notin B =>
        /\ \A j \in 1..msgs[i].calls : (i = o /\ i + j > Len(msgs)) \/ ResultAt(msgs, i, j)
        /\ msgs[i].role = "tool" => CallAt(msgs, base, i)

\* The same of answer a, whose k calls have d results so far.
Open(msgs, base, a, k, d, B) ==
    LET o == Len(msgs) - d
    IN  o \in (base + 1)..Len(msgs) /\ msgs[o].answer = a /\ msgs[o].calls = k /\ Formed(msgs, base, o, B)

\* The message a stream is to save.
Says(r) ==
    /\ r.pc = "save" => Last(r.msgs) = Assistant(r.answer, r.calls)
    /\ r.pc = "result" => \E said \in {"ok", "failed"} : Last(r.msgs) = Result(r.answer, r.call, said)

\* The conversation of a loop, from its message base on, at each of its steps.
Calling(r) == r.pc \in {"save", "call", "wait", "result"} /\ r.calls > 0
Told(r) == IF r.pc = "result" THEN r.call ELSE r.call - 1
Talk(r, base, B) ==
    r.pc \in {"llm", "save", "call", "wait", "result"} =>
        /\ base <= Len(r.msgs) /\ Says(r)
        /\ IF Calling(r) THEN Open(r.msgs, base, r.answer, r.calls, Told(r), B) ELSE Formed(r.msgs, base, 0, B)

\* The rows of a session whose streams come one at a time: they are complete, but for
\* the answer its stream is saving and those of which a row was lost.
Between == {"idle", "entered", "send", "load", "llm", "save", "leave"}
RowsFor(r, rs, B) ==
    IF r.pc \in Between \/ r.answer \in B THEN Formed(rs, 0, 0, B)
    ELSE Open(rs, 0, r.answer, r.calls, r.call - 1, B)
Shared(r, rs, B) == RowsFor(r, rs, B) /\ Talk(r, 0, B)

OneStream == clean => \A c, d \in Chats : loops[c].pc # "idle" /\ loops[d].pc # "idle" => c = d
RowsShared ==
    clean /\ Len(rows) <= HistoryLimit =>
        /\ (\A c \in Chats : loops[c].pc = "idle") => Formed(rows, 0, 0, broken)
        /\ \A c \in Chats : loops[c].pc # "idle" => Shared(loops[c], rows, broken)
TalkIInv == (\A l \in Loops : Talk(loops[l], loops[l].own, {})) /\ OneStream /\ RowsShared

\* Numbers of messages are numbers.
LEMMA MessageFacts ==
  ASSUME NEW m \in Message
  PROVE  m.calls \in Nat /\ m.call \in Nat
<1>0. MaxCalls \in Nat
  BY ToolLoopAssumption
<1>1. CASE m = User
  BY <1>1 DEF User
<1>2. CASE \E a \in 0..MaxCalls, k \in 0..MaxCalls : m = Assistant(a, k)
  BY <1>0, <1>2 DEF User, Assistant
<1>3. CASE \E a \in 1..MaxCalls, j \in 1..MaxCalls, said \in {"ok", "failed"} : m = Result(a, j, said)
  BY <1>0, <1>3 DEF User, Result
<1> QED
  BY <1>1, <1>2, <1>3 DEF Message

LEMMA AppendFacts ==
  ASSUME NEW msgs \in Seq(Message), NEW m \in Message, NEW u, u = Append(msgs, m)
  PROVE  /\ u \in Seq(Message) /\ Len(msgs) \in Nat /\ Len(u) = Len(msgs) + 1 /\ u[Len(msgs) + 1] = m
         /\ \A i \in 1..Len(msgs) : u[i] = msgs[i] /\ msgs[i] \in Message
  OBVIOUS

\* A message that is no result keeps a conversation complete; if it calls, it is open; so
\* does one of an answer that is lost.
LEMMA FormedAppend ==
  ASSUME NEW msgs \in Seq(Message), NEW base \in Nat, base <= Len(msgs), NEW B, Formed(msgs, base, 0, B),
         NEW m \in Message, NEW o \in Nat, o = 0 \/ o = Len(msgs) + 1,
         m.answer \in B \/ (m.role # "tool" /\ (m.calls = 0 \/ o = Len(msgs) + 1))
  PROVE  Formed(Append(msgs, m), base, o, B)
<1> DEFINE u == Append(msgs, m)
           n == Len(msgs)
<1>1. /\ u \in Seq(Message) /\ n \in Nat /\ Len(u) = n + 1 /\ u[n + 1] = m
      /\ \A i \in 1..n : u[i] = msgs[i] /\ msgs[i] \in Message
  BY AppendFacts
<1> HIDE DEF u, n
<1>2. ASSUME NEW i \in (base + 1)..n, u[i].answer \notin B
      PROVE  /\ \A j \in 1..u[i].calls : ResultAt(u, i, j)
             /\ u[i].role = "tool" => CallAt(u, base, i)
  <2>1. u[i] = msgs[i] /\ msgs[i].calls \in Nat /\ msgs[i].call \in Nat /\ i \in Nat \ {0}
    BY <1>1, MessageFacts
  <2>2. \A j \in 1..msgs[i].calls : ResultAt(msgs, i, j)
    BY <1>2, <2>1 DEF Formed, n
  <2>3. \A j \in 1..msgs[i].calls : ResultAt(u, i, j)
    <3> TAKE j \in 1..msgs[i].calls
    <3>1. ResultAt(msgs, i, j) /\ i + j \in 1..n
      BY <2>2 DEF ResultAt, n
    <3>2. u[i + j] = msgs[i + j] /\ i + j \in 1..Len(u)
      BY <1>1, <3>1
    <3> QED
      BY <2>1, <3>1, <3>2 DEF ResultAt
  <2>4. u[i].role = "tool" => CallAt(u, base, i)
    <3> HAVE u[i].role = "tool"
    <3> DEFINE at == i - msgs[i].call
    <3>1. at \in (base + 1)..n /\ msgs[at].answer = msgs[i].answer /\ msgs[at].calls >= msgs[i].call
      BY <1>2, <2>1 DEF Formed, CallAt, n
    <3>2. u[at] = msgs[at] /\ at \in (base + 1)..Len(u)
      BY <1>1, <2>1, <3>1
    <3> QED
      BY <2>1, <3>1, <3>2 DEF CallAt
  <2> QED
    BY <2>1, <2>3, <2>4
<1>3. u[n + 1].answer \notin B => /\ \A j \in 1..u[n + 1].calls : n + 1 = o /\ n + 1 + j > Len(u)
                                  /\ u[n + 1].role # "tool"
  BY <1>1, MessageFacts DEF n
<1>4. \A i \in (base + 1)..Len(u) : i \in (base + 1)..n \/ i = n + 1
  BY <1>1
<1>5. Formed(u, base, o, B)
  BY <1>2, <1>3, <1>4 DEF Formed
<1> QED
  BY <1>5 DEF u

\* The next result of the open answer.
LEMMA OpenAppend ==
  ASSUME NEW msgs \in Seq(Message), NEW base \in Nat, NEW a, NEW k \in Nat, NEW d \in Nat, d < k,
         NEW B, Open(msgs, base, a, k, d, B),
         NEW m \in Message, m.role = "tool", m.answer = a, m.call = d + 1, m.calls = 0
  PROVE  Open(Append(msgs, m), base, a, k, d + 1, B)
<1> DEFINE u == Append(msgs, m)
           n == Len(msgs)
           o == n - d
<1>1. /\ u \in Seq(Message) /\ n \in Nat /\ Len(u) = n + 1 /\ u[n + 1] = m
      /\ \A i \in 1..n : u[i] = msgs[i] /\ msgs[i] \in Message
  BY AppendFacts
<1>2. /\ o \in (base + 1)..n /\ msgs[o].answer = a /\ msgs[o].calls = k /\ Formed(msgs, base, o, B)
      /\ n = o + d /\ o \in Nat
  BY <1>1 DEF Open
<1> HIDE DEF u, n, o
<1>0. o \in 1..n /\ u[o] = msgs[o] /\ o \in (base + 1)..Len(u) /\ (n + 1) - (d + 1) = o
  <2>1. o \in 1..n /\ o \in (base + 1)..(n + 1) /\ (n + 1) - (d + 1) = o
    BY <1>1, <1>2
  <2> QED
    BY <1>1, <2>1
<1>3. ASSUME NEW i \in (base + 1)..n, u[i].answer \notin B
      PROVE  /\ \A j \in 1..u[i].calls : (i = o /\ i + j > Len(u)) \/ ResultAt(u, i, j)
             /\ u[i].role = "tool" => CallAt(u, base, i)
  <2>1. u[i] = msgs[i] /\ msgs[i].calls \in Nat /\ msgs[i].call \in Nat /\ i \in Nat \ {0}
    BY <1>1, MessageFacts
  <2>2. ASSUME NEW j \in 1..msgs[i].calls PROVE (i = o /\ i + j > Len(u)) \/ ResultAt(u, i, j)
    <3>1. (i = o /\ i + j > n) \/ ResultAt(msgs, i, j)
      BY <1>2, <1>3, <2>1, <2>2 DEF Formed, n
    <3>2. CASE ResultAt(msgs, i, j)
      <4>1. i + j \in 1..n
        BY <3>2 DEF ResultAt, n
      <4>2. u[i + j] = msgs[i + j] /\ i + j \in 1..Len(u)
        BY <1>1, <4>1
      <4> QED
        BY <2>1, <3>2, <4>2 DEF ResultAt
    <3>3. CASE i = o /\ i + j > n /\ ~(i + j > Len(u))
      <4>1. i + j = n + 1 /\ j = d + 1
        BY <1>1, <1>2, <2>1, <2>2, <3>3
      <4>2. u[i + j] = m /\ i + j \in 1..Len(u) /\ msgs[i].answer = a
        BY <1>1, <1>2, <3>3, <4>1
      <4> QED
        BY <2>1, <4>1, <4>2 DEF ResultAt
    <3> QED
      BY <3>1, <3>2, <3>3
  <2>3. u[i].role = "tool" => CallAt(u, base, i)
    <3> HAVE u[i].role = "tool"
    <3> DEFINE at == i - msgs[i].call
    <3>1. at \in (base + 1)..n /\ msgs[at].answer = msgs[i].answer /\ msgs[at].calls >= msgs[i].call
      BY <1>2, <1>3, <2>1 DEF Formed, CallAt, n
    <3>2. u[at] = msgs[at] /\ at \in (base + 1)..Len(u)
      <4>1. at \in 1..n /\ at \in (base + 1)..(n + 1)
        BY <1>1, <3>1
      <4> HIDE DEF at
      <4> QED
        BY <1>1, <4>1
    <3> QED
      BY <2>1, <3>1, <3>2 DEF CallAt
  <2> QED
    BY <2>1, <2>2, <2>3
<1>4. u[n + 1].calls = 0 /\ CallAt(u, base, n + 1)
  <2>1. (n + 1) - u[n + 1].call = o
    BY <1>0, <1>1
  <2>2. u[o].answer = u[n + 1].answer /\ u[o].calls >= u[n + 1].call
    BY <1>0, <1>1, <1>2
  <2> QED
    BY <1>0, <1>1, <2>1, <2>2 DEF CallAt
<1>5. \A i \in (base + 1)..Len(u) : i \in (base + 1)..n \/ i = n + 1
  BY <1>1
<1>6. Formed(u, base, o, B)
  BY <1>3, <1>4, <1>5 DEF Formed
<1>7. o \in (base + 1)..Len(u) /\ u[o].answer = a /\ u[o].calls = k /\ Len(u) - (d + 1) = o
  BY <1>0, <1>1, <1>2
<1>8. Open(u, base, a, k, d + 1, B)
  BY <1>6, <1>7 DEF Open
<1> QED
  BY <1>8 DEF u

\* With the last result the conversation is complete.
LEMMA OpenClosed ==
  ASSUME NEW msgs \in Seq(Message), NEW base \in Nat, NEW a, NEW k \in Nat, NEW B, Open(msgs, base, a, k, k, B)
  PROVE  Formed(msgs, base, 0, B)
<1> DEFINE o == Len(msgs) - k
<1>1. o \in (base + 1)..Len(msgs) /\ msgs[o].calls = k /\ Formed(msgs, base, o, B) /\ Len(msgs) \in Nat
  BY DEF Open
<1>2. \A j \in 1..k : ~(o + j > Len(msgs))
  BY <1>1
<1> HIDE DEF o
<1>3. \A i \in (base + 1)..Len(msgs) : msgs[i].answer \notin B => \A j \in 1..msgs[i].calls : ResultAt(msgs, i, j)
  BY <1>1, <1>2 DEF Formed
<1> QED
  BY <1>1, <1>3 DEF Formed

\* More answers may be lost, and one that is lost need not be complete.
LEMMA FormedMore ==
  ASSUME NEW msgs, NEW base, NEW o, NEW B, NEW C, B \subseteq C, Formed(msgs, base, o, B)
  PROVE  Formed(msgs, base, o, C)
  BY DEF Formed

LEMMA OpenBroken ==
  ASSUME NEW msgs, NEW base, NEW a, NEW k, NEW d, NEW B, NEW C, B \subseteq C, a \in C, Open(msgs, base, a, k, d, B)
  PROVE  Formed(msgs, base, 0, C)
<1> DEFINE o == Len(msgs) - d
<1>1. msgs[o].answer = a /\ Formed(msgs, base, o, B)
  BY DEF Open
<1> HIDE DEF o
<1> QED
  BY <1>1 DEF Formed

LEMMA TalkLess ==
  ASSUME NEW r, NEW base, NEW B, NEW C, B \subseteq C, Talk(r, base, B)
  PROVE  Talk(r, base, C)
<1>1. \A o : Formed(r.msgs, base, o, B) => Formed(r.msgs, base, o, C)
  BY FormedMore
<1>2. Open(r.msgs, base, r.answer, r.calls, Told(r), B) => Open(r.msgs, base, r.answer, r.calls, Told(r), C)
  BY <1>1 DEF Open
<1> QED
  BY <1>1, <1>2 DEF Talk

\* The rows of a stream that is lost at the answer it is at.
LEMMA RowsBroken ==
  ASSUME NEW r, NEW rs, NEW B, NEW C, B \subseteq C, r.answer \in C \/ r.pc \in Between, RowsFor(r, rs, B)
  PROVE  Formed(rs, 0, 0, C)
  BY FormedMore, OpenBroken DEF RowsFor

\* What is complete from base on is a conversation of its own.
LEMMA FormedIsWell ==
  ASSUME NEW msgs \in Seq(Message), NEW base \in Nat, base <= Len(msgs), NEW B, Formed(msgs, base, 0, B)
  PROVE  WellFormed(SubSeq(msgs, base + 1, Len(msgs)), B)
<1> DEFINE s == SubSeq(msgs, base + 1, Len(msgs))
           n == Len(msgs) - base
<1>1. Len(msgs) \in Nat /\ n \in Nat /\ \A i \in 1..Len(msgs) : msgs[i] \in Message
  OBVIOUS
<1>2. Len(s) = n /\ DOMAIN s = 1..n /\ \A i \in 1..n : s[i] = msgs[i + base]
  OBVIOUS
<1> HIDE DEF s
<1>3. ASSUME NEW i \in 1..n, s[i].answer \notin B
      PROVE  /\ \A j \in 1..s[i].calls :
                   i + j \in 1..n /\ s[i + j].role = "tool" /\ s[i + j].answer = s[i].answer /\ s[i + j].call = j
             /\ s[i].role = "tool" =>
                   LET at == i - s[i].call
                   IN  at \in 1..n /\ s[at].answer = s[i].answer /\ s[at].calls >= s[i].call
  <2>1. /\ i + base \in (base + 1)..Len(msgs) /\ s[i] = msgs[i + base] /\ i + base \in 1..Len(msgs)
        /\ i + base # 0
    BY <1>1, <1>2
  <2>2. msgs[i + base].calls \in Nat /\ msgs[i + base].call \in Nat
    BY <1>1, <2>1, MessageFacts
  <2>3. /\ \A j \in 1..msgs[i + base].calls : ResultAt(msgs, i + base, j)
        /\ msgs[i + base].role = "tool" => CallAt(msgs, base, i + base)
    BY <1>3, <2>1 DEF Formed
  <2>4. ASSUME NEW j \in 1..s[i].calls
        PROVE  i + j \in 1..n /\ s[i + j].role = "tool" /\ s[i + j].answer = s[i].answer /\ s[i + j].call = j
    <3>1. ResultAt(msgs, i + base, j)
      BY <2>1, <2>3, <2>4
    <3>2. j \in Nat \ {0} /\ (i + base) + j = (i + j) + base /\ i + j \in 1..n
      BY <1>1, <2>1, <2>2, <2>4, <3>1 DEF ResultAt
    <3>3. s[i + j] = msgs[(i + j) + base]
      BY <1>2, <3>2
    <3> QED
      BY <2>1, <3>1, <3>2, <3>3 DEF ResultAt
  <2>5. ASSUME s[i].role = "tool"
        PROVE  LET at == i - s[i].call
               IN  at \in 1..n /\ s[at].answer = s[i].answer /\ s[at].calls >= s[i].call
    <3> DEFINE at == i - s[i].call
    <3>1. CallAt(msgs, base, i + base)
      BY <2>1, <2>3, <2>5
    <3>2. (i + base) - msgs[i + base].call = at + base /\ at \in 1..n
      BY <1>1, <2>1, <2>2, <3>1 DEF CallAt
    <3>3. s[at] = msgs[at + base]
      BY <1>2, <3>2
    <3> QED
      BY <2>1, <3>1, <3>2, <3>3 DEF CallAt
  <2> QED
    BY <2>4, <2>5
<1>4. WellFormed(s, B)
  BY <1>2, <1>3 DEF WellFormed
<1> QED
  BY <1>4 DEF s

\* A step of loop l, with what is said after it.
LEMMA TalkMoves ==
  ASSUME LoopIInv, TalkIInv, NEW l \in Loops, NEW r, loops' = [loops EXCEPT ![l] = r], Talk(r, r.own, {}),
         l \in Brains => UNCHANGED <<rows, clean, broken>>,
         l \in Chats /\ clean' => clean /\ (loops[l].pc = "idle" => \A d \in Chats : loops[d].pc = "idle"),
         l \in Chats /\ clean' /\ Len(rows') <= HistoryLimit => Shared(r, rows', broken')
  PROVE  TalkIInv'
<1>1. /\ loops'[l] = r /\ \A m \in Loops : m # l => loops'[m] = loops[m]
      /\ \A c \in Chats : c \in Loops /\ c \notin Brains
  BY LoopFacts, ToolLoopAssumption DEF Loops
<1>2. \A m \in Loops : Talk(loops'[m], loops'[m].own, {})
  BY <1>1 DEF TalkIInv
<1>3. CASE l \in Brains
  <2>1. \A c \in Chats : loops'[c] = loops[c]
    BY <1>1, <1>3
  <2>2. OneStream'
    BY <1>3, <2>1 DEF TalkIInv, OneStream
  <2>3. RowsShared'
    BY <1>3, <2>1 DEF TalkIInv, RowsShared
  <2> QED
    BY <1>2, <2>2, <2>3 DEF TalkIInv
<1>4. CASE l \in Chats
  <2>1. ASSUME clean', NEW d \in Chats, d # l PROVE loops'[d].pc = "idle"
    <3>1. clean /\ (loops[l].pc = "idle" => loops[d].pc = "idle")
      BY <1>4, <2>1
    <3>2. loops[d].pc = "idle"
      BY <1>4, <2>1, <3>1 DEF TalkIInv, OneStream
    <3> QED
      BY <1>1, <2>1, <3>2
  <2>2. OneStream'
    BY <2>1 DEF OneStream
  <2>3. RowsShared'
    <3> SUFFICES ASSUME clean', Len(rows') <= HistoryLimit
                 PROVE  /\ (\A c \in Chats : loops'[c].pc = "idle") => Formed(rows', 0, 0, broken')
                        /\ \A c \in Chats : loops'[c].pc # "idle" => Shared(loops'[c], rows', broken')
      BY DEF RowsShared
    <3>1. Shared(r, rows', broken')
      BY <1>4
    <3>2. \A c \in Chats : loops'[c].pc # "idle" => Shared(loops'[c], rows', broken')
      BY <1>1, <2>1, <3>1
    <3>3. (\A c \in Chats : loops'[c].pc = "idle") => Formed(rows', 0, 0, broken')
      BY <1>1, <1>4, <3>1 DEF Shared, RowsFor, Between
    <3> QED
      BY <3>2, <3>3
  <2> QED
    BY <1>2, <2>2, <2>3 DEF TalkIInv
<1> QED
  BY <1>3, <1>4 DEF Loops

\* A step that changes no row.
LEMMA TalkGoesOn ==
  ASSUME LoopIInv, TalkIInv, NEW l \in Loops, NEW r, loops' = [loops EXCEPT ![l] = r], UNCHANGED <<rows, clean, broken>>,
         loops[l].pc # "idle", r.own = loops[l].own, \A base \in Nat : \A B : Talk(loops[l], base, B) => Talk(r, base, B),
         l \in Chats =>
            \/ loops[l].pc \in Between /\ r.pc \in Between
            \/ loops[l].pc \notin Between /\ r.pc \notin Between /\ r.answer = loops[l].answer
               /\ r.calls = loops[l].calls /\ r.call = loops[l].call
  PROVE  TalkIInv'
<1>1. loops[l].own \in Nat /\ Talk(loops[l], loops[l].own, {})
  BY LoopFacts DEF TalkIInv, LoopRec
<1>2. Talk(r, r.own, {})
  BY <1>1
<1>3. l \in Chats /\ clean /\ Len(rows) <= HistoryLimit => Shared(r, rows, broken)
  <2> HAVE l \in Chats /\ clean /\ Len(rows) <= HistoryLimit
  <2>1. Shared(loops[l], rows, broken)
    BY DEF TalkIInv, RowsShared
  <2>2. Talk(r, 0, broken)
    BY <2>1 DEF Shared
  <2> QED
    BY <2>1, <2>2 DEF Shared, RowsFor
<1> QED
  BY <1>2, <1>3, TalkMoves

\* What was said stays when only the step changes, or other numbers of the loop.
LEMMA TalkSame ==
  ASSUME NEW r, NEW s, s.msgs = r.msgs, s.answer = r.answer, s.calls = r.calls, s.call = r.call,
         \/ s.pc = r.pc
         \/ r.pc \in {"save", "call"} /\ s.pc \in {"call", "wait"} /\ r.calls > 0
         \/ s.pc \in {"idle", "entered", "send", "load", "leave"}
  PROVE  \A base \in Nat : \A B : Talk(r, base, B) => Talk(s, base, B)
<1> TAKE base \in Nat
<1> TAKE B
<1> HAVE Talk(r, base, B)
<1>1. CASE s.pc = r.pc
  <2>1. (Calling(s) <=> Calling(r)) /\ Told(s) = Told(r)
    BY <1>1 DEF Calling, Told
  <2> QED
    BY <1>1, <2>1 DEF Talk, Says
<1>2. CASE r.pc \in {"save", "call"} /\ s.pc \in {"call", "wait"} /\ r.calls > 0
  <2>1. Calling(s) /\ Calling(r) /\ Told(s) = Told(r)
    BY <1>2 DEF Calling, Told
  <2> QED
    BY <1>2, <2>1 DEF Talk, Says
<1>3. CASE s.pc \in {"idle", "entered", "send", "load", "leave"}
  BY <1>3 DEF Talk
<1> QED
  BY <1>1, <1>2, <1>3

\* An answer that calls.
LEMMA TalkAnswer ==
  ASSUME NEW r, NEW s, r.msgs \in Seq(Message), r.pc = "llm", NEW a \in 0..MaxCalls, NEW k \in 1..MaxCalls,
         s.msgs = Append(r.msgs, Assistant(a, k)), s.pc \in {"call", "save"}, s.answer = a, s.calls = k, s.call = 1
  PROVE  \A base \in Nat : \A B : Talk(r, base, B) => Talk(s, base, B)
<1> TAKE base \in Nat
<1> TAKE B
<1> HAVE Talk(r, base, B)
<1> DEFINE m == Assistant(a, k)
           n == Len(r.msgs)
<1>1. m \in Message /\ m.role = "assistant" /\ m.answer = a /\ m.calls = k
  <2>1. k \in 0..MaxCalls
    BY ToolLoopAssumption
  <2>2. Assistant(a, k) \in Message
    BY <2>1, AssistantSaysNothing
  <2> QED
    BY <2>2 DEF Assistant, User
<1> HIDE DEF m
<1>2. base <= n /\ Formed(r.msgs, base, 0, B) /\ n \in Nat
  BY DEF Talk, Calling
<1>3. Formed(s.msgs, base, n + 1, B)
  BY <1>1, <1>2, FormedAppend DEF m
<1>4. Len(s.msgs) = n + 1 /\ s.msgs[n + 1] = m
  BY <1>1, AppendFacts DEF m
<1> HIDE DEF n
<1>5. Calling(s) /\ Told(s) = 0
  BY DEF Calling, Told
<1>6. Len(s.msgs) - 0 = n + 1 /\ n + 1 \in (base + 1)..Len(s.msgs) /\ base <= Len(s.msgs)
  BY <1>2, <1>4
<1>7. Open(s.msgs, base, s.answer, s.calls, 0, B)
  BY <1>1, <1>3, <1>4, <1>6 DEF Open
<1>8. Says(s)
  BY <1>4 DEF Says, Last, m
<1> QED
  BY <1>5, <1>6, <1>7, <1>8 DEF Talk

\* A message that is neither a call nor a result.
LEMMA TalkMore ==
  ASSUME NEW msgs \in Seq(Message), NEW m \in Message, m.role # "tool", m.calls = 0, NEW base \in Nat,
         base <= Len(msgs), NEW B, Formed(msgs, base, 0, B)
  PROVE  base <= Len(Append(msgs, m)) /\ Formed(Append(msgs, m), base, 0, B) /\ Append(msgs, m) \in Seq(Message)
<1>1. Len(Append(msgs, m)) = Len(msgs) + 1 /\ Len(msgs) \in Nat /\ Append(msgs, m) \in Seq(Message)
  BY AppendFacts
<1> QED
  BY <1>1, FormedAppend

\* A result.
LEMMA TalkResult ==
  ASSUME NEW r \in LoopRec, r.pc \in {"call", "wait"}, r.answer \in 1..MaxCalls, r.calls <= MaxCalls,
         r.call \in 1..r.calls, NEW said \in {"ok", "failed"}, NEW base \in Nat, NEW B, Talk(r, base, B)
  PROVE  LET msgs == Append(r.msgs, Result(r.answer, r.call, said))
         IN  Open(msgs, base, r.answer, r.calls, r.call, B) /\ base <= Len(msgs)
<1> DEFINE m == Result(r.answer, r.call, said)
<1>0. r.calls \in Nat /\ r.call \in Nat /\ r.msgs \in Seq(Message) /\ MaxCalls \in Nat
  BY ToolLoopAssumption DEF LoopRec
<1>1. r.calls \in Nat /\ r.call \in Nat /\ r.call \in 1..MaxCalls /\ r.calls > 0 /\ r.msgs \in Seq(Message)
      /\ r.call - 1 \in Nat /\ r.call - 1 < r.calls /\ (r.call - 1) + 1 = r.call
  BY <1>0
<1>2. m \in Message /\ m.role = "tool" /\ m.answer = r.answer /\ m.call = r.call /\ m.calls = 0
  BY <1>1, ResultMessage
<1> HIDE DEF m
<1>3. Calling(r) /\ Told(r) = r.call - 1
  BY <1>1 DEF Calling, Told
<1>4. Open(r.msgs, base, r.answer, r.calls, r.call - 1, B) /\ base <= Len(r.msgs)
  BY <1>3 DEF Talk
<1>5. Open(Append(r.msgs, m), base, r.answer, r.calls, (r.call - 1) + 1, B)
  BY <1>1, <1>2, <1>4, OpenAppend
<1>6. Len(Append(r.msgs, m)) = Len(r.msgs) + 1 /\ Len(r.msgs) \in Nat
  BY <1>1, <1>2, AppendFacts
<1> QED
  BY <1>1, <1>4, <1>5, <1>6 DEF m

\* The step after a result.
LEMMA TalkAfterCall ==
  ASSUME NEW l \in Loops, NEW r \in LoopRec, NEW s, s = AfterCall(l, r), r.call \in 1..r.calls,
         r.iter < Iterations(l), r.cont < MaxContinuations
  PROVE  /\ s.pc \in {"idle", "leave", "call", "llm"} /\ (l \in Chats => s.pc # "idle")
         /\ s.pc \in {"call", "llm"} => s.msgs = r.msgs /\ s.own = r.own
         /\ \A base \in Nat : \A B : Open(r.msgs, base, r.answer, r.calls, r.call, B) /\ base <= Len(r.msgs) => Talk(s, base, B)
         /\ IF s.pc = "call" THEN s.answer = r.answer /\ s.calls = r.calls /\ s.call = r.call + 1
            ELSE r.call = r.calls
<1>1. r.calls \in Nat /\ r.call \in Nat /\ r.msgs \in Seq(Message)
  BY DEF LoopRec
<1>2. CASE r.call < r.calls
  <2>1. s = [r EXCEPT !.call = r.call + 1, !.pc = "call"]
    BY <1>2 DEF AfterCall
  <2>2. /\ s.call = r.call + 1 /\ s.pc = "call" /\ s.msgs = r.msgs /\ s.answer = r.answer
        /\ s.calls = r.calls /\ s.own = r.own
    BY <2>1 DEF LoopRec
  <2>3. Calling(s) /\ Told(s) = r.call
    BY <1>1, <1>2, <2>2 DEF Calling, Told
  <2> QED
    BY <2>2, <2>3 DEF Talk, Says
<1>3. CASE ~(r.call < r.calls)
  <2> DEFINE q == [r EXCEPT !.answer = 0, !.calls = 0, !.call = 0]
  <2>1. s = NextIteration(l, q)
    BY <1>3 DEF AfterCall
  <2>2. /\ q \in LoopRec /\ q.answer = 0 /\ q.calls = 0 /\ q.msgs = r.msgs /\ q.iter = r.iter /\ q.cont = r.cont
        /\ q.own = r.own
    BY DEF LoopRec
  <2> HIDE DEF q
  <2>3. /\ s.pc \in {"idle", "leave", "llm"} /\ (l \in Chats => s.pc \in {"leave", "llm"})
        /\ s.pc = "llm" => s.msgs = q.msgs /\ s.own = q.own
    <3>1. 0 \in Nat
      OBVIOUS
    <3> QED
      BY <2>1, <2>2, <3>1, NextIterationOK
  <2>4. r.call = r.calls
    BY <1>1, <1>3
  <2>5. \A base \in Nat : \A B : Open(r.msgs, base, r.answer, r.calls, r.call, B) => Formed(r.msgs, base, 0, B)
    BY <1>1, <2>4, OpenClosed
  <2>6. ~Calling(s)
    BY <2>3 DEF Calling
  <2> QED
    BY <2>2, <2>3, <2>4, <2>5, <2>6 DEF Talk, Says
<1> QED
  BY <1>2, <1>3

\* The steps by which a turn begins.
LEMMA BeginsTalk ==
  ASSUME LoopIInv, TalkIInv, NEW l \in Loops,
         StartBrain(l) \/ HandleStream(l) \/ MarkInUse(l) \/ SaveUserMessage(l) \/ LoadHistory(l)
  PROVE  TalkIInv'
<1>1. l \in Brains <=> l \notin Chats
  BY ToolLoopAssumption DEF Loops
<1>2. CASE StartBrain(l)
  <2> DEFINE r == [Idle EXCEPT !.pc = "llm", !.msgs = <<User>>]
  <2>1. loops' = [loops EXCEPT ![l] = r] /\ l \in Brains /\ UNCHANGED <<rows, clean, broken>>
    BY <1>2 DEF StartBrain, past
  <2>2. r.pc = "llm" /\ r.msgs = <<User>> /\ r.own = 0
    BY BrainStart
  <2> HIDE DEF r
  <2>3. Len(<<User>>) = 1 /\ <<User>>[1] = User /\ User.calls = 0 /\ User.role = "user"
    BY UserMessage
  <2>4. Talk(r, 0, {})
    BY <2>2, <2>3 DEF Talk, Calling, Formed, Says
  <2> QED
    BY <1>1, <2>1, <2>2, <2>4, TalkMoves
<1>3. CASE HandleStream(l)
  <2> DEFINE r == [loops[l] EXCEPT !.pc = "entered"]
  <2>1. /\ l \in Chats /\ loops[l].pc = "idle" /\ UNCHANGED <<rows, broken>> /\ Goto(l, "entered")
        /\ clean' = (clean /\ \A o \in Chats : loops[o].pc = "idle")
    BY <1>3 DEF HandleStream
  <2>2. loops' = [loops EXCEPT ![l] = r] /\ r.pc = "entered"
    BY <2>1, GoesTo
  <2> HIDE DEF r
  <2>3. clean' /\ Len(rows') <= HistoryLimit => Shared(r, rows', broken')
    BY <2>1, <2>2 DEF TalkIInv, RowsShared, Shared, Talk, RowsFor, Between
  <2> QED
    BY <1>1, <2>1, <2>2, <2>3, TalkMoves DEF Talk
<1>4. CASE MarkInUse(l)
  <2> DEFINE r == [loops[l] EXCEPT !.pc = "send"]
  <2>1. loops[l].pc = "entered" /\ UNCHANGED <<rows, clean, broken>> /\ Goto(l, "send")
    BY <1>4 DEF MarkInUse, past
  <2>2. loops' = [loops EXCEPT ![l] = r] /\ r.pc = "send" /\ r.own = loops[l].own
    BY <2>1, GoesTo
  <2> HIDE DEF r
  <2> QED
    BY <2>1, <2>2, TalkGoesOn DEF Talk, Between
<1>5. CASE SaveUserMessage(l)
  <2>1. /\ loops[l].pc = "send" /\ UNCHANGED <<clean, broken>>
        /\ (rows' = Append(rows, User) /\ Goto(l, "load")) \/ (End(l) /\ UNCHANGED rows)
    BY <1>5 DEF SaveUserMessage, Fine
  <2>2. l \in Chats
    BY <1>1, <2>1, LoopFacts DEF LoopOK
  <2>3. ASSUME clean, Len(rows) <= HistoryLimit PROVE Formed(rows, 0, 0, broken)
    BY <2>1, <2>2, <2>3 DEF TalkIInv, RowsShared, Shared, RowsFor, Between
  <2>4. CASE rows' = Append(rows, User) /\ Goto(l, "load")
    <3> DEFINE r == [loops[l] EXCEPT !.pc = "load"]
    <3>1. loops' = [loops EXCEPT ![l] = r] /\ r.pc = "load"
      BY <2>4, GoesTo
    <3> HIDE DEF r
    <3>2. rows \in Seq(Message) /\ User \in Message /\ User.role # "tool" /\ User.calls = 0
      BY UserMessage, LoopFacts
    <3>3. clean' /\ Len(rows') <= HistoryLimit => Shared(r, rows', broken')
      <4> HAVE clean' /\ Len(rows') <= HistoryLimit
      <4>1. Len(rows) <= HistoryLimit /\ 0 <= Len(rows)
        BY <2>4, <3>2, ToolLoopAssumption
      <4>2. Formed(rows', 0, 0, broken)
        BY <2>1, <2>3, <2>4, <3>2, <4>1, TalkMore
      <4> QED
        BY <2>1, <3>1, <4>2 DEF Shared, Talk, RowsFor, Between
    <3> QED
      BY <1>1, <2>1, <2>2, <3>1, <3>3, TalkMoves DEF Talk
  <2>5. CASE End(l) /\ UNCHANGED rows
    <3> DEFINE r == Ended(l)
    <3>1. loops' = [loops EXCEPT ![l] = r] /\ r.pc = "leave"
      BY <1>1, <2>2, <2>5, IdleOK, LoopFacts DEF End
    <3> HIDE DEF r
    <3>2. clean' /\ Len(rows') <= HistoryLimit => Shared(r, rows', broken')
      BY <2>1, <2>3, <2>5, <3>1 DEF Shared, Talk, RowsFor, Between
    <3> QED
      BY <1>1, <2>1, <2>2, <3>1, <3>2, TalkMoves DEF Talk
  <2> QED
    BY <2>1, <2>4, <2>5
<1>6. CASE LoadHistory(l)
  <2> DEFINE from == IF Len(rows) > HistoryLimit THEN Len(rows) - HistoryLimit ELSE 0
             history == SubSeq(rows, from + 1, Len(rows))
             r == [loops[l] EXCEPT !.msgs = history, !.own = Len(history), !.pc = "llm"]
  <2>1. loops[l].pc = "load" /\ UNCHANGED <<rows, clean, broken>> /\ loops[l] \in LoopRec
        /\ loops' = [loops EXCEPT ![l] = r] /\ l \in Chats
    BY <1>1, <1>6, LoopFacts DEF LoadHistory, LoopRec, LoopOK, past
  <2>2. from \in 0..Len(rows) /\ Len(rows) \in Nat /\ rows \in Seq(Message)
    BY LoopFacts, ToolLoopAssumption
  <2>3. Len(rows) <= HistoryLimit => from = 0
    BY <2>2, ToolLoopAssumption
  <2> HIDE DEF from
  <2>4. history \in Seq(Message) /\ Len(history) \in Nat /\ (from = 0 => history = rows)
    <3>1. history \in Seq(Message) /\ Len(history) \in Nat
      BY <2>2
    <3>2. ASSUME from = 0 PROVE history = rows
      <4>1. Len(history) = Len(rows) /\ \A i \in 1..Len(rows) : history[i] = rows[i]
        BY <2>2, <3>2
      <4> HIDE DEF history
      <4> QED
        BY <2>2, <3>1, <4>1, SeqEqual
    <3> QED
      BY <3>1, <3>2
  <2> HIDE DEF history
  <2>5. r.msgs = history /\ r.pc = "llm" /\ r.own = Len(history) /\ r.calls = loops[l].calls
    BY <2>1, <2>4 DEF LoopRec
  <2> HIDE DEF r
  <2>6. ~Calling(r)
    BY <2>5 DEF Calling
  <2>7. Talk(r, r.own, {})
    <3>1. (Len(history) + 1)..Len(history) = {}
      BY <2>4
    <3>2. Formed(history, Len(history), 0, {}) /\ Len(history) <= Len(history)
      BY <2>4, <3>1 DEF Formed
    <3> QED
      BY <2>5, <2>6, <3>2 DEF Talk, Says
  <2>8. clean /\ Len(rows) <= HistoryLimit => Shared(r, rows, broken)
    <3> HAVE clean /\ Len(rows) <= HistoryLimit
    <3>1. Formed(rows, 0, 0, broken)
      BY <2>1 DEF TalkIInv, RowsShared, Shared, RowsFor, Between
    <3>2. Talk(r, 0, broken)
      BY <2>2, <2>3, <2>4, <2>5, <2>6, <3>1 DEF Talk, Says
    <3> QED
      BY <2>5, <3>1, <3>2 DEF Shared, RowsFor, Between
  <2> QED
    BY <1>1, <2>1, <2>7, <2>8, TalkMoves
<1> QED
  BY <1>2, <1>3, <1>4, <1>5, <1>6

\* A loop ends: a brain anywhere, a stream when all it has said is complete.
LEMMA EndsTalk ==
  ASSUME LoopIInv, TalkIInv, NEW l \in Loops, NEW r, loops' = [loops EXCEPT ![l] = r], r.pc \in {"idle", "leave"},
         clean' = clean, l \in Brains => UNCHANGED <<rows, broken>>,
         l \in Chats => loops[l].pc # "idle" /\ (clean /\ Len(rows') <= HistoryLimit => Formed(rows', 0, 0, broken'))
  PROVE  TalkIInv'
<1>1. Talk(r, r.own, {}) /\ Talk(r, 0, broken')
  BY DEF Talk
<1>2. l \in Chats /\ clean /\ Len(rows') <= HistoryLimit => Shared(r, rows', broken')
  BY <1>1 DEF Shared, RowsFor, Between
<1> QED
  BY <1>1, <1>2, TalkMoves

LEMMA EndingTalk ==
  ASSUME LoopIInv, TalkIInv, NEW l \in Loops, NoProvider(l) \/ StreamFails(l) \/ Leave(l)
  PROVE  TalkIInv'
<1>1. /\ loops[l].pc \in {"load", "llm", "leave"} /\ UNCHANGED <<rows, clean, broken>>
      /\ loops' = [loops EXCEPT ![l] = Ended(l)] \/ loops' = [loops EXCEPT ![l] = Idle]
  BY DEF NoProvider, StreamFails, Leave, End, past
<1>2. Idle.pc \in {"idle", "leave"} /\ Ended(l).pc \in {"idle", "leave"}
  BY IdleOK, LoopFacts
<1>3. l \in Chats /\ clean /\ Len(rows) <= HistoryLimit => Formed(rows, 0, 0, broken)
  <2> HAVE l \in Chats /\ clean /\ Len(rows) <= HistoryLimit
  <2>1. Shared(loops[l], rows, broken)
    BY <1>1 DEF TalkIInv, RowsShared
  <2> QED
    BY <1>1, <2>1 DEF Shared, RowsFor, Between
<1> QED
  BY <1>1, <1>2, <1>3, EndsTalk

\* The answers of the model.
LEMMA AnswerCallsTalk ==
  ASSUME LoopIInv, TalkIInv, NEW l \in Loops, NEW k \in 1..MaxCalls, AnswerCalls(l, k)
  PROVE  TalkIInv'
<1> DEFINE msgs == Append(loops[l].msgs, Assistant(answers + 1, k))
           pc == IF l \in Brains THEN "call" ELSE "save"
           r == [loops[l] EXCEPT !.msgs = msgs, !.answer = answers + 1, !.calls = k, !.call = 1, !.pc = pc]
<1>1. /\ loops[l].pc = "llm" /\ asked + k <= MaxCalls /\ UNCHANGED <<rows, clean, broken>>
      /\ loops[l] \in LoopRec /\ loops[l].msgs \in Seq(Message) /\ loops' = [loops EXCEPT ![l] = r]
  BY LoopFacts DEF AnswerCalls, LoopRec, past
<1>2. answers + 1 \in 0..MaxCalls
  BY <1>1, ToolLoopAssumption DEF LoopIInv, Types
<1>3. pc \in {"call", "save"} /\ (l \in Chats => pc = "save")
  BY ToolLoopAssumption
<1> HIDE DEF msgs, pc
<1>4. /\ r.msgs = msgs /\ r.answer = answers + 1 /\ r.calls = k /\ r.call = 1 /\ r.pc = pc /\ r.own = loops[l].own
  BY <1>1 DEF LoopRec
<1> HIDE DEF r
<1>5. \A base \in Nat : \A B : Talk(loops[l], base, B) => Talk(r, base, B)
  BY <1>1, <1>2, <1>3, <1>4, TalkAnswer DEF msgs
<1> QED
  BY <1>1, <1>3, <1>4, <1>5, TalkGoesOn DEF Between

LEMMA AnswerEndsTalk ==
  ASSUME LoopIInv, TalkIInv, NEW l \in Loops, AnswerEnds(l)
  PROVE  TalkIInv'
<1>1. loops[l].pc = "llm" /\ UNCHANGED <<rows, clean, broken>> /\ loops[l] \in LoopRec /\ loops[l].msgs \in Seq(Message)
      /\ (l \in Brains <=> l \notin Chats) /\ loops[l].answer = 0
  BY LoopFacts, ToolLoopAssumption DEF AnswerEnds, Loops, LoopOK, past
<1>2. CASE l \in Brains
  <2>1. loops' = [loops EXCEPT ![l] = Idle] /\ Idle.pc = "idle"
    BY <1>2, IdleOK, LoopFacts DEF AnswerEnds
  <2> QED
    BY <1>1, <1>2, <2>1, EndsTalk
<1>3. CASE l \notin Brains
  <2> DEFINE msgs == Append(loops[l].msgs, Assistant(0, 0))
             r == [loops[l] EXCEPT !.msgs = msgs, !.calls = 0, !.pc = "save"]
  <2>1. loops' = [loops EXCEPT ![l] = r]
    BY <1>3 DEF AnswerEnds, LastSaid
  <2>2. Assistant(0, 0) \in Message /\ Assistant(0, 0).role = "assistant" /\ Assistant(0, 0).calls = 0
    <3>1. 0 \in 0..MaxCalls
      BY ToolLoopAssumption
    <3>2. Assistant(0, 0) \in Message
      BY <3>1, AssistantSaysNothing
    <3> QED
      BY <3>2 DEF Assistant, User
  <2>3. Last(msgs) = Assistant(0, 0)
    <3>1. Len(msgs) = Len(loops[l].msgs) + 1 /\ msgs[Len(loops[l].msgs) + 1] = Assistant(0, 0)
      BY <1>1, <2>2, AppendFacts
    <3> QED
      BY <3>1 DEF Last
  <2>4. \A base \in Nat : \A B : base <= Len(loops[l].msgs) /\ Formed(loops[l].msgs, base, 0, B)
                          => base <= Len(msgs) /\ Formed(msgs, base, 0, B)
    BY <1>1, <2>2, TalkMore
  <2> HIDE DEF msgs
  <2>5. r.msgs = msgs /\ r.calls = 0 /\ r.pc = "save" /\ r.own = loops[l].own /\ r.answer = 0
    BY <1>1 DEF LoopRec
  <2> HIDE DEF r
  <2>6. \A base \in Nat : \A B : Talk(loops[l], base, B) => Talk(r, base, B)
    BY <1>1, <2>3, <2>4, <2>5 DEF Talk, Calling, Says
  <2> QED
    BY <1>1, <2>1, <2>5, <2>6, TalkGoesOn DEF Between
<1> QED
  BY <1>2, <1>3

LEMMA AnswerCutOffTalk ==
  ASSUME LoopIInv, TalkIInv, NEW b \in Loops, AnswerCutOff(b)
  PROVE  TalkIInv'
<1>1. /\ b \in Brains /\ b \notin Chats /\ loops[b].pc = "llm" /\ UNCHANGED <<rows, clean, broken>>
      /\ loops[b] \in LoopRec /\ loops[b].msgs \in Seq(Message)
  BY LoopFacts, ToolLoopAssumption DEF AnswerCutOff, past
<1>2. CASE loops[b].cont + 1 >= MaxContinuations
  <2>1. loops' = [loops EXCEPT ![b] = Idle] /\ Idle.pc = "idle"
    BY <1>2, IdleOK, LoopFacts DEF AnswerCutOff
  <2> QED
    BY <1>1, <2>1, EndsTalk
<1>3. CASE ~(loops[b].cont + 1 >= MaxContinuations)
  <2> DEFINE msgs == loops[b].msgs \o <<Assistant(0, 0), User>>
             r == [loops[b] EXCEPT !.cont = loops[b].cont + 1, !.msgs = msgs]
             s == NextIteration(b, r)
  <2>1. loops' = [loops EXCEPT ![b] = s]
    BY <1>3 DEF AnswerCutOff, CutOff
  <2>2. Assistant(0, 0) \in Message /\ Assistant(0, 0).role = "assistant" /\ Assistant(0, 0).calls = 0
    <3>1. 0 \in 0..MaxCalls
      BY ToolLoopAssumption
    <3>2. Assistant(0, 0) \in Message
      BY <3>1, AssistantSaysNothing
    <3> QED
      BY <3>2 DEF Assistant, User
  <2>3. /\ msgs \in Seq(Message)
        /\ \A base \in Nat : \A B : base <= Len(loops[b].msgs) /\ Formed(loops[b].msgs, base, 0, B)
                             => base <= Len(msgs) /\ Formed(msgs, base, 0, B)
    <3> DEFINE said == Append(loops[b].msgs, Assistant(0, 0))
    <3>1. User \in Message /\ User.role # "tool" /\ User.calls = 0
      BY UserMessage
    <3>2. msgs = Append(said, User) /\ said \in Seq(Message) /\ Append(said, User) \in Seq(Message)
      BY <1>1, <2>2, <3>1, TwoMore, AppendFacts
    <3>3. \A base \in Nat : \A B : base <= Len(loops[b].msgs) /\ Formed(loops[b].msgs, base, 0, B)
                            => base <= Len(said) /\ Formed(said, base, 0, B)
      BY <1>1, <2>2, TalkMore
    <3> HIDE DEF said
    <3>4. \A base \in Nat : \A B : base <= Len(said) /\ Formed(said, base, 0, B)
                            => base <= Len(Append(said, User)) /\ Formed(Append(said, User), base, 0, B)
      BY <3>1, <3>2, TalkMore
    <3> QED
      BY <3>2, <3>3, <3>4
  <2> HIDE DEF msgs
  <2>4. /\ r \in LoopRec /\ r.msgs = msgs /\ r.answer = loops[b].answer /\ r.calls = loops[b].calls
        /\ r.iter = loops[b].iter /\ r.cont = loops[b].cont + 1 /\ r.cont \in Nat /\ r.own = loops[b].own
    <3>1. loops[b].cont + 1 \in Nat
      BY <1>1 DEF LoopRec
    <3> QED
      BY <1>1, <2>3, <3>1 DEF LoopRec
  <2> HIDE DEF r
  <2>5. r.answer = 0 /\ r.calls = 0 /\ r.iter < Iterations(b) /\ r.cont < MaxContinuations
    BY <1>1, <1>3, <2>4, LoopFacts, ToolLoopAssumption DEF LoopOK
  <2>6. s.pc \in {"idle", "leave", "llm"} /\ (s.pc = "llm" => s.msgs = msgs /\ s.own = loops[b].own)
    <3>1. 0 \in Nat
      OBVIOUS
    <3> QED
      BY <2>4, <2>5, <3>1, NextIterationOK
  <2> HIDE DEF s
  <2>7. CASE s.pc = "llm"
    <3>1. \A base \in Nat : \A B : Talk(loops[b], base, B) => Talk(s, base, B)
      BY <1>1, <2>3, <2>6, <2>7 DEF Talk, Calling, Says
    <3> QED
      BY <1>1, <2>1, <2>6, <2>7, <3>1, TalkGoesOn
  <2>8. CASE s.pc # "llm"
    BY <1>1, <2>1, <2>6, <2>8, EndsTalk
  <2> QED
    BY <2>7, <2>8
<1> QED
  BY <1>2, <1>3

LEMMA CallFailsTalk ==
  ASSUME LoopIInv, TalkIInv, NEW b \in Loops, NEW transient \in BOOLEAN, CallFails(b, transient)
  PROVE  TalkIInv'
<1>1. /\ b \in Brains /\ b \notin Chats /\ loops[b].pc = "llm" /\ UNCHANGED <<rows, clean, broken>> /\ loops[b] \in LoopRec
  BY LoopFacts, ToolLoopAssumption DEF CallFails, past
<1> DEFINE r == [loops[b] EXCEPT !.tries = loops[b].tries + 1]
<1>2. loops' = [loops EXCEPT ![b] = r] \/ loops' = [loops EXCEPT ![b] = Idle]
  BY DEF CallFails, Retried
<1>3. CASE loops' = [loops EXCEPT ![b] = Idle]
  BY <1>1, <1>3, IdleOK, LoopFacts, EndsTalk
<1>4. CASE loops' = [loops EXCEPT ![b] = r]
  <2>1. /\ r.msgs = loops[b].msgs /\ r.answer = loops[b].answer /\ r.calls = loops[b].calls /\ r.call = loops[b].call
        /\ r.pc = loops[b].pc /\ r.own = loops[b].own
    BY <1>1 DEF LoopRec
  <2> HIDE DEF r
  <2>2. \A base \in Nat : \A B : Talk(loops[b], base, B) => Talk(r, base, B)
    BY <2>1, TalkSame
  <2> QED
    BY <1>1, <1>4, <2>1, <2>2, TalkGoesOn
<1> QED
  BY <1>2, <1>3, <1>4

\* A stream saves what it has said last, or loses it.
LEMMA Saves ==
  ASSUME LoopIInv, NEW c \in Loops, Save(c)
  PROVE  /\ broken \subseteq broken' /\ Len(rows) <= Len(rows')
         /\ \/ rows' = rows /\ loops[c].answer \in broken'
            \/ rows' = Append(rows, Last(loops[c].msgs)) /\ broken' = broken
<1>1. \/ rows' = rows /\ loops[c].answer \in broken' /\ broken \subseteq broken'
      \/ rows' = Append(rows, Last(loops[c].msgs)) /\ broken' = broken
  BY DEF Save, Fine, Lost
<1>2. rows \in Seq(Message) /\ Len(rows) \in Nat
  BY LoopFacts
<1>3. Len(Append(rows, Last(loops[c].msgs))) = Len(rows) + 1
  BY <1>2
<1> QED
  BY <1>1, <1>2, <1>3

LEMMA SaveAssistantTalk ==
  ASSUME LoopIInv, TalkIInv, NEW c \in Loops, SaveAssistant(c)
  PROVE  TalkIInv'
<1> DEFINE a == loops[c].answer
           m == Last(loops[c].msgs)
<1>1. /\ loops[c].pc = "save" /\ Save(c) /\ clean' = clean
      /\ c \in Chats /\ c \notin Brains /\ loops[c] \in LoopRec /\ rows \in Seq(Message)
      /\ loops[c].msgs \in Seq(Message) /\ loops[c].msgs # <<>>
  BY LoopFacts, ToolLoopAssumption DEF SaveAssistant, LoopOK, Loops
<1>2. /\ broken \subseteq broken' /\ Len(rows) <= Len(rows')
      /\ (rows' = rows /\ a \in broken') \/ (rows' = Append(rows, m) /\ broken' = broken)
  BY <1>1, Saves
<1>3. m \in Message /\ Len(rows) \in Nat /\ Len(rows') \in Nat /\ rows' \in Seq(Message)
  <2>1. m \in Message /\ Append(rows, m) \in Seq(Message)
    BY <1>1 DEF Last
  <2> HIDE DEF m
  <2> QED
    BY <1>1, <1>2, <2>1
<1> HIDE DEF m
<1>4. ASSUME clean, Len(rows') <= HistoryLimit
      PROVE  /\ Talk(loops[c], 0, broken')
             /\ loops[c].calls = 0 \/ a \in broken' => Formed(rows', 0, 0, broken')
             /\ loops[c].calls # 0 /\ a \notin broken' => Open(rows', 0, a, loops[c].calls, 0, broken')
  <2>1. Len(rows) <= HistoryLimit
    BY <1>2, <1>3, <1>4, ToolLoopAssumption
  <2>2. Formed(rows, 0, 0, broken) /\ Talk(loops[c], 0, broken)
    BY <1>1, <1>4, <2>1 DEF TalkIInv, RowsShared, Shared, RowsFor, Between
  <2>3. Formed(rows, 0, 0, broken') /\ Talk(loops[c], 0, broken')
    BY <1>2, <2>2, FormedMore, TalkLess
  <2>4. CASE rows' = rows /\ a \in broken'
    BY <2>3, <2>4
  <2>5. CASE rows' = Append(rows, m) /\ broken' = broken
    <3>1. m = Assistant(a, loops[c].calls)
      BY <1>1, <2>2 DEF Talk, Says, m
    <3>2. m.role # "tool" /\ m.answer = a /\ m.calls = loops[c].calls
      BY <3>1 DEF Assistant, User
    <3>3. /\ Len(rows') = Len(rows) + 1 /\ rows'[Len(rows) + 1] = m /\ Len(rows) + 1 \in Nat
          /\ 0 <= Len(rows) /\ 0 \in Nat
      BY <1>1, <1>3, <2>5, AppendFacts
    <3>4. loops[c].calls = 0 \/ a \in broken' => Formed(rows', 0, 0, broken')
      BY <1>1, <1>3, <2>3, <2>5, <3>2, <3>3, FormedAppend
    <3>5. ASSUME loops[c].calls # 0 PROVE Open(rows', 0, a, loops[c].calls, 0, broken')
      <4>1. Formed(rows', 0, Len(rows) + 1, broken')
        BY <1>1, <1>3, <2>3, <2>5, <3>2, <3>3, FormedAppend
      <4>2. Len(rows') - 0 = Len(rows) + 1 /\ Len(rows) + 1 \in (0 + 1)..Len(rows')
        BY <1>3, <3>3
      <4> QED
        BY <3>2, <3>3, <4>1, <4>2 DEF Open
    <3> QED
      BY <2>3, <3>4, <3>5
  <2> QED
    BY <1>2, <2>4, <2>5
<1>5. CASE loops[c].calls = 0
  <2>1. loops' = [loops EXCEPT ![c] = Ended(c)] /\ Ended(c).pc = "leave"
    BY <1>1, <1>5, IdleOK, LoopFacts DEF SaveAssistant, End
  <2> QED
    BY <1>1, <1>4, <1>5, <2>1, EndsTalk
<1>6. CASE loops[c].calls # 0
  <2> DEFINE r == [loops[c] EXCEPT !.pc = "call"]
  <2>1. Goto(c, "call") /\ loops[c].calls > 0 /\ loops[c].call = 1
    BY <1>1, <1>6, LoopFacts DEF SaveAssistant, LoopRec, LoopOK
  <2>2. /\ loops' = [loops EXCEPT ![c] = r] /\ r.pc = "call" /\ r.msgs = loops[c].msgs /\ r.answer = loops[c].answer
        /\ r.calls = loops[c].calls /\ r.call = loops[c].call /\ r.own = loops[c].own
    BY <2>1, GoesTo
  <2> HIDE DEF r
  <2>3. \A base \in Nat : \A B : Talk(loops[c], base, B) => Talk(r, base, B)
    BY <1>1, <2>1, <2>2, TalkSame
  <2>4. Talk(r, r.own, {})
    BY <1>1, <2>2, <2>3 DEF TalkIInv, LoopRec
  <2>5. clean /\ Len(rows') <= HistoryLimit => Shared(r, rows', broken')
    <3> HAVE clean /\ Len(rows') <= HistoryLimit
    <3>1. r.call - 1 = 0 /\ 0 \in Nat
      BY <2>1, <2>2
    <3> QED
      BY <1>4, <1>6, <2>2, <2>3, <3>1 DEF Shared, RowsFor, Between
  <2> QED
    BY <1>1, <2>2, <2>4, <2>5, TalkMoves
<1> QED
  BY <1>5, <1>6

\* A call has its result, said of it or refused, or that did not come in time.
LEMMA GotResultTalk ==
  ASSUME LoopIInv, TalkIInv, NEW l \in Loops, loops[l].pc \in {"call", "wait"}, NEW said \in {"ok", "failed"},
         GotResult(l, said), UNCHANGED <<rows, clean, broken>>
  PROVE  TalkIInv'
<1> DEFINE msgs == Append(loops[l].msgs, Result(loops[l].answer, loops[l].call, said))
           r == [loops[l] EXCEPT !.msgs = msgs]
           t == IF l \in Brains THEN AfterCall(l, r) ELSE [r EXCEPT !.pc = "result"]
<1>1. Answered(loops[l], said) = r
  BY DEF Answered
<1>2. loops' = [loops EXCEPT ![l] = t]
  <2> HIDE DEF r
  <2> QED
    BY <1>1 DEF GotResult
<1>3. /\ loops[l] \in LoopRec /\ loops[l].answer > 0 /\ loops[l].call \in 1..loops[l].calls
      /\ loops[l].calls <= MaxCalls /\ loops[l].iter < Iterations(l) /\ loops[l].cont < MaxContinuations
      /\ loops[l].answer <= answers /\ answers \in Nat /\ answers <= MaxCalls
      /\ loops[l].answer \in Nat /\ loops[l].calls \in Nat /\ loops[l].msgs \in Seq(Message)
  BY LoopFacts DEF LoopOK, LoopRec
<1>4. loops[l].answer \in 1..MaxCalls /\ loops[l].call \in 1..MaxCalls
  BY <1>3, ToolLoopAssumption
<1>5. Result(loops[l].answer, loops[l].call, said) \in Message
  BY <1>4, ResultMessage
<1>6. msgs \in Seq(Message) /\ Last(msgs) = Result(loops[l].answer, loops[l].call, said)
  <2>1. /\ msgs \in Seq(Message) /\ Len(msgs) = Len(loops[l].msgs) + 1
        /\ msgs[Len(loops[l].msgs) + 1] = Result(loops[l].answer, loops[l].call, said)
    BY <1>3, <1>5, AppendFacts
  <2> QED
    BY <2>1 DEF Last
<1>7. \A base \in Nat : \A B : Talk(loops[l], base, B) =>
          Open(msgs, base, loops[l].answer, loops[l].calls, loops[l].call, B) /\ base <= Len(msgs)
  BY <1>3, <1>4, TalkResult
<1> HIDE DEF msgs
<1>8. /\ r \in LoopRec /\ r.msgs = msgs /\ r.answer = loops[l].answer /\ r.call = loops[l].call
      /\ r.calls = loops[l].calls /\ r.iter = loops[l].iter /\ r.cont = loops[l].cont /\ r.own = loops[l].own
  BY <1>3, <1>6 DEF LoopRec
<1> HIDE DEF r
<1>9. CASE l \in Brains
  <2>1. t = AfterCall(l, r) /\ l \notin Chats
    BY <1>9, ToolLoopAssumption
  <2> HIDE DEF t
  <2>2. /\ t.pc \in {"idle", "leave", "call", "llm"} /\ (t.pc \in {"call", "llm"} => t.own = r.own)
        /\ \A base \in Nat : \A B : Open(r.msgs, base, r.answer, r.calls, r.call, B) /\ base <= Len(r.msgs) => Talk(t, base, B)
    BY <1>3, <1>8, <2>1, TalkAfterCall
  <2>3. CASE t.pc \in {"call", "llm"}
    <3>1. \A base \in Nat : \A B : Talk(loops[l], base, B) => Talk(t, base, B)
      BY <1>7, <1>8, <2>2
    <3> QED
      BY <1>2, <1>8, <2>1, <2>2, <2>3, <3>1, TalkGoesOn
  <2>4. CASE t.pc \in {"idle", "leave"}
    BY <1>2, <2>1, <2>4, EndsTalk
  <2> QED
    BY <2>2, <2>3, <2>4
<1>10. CASE l \notin Brains
  <2>1. t = [r EXCEPT !.pc = "result"]
    BY <1>10
  <2>2. /\ t.pc = "result" /\ t.msgs = msgs /\ t.answer = loops[l].answer /\ t.call = loops[l].call
        /\ t.calls = loops[l].calls /\ t.own = loops[l].own
    BY <1>8, <2>1 DEF LoopRec
  <2> HIDE DEF t
  <2>3. Calling(t) /\ Told(t) = t.call
    BY <1>3, <2>2 DEF Calling, Told
  <2>4. \A base \in Nat : \A B : Talk(loops[l], base, B) => Talk(t, base, B)
    <3>1. Says(t)
      BY <1>6, <2>2 DEF Says
    <3> QED
      BY <1>7, <2>2, <2>3, <3>1 DEF Talk
  <2> QED
    BY <1>2, <2>2, <2>4, TalkGoesOn DEF Between
<1> QED
  BY <1>9, <1>10

LEMMA CallsTalk ==
  ASSUME LoopIInv, TalkIInv, NEW l \in Loops, RefuseCall(l) \/ Execute(l) \/ TakeResult(l) \/ TimeOut(l)
  PROVE  TalkIInv'
<1>1. CASE RefuseCall(l)
  <2>1. loops[l].pc = "call" /\ GotResult(l, "failed") /\ UNCHANGED <<rows, clean, broken>>
    BY <1>1 DEF RefuseCall, GotResult, past
  <2> QED
    BY <2>1, GotResultTalk
<1>2. CASE Execute(l)
  <2> DEFINE r == [loops[l] EXCEPT !.pc = "wait"]
  <2>1. loops[l].pc = "call" /\ Goto(l, "wait") /\ UNCHANGED <<rows, clean, broken>>
    BY <1>2 DEF Execute, past
  <2>2. /\ loops' = [loops EXCEPT ![l] = r] /\ r.pc = "wait" /\ r.msgs = loops[l].msgs /\ r.answer = loops[l].answer
        /\ r.calls = loops[l].calls /\ r.call = loops[l].call /\ r.own = loops[l].own
    BY <2>1, GoesTo
  <2>3. loops[l].calls > 0
    BY <2>1, LoopFacts DEF LoopOK, LoopRec
  <2> HIDE DEF r
  <2>4. \A base \in Nat : \A B : Talk(loops[l], base, B) => Talk(r, base, B)
    BY <2>1, <2>2, <2>3, TalkSame
  <2> QED
    BY <2>1, <2>2, <2>4, TalkGoesOn DEF Between
<1>3. CASE TakeResult(l)
  <2>1. /\ loops[l].pc = "wait" /\ tools[Id(l)].at \in {"ok", "failed"} /\ GotResult(l, tools[Id(l)].at)
        /\ UNCHANGED <<rows, clean, broken>>
    BY <1>3 DEF TakeResult, past
  <2> QED
    BY <2>1, GotResultTalk
<1>4. CASE TimeOut(l)
  <2>1. loops[l].pc = "wait" /\ GotResult(l, "failed") /\ UNCHANGED <<rows, clean, broken>>
    BY <1>4 DEF TimeOut, past
  <2> QED
    BY <2>1, GotResultTalk
<1> QED
  BY <1>1, <1>2, <1>3, <1>4

\* A stream saves a result, or loses it, and goes on.
LEMMA SaveResultTalk ==
  ASSUME LoopIInv, TalkIInv, NEW c \in Loops, SaveResult(c)
  PROVE  TalkIInv'
<1> DEFINE s == AfterCall(c, loops[c])
           a == loops[c].answer
           k == loops[c].calls
           j == loops[c].call
           m == Last(loops[c].msgs)
<1>1. /\ loops[c].pc = "result" /\ Save(c) /\ clean' = clean
      /\ loops' = [loops EXCEPT ![c] = s]
      /\ c \in Chats /\ c \notin Brains /\ loops[c] \in LoopRec /\ rows \in Seq(Message)
      /\ loops[c].msgs \in Seq(Message) /\ loops[c].msgs # <<>>
  BY LoopFacts, ToolLoopAssumption DEF SaveResult, LoopOK, Loops
<1>2. /\ j \in 1..k /\ loops[c].iter < Iterations(c) /\ j - 1 \in Nat /\ j - 1 < k /\ (j - 1) + 1 = j
      /\ loops[c].cont < MaxContinuations /\ loops[c].own \in Nat /\ k \in Nat /\ j \in Nat
  BY <1>1, LoopFacts DEF LoopOK, LoopRec
<1>3. /\ broken \subseteq broken' /\ Len(rows) <= Len(rows')
      /\ (rows' = rows /\ a \in broken') \/ (rows' = Append(rows, m) /\ broken' = broken)
  BY <1>1, Saves
<1>4. m \in Message /\ Len(rows) \in Nat /\ Len(rows') \in Nat /\ rows' \in Seq(Message)
  <2>1. m \in Message /\ Append(rows, m) \in Seq(Message)
    BY <1>1 DEF Last
  <2> HIDE DEF m
  <2> QED
    BY <1>1, <1>3, <2>1
<1> HIDE DEF m, s
<1>5. ASSUME clean, Len(rows') <= HistoryLimit
      PROVE  /\ Talk(loops[c], 0, broken')
             /\ a \in broken' => Formed(rows', 0, 0, broken')
             /\ a \notin broken' => Open(rows', 0, a, k, j, broken')
  <2>1. Len(rows) <= HistoryLimit
    BY <1>3, <1>4, <1>5, ToolLoopAssumption
  <2>2. RowsFor(loops[c], rows, broken) /\ Talk(loops[c], 0, broken)
    BY <1>1, <1>5, <2>1 DEF TalkIInv, RowsShared, Shared
  <2>3. Talk(loops[c], 0, broken') /\ (a \in broken' => Formed(rows, 0, 0, broken'))
    BY <1>3, <2>2, RowsBroken, TalkLess
  <2>4. CASE rows' = rows /\ a \in broken'
    BY <2>3, <2>4
  <2>5. CASE rows' = Append(rows, m) /\ broken' = broken
    <3>1. PICK said \in {"ok", "failed"} : m = Result(a, j, said)
      BY <1>1, <2>2 DEF Talk, Says, m
    <3>2. m.role = "tool" /\ m.answer = a /\ m.call = j /\ m.calls = 0
      BY <3>1 DEF Result, User
    <3>3. a \in broken' => Formed(rows', 0, 0, broken')
      <4>1. 0 \in Nat /\ 0 <= Len(rows)
        BY <1>4
      <4> QED
        BY <1>1, <1>4, <2>3, <2>5, <3>2, <4>1, FormedAppend
    <3>4. ASSUME a \notin broken' PROVE Open(rows', 0, a, k, j, broken')
      <4>1. Open(rows, 0, a, k, j - 1, broken')
        BY <1>1, <2>2, <2>5, <3>4 DEF RowsFor, Between
      <4>2. Open(Append(rows, m), 0, a, k, (j - 1) + 1, broken')
        <5>1. 0 \in Nat /\ m.call = (j - 1) + 1
          BY <1>2, <3>2
        <5> HIDE DEF j, k, a
        <5> QED
          BY <1>1, <1>2, <1>4, <3>2, <4>1, <5>1, OpenAppend
      <4> QED
        BY <1>2, <2>5, <4>2
    <3> QED
      BY <2>3, <3>3, <3>4
  <2> QED
    BY <1>3, <2>4, <2>5
<1>6. \A base \in Nat : \A B : Talk(loops[c], base, B) =>
          /\ Open(loops[c].msgs, base, loops[c].answer, loops[c].calls, loops[c].call, B)
          /\ base <= Len(loops[c].msgs)
  <2>1. Calling(loops[c]) /\ Told(loops[c]) = loops[c].call
    BY <1>1, <1>2 DEF Calling, Told
  <2> QED
    BY <1>1, <2>1 DEF Talk
<1>7. /\ s.pc \in {"leave", "call", "llm"}
      /\ s.pc \in {"call", "llm"} => s.msgs = loops[c].msgs /\ s.own = loops[c].own
      /\ \A base \in Nat : \A B : Talk(loops[c], base, B) => Talk(s, base, B)
      /\ IF s.pc = "call" THEN s.answer = a /\ s.calls = k /\ s.call = j + 1 ELSE j = k
  <2>1. /\ s.pc \in {"idle", "leave", "call", "llm"} /\ (c \in Chats => s.pc # "idle")
        /\ s.pc \in {"call", "llm"} => s.msgs = loops[c].msgs /\ s.own = loops[c].own
        /\ \A base \in Nat : \A B :
               Open(loops[c].msgs, base, loops[c].answer, loops[c].calls, loops[c].call, B) /\ base <= Len(loops[c].msgs)
               => Talk(s, base, B)
        /\ IF s.pc = "call" THEN s.answer = a /\ s.calls = k /\ s.call = j + 1 ELSE j = k
    BY <1>1, <1>2, TalkAfterCall DEF s
  <2> QED
    BY <1>1, <1>6, <2>1
<1>8. Talk(s, s.own, {})
  <2>1. CASE s.pc = "leave"
    BY <2>1 DEF Talk
  <2>2. CASE s.pc \in {"call", "llm"}
    BY <1>2, <1>7, <2>2 DEF TalkIInv
  <2> QED
    BY <1>7, <2>1, <2>2
<1>9. clean /\ Len(rows') <= HistoryLimit => Shared(s, rows', broken')
  <2> HAVE clean /\ Len(rows') <= HistoryLimit
  <2>1. Talk(s, 0, broken')
    BY <1>5, <1>7
  <2>2. CASE s.pc = "call"
    <3>1. s.answer = a /\ s.calls = k /\ s.call - 1 = j
      BY <1>2, <1>7, <2>2
    <3> QED
      BY <1>5, <2>1, <2>2, <3>1 DEF Shared, RowsFor, Between
  <2>3. CASE s.pc # "call"
    <3>1. a \notin broken' => Open(rows', 0, a, k, k, broken')
      BY <1>5, <1>7, <2>3
    <3>2. Formed(rows', 0, 0, broken')
      <4>1. 0 \in Nat
        OBVIOUS
      <4> HIDE DEF k, a
      <4> QED
        BY <1>2, <1>4, <1>5, <3>1, <4>1, OpenClosed
    <3> QED
      BY <1>7, <2>1, <2>3, <3>2 DEF Shared, RowsFor, Between
  <2> QED
    BY <2>2, <2>3
<1> QED
  BY <1>1, <1>8, <1>9, TalkMoves

\* Rows outlive the process; of the answers it was at, some are missing.
LEMMA CrashTalk ==
  ASSUME LoopIInv, TalkIInv, Crash
  PROVE  TalkIInv'
<1>1. loops' = [l \in Loops |-> Idle] /\ UNCHANGED <<rows, clean>> /\ broken \subseteq broken'
      /\ \A c \in MidAnswer : loops[c].answer \in broken'
  BY DEF Crash
<1>2. \A l \in Loops : loops'[l].pc = "idle"
  BY <1>1 DEF Idle
<1>3. \A c \in Chats : loops'[c].pc = "idle"
  BY <1>2 DEF Loops
<1>4. ASSUME clean, Len(rows) <= HistoryLimit PROVE Formed(rows, 0, 0, broken')
  <2>1. CASE \A c \in Chats : loops[c].pc = "idle"
    BY <1>1, <1>4, <2>1, FormedMore DEF TalkIInv, RowsShared
  <2>2. ASSUME NEW c \in Chats, loops[c].pc # "idle" PROVE Formed(rows, 0, 0, broken')
    <3>1. RowsFor(loops[c], rows, broken)
      BY <1>4, <2>2 DEF TalkIInv, RowsShared, Shared
    <3>2. loops[c].pc \in Between \/ c \in MidAnswer
      BY LoopFacts DEF LoopRec, Between, MidAnswer, Loops
    <3> QED
      BY <1>1, <3>1, <3>2, RowsBroken
  <2> QED
    BY <2>1, <2>2
<1> QED
  BY <1>1, <1>2, <1>3, <1>4 DEF TalkIInv, Talk, OneStream, RowsShared

LEMMA CancelTalk ==
  ASSUME LoopIInv, TalkIInv, NEW l \in Loops, Cancel(l)
  PROVE  TalkIInv'
<1> DEFINE r == [loops[l] EXCEPT !.cancelled = TRUE]
<1>1. loops[l].pc \notin {"idle", "leave"} /\ loops' = [loops EXCEPT ![l] = r] /\ UNCHANGED <<rows, clean, broken>>
  BY DEF Cancel, past
<1>2. /\ r.pc = loops[l].pc /\ r.msgs = loops[l].msgs /\ r.answer = loops[l].answer
      /\ r.calls = loops[l].calls /\ r.call = loops[l].call /\ r.own = loops[l].own
  BY LoopFacts DEF LoopRec
<1> HIDE DEF r
<1>3. \A base \in Nat : \A B : Talk(loops[l], base, B) => Talk(r, base, B)
  BY <1>2, TalkSame
<1> QED
  BY <1>1, <1>2, <1>3, TalkGoesOn

LEMMA TalkInit == Init => TalkIInv
<1> SUFFICES ASSUME Init PROVE TalkIInv
  OBVIOUS
<1>1. \A l \in Loops : loops[l].pc = "idle"
  BY DEF Init, Idle
<1>2. \A c \in Chats : loops[c].pc = "idle"
  BY <1>1 DEF Loops
<1>3. \A B : Formed(<<>>, 0, 0, B)
  BY DEF Formed
<1>4. rows = <<>>
  BY DEF Init
<1> QED
  BY <1>1, <1>2, <1>3, <1>4 DEF TalkIInv, Talk, OneStream, RowsShared

LEMMA TalkStep ==
  ASSUME LoopIInv, TalkIInv, [Next]_vars
  PROVE  TalkIInv'
<1>1. ASSUME UNCHANGED <<loops, rows, clean, broken>> PROVE TalkIInv'
  BY <1>1 DEF TalkIInv, OneStream, RowsShared
<1>2. ASSUME NEW l \in Loops, LoopStep(l) PROVE TalkIInv'
  BY <1>2, BeginsTalk, EndingTalk, AnswerCallsTalk, AnswerEndsTalk, AnswerCutOffTalk, CallFailsTalk,
     SaveAssistantTalk, CallsTalk, SaveResultTalk DEF LoopStep
<1>3. ASSUME NEW id \in DOMAIN tools, NEW ok \in BOOLEAN, ToolReturns(id, ok) PROVE TalkIInv'
  BY <1>1, <1>3 DEF ToolReturns, past
<1>4. ASSUME Cleanup \/ UNCHANGED vars PROVE TalkIInv'
  BY <1>1, <1>4 DEF Cleanup, vars, past
<1> QED
  BY <1>2, <1>3, <1>4, BeginsTalk, CancelTalk, CrashTalk DEF Next

\* The inductive invariant of the conversations: of the answer a loop is at, the calls so
\* far have their results, all others are complete; and so are the rows of a session while
\* its streams come one at a time, but for the answers of which a row was lost
\* (pipeline.go executeToolCalls, session.go streamWithTools).
THEOREM ConversationInvariant == Spec => [](LoopIInv /\ TalkIInv)
<1>1. Init => LoopIInv /\ TalkIInv
  BY InitInv, TalkInit
<1>2. LoopIInv /\ TalkIInv /\ [Next]_vars => (LoopIInv /\ TalkIInv)'
  BY StepKeeps, TalkStep
<1> QED
  BY <1>1, <1>2, PTL DEF Spec

\* What a loop asks the model is a conversation a provider accepts, after refused calls,
\* timeouts, cut-off answers and cancelled contexts too (pipeline.go executeToolCalls,
\* session.go streamWithTools).
THEOREM ConversationsAreWellFormed == Spec => []AskedWellFormed
<1>1. LoopIInv /\ TalkIInv => AskedWellFormed
  <2> SUFFICES ASSUME LoopIInv, TalkIInv, NEW l \in Loops, loops[l].pc = "llm"
               PROVE  /\ WellFormed(SubSeq(loops[l].msgs, loops[l].own + 1, Len(loops[l].msgs)), {})
                      /\ l \in Chats /\ clean /\ Len(rows) <= HistoryLimit => WellFormed(loops[l].msgs, broken)
    BY DEF AskedWellFormed
  <2>1. loops[l].msgs \in Seq(Message) /\ loops[l].own \in Nat /\ ~Calling(loops[l])
    BY LoopFacts DEF LoopRec, Calling
  <2>2. \A base \in Nat : \A B : Talk(loops[l], base, B) =>
            WellFormed(SubSeq(loops[l].msgs, base + 1, Len(loops[l].msgs)), B)
    BY <2>1, FormedIsWell DEF Talk
  <2>3. WellFormed(SubSeq(loops[l].msgs, loops[l].own + 1, Len(loops[l].msgs)), {})
    BY <2>1, <2>2 DEF TalkIInv
  <2>4. ASSUME l \in Chats, clean, Len(rows) <= HistoryLimit PROVE WellFormed(loops[l].msgs, broken)
    <3>1. Talk(loops[l], 0, broken)
      BY <2>4 DEF TalkIInv, RowsShared, Shared
    <3> DEFINE said == loops[l].msgs
               part == SubSeq(said, 0 + 1, Len(said))
    <3>2. WellFormed(part, broken)
      BY <2>2, <3>1
    <3>3. part \in Seq(Message) /\ Len(part) = Len(said) /\ \A i \in 1..Len(said) : part[i] = said[i]
      BY <2>1
    <3> HIDE DEF part
    <3>4. part = said
      BY <2>1, <3>3, SeqEqual
    <3> QED
      BY <3>2, <3>4
  <2> QED
    BY <2>3, <2>4
<1> QED
  BY ConversationInvariant, <1>1, PTL
================================================================================
