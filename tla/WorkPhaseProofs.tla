--------------------------- MODULE WorkPhaseProofs ---------------------------
(***************************************************************************)
(* A phase keeps its contract, runs out, and sends only requests whose     *)
(* tool calls are answered, for every set of files and calls and all       *)
(* limits.  That a phase ends unless it waits for an answer for ever is    *)
(* left to TLC; that it has only so many steps to take is proved here.     *)
(***************************************************************************)
EXTENDS Conversation, WellFoundedInduction, TLAPS

\* While a phase runs, the engine has blocked nothing, and a manifest that is
\* there was left by the worker's tools.
Running ==
    pc # "done" =>
        /\ blocked # "engine"
        /\ summary.exists => summary.by = "tool"

PhaseInv == TypeOK /\ NothingAfterComplete /\ Running

\* No manifest, and one by a tool, are values of Manifests.
LEMMA ManifestsMade ==
    /\ NoSummary \in Manifests
    /\ \A names \in SUBSET Files : Naming(names, "tool") \in Manifests
  BY DEF NoSummary, Naming, Manifests

\* The invariant holds when a phase begins.
LEMMA PhaseInit == Init => PhaseInv
<1> SUFFICES ASSUME Init PROVE PhaseInv
  OBVIOUS
<1>a. summary \in Manifests
  BY ManifestsMade DEF Init
<1>b. failed \in [Calls -> 0..RepeatLimit] /\ \A c \in Calls : failed[c] < RepeatLimit
  BY DEF Init, RepeatLimit
<1>c. iteration \in 0..MaxIterations /\ attempt \in 0..MaxRetries /\ left \in 0..MaxToolCalls
  BY PhaseAssumption DEF Init
<1>d. rc \in {-1, 0, 1} /\ (rc = -1) = (pc # "done")
  BY DEF Init
<1>e. errors \in Nat /\ (pc # "done" => errors < ErrorThreshold)
  BY PhaseAssumption DEF Init
<1>f. /\ complete \in BOOLEAN /\ report \in BOOLEAN /\ manifest \in BOOLEAN
      /\ altered \subseteq Paths /\ reads \subseteq Paths /\ seen \subseteq reads
      /\ written \subseteq Files /\ files \subseteq Files
  BY DEF Init
<1>1. TypeOK
  BY <1>a, <1>b, <1>c, <1>d, <1>e, <1>f DEF Init, TypeOK
<1>2. NothingAfterComplete /\ Running
  BY DEF Init, NothingAfterComplete, Running, NoSummary
<1> QED
  BY <1>1, <1>2 DEF PhaseInv

-----------------------------------------------------------------------------
(* Type correctness.                                                       *)

\* What landed are files.
LEMMA LandedType == ASSUME TypeOK PROVE Landed \subseteq Files
  BY DEF TypeOK, Landed

\* A synthesized manifest is a manifest, and leaves a reviewer's as it is.
LEMMA SynthesizedType ==
    ASSUME TypeOK
    PROVE  /\ Synthesized \in Manifests
           /\ ~Worker => Synthesized = summary
  BY LandedType DEF TypeOK, Synthesized, Synthesizes, Naming, Manifests

\* The head of the loop keeps the type.
LEMMA TopTyped == ASSUME TypeOK, Top PROVE TypeOK'
<1>1. CASE CapReached \/ Exhausted
  BY <1>1, SynthesizedType, PhaseAssumption DEF TypeOK, CapReached, Exhausted, Return, trackVars
<1>2. CASE BudgetAbort
  BY <1>2, PhaseAssumption DEF TypeOK, BudgetAbort, Return, trackVars, diskVars
<1>3. CASE Ask
  BY <1>3, PhaseAssumption DEF TypeOK, Ask, trackVars, diskVars
<1> QED
  BY <1>1, <1>2, <1>3 DEF Top

\* So does an answer of the model, or none.
LEMMA AnswerTyped == ASSUME TypeOK, Answer PROVE TypeOK'
<1>1. CASE Retry
  BY <1>1, PhaseAssumption DEF TypeOK, Retry, trackVars, diskVars
<1>2. CASE Unanswered
  BY <1>2 DEF TypeOK, Unanswered, Return, trackVars
<1>3. CASE FinalMessage
  <2>1. summary' \in Manifests
    BY <1>3, LandedType DEF TypeOK, FinalMessage, Extended, Naming, Manifests
  <2> QED
    BY <1>3, <2>1 DEF TypeOK, FinalMessage, Return, Worker
<1>4. CASE ToolCalls
  <2>1. left' \in 1..MaxToolCalls
    BY <1>4, PhaseAssumption DEF ToolCalls, Truncated
  <2> QED
    BY <1>4, <2>1, PhaseAssumption DEF TypeOK, ToolCalls, trackVars, diskVars
<1> QED
  BY <1>1, <1>2, <1>3, <1>4 DEF Answer

\* So does the look for work-complete.txt.
LEMMA SignalTyped == ASSUME TypeOK, Signal PROVE TypeOK'
  BY SynthesizedType DEF TypeOK, Signal, Return, trackVars

\* So does a tool call, whatever its outcome.
LEMMA DispatchTyped ==
    ASSUME TypeOK, NEW c \in Calls, Dispatch(c) PROVE TypeOK'
<1> PICK r \in Outcomes(c) :
      /\ IF Alters(c, r) THEN Carried(c)
         ELSE UNCHANGED <<files, summary, complete, report, altered>>
      /\ ReadCounted(c, r)
      /\ Recorded(c, r)
      /\ failed' = IF Failing(r) THEN [failed EXCEPT ![c] = @ + 1] ELSE failed
      /\ errors' = IF Repeated(c, r) THEN errors ELSE ErrorsAfter(r)
      /\ IF Stops(c, r)
         THEN blocked' = "engine" /\ Return(1)
         ELSE /\ blocked' = BlockedAfter(c, r)
              /\ pc' = IF left = 1 THEN "signal" ELSE "calls"
              /\ rc' = rc
  BY DEF Dispatch
<1>1. pc = "calls" /\ left' = left - 1 /\ UNCHANGED <<role, iteration, attempt>>
  BY DEF Dispatch
<1>2. c.path \in Paths
  BY PhaseAssumption
<1>3. /\ files' \subseteq Files /\ summary' \in Manifests /\ complete' \in BOOLEAN
      /\ report' \in BOOLEAN /\ altered' \subseteq Paths
  <2>1. CASE Alters(c, r)
    <3>1. summary' \in Manifests
      BY <2>1, ManifestsMade DEF TypeOK, Carried
    <3> QED
      BY <2>1, <3>1, <1>2 DEF TypeOK, Carried
  <2>2. CASE ~Alters(c, r)
    BY <2>2 DEF TypeOK
  <2> QED
    BY <2>1, <2>2
<1>4. reads' \subseteq Paths /\ seen' \subseteq reads'
  BY <1>2 DEF TypeOK, ReadCounted
<1>5. written' \subseteq Files /\ manifest' \in BOOLEAN
  BY DEF TypeOK, Recorded
<1>6. /\ blocked' \in {"absent", "other", "engine"}
      /\ rc' \in {-1, 0, 1} /\ (rc' = -1) = (pc' # "done")
      /\ pc' \in {"top", "ask", "calls", "signal", "done"}
  BY <1>1 DEF TypeOK, BlockedAfter, Return
<1>7. left' \in 0..MaxToolCalls /\ (pc' = "calls" => left' > 0)
  BY <1>1, PhaseAssumption DEF TypeOK, Return
<1>8. errors' \in Nat /\ (pc' # "done" => errors' < ErrorThreshold)
  <2>1. ErrorsAfter(r) \in Nat
    BY DEF TypeOK, ErrorsAfter
  <2>2. pc' # "done" => ~Repeated(c, r) /\ ErrorsAfter(r) < ErrorThreshold
    BY <2>1, PhaseAssumption DEF Stops, Return
  <2> QED
    BY <2>1, <2>2 DEF TypeOK
<1>9. failed' \in [Calls -> 0..RepeatLimit]
  BY <1>1 DEF TypeOK, RepeatLimit
<1>10. pc' # "done" => \A d \in Calls : failed'[d] < RepeatLimit
  <2> SUFFICES ASSUME pc' # "done", NEW d \in Calls PROVE failed'[d] < RepeatLimit
    OBVIOUS
  <2>1. ~Repeated(c, r)
    BY DEF Stops, Return
  <2> QED
    BY <1>1, <2>1 DEF TypeOK, Repeated, RepeatLimit
<1> QED
  BY <1>1, <1>3, <1>4, <1>5, <1>6, <1>7, <1>8, <1>9, <1>10 DEF TypeOK

-----------------------------------------------------------------------------
(* The invariant.                                                          *)

\* The invariant is inductive.
LEMMA PhaseStep == PhaseInv /\ [Next]_vars => PhaseInv'
<1> SUFFICES ASSUME PhaseInv, [Next]_vars PROVE PhaseInv'
  OBVIOUS
<1>t. TypeOK
  BY DEF PhaseInv
<1>1. CASE Top
  <2>1. NothingAfterComplete' /\ Running'
    BY <1>1 DEF PhaseInv, NothingAfterComplete, Running, Top, CapReached, BudgetAbort,
                Exhausted, Ask, Return, diskVars
  <2> QED
    BY <1>1, <1>t, <2>1, TopTyped DEF PhaseInv
<1>2. CASE Answer
  <2>1. NothingAfterComplete' /\ Running'
    BY <1>2 DEF PhaseInv, NothingAfterComplete, Running, Answer, Retry, Unanswered,
                FinalMessage, ToolCalls, Return, diskVars
  <2> QED
    BY <1>2, <1>t, <2>1, AnswerTyped DEF PhaseInv
<1>3. ASSUME NEW c \in Calls, Dispatch(c) PROVE PhaseInv'
  <2>1. pc = "calls" /\ pc' \in {"signal", "calls", "done"}
    BY <1>3 DEF Dispatch, Return
  <2>2. pc' # "done" => blocked' # "engine"
    BY <1>3, <2>1 DEF PhaseInv, Running, Dispatch, Return, BlockedAfter
  <2>3. pc' # "done" => (summary'.exists => summary'.by = "tool")
    BY <1>3, <2>1 DEF PhaseInv, Running, Dispatch, Carried, NoSummary, Naming
  <2> QED
    BY <1>3, <1>t, <2>1, <2>2, <2>3, DispatchTyped DEF PhaseInv, NothingAfterComplete, Running
<1>4. CASE Signal
  <2>1. NothingAfterComplete' /\ Running'
    BY <1>4 DEF PhaseInv, NothingAfterComplete, Running, Signal, SignalChecked, Return
  <2> QED
    BY <1>4, <1>t, <2>1, SignalTyped DEF PhaseInv
<1>5. CASE UNCHANGED vars
  BY <1>5 DEF PhaseInv, TypeOK, NothingAfterComplete, Running, vars, diskVars, trackVars, Worker
<1> QED
  BY <1>1, <1>2, <1>3, <1>4, <1>5 DEF Next

\* It holds throughout a phase.
LEMMA PhaseInvariant == Spec => []PhaseInv
  BY PhaseInit, PhaseStep, PTL DEF Spec

\* Type correctness, with both error limits of run_phase: a call that has
\* failed four times, or errors up to the threshold, end the phase.
THEOREM PhaseTypeOK == Spec => []TypeOK
<1>1. PhaseInv => TypeOK
  BY DEF PhaseInv
<1> QED
  BY <1>1, PhaseInvariant, PTL

\* The model is asked nothing after work-complete.txt.
THEOREM PhaseNothingAfterComplete == Spec => []NothingAfterComplete
<1>1. PhaseInv => NothingAfterComplete
  BY DEF PhaseInv
<1> QED
  BY <1>1, PhaseInvariant, PTL

-----------------------------------------------------------------------------
(* The contract.                                                           *)

\* A phase that begins is one of the contract that begins.
LEMMA ContractInit == Init => Contract!Init
  BY DEF Init, Contract!Init, OffLimits, Landed, NoSummary, Worker

\* Why a worker that returns 0 is in order: what the worker left itself is its
\* own, and what is missing is synthesized.
LEMMA SynthesizedShows ==
    ASSUME PhaseInv, pc # "done", Worker, Landed # {}
    PROVE  /\ Synthesized.exists
           /\ Synthesized.by = "tool" \/ Landed \cap Synthesized.names # {}
  BY DEF PhaseInv, Running, Synthesized, Synthesizes, Naming

\* The head of the loop is a step of the contract or none.
LEMMA TopRefines ==
    ASSUME PhaseInv, Top PROVE [Contract!Next]_Contract!vars
<1>r. role \in {"WORKER", "REVIEWER"} /\ TypeOK
  BY DEF PhaseInv, TypeOK
<1>1. CASE Ask
  BY <1>1 DEF Ask, Contract!vars, OffLimits, Landed, Worker, diskVars, trackVars
<1>2. CASE BudgetAbort
  <2>1. Contract!Fail
    BY <1>2 DEF BudgetAbort, Return, Contract!Fail, OffLimits, Landed, Worker, diskVars, trackVars
  <2> QED
    BY <2>1 DEF Contract!Next
<1>3. CASE CapReached \/ Exhausted
  <2>1. /\ pc = "top" /\ pc' = "done"
        /\ summary' = Synthesized
        /\ UNCHANGED <<role, files, written, altered, blocked>>
    BY <1>3 DEF CapReached, Exhausted, Return, trackVars
  <2>2. CASE rc' = 0
    <3>1. Worker /\ Landed # {} =>
            /\ summary'.exists
            /\ summary'.by = "tool" \/ Landed' \cap summary'.names # {}
      BY <2>1, SynthesizedShows DEF Landed
    <3>2. Contract!Succeed
      BY <1>r, <2>1, <2>2, <3>1, SynthesizedType
         DEF Contract!Succeed, Contract!Manifested, OffLimits, Landed, Worker
    <3> QED
      BY <3>2 DEF Contract!Next
  <2>3. CASE rc' = 1
    <3>1. Contract!Fail
      BY <1>r, <2>1, <2>3, SynthesizedType DEF Contract!Fail, OffLimits, Landed, Worker
    <3> QED
      BY <3>1 DEF Contract!Next
  <2> QED
    BY <1>3, <2>2, <2>3 DEF CapReached, Exhausted, Return
<1> QED
  BY <1>1, <1>2, <1>3 DEF Top

\* So is an answer.
LEMMA AnswerRefines ==
    ASSUME PhaseInv, Answer PROVE [Contract!Next]_Contract!vars
<1>r. role \in {"WORKER", "REVIEWER"}
  BY DEF PhaseInv, TypeOK
<1>1. CASE Retry \/ ToolCalls
  BY <1>1 DEF Retry, ToolCalls, Contract!vars, OffLimits, Landed, Worker, diskVars, trackVars
<1>2. CASE Unanswered
  <2>1. Contract!Fail
    BY <1>2 DEF Unanswered, Return, Contract!Fail, OffLimits, Landed, Worker, trackVars
  <2> QED
    BY <2>1 DEF Contract!Next
<1>3. CASE FinalMessage
  <2>1. PICK names \in SUBSET Files :
          summary' = IF ~Worker THEN summary ELSE Naming(Extended(names), "message")
    BY <1>3 DEF FinalMessage
  <2>2. Landed # {} => Landed \cap Extended(names) # {}
    BY DEF Extended
  <2>3. Landed' = Landed
    BY <1>3 DEF FinalMessage, Landed
  <2>4. Worker /\ Landed' # {} => summary'.exists /\ Landed' \cap summary'.names # {}
    BY <2>1, <2>2, <2>3 DEF Naming
  <2>5. Contract!Succeed
    BY <1>r, <1>3, <2>1, <2>3, <2>4
       DEF FinalMessage, Return, Contract!Succeed, Contract!Manifested, OffLimits, Worker
  <2> QED
    BY <2>5 DEF Contract!Next
<1> QED
  BY <1>1, <1>2, <1>3 DEF Answer

\* So is the look for the signal.
LEMMA SignalRefines ==
    ASSUME PhaseInv, Signal PROVE [Contract!Next]_Contract!vars
<1>r. role \in {"WORKER", "REVIEWER"} /\ TypeOK
  BY DEF PhaseInv, TypeOK
<1>1. CASE ~complete
  BY <1>1 DEF Signal, SignalChecked, Contract!vars, OffLimits, Landed, Worker, trackVars
<1>2. CASE complete
  <2>1. /\ pc = "signal" /\ pc' = "done" /\ rc' = 0
        /\ summary' = Synthesized
        /\ UNCHANGED <<role, files, written, altered, blocked>>
    BY <1>2 DEF Signal, SignalChecked, Return, trackVars
  <2>2. Worker /\ Landed # {} =>
          /\ summary'.exists
          /\ summary'.by = "tool" \/ Landed' \cap summary'.names # {}
    BY <2>1, SynthesizedShows DEF Landed
  <2>3. Contract!Succeed
    BY <1>r, <2>1, <2>2, SynthesizedType
       DEF Contract!Succeed, Contract!Manifested, OffLimits, Landed, Worker
  <2> QED
    BY <2>3 DEF Contract!Next
<1> QED
  BY <1>1, <1>2

\* The write scope: a call that changes a file is a worker's, and the file is
\* neither a signal file nor out of scope.
LEMMA AltersInScope ==
    ASSUME NEW c \in Calls, NEW r \in Outcomes(c), Alters(c, r)
    PROVE  Worker /\ c.path \notin Signals \cup Outside
<1>1. IsWrite(c) /\ r \in {"ok", "lost"}
  BY DEF Alters, IsWrite
<1>2. ~Refused(c) /\ ~Violation(c)
  BY <1>1 DEF Outcomes
<1> QED
  BY <1>1, <1>2 DEF Refused, Violation

\* A dispatched call is a step of the contract, or stutters.
LEMMA DispatchRefines ==
    ASSUME PhaseInv, NEW c \in Calls, Dispatch(c)
    PROVE  [Contract!Next]_Contract!vars
<1> PICK r \in Outcomes(c) :
      /\ IF Alters(c, r) THEN Carried(c)
         ELSE UNCHANGED <<files, summary, complete, report, altered>>
      /\ ReadCounted(c, r)
      /\ Recorded(c, r)
      /\ IF Stops(c, r)
         THEN blocked' = "engine" /\ Return(1)
         ELSE /\ blocked' = BlockedAfter(c, r)
              /\ pc' = IF left = 1 THEN "signal" ELSE "calls"
              /\ rc' = rc
  BY DEF Dispatch
<1>1. pc = "calls" /\ role' = role /\ role \in {"WORKER", "REVIEWER"}
  BY DEF Dispatch, PhaseInv, TypeOK
<1>2. OffLimits' = OffLimits
  <2>1. CASE Alters(c, r)
    BY <1>1, <2>1, AltersInScope DEF OffLimits, Carried, Worker
  <2>2. CASE ~Alters(c, r)
    BY <1>1, <2>2 DEF OffLimits, Worker
  <2> QED
    BY <2>1, <2>2
<1>3. ~Worker => UNCHANGED <<files, written, summary>>
  <2> SUFFICES ASSUME ~Worker PROVE UNCHANGED <<files, written, summary>>
    OBVIOUS
  <2>1. ~Alters(c, r)
    BY AltersInScope
  <2>2. IsWrite(c) => r = "refused"
    BY DEF Outcomes, Refused
  <2> QED
    BY <2>1, <2>2 DEF Recorded
<1>4. CASE Stops(c, r)
  <2>1. Contract!Fail
    BY <1>1, <1>2, <1>3, <1>4 DEF Contract!Fail, Return, Landed, Worker
  <2> QED
    BY <2>1 DEF Contract!Next
<1>5. CASE ~Stops(c, r) /\ Worker
  <2>1. blocked' \in {"absent", "other"}
    BY <1>1, <1>5 DEF PhaseInv, TypeOK, Running, BlockedAfter
  <2>2. Contract!Write
    BY <1>1, <1>2, <1>5, <2>1 DEF Contract!Write, Worker
  <2> QED
    BY <2>2 DEF Contract!Next
<1>6. CASE ~Stops(c, r) /\ ~Worker
  <2>1. blocked' = blocked
    BY <1>6, AltersInScope DEF BlockedAfter
  <2> QED
    BY <1>1, <1>2, <1>3, <1>6, <2>1 DEF Contract!vars, Landed
<1> QED
  BY <1>4, <1>5, <1>6

\* Every step of the phase is a step of the contract, or stutters.
LEMMA StepRefines ==
    PhaseInv /\ [Next]_vars => [Contract!Next]_Contract!vars
<1> SUFFICES ASSUME PhaseInv, [Next]_vars PROVE [Contract!Next]_Contract!vars
  OBVIOUS
<1>1. CASE UNCHANGED vars
  BY <1>1 DEF vars, diskVars, trackVars, Contract!vars, OffLimits, Landed, Worker
<1> QED
  BY <1>1, TopRefines, AnswerRefines, DispatchRefines, SignalRefines DEF Next

\* A phase implements its contract: it changes no signal file and nothing out
\* of scope, a reviewer writes nothing, and a worker that returns 0 leaves a
\* manifest of what it was seen to write.
THEOREM PhaseKeepsContract == Spec => KeepsContract
<1>1. Spec => Contract!Init
  BY ContractInit, PTL DEF Spec
<1>2. Spec => [][Contract!Next]_Contract!vars
  BY PhaseInvariant, StepRefines, PTL DEF Spec
<1> QED
  BY <1>1, <1>2 DEF KeepsContract, Contract!Spec

-----------------------------------------------------------------------------
(* The form a conversation is sent in: induction over its messages.        *)

\* A set of naturals that is not empty has a least one.
LEMMA LeastOf ==
    ASSUME NEW S, S \subseteq Nat, S # {}
    PROVE  \E n \in S : \A k \in S : n <= k
<1> DEFINE R == {x \in Nat \X Nat : x[1] < x[2]}
<1>1. IsWellFoundedOn(R, Nat)
  BY NatLessThanWellFounded, Zenon DEF OpToRel
<1>2. \A k, n \in Nat : k < n => <<k, n>> \in R
  OBVIOUS
<1> HIDE DEF R
<1>3. \E n \in S : \A k \in S : ~(<<k, n>> \in R)
  BY ONLY <1>1, WFMin, S \subseteq Nat, S # {}, Zenon
<1>4. PICK n \in S : \A k \in S : ~(<<k, n>> \in R)
  BY <1>3
<1>5. ASSUME NEW k \in S PROVE n <= k
  <2>1. n \in Nat /\ k \in Nat
    OBVIOUS
  <2>2. ~(k < n)
    BY <1>2, <1>4, <2>1
  <2> QED
    BY <2>1, <2>2
<1> QED
  BY <1>5

\* What holds of 0, and of n + 1 when it holds of n, holds of all naturals.
LEMMA NaturalsOf ==
    ASSUME NEW S, 0 \in S, \A n \in Nat : n \in S => n + 1 \in S
    PROVE  \A n \in Nat : n \in S
<1> SUFFICES ASSUME Nat \ S # {} PROVE FALSE
  OBVIOUS
<1>1. PICK n \in Nat \ S : \A k \in Nat \ S : n <= k
  BY LeastOf
<1>2. n # 0 /\ n - 1 \in Nat
  BY <1>1
<1>3. n - 1 \in S
  BY <1>1, <1>2
<1> QED
  BY <1>1, <1>2, <1>3

\* What is to be added before the first message, and after each.
Adding(f, c, k) ==
    f = [n \in 0..k |-> IF n = 0 THEN <<>> ELSE Added(f[n - 1], c[n])]

\* The messages can be added one after the other.
LEMMA AddingExists == ASSUME NEW c PROVE \A k \in Nat : \E f : Adding(f, c, k)
<1> DEFINE S == {k \in Nat : \E f : Adding(f, c, k)}
<1>1. 0 \in S
  <2> DEFINE f == [n \in 0..0 |-> <<>>]
  <2>1. f = [n \in 0..0 |-> IF n = 0 THEN <<>> ELSE Added(f[n - 1], c[n])]
    OBVIOUS
  <2> QED
    BY <2>1 DEF Adding
<1>2. ASSUME NEW k \in Nat, k \in S PROVE k + 1 \in S
  <2>1. PICK f : Adding(f, c, k)
    BY <1>2
  <2> DEFINE g == [n \in 0..(k + 1) |-> IF n = k + 1 THEN Added(f[k], c[k + 1]) ELSE f[n]]
             h == [n \in 0..(k + 1) |-> IF n = 0 THEN <<>> ELSE Added(g[n - 1], c[n])]
  <2>2. ASSUME NEW n \in 0..(k + 1) PROVE g[n] = h[n]
    <3>1. CASE n = k + 1
      BY <3>1
    <3>2. CASE n # k + 1
      <4>1. n \in 0..k /\ f[n] = IF n = 0 THEN <<>> ELSE Added(f[n - 1], c[n])
        BY <2>1, <3>2 DEF Adding
      <4>2. n # 0 => g[n - 1] = f[n - 1]
        BY <4>1
      <4> QED
        BY <3>2, <4>1, <4>2
    <3> QED
      BY <3>1, <3>2
  <2>3. g = h
    BY <2>2
  <2> HIDE DEF g
  <2>4. Adding(g, c, k + 1)
    BY <2>3 DEF Adding
  <2> QED
    BY <2>4
<1> HIDE DEF S
<1>3. \A k \in Nat : k \in S
  BY <1>1, <1>2, NaturalsOf
<1> QED
  BY <1>3 DEF S

\* So what there is after each message is what its definition says.
LEMMA ConvertedIs ==
    ASSUME NEW c, Len(c) \in Nat
    PROVE  Adding(Converted(c), c, Len(c))
<1>1. \E f : Adding(f, c, Len(c))
  BY AddingExists
<1> QED
  BY <1>1, Zenon DEF Adding, Converted

\* One more message is added to what there is.
LEMMA OneMore ==
    ASSUME NEW T, NEW c \in Seq(T), NEW m \in T
    PROVE  ToAnthropic(Append(c, m)) = Added(ToAnthropic(c), m)
<1> DEFINE d == Append(c, m)
           f == Converted(c)
           g == Converted(d)
           S == {n \in Nat : n <= Len(c) => f[n] = g[n]}
<1>0. /\ Len(c) \in Nat /\ Len(d) = Len(c) + 1 /\ d[Len(c) + 1] = m
      /\ \A n \in 1..Len(c) : d[n] = c[n]
  OBVIOUS
<1> HIDE DEF d
<1>1. Adding(f, c, Len(c)) /\ Adding(g, d, Len(c) + 1)
  <2>1. Len(c) \in Nat /\ Len(d) \in Nat
    BY <1>0
  <2>2. Adding(Converted(c), c, Len(c)) /\ Adding(Converted(d), d, Len(d))
    BY <2>1, ConvertedIs, Zenon
  <2> QED
    BY <1>0, <2>2
<1> HIDE DEF f, g
<1>2. 0 \in S
  BY <1>0, <1>1 DEF Adding
<1>3. ASSUME NEW n \in Nat, n \in S PROVE n + 1 \in S
  <2> SUFFICES ASSUME n + 1 <= Len(c) PROVE f[n + 1] = g[n + 1]
    OBVIOUS
  <2>1. n \in 0..Len(c) /\ n + 1 \in 1..Len(c) /\ f[n] = g[n]
    BY <1>0, <1>3
  <2>2. f[n + 1] = Added(f[n], c[n + 1])
    <3>1. n + 1 \in 0..Len(c) /\ n + 1 # 0 /\ (n + 1) - 1 = n
      BY <2>1
    <3> QED
      BY <1>1, <3>1 DEF Adding
  <2>3. g[n + 1] = Added(g[n], d[n + 1])
    <3>1. n + 1 \in 0..(Len(c) + 1) /\ n + 1 # 0 /\ (n + 1) - 1 = n
      BY <1>0, <2>1
    <3> QED
      BY <1>1, <3>1 DEF Adding
  <2> QED
    BY <1>0, <2>1, <2>2, <2>3
<1> HIDE DEF S
<1>4. Len(c) \in S
  BY <1>0, <1>2, <1>3, NaturalsOf
<1>5. f[Len(c)] = g[Len(c)]
  BY <1>0, <1>4 DEF S
<1>6. g[Len(c) + 1] = Added(g[Len(c)], m)
  <2>1. Len(c) + 1 \in 0..(Len(c) + 1) /\ Len(c) + 1 # 0 /\ (Len(c) + 1) - 1 = Len(c)
    BY <1>0
  <2> QED
    BY <1>0, <1>1, <2>1 DEF Adding
<1> QED
  BY <1>0, <1>5, <1>6 DEF ToAnthropic, f, g, d

\* Nothing is sent of nothing.
LEMMA NoneYet == ToAnthropic(<<>>) = <<>>
<1>1. Len(<<>>) = 0
  OBVIOUS
<1>2. Adding(Converted(<<>>), <<>>, 0)
  BY <1>1, ConvertedIs
<1> QED
  BY <1>1, <1>2 DEF Adding, ToAnthropic

-----------------------------------------------------------------------------
(* The requests: calls announced, and answered one by one.                 *)

CallIds == Nat \X Nat

MessageType == [role : {"system", "user", "assistant", "tool"},
                calls : Seq(CallIds), answers : CallIds \cup {NoCall}]

BlockType == [kind : {"text", "tool_use", "tool_result"},
              id : CallIds \cup {NoCall}]

SentType == [role : {"user", "assistant"}, blocks : Seq(BlockType)]

Uses(calls) == [n \in DOMAIN calls |-> Use(calls[n])]
Results(calls, k) == [n \in 1..k |-> Result(calls[n])]

Asking(calls) == [role |-> "assistant", blocks |-> Uses(calls)]
Telling(calls, k) == [role |-> "user", blocks |-> Results(calls, k)]

\* A conversation the user begins, answered up to its n-th message.
AnsweredUpTo(sent, last) ==
    /\ sent \in Seq(SentType) /\ last \in 1..Len(sent)
    /\ sent[1].role = "user" /\ Places(sent[1], "tool_result") = {}
    /\ \A n \in 2..last : sent[n].role = "user" => Answers(sent[n], sent[n - 1])

\* It waits for the assistant.
Whole(sent) ==
    AnsweredUpTo(sent, Len(sent)) /\ sent[Len(sent)].role = "user"

\* The assistant has announced calls, and k of them are answered.
Partial(sent, calls, k) ==
    IF k = 0
    THEN AnsweredUpTo(sent, Len(sent)) /\ sent[Len(sent)] = Asking(calls)
    ELSE /\ AnsweredUpTo(sent, Len(sent) - 1)
         /\ sent[Len(sent) - 1] = Asking(calls)
         /\ sent[Len(sent)] = Telling(calls, k)

\* The blocks of calls and results are blocks.
LEMMA BlocksTyped ==
    ASSUME NEW calls \in Seq(CallIds)
    PROVE  /\ Uses(calls) \in Seq(BlockType)
           /\ \A k \in 0..Len(calls) : Results(calls, k) \in Seq(BlockType)
           /\ Asking(calls) \in SentType
           /\ \A k \in 0..Len(calls) : Telling(calls, k) \in SentType
<1>1. \A n \in 1..Len(calls) :
         Use(calls[n]) \in BlockType /\ Result(calls[n]) \in BlockType
  BY DEF Use, Result, BlockType
<1>2. Uses(calls) \in Seq(BlockType)
  <2>1. Uses(calls) = [n \in 1..Len(calls) |-> Use(calls[n])]
    BY DEF Uses
  <2> QED
    BY <1>1, <2>1
<1>3. ASSUME NEW k \in 0..Len(calls) PROVE Results(calls, k) \in Seq(BlockType)
  BY <1>1 DEF Results
<1> QED
  BY <1>2, <1>3 DEF Asking, Telling, SentType

\* As many results as calls, in their order, answer them.
LEMMA AllResults ==
    ASSUME NEW calls \in Seq(CallIds)
    PROVE  Answers(Telling(calls, Len(calls)), Asking(calls))
<1> DEFINE told == Telling(calls, Len(calls))
           asked == Asking(calls)
           D == 1..Len(calls)
           same == [n \in D |-> n]
<1>1. /\ told.blocks = [n \in D |-> Result(calls[n])]
      /\ asked.blocks = [n \in D |-> Use(calls[n])]
  BY DEF Telling, Asking, Results, Uses
<1> HIDE DEF told, asked
<1>2. Places(told, "tool_result") = D /\ Places(asked, "tool_use") = D
  BY <1>1 DEF Places, Result, Use
<1>3. same \in Bijection(D, D)
  BY DEF Bijection, Injection, Surjection, IsInjective
<1>4. \A n \in D : told.blocks[n].id = asked.blocks[same[n]].id
  BY <1>1 DEF Result, Use
<1> HIDE DEF D, same
<1> QED
  BY <1>2, <1>3, <1>4 DEF Answers, told, asked

\* The assistant announces calls.
LEMMA CallsAdded ==
    ASSUME NEW sent, Whole(sent), NEW calls \in Seq(CallIds), Len(calls) > 0
    PROVE  Partial(Added(sent, Message("assistant", calls, NoCall)), calls, 0)
<1> DEFINE m == Message("assistant", calls, NoCall)
           out == Append(sent, Asking(calls))
<1>1. /\ sent \in Seq(SentType) /\ Len(sent) \in Nat \ {0}
      /\ sent[Len(sent)].role = "user"
  BY DEF Whole, AnsweredUpTo
<1>2. m.role = "assistant" /\ m.calls = calls /\ calls # <<>>
  BY DEF Message
<1>3. Added(sent, m) = out
  BY <1>1, <1>2 DEF Added, Side, Blocks, Asking, Uses, Last
<1>4. Asking(calls) \in SentType
  BY BlocksTyped
<1>5. /\ out \in Seq(SentType) /\ Len(out) = Len(sent) + 1
      /\ out[Len(out)] = Asking(calls)
      /\ \A n \in 1..Len(sent) : out[n] = sent[n]
  BY <1>1, <1>4
<1> HIDE DEF out
<1>6. \A n \in 2..Len(out) : out[n].role = "user" => Answers(out[n], out[n - 1])
  <2> SUFFICES ASSUME NEW n \in 2..Len(out), out[n].role = "user"
               PROVE  Answers(out[n], out[n - 1])
    OBVIOUS
  <2>1. Asking(calls).role = "assistant"
    BY DEF Asking
  <2>2. n \in 2..Len(sent)
    BY <1>1, <1>5, <2>1
  <2>3. out[n] = sent[n] /\ out[n - 1] = sent[n - 1]
    BY <1>1, <1>5, <2>2
  <2> QED
    BY <2>2, <2>3 DEF Whole, AnsweredUpTo
<1>7. AnsweredUpTo(out, Len(out))
  <2>1. out[1] = sent[1] /\ Len(out) \in 1..Len(out)
    BY <1>1, <1>5
  <2> QED
    BY <1>5, <1>6, <2>1 DEF AnsweredUpTo, Whole
<1> QED
  BY <1>3, <1>5, <1>7 DEF Partial

\* The result of the next call is added.
LEMMA ResultAdded ==
    ASSUME NEW calls \in Seq(CallIds), NEW k \in 0..(Len(calls) - 1),
           NEW sent, Partial(sent, calls, k)
    PROVE  Partial(Added(sent, Message("tool", <<>>, calls[k + 1])), calls, k + 1)
<1> DEFINE m == Message("tool", <<>>, calls[k + 1])
           out == Added(sent, m)
           last == Len(sent)
<1>1. m.role = "tool" /\ Blocks(m) = <<Result(calls[k + 1])>> /\ Side(m) = "user"
  BY DEF Message, Blocks, Side
<1>2. Results(calls, k + 1) \in Seq(BlockType) /\ Telling(calls, k + 1) \in SentType
  BY BlocksTyped
<1>3. CASE k = 0
  <2>1. /\ AnsweredUpTo(sent, last) /\ sent[last] = Asking(calls)
        /\ sent \in Seq(SentType) /\ last \in Nat \ {0}
    BY <1>3 DEF Partial, AnsweredUpTo
  <2>2. Telling(calls, k + 1) = [role |-> "user", blocks |-> <<Result(calls[k + 1])>>]
    <3>1. Results(calls, 1) = <<Result(calls[1])>>
      BY DEF Results
    <3> QED
      BY <1>3, <3>1 DEF Telling
  <2>3. out = Append(sent, Telling(calls, k + 1))
    BY <1>1, <2>1, <2>2 DEF Added, Asking, Last
  <2> HIDE DEF out
  <2>4. /\ out \in Seq(SentType) /\ Len(out) = last + 1
        /\ out[Len(out)] = Telling(calls, k + 1)
        /\ \A n \in 1..last : out[n] = sent[n]
    BY <1>2, <2>1, <2>3
  <2>5. AnsweredUpTo(out, last)
    <3>1. \A n \in 2..last : out[n] = sent[n] /\ out[n - 1] = sent[n - 1]
      BY <2>1, <2>4
    <3> QED
      BY <2>1, <2>4, <3>1 DEF AnsweredUpTo
  <2>6. /\ AnsweredUpTo(out, Len(out) - 1) /\ out[Len(out) - 1] = Asking(calls)
        /\ k + 1 # 0
    BY <1>3, <2>1, <2>4, <2>5
  <2>7. Partial(out, calls, k + 1)
    BY <2>4, <2>6 DEF Partial
  <2> QED
    BY <2>7 DEF out
<1>4. CASE k # 0
  <2>1. /\ AnsweredUpTo(sent, last - 1) /\ sent[last - 1] = Asking(calls)
        /\ sent[last] = Telling(calls, k)
        /\ sent \in Seq(SentType) /\ last \in Nat \ {0, 1}
    <3>1. /\ AnsweredUpTo(sent, last - 1) /\ sent[last - 1] = Asking(calls)
          /\ sent[last] = Telling(calls, k)
      BY <1>4 DEF Partial
    <3>2. sent \in Seq(SentType) /\ last - 1 \in 1..last
      BY <3>1 DEF AnsweredUpTo
    <3> QED
      BY <3>1, <3>2
  <2>2. Results(calls, k) \o <<Result(calls[k + 1])>> = Results(calls, k + 1)
    <3>1. /\ Results(calls, k) \in Seq(BlockType) /\ Len(Results(calls, k)) = k
          /\ Result(calls[k + 1]) \in BlockType
      <4>1. Results(calls, k) \in Seq(BlockType)
        BY BlocksTyped
      <4> QED
        BY <4>1 DEF Results, Result, BlockType
    <3> DEFINE both == Results(calls, k) \o <<Result(calls[k + 1])>>
    <3>2. both \in Seq(BlockType) /\ Len(both) = k + 1
      BY <3>1
    <3>3. \A n \in 1..(k + 1) : both[n] = Result(calls[n])
      BY <3>1 DEF Results
    <3> HIDE DEF both
    <3>4. both = [n \in 1..(k + 1) |-> Result(calls[n])]
      BY <3>2, <3>3
    <3> QED
      BY <3>4 DEF both, Results
  <2>3. /\ Telling(calls, k).role = "user"
        /\ Telling(calls, k).blocks = Results(calls, k)
        /\ [Telling(calls, k) EXCEPT !.blocks = Results(calls, k + 1)]
              = Telling(calls, k + 1)
    BY DEF Telling
  <2>4. out = [sent EXCEPT ![last] = Telling(calls, k + 1)]
    <3>1. sent # <<>> /\ Last(sent) = sent[last] /\ sent[last].role = "user"
      BY <2>1, <2>3 DEF Last
    <3>2. out = [sent EXCEPT ![last].blocks = @ \o Blocks(m)]
      BY <1>1, <3>1 DEF Added
    <3> QED
      BY <1>1, <2>1, <2>2, <2>3, <3>2
  <2> HIDE DEF out
  <2>5. /\ out \in Seq(SentType) /\ Len(out) = last
        /\ out[last] = Telling(calls, k + 1)
        /\ \A n \in 1..(last - 1) : out[n] = sent[n]
    BY <1>2, <2>1, <2>4
  <2>6. AnsweredUpTo(out, last - 1)
    <3>1. \A n \in 2..(last - 1) : out[n] = sent[n] /\ out[n - 1] = sent[n - 1]
      BY <2>1, <2>5
    <3> QED
      BY <2>1, <2>5, <3>1 DEF AnsweredUpTo
  <2>7. /\ AnsweredUpTo(out, Len(out) - 1) /\ out[Len(out) - 1] = Asking(calls)
        /\ k + 1 # 0
    BY <2>1, <2>5, <2>6
  <2>8. Partial(out, calls, k + 1)
    BY <2>5, <2>7 DEF Partial
  <2> QED
    BY <2>8 DEF out
<1> QED
  BY <1>3, <1>4

\* With the last result the conversation waits for the assistant again.
LEMMA AllAdded ==
    ASSUME NEW calls \in Seq(CallIds), Len(calls) > 0,
           NEW sent, Partial(sent, calls, Len(calls))
    PROVE  Whole(sent)
<1> DEFINE last == Len(sent)
<1>1. /\ AnsweredUpTo(sent, last - 1) /\ sent[last - 1] = Asking(calls)
      /\ sent[last] = Telling(calls, Len(calls))
      /\ sent \in Seq(SentType) /\ last \in Nat \ {0, 1}
  BY DEF Partial, AnsweredUpTo
<1>2. Answers(sent[last], sent[last - 1])
  BY <1>1, AllResults
<1>3. sent[last].role = "user"
  BY <1>1 DEF Telling
<1>4. \A n \in 2..last : n = last \/ n \in 2..(last - 1)
  BY <1>1
<1> QED
  BY <1>1, <1>2, <1>3, <1>4 DEF Whole, AnsweredUpTo

-----------------------------------------------------------------------------
(* The conversation of a phase.                                            *)

\* The assistant's message at place a is the last of its kind.
LastAssistant(conversation, a) ==
    /\ a \in 1..Len(conversation) /\ conversation[a].role = "assistant"
    /\ \A n \in (a + 1)..Len(conversation) : conversation[n].role # "assistant"

\* The calls of the answer: those after "left" are told, in their order.
Answering ==
    \E a \in 1..Len(messages) :
        LET calls == messages[a].calls
            k == Len(messages) - a
        IN  /\ LastAssistant(messages, a) /\ Len(calls) = k + left
            /\ Partial(ToAnthropic(messages), calls, k)

ConvInv ==
    pc # "done" =>
        /\ messages \in Seq(MessageType) /\ messages # <<>>
        /\ \A n \in 2..Len(messages) :
              messages[n].role = "user" => messages[n - 1].role # "tool"
        /\ IF pc = "calls" THEN Answering ELSE Whole(ToAnthropic(messages))

\* Messages of a phase are messages.
LEMMA MessagesTyped ==
    /\ Message("system", <<>>, NoCall) \in MessageType
    /\ Message("user", <<>>, NoCall) \in MessageType
    /\ \A calls \in Seq(CallIds) : Message("assistant", calls, NoCall) \in MessageType
    /\ \A id \in CallIds : Message("tool", <<>>, id) \in MessageType
<1>1. <<>> \in Seq(CallIds)
  OBVIOUS
<1> QED
  BY <1>1 DEF Message, MessageType

\* The request of a phase that has just begun.
LEMMA ConvStart == ConvInit => ConvInv
<1> SUFFICES ASSUME ConvInit PROVE ConvInv
  OBVIOUS
<1> DEFINE sys == Message("system", <<>>, NoCall)
           usr == Message("user", <<>>, NoCall)
           first == [role |-> "user", blocks |-> <<Text>>]
<1>1. /\ sys \in MessageType /\ usr \in MessageType
      /\ sys.role = "system" /\ usr.role = "user"
      /\ Side(usr) = "user" /\ Blocks(usr) = <<Text>>
  BY MessagesTyped DEF Message, Side, Blocks
<1> HIDE DEF sys, usr
<1>2. messages = <<sys, usr>>
  BY DEF ConvInit, Opening, sys, usr
<1>3. /\ <<sys>> \in Seq(MessageType) /\ Append(<<sys>>, usr) = <<sys, usr>>
      /\ <<>> \in Seq(MessageType) /\ Append(<<>>, sys) = <<sys>>
  <2>1. <<sys>> \in Seq(MessageType) /\ <<>> \in Seq(MessageType)
    BY <1>1
  <2>2. Append(<<>>, sys) = <<sys>>
    OBVIOUS
  <2>3. Append(<<sys>>, usr) = <<sys, usr>>
    <3> DEFINE both == Append(<<sys>>, usr)
               pair == <<sys, usr>>
    <3>1. both \in Seq(MessageType) /\ Len(both) = 2 /\ both[1] = sys /\ both[2] = usr
      BY <1>1
    <3>2. pair \in Seq(MessageType) /\ Len(pair) = 2 /\ pair[1] = sys /\ pair[2] = usr
      BY <1>1
    <3> HIDE DEF both, pair
    <3>3. \A n \in 1..2 : both[n] = pair[n]
      <4>1. \A n \in 1..2 : n = 1 \/ n = 2
        OBVIOUS
      <4> QED
        BY <3>1, <3>2, <4>1
    <3>4. both = pair
      BY <3>1, <3>2, <3>3
    <3> QED
      BY <3>4 DEF both, pair
  <2> QED
    BY <2>1, <2>2, <2>3
<1>4. ToAnthropic(<<sys>>) = <<>>
  <2>1. ToAnthropic(Append(<<>>, sys)) = Added(ToAnthropic(<<>>), sys)
    BY <1>1, <1>3, OneMore
  <2> QED
    BY <1>1, <1>3, <2>1, NoneYet DEF Added
<1>5. ToAnthropic(messages) = <<first>>
  <2>1. ToAnthropic(Append(<<sys>>, usr)) = Added(ToAnthropic(<<sys>>), usr)
    BY <1>1, <1>3, OneMore
  <2>2. Added(<<>>, usr) = Append(<<>>, first)
    BY <1>1 DEF Added
  <2>3. Append(<<>>, first) = <<first>>
    OBVIOUS
  <2> QED
    BY <1>2, <1>3, <1>4, <2>1, <2>2, <2>3
<1>6. first \in SentType /\ first.role = "user" /\ Places(first, "tool_result") = {}
  BY DEF SentType, BlockType, Text, Places
<1> HIDE DEF first
<1>7. Whole(<<first>>)
  <2>1. /\ <<first>> \in Seq(SentType) /\ Len(<<first>>) = 1 /\ <<first>>[1] = first
    BY <1>6
  <2> QED
    BY <1>6, <2>1 DEF Whole, AnsweredUpTo
<1>8. /\ messages \in Seq(MessageType) /\ messages # <<>> /\ Len(messages) = 2
      /\ messages[1] = sys /\ messages[2] = usr
  BY <1>1, <1>2
<1> QED
  BY <1>1, <1>5, <1>7, <1>8 DEF ConvInv, ConvInit, Init

\* Where a step of the phase goes.
LEMMA PcMoves ==
    ASSUME TypeOK, Next
    PROVE  /\ pc # "done"
           /\ \/ pc' = "done"
              \/ /\ pc # "calls" /\ pc' \notin {"calls", "done"}
              \/ /\ pc = "ask" /\ pc' = "calls" /\ left' \in 1..MaxToolCalls
              \/ /\ pc = "calls" /\ left' = left - 1
                 /\ pc' = IF left = 1 THEN "signal" ELSE "calls"
<1>1. CASE Top
  BY <1>1 DEF Top, CapReached, BudgetAbort, Exhausted, Ask, Return
<1>2. CASE Answer
  <2>1. ASSUME ToolCalls PROVE left' \in 1..MaxToolCalls
    BY <2>1, PhaseAssumption DEF ToolCalls, Truncated
  <2> QED
    BY <1>2, <2>1 DEF Answer, Retry, Unanswered, FinalMessage, ToolCalls, Return
<1>3. ASSUME NEW c \in Calls, Dispatch(c)
      PROVE  /\ pc = "calls" /\ left' = left - 1
             /\ \/ pc' = "done"
                \/ pc' = IF left = 1 THEN "signal" ELSE "calls"
  BY <1>3 DEF Dispatch, Return
<1>4. CASE Signal
  BY <1>4 DEF Signal, Return
<1> QED
  BY <1>1, <1>2, <1>3, <1>4 DEF Next

\* The assistant's message begins an answer.
LEMMA AnswerBegins ==
    ASSUME TypeOK, ConvInv, Told, pc = "ask", pc' = "calls",
           left' \in 1..MaxToolCalls
    PROVE  ConvInv'
<1> DEFINE calls == Announced(left')
           m == Message("assistant", calls, NoCall)
<1>1. /\ messages \in Seq(MessageType) /\ messages # <<>>
      /\ \A n \in 2..Len(messages) :
            messages[n].role = "user" => messages[n - 1].role # "tool"
      /\ Whole(ToAnthropic(messages))
  BY DEF ConvInv
<1>2. calls \in Seq(CallIds) /\ Len(calls) = left' /\ left' > 0
  <2>1. left' \in Nat /\ left' > 0
    BY PhaseAssumption
  <2>2. \A n \in 1..left' : CallId(n) \in CallIds
    BY DEF CallId, CallIds, TypeOK
  <2> QED
    BY <2>1, <2>2 DEF Announced
<1> HIDE DEF calls
<1>3. m \in MessageType /\ m.role = "assistant" /\ m.calls = calls
  BY <1>2, MessagesTyped DEF Message
<1>4. messages' = Append(messages, m)
  BY DEF Told, calls
<1>5. Partial(ToAnthropic(messages'), calls, 0)
  <2>1. ToAnthropic(messages') = Added(ToAnthropic(messages), m)
    BY <1>1, <1>3, <1>4, OneMore
  <2> QED
    BY <1>1, <1>2, <2>1, CallsAdded
<1> HIDE DEF m
<1>6. /\ messages' \in Seq(MessageType) /\ Len(messages') = Len(messages) + 1
      /\ messages'[Len(messages')] = m
      /\ \A n \in 1..Len(messages) : messages'[n] = messages[n]
      /\ Len(messages) \in Nat
  BY <1>1, <1>3, <1>4
<1>7. Answering'
  <2> DEFINE a == Len(messages')
  <2>1. LastAssistant(messages', a)
    BY <1>3, <1>6 DEF LastAssistant
  <2>2. messages'[a].calls = calls /\ Len(messages') - a = 0
    BY <1>3, <1>6
  <2>3. a \in 1..Len(messages')
    BY <1>6
  <2> HIDE DEF a
  <2>4. /\ Len(messages'[a].calls) = (Len(messages') - a) + left'
        /\ Partial(ToAnthropic(messages'), messages'[a].calls, Len(messages') - a)
    BY <1>2, <1>5, <2>2
  <2> QED
    BY <2>1, <2>3, <2>4 DEF Answering
<1>8. ASSUME NEW n \in 2..Len(messages'), messages'[n].role = "user"
      PROVE  messages'[n - 1].role # "tool"
  <2>1. n \in 2..Len(messages)
    BY <1>3, <1>6, <1>8
  <2> QED
    BY <1>1, <1>6, <1>8, <2>1
<1> QED
  BY <1>6, <1>7, <1>8 DEF ConvInv

\* The call being dispatched is the next that has no result.
LEMMA CurrentIs ==
    ASSUME messages \in Seq(MessageType), NEW a, LastAssistant(messages, a)
    PROVE  Current = messages[a].calls[Len(messages) - a + 1]
<1> DEFINE I == {i \in 1..Len(messages) : messages[i].role = "assistant"}
<1>1. a \in I /\ \A i \in I : a >= i
  BY DEF LastAssistant
<1>2. I # {} /\ Max(I) = a
  <2>1. Max(I) \in I /\ \A i \in I : Max(I) >= i
    BY <1>1 DEF Max
  <2> QED
    BY <1>1, <2>1
<1> HIDE DEF I
<1>3. (IF I # {} THEN Max(I) ELSE 0) = a
  BY <1>2
<1> QED
  BY <1>3, Zenon DEF Current, SelectLastInSeq, I

\* A result is appended once, and answers the next call.
LEMMA AnswerGoesOn ==
    ASSUME TypeOK, ConvInv, Told, pc = "calls", left' = left - 1,
           pc' = IF left = 1 THEN "signal" ELSE "calls"
    PROVE  ConvInv'
<1>1. /\ messages \in Seq(MessageType) /\ messages # <<>>
      /\ \A n \in 2..Len(messages) :
            messages[n].role = "user" => messages[n - 1].role # "tool"
      /\ Answering
  BY DEF ConvInv
<1>2. PICK a \in 1..Len(messages) :
         LET calls == messages[a].calls
             k == Len(messages) - a
         IN  /\ LastAssistant(messages, a) /\ Len(calls) = k + left
             /\ Partial(ToAnthropic(messages), calls, k)
  BY <1>1 DEF Answering
<1> DEFINE calls == messages[a].calls
           k == Len(messages) - a
           m == Message("tool", <<>>, calls[k + 1])
<1>3. /\ calls \in Seq(CallIds) /\ Len(calls) = k + left
      /\ k \in Nat /\ left \in Nat \ {0} /\ k + 1 \in 1..Len(calls)
      /\ LastAssistant(messages, a) /\ Partial(ToAnthropic(messages), calls, k)
  <2>1. messages[a] \in MessageType
    BY <1>1
  <2>2. left \in Nat \ {0} /\ k \in Nat
    BY PhaseAssumption, <1>1 DEF TypeOK
  <2> QED
    BY <1>2, <2>1, <2>2 DEF MessageType
<1>4. Current = calls[k + 1]
  BY <1>1, <1>3, CurrentIs
<1> HIDE DEF calls
<1>5. messages' = Append(messages, m)
  BY <1>4 DEF Told, Injected
<1>6. m \in MessageType /\ m.role = "tool"
  <2>1. calls[k + 1] \in CallIds
    BY <1>3
  <2> QED
    BY <2>1, MessagesTyped DEF Message
<1>7. Partial(ToAnthropic(messages'), calls, k + 1)
  <2>1. ToAnthropic(messages') = Added(ToAnthropic(messages), m)
    BY <1>1, <1>5, <1>6, OneMore
  <2>2. k \in 0..(Len(calls) - 1)
    BY <1>3
  <2> QED
    BY <1>3, <2>1, <2>2, ResultAdded
<1> HIDE DEF m
<1>8. /\ messages' \in Seq(MessageType) /\ Len(messages') = Len(messages) + 1
      /\ messages'[Len(messages')] = m
      /\ \A n \in 1..Len(messages) : messages'[n] = messages[n]
      /\ Len(messages) \in Nat
  BY <1>1, <1>5, <1>6
<1>9. ASSUME NEW n \in 2..Len(messages'), messages'[n].role = "user"
      PROVE  messages'[n - 1].role # "tool"
  <2>1. n \in 2..Len(messages)
    BY <1>6, <1>8, <1>9
  <2>2. messages'[n] = messages[n] /\ messages'[n - 1] = messages[n - 1]
    BY <1>8, <2>1
  <2> QED
    BY <1>1, <1>9, <2>1, <2>2
<1>10. CASE left = 1
  <2>1. Whole(ToAnthropic(messages'))
    <3>1. Len(calls) = k + 1 /\ Len(calls) > 0
      BY <1>3, <1>10
    <3> QED
      BY <1>3, <1>7, <3>1, AllAdded
  <2> QED
    BY <1>8, <1>9, <1>10, <2>1 DEF ConvInv
<1>11. CASE left # 1
  <2>1. a \in 1..Len(messages') /\ messages'[a] = messages[a]
    BY <1>8
  <2>2. LastAssistant(messages', a)
    <3>1. ASSUME NEW n \in (a + 1)..Len(messages') PROVE messages'[n].role # "assistant"
      <4>1. n = Len(messages') \/ n \in (a + 1)..Len(messages)
        BY <1>8
      <4>2. CASE n \in (a + 1)..Len(messages)
        <5>1. n \in 1..Len(messages)
          BY <4>2
        <5> QED
          BY <1>3, <1>8, <4>2, <5>1 DEF LastAssistant
      <4> QED
        BY <1>6, <1>8, <4>1, <4>2
    <3> QED
      BY <1>3, <2>1, <3>1 DEF LastAssistant
  <2>3. Len(messages') - a = k + 1 /\ Len(calls) = (k + 1) + left'
    BY <1>3, <1>8
  <2>4. messages'[a].calls = calls
    BY <2>1 DEF calls
  <2> HIDE DEF k
  <2>5. Answering'
    BY <1>7, <2>1, <2>2, <2>3, <2>4 DEF Answering
  <2> QED
    BY <1>8, <1>9, <1>11, <2>5 DEF ConvInv
<1> QED
  BY <1>10, <1>11

\* Every step of the phase keeps its conversation in order.
LEMMA ConvStep == TypeOK /\ ConvInv /\ [ConvNext]_convVars => ConvInv'
<1> SUFFICES ASSUME TypeOK, ConvInv, [ConvNext]_convVars PROVE ConvInv'
  OBVIOUS
<1>1. ASSUME messages' = messages, pc # "done", pc # "calls", pc' # "calls"
      PROVE  ConvInv'
  BY <1>1 DEF ConvInv
<1>2. CASE ConvNext
  <2>1. Next /\ Told
    BY <1>2 DEF ConvNext
  <2>2. CASE pc' = "done"
    BY <2>2 DEF ConvInv
  <2>3. CASE pc # "calls" /\ pc' \notin {"calls", "done"}
    <3>1. messages' = messages
      BY <2>1, <2>3 DEF Told
    <3> QED
      BY <1>1, <2>1, <2>3, <3>1, PcMoves
  <2>4. CASE pc = "ask" /\ pc' = "calls" /\ left' \in 1..MaxToolCalls
    BY <2>1, <2>4, AnswerBegins
  <2>5. CASE /\ pc = "calls" /\ left' = left - 1
             /\ pc' = IF left = 1 THEN "signal" ELSE "calls"
    BY <2>1, <2>5, AnswerGoesOn
  <2> QED
    BY <2>1, <2>2, <2>3, <2>4, <2>5, PcMoves
<1>3. CASE UNCHANGED convVars
  <2>1. pc' = pc /\ left' = left /\ messages' = messages
    BY <1>3 DEF convVars, vars
  <2> QED
    BY <2>1 DEF ConvInv, Answering
<1> QED
  BY <1>2, <1>3

\* The conversation goes along with the phase and keeps it as it is: what is
\* proved of Spec's steps holds of ConvSpec's.
LEMMA ConvPhase == ConvSpec => [](PhaseInv /\ ConvInv)
<1>1. ConvInit => PhaseInv /\ ConvInv
  BY PhaseInit, ConvStart DEF ConvInit
<1>2. PhaseInv /\ ConvInv /\ [ConvNext]_convVars => (PhaseInv /\ ConvInv)'
  <2>1. [ConvNext]_convVars => [Next]_vars
    BY DEF ConvNext, convVars
  <2> QED
    BY <2>1, PhaseStep, ConvStep DEF PhaseInv
<1> QED
  BY <1>1, <1>2, PTL DEF ConvSpec

\* Whatever the model answers, every request run_phase makes is one the
\* providers accept, in the form to_anthropic_messages gives it as in the form
\* of the chat API: each call announced has its one result, for conversations
\* of any length.
THEOREM ConversationAnswered == ConvSpec => []RequestsAnswered
<1>1. ConvInv => RequestsAnswered
  <2> SUFFICES ASSUME ConvInv, pc = "ask"
               PROVE  LET sent == ToAnthropic(messages)
                      IN  /\ sent # <<>> /\ sent[1].role = "user" /\ Last(sent).role = "user"
                          /\ Places(sent[1], "tool_result") = {}
                          /\ \A n \in 2..Len(sent) :
                                sent[n].role = "user" => Answers(sent[n], sent[n - 1])
                          /\ \A n \in 2..Len(messages) :
                                messages[n].role = "user" => messages[n - 1].role # "tool"
    BY DEF RequestsAnswered
  <2> DEFINE sent == ToAnthropic(messages)
  <2>1. /\ Whole(sent)
        /\ \A n \in 2..Len(messages) :
              messages[n].role = "user" => messages[n - 1].role # "tool"
    BY DEF ConvInv
  <2> HIDE DEF sent
  <2>2. /\ sent \in Seq(SentType) /\ Len(sent) \in 1..Len(sent)
        /\ sent[1].role = "user" /\ Places(sent[1], "tool_result") = {}
        /\ sent[Len(sent)].role = "user"
        /\ \A n \in 2..Len(sent) :
              sent[n].role = "user" => Answers(sent[n], sent[n - 1])
    BY <2>1 DEF Whole, AnsweredUpTo
  <2>3. sent # <<>> /\ Last(sent).role = "user"
    BY <2>2 DEF Last
  <2> QED
    BY <2>1, <2>2, <2>3 DEF sent
<1> QED
  BY <1>1, ConvPhase, PTL

-----------------------------------------------------------------------------
(* The end of a phase.                                                     *)

\* More steps than an iteration can take: its attempts, its calls, the look
\* for the signal and the head.
PerIteration == MaxRetries + MaxToolCalls + 2

\* A bound on the steps a phase has left, by where it is.
Later == (MaxIterations - iteration) * PerIteration

StepsLeft ==
    CASE pc = "done" -> 0
      [] pc = "top" -> Later + 1
      [] pc = "signal" -> Later + 2
      [] pc = "calls" -> Later + left + 2
      [] pc = "ask" -> Later + (MaxRetries - attempt) + MaxToolCalls + 3

\* Bounds multiply, and one round less is that many steps less.
LEMMA Rounds ==
    ASSUME NEW n \in Nat, NEW k \in Nat
    PROVE  /\ n * k \in Nat
           /\ n > 0 => (n - 1) * k = n * k - k
  OBVIOUS

\* What is left of the iterations is a number.
LEMMA LaterType == TypeOK => Later \in Nat
  BY Rounds, PhaseAssumption DEF TypeOK, Later, PerIteration

\* It is 0 at the end of a phase and nowhere else.
LEMMA StepsLeftType ==
    TypeOK => StepsLeft \in Nat /\ (pc # "done" => StepsLeft > 0)
  BY LaterType, PhaseAssumption DEF TypeOK, StepsLeft

\* A step within an iteration leaves the later ones as they are.
LEMMA StepCounts == ASSUME TypeOK, TypeOK', Next PROVE StepsLeft' < StepsLeft
<1> USE PhaseAssumption
<1>1. Later \in Nat /\ Later' \in Nat /\ StepsLeft \in Nat /\ (pc # "done" => StepsLeft > 0)
  <2>1. (TypeOK => Later \in Nat)'
    BY LaterType, PTL
  <2> QED
    BY <2>1, LaterType, StepsLeftType
<1>2. CASE pc # "done" /\ pc' = "done"
  BY <1>1, <1>2 DEF StepsLeft
<1>3. CASE Ask
  <2>1. /\ pc = "top" /\ pc' = "ask" /\ attempt' = 1
        /\ iteration' = iteration + 1 /\ iteration < MaxIterations
    BY <1>3 DEF Ask
  <2>2. Later' = Later - PerIteration
    BY <2>1, Rounds DEF TypeOK, Later, PerIteration
  <2> QED
    BY <1>1, <2>1, <2>2 DEF TypeOK, StepsLeft, PerIteration
<1>4. CASE iteration' = iteration /\ pc = "ask" /\ pc' = "ask" /\ attempt' = attempt + 1
  BY <1>1, <1>4 DEF TypeOK, StepsLeft, Later
<1>5. CASE iteration' = iteration /\ pc = "ask" /\ pc' = "calls" /\ left' \in 0..MaxToolCalls
  BY <1>1, <1>5 DEF TypeOK, StepsLeft, Later
<1>6. CASE /\ iteration' = iteration /\ pc = "calls" /\ left' = left - 1
           /\ pc' = IF left = 1 THEN "signal" ELSE "calls"
  BY <1>1, <1>6 DEF TypeOK, StepsLeft, Later
<1>7. CASE iteration' = iteration /\ pc = "signal" /\ pc' = "top"
  BY <1>1, <1>7 DEF TypeOK, StepsLeft, Later
<1>8. CASE Top
  BY <1>2, <1>3, <1>8 DEF Top, CapReached, BudgetAbort, Exhausted, Return
<1>9. CASE Answer
  BY <1>2, <1>4, <1>5, <1>9 DEF TypeOK, Answer, Retry, Unanswered, FinalMessage, ToolCalls, Return
<1>10. ASSUME NEW c \in Calls, Dispatch(c) PROVE StepsLeft' < StepsLeft
  BY <1>2, <1>6, <1>10 DEF Dispatch, Return
<1>11. CASE Signal
  BY <1>2, <1>7, <1>11 DEF Signal, Return
<1> QED
  BY <1>8, <1>9, <1>10, <1>11 DEF Next

\* Whatever the model answers and the tools return, a phase takes at most
\* MaxIterations * (MaxRetries + MaxToolCalls + 2) + 1 steps: a number that is
\* positive until run_phase returns gets smaller with each.  A phase that goes
\* on for ever therefore waits for ever (PhaseEnds).
THEOREM PhaseRunsOut ==
    Spec => /\ StepsLeft = MaxIterations * PerIteration + 1
            /\ []((StepsLeft \in Nat) /\ (pc # "done" => StepsLeft > 0))
            /\ [][StepsLeft' < StepsLeft]_vars
<1>1. Init => StepsLeft = MaxIterations * PerIteration + 1
  BY PhaseAssumption DEF Init, StepsLeft, Later
<1>2. PhaseInv => (StepsLeft \in Nat) /\ (pc # "done" => StepsLeft > 0)
  BY StepsLeftType DEF PhaseInv
<1>3. PhaseInv /\ [Next]_vars => [StepsLeft' < StepsLeft]_vars
  BY PhaseStep, StepCounts DEF PhaseInv
<1> QED
  BY <1>1, <1>2, <1>3, PhaseInvariant, PTL DEF Spec

\* The phase with its conversation, which is what the runs check, keeps the
\* contract and runs out as the phase alone does.
THEOREM ConversationKeepsContract ==
    ConvSpec => KeepsContract /\ [][StepsLeft' < StepsLeft]_vars
<1>1. ConvInit => Contract!Init
  BY ContractInit DEF ConvInit
<1>2. [ConvNext]_convVars => [Next]_vars
  BY DEF ConvNext, convVars
<1>3. PhaseInv /\ [Next]_vars => [StepsLeft' < StepsLeft]_vars
  BY PhaseStep, StepCounts DEF PhaseInv
<1>4. ConvSpec => Contract!Init /\ [][Contract!Next]_Contract!vars
  BY <1>1, <1>2, StepRefines, ConvPhase, PTL DEF ConvSpec
<1>5. ConvSpec => [][StepsLeft' < StepsLeft]_vars
  BY <1>2, <1>3, ConvPhase, PTL DEF ConvSpec
<1> QED
  BY <1>4, <1>5 DEF KeepsContract, Contract!Spec
===============================================================================
