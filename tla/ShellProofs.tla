----------------------------- MODULE ShellProofs -----------------------------
(***************************************************************************)
(* Proofs about Shell, for every script, path and value.  The runner of    *)
(* the program has three variables that must agree with what the program   *)
(* waits for; the first invariant below says how.  What the scanner makes  *)
(* of the text does not matter to it.  The second one is about the text:   *)
(* read in chunks, it gives what it gives when it is read in one piece.    *)
(***************************************************************************)
EXTENDS Shell, SequenceTheorems, WellFoundedInduction, TLAPS

Reason == {"sleep", "connected", "disconnected", "data"}

\* The idle watcher is active exactly when the runner is; while the program waits
\* it is paused and the watcher stopped; and without a wait the watcher is stopped
\* only for want of statements, so that the next one starts it.
RunnerAgrees ==
    /\ idle \in BOOLEAN
    /\ runner_state = IF idle THEN "ACTIVE" ELSE "INACTIVE"
    /\ waiting # {} => ~idle /\ program_state = "PAUSED"
    /\ ~idle /\ waiting = {} => program = <<>> /\ program_state = "RUNNING"

\* The program waits for one event at most, and for none that has happened.
WaitIsOpen ==
    /\ waiting \subseteq Reason
    /\ \A r, s \in waiting : r = s
    /\ connected \in BOOLEAN
    /\ "connected" \in waiting => ~connected
    /\ "disconnected" \in waiting => connected

\* The value waited for is what the conversion makes of the one in the last
\* statement.  Unless it was stale from the start, the subscription remembers the
\* cached value, so that the next one is announced, and it is another one.
DataIsOpen ==
    /\ cached \in [DataPath -> Datum \cup {NoDatum}] /\ hash \in [DataPath -> Datum \cup {NoDatum}]
    /\ stale \in BOOLEAN
    /\ \E S : ran \in Seq(S)
    /\ "data" \in waiting => /\ data_cb = <<data_cb[1], treenode_from_json(Last(ran)[4])>>
                             /\ data_cb[1] \in DataPath
                             /\ stale \/ /\ hash[data_cb[1]] = cached[data_cb[1]]
                                         /\ cached[data_cb[1]] # data_cb[2]

IInv == RunnerAgrees /\ WaitIsOpen /\ DataIsOpen

\* Initially nothing runs and nothing is waited for.
LEMMA InitInv == Init => IInv
<1>. SUFFICES ASSUME Init PROVE IInv
  OBVIOUS
<1>1. RunnerAgrees /\ WaitIsOpen
  BY DEF Init, RunnerAgrees, WaitIsOpen, Reason
<1>2. ran \in Seq({})
  BY DEF Init
<1>3. DataIsOpen
  BY <1>2 DEF Init, DataIsOpen
<1>. QED
  BY <1>1, <1>3 DEF IInv

\* The conversion gives what can be cached, and null for null.
LEMMA Converted ==
  ASSUME NEW token
  PROVE  treenode_from_json(token) \in Datum \cup {NoDatum}
  BY ShellAssumption DEF treenode_from_json

\* A sequence grows by one element, its last.
LEMMA Grows ==
  ASSUME NEW S, NEW u \in Seq(S), NEW e
  PROVE  Append(u, e) \in Seq(S \cup {e}) /\ Last(Append(u, e)) = e
<1>1. u \in Seq(S \cup {e}) /\ e \in S \cup {e}
  OBVIOUS
<1>2. Append(u, e) \in Seq(S \cup {e}) /\ Len(Append(u, e)) = Len(u) + 1 /\ Len(u) \in Nat
  BY <1>1
<1>3. Append(u, e)[Len(u) + 1] = e
  BY <1>1
<1>. QED
  BY <1>2, <1>3 DEF Last

\* A program that is resumed once it waits for nothing runs if it can.
LEMMA ResumeKeepsRunner ==
  ASSUME idle = FALSE, runner_state = "INACTIVE", wcsh_program_resume(program'), waiting' = {}
  PROVE  RunnerAgrees'
<1>1. CASE program' # <<>>
  <2>1. idle' = TRUE /\ runner_state' = "ACTIVE"
    BY <1>1 DEF wcsh_program_resume
  <2>. QED
    BY <2>1 DEF RunnerAgrees
<1>2. CASE program' = <<>>
  <2>1. idle' = idle /\ runner_state' = runner_state /\ program_state' = "RUNNING"
    BY <1>2 DEF wcsh_program_resume
  <2>. QED
    BY <1>2, <2>1 DEF RunnerAgrees
<1>. QED
  BY <1>1, <1>2

\* Appending statements resumes a program that has none and waits for nothing.
LEMMA AppendKeepsRunner ==
  ASSUME NEW statements, RunnerAgrees, wcsh_program_append(statements), UNCHANGED waiting
  PROVE  RunnerAgrees'
<1>1. CASE MustResume(statements)
  <2>1. ~idle
    BY <1>1 DEF RunnerAgrees, MustResume
  <2>2. wcsh_program_resume(program')
    BY <1>1 DEF wcsh_program_append
  <2>3. CASE waiting = {}
    BY <2>1, <2>2, <2>3, ResumeKeepsRunner DEF RunnerAgrees
  <2>4. CASE waiting # {}
    BY <1>1, <2>4 DEF RunnerAgrees, MustResume
  <2>. QED
    BY <2>3, <2>4
<1>2. CASE ~MustResume(statements) /\ (idle \/ waiting # {})
  BY <1>2 DEF RunnerAgrees, wcsh_program_append, MustResume, runner
<1>3. CASE ~MustResume(statements) /\ ~idle /\ waiting = {}
  <2>1. statements = <<>> /\ program = <<>>
    BY <1>3 DEF RunnerAgrees, MustResume
  <2>2. program' = <<>>
    BY <2>1 DEF wcsh_program_append
  <2>. QED
    BY <1>3, <2>2 DEF RunnerAgrees, wcsh_program_append, runner
<1>. QED
  BY <1>1, <1>2, <1>3

\* An event ends the wait for it and resumes the program, or changes nothing.
LEMMA EventKeepsRunner ==
  ASSUME NEW r \in Reason, RunnerAgrees, WaitIsOpen, Event(r), UNCHANGED program
  PROVE  /\ RunnerAgrees'
         /\ waiting' = waiting \ {r}
<1>1. CASE r \in waiting
  <2>1. ~idle /\ waiting' = {}
    BY <1>1 DEF RunnerAgrees, WaitIsOpen, Event
  <2>2. wcsh_program_resume(program') /\ waiting' = waiting \ {r}
    BY <1>1 DEF Event
  <2>. QED
    BY <2>1, <2>2, ResumeKeepsRunner DEF RunnerAgrees
<1>2. CASE r \notin waiting
  BY <1>2 DEF RunnerAgrees, Event, runner
<1>. QED
  BY <1>1, <1>2

\* A statement makes the program wait for one event at most, which has not
\* happened.
LEMMA ReasonsAreOpen ==
  ASSUME NEW s, connected \in BOOLEAN
  PROVE  /\ Reasons(s) \subseteq Reason
         /\ \A q, r \in Reasons(s) : q = r
         /\ "connected" \in Reasons(s) => ~connected
         /\ "disconnected" \in Reasons(s) => connected
         /\ "data" \in Reasons(s) => s[3] \in DataPath /\ cached[s[3]] # treenode_from_json(s[4])
<1>1. exec_wait(s) \subseteq Reason \ {"sleep"}
  BY DEF exec_wait, Reason
<1>2. \A r \in exec_wait(s) : s[1] = <<"wait">> /\ s[2] = <<r>>
  BY DEF exec_wait, Runs
<1>3. exec_sleep(s) \subseteq {"sleep"} /\ (exec_sleep(s) # {} => s[1] = <<"sleep">>)
  BY DEF exec_sleep, Runs
<1>4. \A q, r \in Reasons(s) : q = r
  <2>1. <<"wait">> # <<"sleep">>
    OBVIOUS
  <2>2. \A q, r \in exec_wait(s) : q = r
    BY <1>2
  <2>. QED
    BY <1>2, <1>3, <2>1, <2>2 DEF Reasons
<1>5. "connected" \in exec_wait(s) => ~connected
  BY DEF exec_wait
<1>6. "disconnected" \in exec_wait(s) => connected
  BY DEF exec_wait
<1>7. "data" \in exec_wait(s) => s[3] \in DataPath /\ cached[s[3]] # treenode_from_json(s[4])
  BY DEF exec_wait
<1>. QED
  BY <1>1, <1>3, <1>4, <1>5, <1>6, <1>7 DEF Reasons, Reason

\* A step of the program.
LEMMA StepKeepsInv == IInv /\ wcsh_program_run_step => IInv'
<1>. SUFFICES ASSUME IInv, wcsh_program_run_step PROVE IInv'
  OBVIOUS
<1>. DEFINE s == Head(program)
<1>1. idle /\ waiting = {} /\ waiting' = Reasons(s)
  BY DEF IInv, RunnerAgrees, wcsh_program_run_step, wcsh_exec
<1>2. connected \in BOOLEAN /\ UNCHANGED connected
  BY DEF IInv, WaitIsOpen, wcsh_program_run_step
<1>3. /\ Reasons(s) \subseteq Reason
      /\ \A q, r \in Reasons(s) : q = r
      /\ "connected" \in Reasons(s) => ~connected
      /\ "disconnected" \in Reasons(s) => connected
      /\ "data" \in Reasons(s) => s[3] \in DataPath /\ cached[s[3]] # treenode_from_json(s[4])
  BY <1>2, ReasonsAreOpen
<1>4. RunnerAgrees'
  <2>1. CASE Reasons(s) = {}
    BY <1>1, <2>1 DEF IInv, RunnerAgrees, wcsh_program_run_step, remove_head
  <2>2. CASE Reasons(s) # {}
    BY <1>1, <2>2 DEF IInv, RunnerAgrees, wcsh_program_run_step, wcsh_program_pause
  <2>. QED
    BY <2>1, <2>2
<1>5. WaitIsOpen'
  BY <1>1, <1>2, <1>3 DEF WaitIsOpen
<1>6. DataIsOpen'
  <2>. DEFINE V == Datum \cup {NoDatum}
  <2>1. "data" \in Reasons(s) => data_cb' = <<s[3], treenode_from_json(s[4])>>
    BY DEF wcsh_program_run_step, wcsh_exec
  <2>2. /\ cached' = exec_cache(s) /\ hash' = [p \in DataPath |-> Remembered(s, p)]
        /\ stale' = IF "data" \in Reasons(s) THEN Remembered(s, s[3]) # cached[s[3]] ELSE stale
        /\ ran' = Append(ran, s)
    BY DEF wcsh_program_run_step, wcsh_exec
  <2>3. exec_cache(s) \in [DataPath -> V]
    BY ShellAssumption DEF exec_cache, Loads, IInv, DataIsOpen
  <2>4. \A p \in DataPath : Remembered(s, p) \in V
    <3>1. hash \in [DataPath -> V]
      BY DEF IInv, DataIsOpen
    <3>. QED
      BY <2>3, <3>1 DEF Remembered
  <2>5. hash' \in [DataPath -> V] /\ stale' \in BOOLEAN
    BY <2>2, <2>4 DEF IInv, DataIsOpen
  <2>6. (\E S : ran' \in Seq(S)) /\ Last(ran') = s
    BY <2>2, Grows DEF IInv, DataIsOpen
  <2>7. ASSUME "data" \in Reasons(s)
        PROVE  /\ data_cb' = <<data_cb'[1], treenode_from_json(Last(ran')[4])>>
               /\ data_cb'[1] \in DataPath
               /\ stale' \/ (hash'[data_cb'[1]] = cached'[data_cb'[1]] /\ cached'[data_cb'[1]] # data_cb'[2])
    <3>1. cached' = cached
      <4>1. Runs(s, "wait")
        BY <2>7 DEF Reasons, exec_sleep, exec_wait
      <4>2. ~ Loads(s)
        BY <4>1 DEF Loads, Runs
      <4>. QED
        BY <2>2, <4>2 DEF exec_cache
    <3>2. data_cb'[1] = s[3] /\ data_cb'[2] = treenode_from_json(s[4]) /\ s[3] \in DataPath
      BY <1>3, <2>1, <2>7
    <3>3. hash'[s[3]] = Remembered(s, s[3]) /\ (stale' \/ Remembered(s, s[3]) = cached[s[3]])
      BY <2>2, <2>7, <3>2
    <3>. QED
      BY <1>3, <2>1, <2>6, <2>7, <3>1, <3>2, <3>3
  <2>. QED
    BY <1>1, <2>2, <2>3, <2>5, <2>6, <2>7 DEF DataIsOpen
<1>. QED
  BY <1>4, <1>5, <1>6 DEF IInv

\* A value that the server sets.
LEMMA ValueKeepsInv ==
  ASSUME NEW p \in DataPath, NEW v \in Datum \cup {NoDatum}, IInv, Value(p, v)
  PROVE  IInv'
<1>. DEFINE V == Datum \cup {NoDatum}
<1>1. UNCHANGED <<program, connected, ran>> /\ cached' = [cached EXCEPT ![p] = v]
  BY DEF Value, link
<1>2. /\ cached' \in [DataPath -> V] /\ cached \in [DataPath -> V] /\ hash \in [DataPath -> V]
      /\ stale \in BOOLEAN /\ \E S : ran' \in Seq(S)
  BY <1>1 DEF IInv, DataIsOpen
<1>3. CASE Called(p, v) /\ data_cb = <<p, v>>
  <2>1. RunnerAgrees' /\ waiting' = waiting \ {"data"}
    BY <1>1, <1>3, EventKeepsRunner DEF Value, IInv, Reason
  <2>2. hash' \in [DataPath -> V] /\ stale' = FALSE
    BY <1>2, <1>3 DEF Value
  <2>. QED
    BY <1>1, <1>2, <2>1, <2>2 DEF IInv, WaitIsOpen, DataIsOpen
<1>4. CASE ~ (Called(p, v) /\ data_cb = <<p, v>>)
  <2>1. UNCHANGED <<waiting, program_state, runner_state, idle, data_cb>>
    BY <1>4 DEF Value, runner
  <2>2. \/ Called(p, v) /\ hash' = [hash EXCEPT ![p] = v] /\ stale' = (stale /\ data_cb[1] # p)
        \/ ~ Called(p, v) /\ hash' = hash /\ stale' = stale
    BY <1>4 DEF Value
  <2>3. hash' \in [DataPath -> V] /\ stale' \in BOOLEAN
    BY <1>2, <2>2
  <2>4. ASSUME "data" \in waiting, ~ stale'
        PROVE  hash'[data_cb[1]] = cached'[data_cb[1]] /\ cached'[data_cb[1]] # data_cb[2]
    <3>. DEFINE q == data_cb[1]
                w == data_cb[2]
    <3>1. data_cb = <<q, w>> /\ q \in DataPath /\ w \in V
      BY <2>4, Converted DEF IInv, DataIsOpen
    <3>2. stale \/ (hash[q] = cached[q] /\ cached[q] # w)
      BY <2>4 DEF IInv, DataIsOpen
    <3>3. data_cb # NoWait
      BY <3>1, ShellAssumption
    <3>. HIDE DEF q, w
    <3>4. CASE q # p
      <4>1. ~ stale
        BY <2>2, <2>4, <3>4 DEF q
      <4>2. hash'[q] = hash[q] /\ cached'[q] = cached[q]
        BY <1>1, <1>2, <2>2, <3>1, <3>4
      <4>. QED
        BY <3>2, <4>1, <4>2 DEF q, w
    <3>5. CASE q = p
      <4>1. Called(p, v) <=> v # hash[p]
        BY <3>3, <3>5 DEF Called, q
      <4>2. cached[p] # v
        BY DEF Value
      <4>3. Called(p, v)
        BY <2>2, <2>4, <3>2, <3>5, <4>1, <4>2
      <4>4. hash'[p] = v /\ cached'[p] = v /\ v # w
        BY <1>1, <1>2, <1>4, <2>2, <3>1, <3>5, <4>3
      <4>. QED
        BY <3>5, <4>4 DEF q, w
    <3>. QED
      BY <3>4, <3>5
  <2>5. DataIsOpen'
    <3>1. "data" \in waiting => /\ data_cb' = <<data_cb'[1], treenode_from_json(Last(ran')[4])>>
                               /\ data_cb'[1] \in DataPath
      BY <1>1, <2>1 DEF IInv, DataIsOpen
    <3>. QED
      BY <1>2, <2>1, <2>3, <2>4, <3>1 DEF DataIsOpen
  <2>. QED
    BY <1>1, <2>1, <2>5 DEF IInv, RunnerAgrees, WaitIsOpen
<1>. QED
  BY <1>3, <1>4

\* Every step keeps the invariant.
LEMMA NextInv == IInv /\ [Next]_vars => IInv'
<1>. SUFFICES ASSUME IInv, [Next]_vars PROVE IInv'
  OBVIOUS
<1>. USE DEF input, runner, flags, link, data, subs
<1>1. CASE ReadChunk
  <2>1. RunnerAgrees'
    BY <1>1, AppendKeepsRunner DEF ReadChunk, IInv
  <2>. QED
    BY <1>1, <2>1 DEF ReadChunk, IInv, WaitIsOpen, DataIsOpen
<1>2. CASE ReadEnd
  <2>1. RunnerAgrees'
    BY <1>2, AppendKeepsRunner DEF ReadEnd, IInv
  <2>. QED
    BY <1>2, <2>1 DEF ReadEnd, IInv, WaitIsOpen, DataIsOpen
<1>3. CASE wcsh_program_run_step
  BY <1>3, StepKeepsInv
<1>4. CASE sleep_cb
  <2>1. RunnerAgrees' /\ waiting' = waiting \ {"sleep"}
    BY <1>4, EventKeepsRunner DEF sleep_cb, IInv, Reason
  <2>. QED
    BY <1>4, <2>1 DEF sleep_cb, IInv, WaitIsOpen, DataIsOpen
<1>5. CASE ReconnectTimer
  BY <1>5 DEF ReconnectTimer, IInv, RunnerAgrees, WaitIsOpen, DataIsOpen
<1>6. CASE on_connected
  <2>1. RunnerAgrees' /\ waiting' = waiting \ {"connected"}
    BY <1>6, EventKeepsRunner DEF on_connected, IInv, Reason
  <2>. QED
    BY <1>6, <2>1 DEF on_connected, IInv, WaitIsOpen, DataIsOpen
<1>7. CASE on_disconnected
  <2>1. RunnerAgrees' /\ waiting' = waiting \ {"disconnected"}
    BY <1>7, EventKeepsRunner DEF on_disconnected, IInv, Reason
  <2>. QED
    BY <1>7, <2>1 DEF on_disconnected, IInv, WaitIsOpen, DataIsOpen
<1>8. CASE on_error
  BY <1>8 DEF on_error, IInv, RunnerAgrees, WaitIsOpen, DataIsOpen
<1>9. CASE \E p \in DataPath, v \in Datum \cup {NoDatum} : Value(p, v)
  BY <1>9, ValueKeepsInv
<1>10. CASE UNCHANGED vars
  BY <1>10 DEF vars, IInv, RunnerAgrees, WaitIsOpen, DataIsOpen
<1>. QED
  BY <1>1, <1>2, <1>3, <1>4, <1>5, <1>6, <1>7, <1>8, <1>9, <1>10 DEF Next

\* The invariant holds for ever.
LEMMA Invariance == Spec => []IInv
  BY InitInv, NextInv, PTL DEF Spec

\* No script, whatever it says and however it is cut into chunks, is left with
\* statements that nothing will execute (wcsh_program_resume()).
THEOREM WakeupsArrive == Spec => []NoLostWakeup
<1>1. IInv => NoLostWakeup
  <2>. SUFFICES ASSUME IInv, program # <<>>, ~ idle, ~ ("data" \in waiting /\ stale)
                PROVE  Blocked
    BY DEF NoLostWakeup
  <2>1. waiting # {} /\ waiting \subseteq Reason
    BY DEF IInv, RunnerAgrees, WaitIsOpen
  <2>2. ASSUME "data" \in waiting PROVE DataIsMissing
    BY <2>2 DEF IInv, DataIsOpen, DataIsMissing
  <2>. QED
    BY <2>1, <2>2 DEF IInv, WaitIsOpen, Blocked, Reason
<1>. QED
  BY <1>1, Invariance, PTL

\* No statement of any script is executed while an earlier one waits
\* (wcsh_program_pause()).
THEOREM WaitsHold == Spec => NothingWhileWaiting
<1>1. IInv /\ [Next]_vars => [ran' # ran => waiting = {}]_vars
  <2>. SUFFICES ASSUME IInv, [Next]_vars, ran' # ran PROVE waiting = {}
    OBVIOUS
  <2>1. wcsh_program_run_step
    BY DEF Next, vars, ReadChunk, ReadEnd, sleep_cb, ReconnectTimer, on_connected,
           on_disconnected, on_error, Value
  <2>. QED
    BY <2>1 DEF wcsh_program_run_step, IInv, RunnerAgrees
<1>. QED
  BY <1>1, Invariance, PTL DEF Spec, NothingWhileWaiting

-----------------------------------------------------------------------------
(* The scanner                                                             *)

\* The letters of a text; the two that the code adds are named since the provers
\* do not know that a literal is a string.
Letter == STRING \cup {"\n", "exit"}
Token == Seq(Letter)
Stmt == Seq(Token)
States == {"BLANK", "TOKEN", "GROUP", "ESCAPE", "GROUP_END", "COMMENT"}
Outcome == {"PARSE_PARSING", "PARSE_OK", "PARSE_UNEXPECTED_INPUT", "PARSE_UNEXPECTED_END"}

\* A set of numbers that is not empty has a smallest one.
LEMMA Smallest ==
  ASSUME NEW S, S \subseteq Nat, S # {}
  PROVE  Min(S) \in S /\ \A w \in S : Min(S) <= w
<1>1. PICK u \in S : \A w \in S : ~ (<<w, u>> \in OpToRel(<, Nat))
  BY WFMin, NatLessThanWellFounded
<1>2. \A w \in S : ~ (w < u)
  BY <1>1 DEF OpToRel
<1>3. \A w \in S : u <= w
  BY <1>2
<1>. QED
  BY <1>3 DEF Min

\* One that lies below a bound has a greatest one.
LEMMA Greatest ==
  ASSUME NEW S, NEW n \in Nat, S \subseteq 1..n, S # {}
  PROVE  Max(S) \in S /\ \A w \in S : Max(S) >= w
<1>. DEFINE R == {n - w : w \in S}
<1>1. R \subseteq Nat /\ R # {}
  <2>1. PICK w \in S : TRUE
    OBVIOUS
  <2>. QED
    BY <2>1
<1>2. PICK u \in S : \A w \in S : n - u <= n - w
  <2>1. Min(R) \in R /\ \A w \in R : Min(R) <= w
    BY <1>1, Smallest
  <2>. QED
    BY <2>1
<1>3. \A w \in S : u >= w
  BY <1>2
<1>. QED
  BY <1>3 DEF Max

\* The numbers can be counted up to.
LEMMA CountUp ==
  ASSUME NEW S, 0 \in S, \A n \in Nat : n \in S => n + 1 \in S
  PROVE  Nat \subseteq S
<1>. SUFFICES ASSUME Nat \ S # {} PROVE FALSE
  OBVIOUS
<1>. DEFINE B == Nat \ S
<1>1. Min(B) \in B /\ \A w \in B : Min(B) <= w
  <2>1. B \subseteq Nat /\ B # {}
    OBVIOUS
  <2>. QED
    BY <2>1, Smallest
<1>2. Min(B) - 1 \in Nat /\ Min(B) - 1 \notin B
  BY <1>1
<1>3. (Min(B) - 1) + 1 \in S
  BY <1>2
<1>. QED
  BY <1>1, <1>3

\* The states of the scanner on the way through a text, from the state b.
Trail(r, b, text) ==
    r[0] = b /\ \A k \in 1..Len(text) : r[k] = Scan(r[k - 1], text[k])

\* fsm_feed() scans the characters one after the other.
LEMMA FeedIsTrail ==
  ASSUME NEW p, NEW text \in Seq(Letter)
  PROVE  \E r : Trail(r, [p EXCEPT !.halted = FALSE], text) /\ fsm_feed(p, text) = r[Len(text)]
<1>. DEFINE b == [p EXCEPT !.halted = FALSE]
            N == Len(text)
            Step(s, f) == IF s = {} THEN b ELSE Scan(f[s \ {Max(s)}], text[Max(s)])
            IsFold(f, k) == f = [s \in SUBSET (1..k) |-> Step(s, f)]
            S == {k \in Nat : \E f : IsFold(f, k)}
<1>1. N \in Nat /\ DOMAIN text = 1..N
  OBVIOUS
<1>2. ASSUME NEW k \in Nat, NEW s \in SUBSET (1..k), s # {}
      PROVE  Max(s) \in s /\ \A w \in s : w <= Max(s)
  BY <1>2, Greatest
<1>. HIDE DEF b, N
<1>3. 0 \in S
  <2>1. SUBSET (1..0) = {{}}
    OBVIOUS
  <2>2. IsFold([s \in SUBSET (1..0) |-> b], 0)
    BY <2>1
  <2>. QED
    BY <2>2
<1>4. ASSUME NEW k \in Nat, k \in S PROVE k + 1 \in S
  <2>1. PICK f : IsFold(f, k)
    BY <1>4
  <2>. DEFINE g == [s \in SUBSET (1..k + 1) |-> Step(s, f)]
  <2>2. SUBSET (1..k) \subseteq SUBSET (1..k + 1)
    OBVIOUS
  <2>3. \A s \in SUBSET (1..k) : g[s] = f[s]
    BY <2>1, <2>2
  <2>4. ASSUME NEW s \in SUBSET (1..k + 1) PROVE Step(s, g) = Step(s, f)
    <3>1. CASE s = {}
      BY <3>1
    <3>2. CASE s # {}
      <4>1. Max(s) \in s /\ \A w \in s : w <= Max(s)
        <5>1. k + 1 \in Nat
          OBVIOUS
        <5>. QED
          BY <5>1, <3>2, <1>2
      <4>2. s \ {Max(s)} \in SUBSET (1..k)
        <5>. DEFINE m == Max(s)
        <5>1. m \in 1..k + 1 /\ \A w \in s : w \in 1..k + 1 /\ w <= m
          BY <4>1
        <5>. HIDE DEF m
        <5>2. \A w \in s \ {m} : w \in 1..k
          BY <5>1
        <5>. QED
          BY <5>2 DEF m
      <4>. HIDE DEF g
      <4>. QED
        BY <4>2, <3>2, <2>3
    <3>. QED
      BY <3>1, <3>2
  <2>5. IsFold(g, k + 1)
    <3>1. g = [s \in SUBSET (1..k + 1) |-> Step(s, f)]
      OBVIOUS
    <3>. HIDE DEF g, Step
    <3>2. [s \in SUBSET (1..k + 1) |-> Step(s, f)] = [s \in SUBSET (1..k + 1) |-> Step(s, g)]
      BY <2>4
    <3>. QED
      BY <3>1, <3>2
  <2>. HIDE DEF g, IsFold
  <2>6. k + 1 \in Nat /\ \E h : IsFold(h, k + 1)
    BY <2>5
  <2>. QED
    BY <2>6
<1>5. PICK fold : IsFold(fold, N) /\ fsm_feed(p, text) = fold[1..N]
  <2>1. N \in S
    <3>. HIDE DEF S
    <3>1. Nat \subseteq S
      BY <1>3, <1>4, CountUp
    <3>. QED
      BY <3>1, <1>1
  <2>2. \E f : IsFold(f, N)
    BY <2>1
  <2>3. fsm_feed(p, text) = (CHOOSE f : IsFold(f, N))[1..N]
    BY <1>1 DEF fsm_feed, FoldLeft, MapThenFoldSet, b
  <2>. QED
    BY <2>2, <2>3
<1>. DEFINE r == [k \in 0..N |-> fold[1..k]]
<1>6. r[0] = b
  <2>1. 1..0 = {} /\ {} \in SUBSET (1..N)
    OBVIOUS
  <2>. QED
    BY <2>1, <1>1, <1>5
<1>7. ASSUME NEW k \in 1..N PROVE r[k] = Scan(r[k - 1], text[k])
  <2>1. 1..k \in SUBSET (1..N) /\ 1..k # {} /\ k \in 1..k /\ k \in Nat
    BY <1>1
  <2>2. Max(1..k) = k
    <3>1. Max(1..k) \in 1..k /\ \A w \in 1..k : w <= Max(1..k)
      BY <2>1, <1>2
    <3>. QED
      BY <3>1, <2>1
  <2>3. (1..k) \ {k} = 1..(k - 1)
    BY <2>1
  <2>4. fold[1..k] = Step(1..k, fold)
    BY <2>1, <1>5
  <2>5. fold[1..k] = Scan(fold[1..(k - 1)], text[k])
    BY <2>1, <2>2, <2>3, <2>4
  <2>6. r[k] = fold[1..k] /\ r[k - 1] = fold[1..(k - 1)]
    BY <1>1
  <2>. QED
    BY <2>5, <2>6
<1>8. r[N] = fold[1..N]
  BY <1>1
<1>. HIDE DEF r
<1>9. Trail(r, b, text) /\ fsm_feed(p, text) = r[N]
  BY <1>5, <1>6, <1>7, <1>8 DEF Trail, N
<1>. QED
  BY <1>9 DEF N, b

\* The callbacks of the table.
Callbacks == {"on_token_start", "save_char", "on_group_start", "save_token", "on_command_end",
              "save_token_end_command", "none"}

\* The states of the scanner.
Scanner ==
    [state : States, token_list : Stmt, token : Token, ps : Outcome, out : Seq(Stmt),
     halted : BOOLEAN]

\* Two of them that go on alike, whatever they have handed on so far.
Alike(p, q) ==
    p.state = q.state /\ p.token_list = q.token_list /\ p.token = q.token /\ p.halted = q.halted

\* What a row may say.
LEMMA Rows ==
  ASSUME NEW st \in States
  PROVE  /\ DOMAIN wcsh_parse_script[st] \subseteq Nat
         /\ \A i \in DOMAIN wcsh_parse_script[st] :
                /\ wcsh_parse_script[st][i].exec \in Callbacks
                /\ wcsh_parse_script[st][i].goto \in States
<1>1. CASE st = "BLANK"
  BY <1>1 DEF wcsh_parse_script, Row, Callbacks, States
<1>2. CASE st = "TOKEN"
  BY <1>2 DEF wcsh_parse_script, Row, Callbacks, States
<1>3. CASE st = "GROUP"
  BY <1>3 DEF wcsh_parse_script, Row, Callbacks, States
<1>4. CASE st = "ESCAPE"
  BY <1>4 DEF wcsh_parse_script, Row, Callbacks, States
<1>5. CASE st = "GROUP_END"
  BY <1>5 DEF wcsh_parse_script, Row, Callbacks, States
<1>6. CASE st = "COMMENT"
  BY <1>6 DEF wcsh_parse_script, Row, Callbacks, States
<1>. QED
  BY <1>1, <1>2, <1>3, <1>4, <1>5, <1>6 DEF States

\* What a callback hands on does not depend on what was handed on before.
Handed(p, e) ==
    IF e = "save_token_end_command" THEN <<Append(p.token_list, p.token)>>
    ELSE IF e = "on_command_end" /\ p.token_list # <<>> THEN <<p.token_list>>
    ELSE <<>>

\* The tokens of the statement, and the token, after a callback.
TokensAfter(p, e) ==
    IF e = "save_token" THEN Append(p.token_list, p.token)
    ELSE IF e \in {"on_command_end", "save_token_end_command"} THEN <<>>
    ELSE p.token_list
TokenAfter(p, e, c) ==
    IF e = "on_token_start" THEN <<c>>
    ELSE IF e = "save_char" THEN Append(p.token, c)
    ELSE IF e = "on_group_start" THEN <<>>
    ELSE p.token

\* A state of the scanner, field by field.
LEMMA ScannerFields ==
  ASSUME NEW p \in Scanner
  PROVE  /\ p.token \in Token /\ p.token_list \in Stmt /\ p.out \in Seq(Stmt)
         /\ p.halted \in BOOLEAN /\ p.state \in States /\ p.ps \in Outcome
         /\ p = [state |-> p.state, token_list |-> p.token_list, token |-> p.token, ps |-> p.ps,
                 out |-> p.out, halted |-> p.halted]
BY DEF Scanner

\* A record with these fields is a state of the scanner.
LEMMA MadeScanner ==
  ASSUME NEW a \in States, NEW l \in Stmt, NEW k \in Token, NEW s \in Outcome,
         NEW o \in Seq(Stmt), NEW h \in BOOLEAN
  PROVE  [state |-> a, token_list |-> l, token |-> k, ps |-> s, out |-> o, halted |-> h] \in Scanner
BY DEF Scanner

\* The callbacks, field by field.
LEMMA ExecFields ==
  ASSUME NEW p \in Scanner, NEW e \in Callbacks, NEW c \in Letter
  PROVE  Exec(p, e, c) = [state |-> p.state, token_list |-> TokensAfter(p, e),
                          token |-> TokenAfter(p, e, c), ps |-> p.ps,
                          out |-> p.out \o Handed(p, e), halted |-> p.halted]
<1>. DEFINE a == p.state
            l == p.token_list
            k == p.token
            s == p.ps
            o == p.out
            h == p.halted
<1>1. /\ p = [state |-> a, token_list |-> l, token |-> k, ps |-> s, out |-> o, halted |-> h]
      /\ k \in Token /\ l \in Stmt /\ o \in Seq(Stmt)
      /\ p.token = k /\ p.token_list = l /\ p.out = o
  BY ScannerFields
<1>. HIDE DEF a, l, k, s, o, h
<1>2. o \o <<>> = o
  BY <1>1, ConcatEmptySeq
<1>3. CASE e = "on_token_start"
  <2>1. Exec(p, e, c) = [p EXCEPT !.token = <<c>>]
    BY <1>3 DEF Exec
  <2>. QED
    BY <2>1, <1>1, <1>2, <1>3 DEF Handed, TokensAfter, TokenAfter, a, l, k, s, o, h
<1>4. CASE e = "save_char"
  <2>1. Exec(p, e, c) = [p EXCEPT !.token = Append(k, c)]
    BY <1>4, <1>1 DEF Exec
  <2>. QED
    BY <2>1, <1>1, <1>2, <1>4 DEF Handed, TokensAfter, TokenAfter, a, l, k, s, o, h
<1>5. CASE e = "on_group_start"
  <2>1. Exec(p, e, c) = [p EXCEPT !.token = <<>>]
    BY <1>5 DEF Exec
  <2>. QED
    BY <2>1, <1>1, <1>2, <1>5 DEF Handed, TokensAfter, TokenAfter, a, l, k, s, o, h
<1>6. CASE e = "none"
  <2>1. Exec(p, e, c) = p
    BY <1>6 DEF Exec
  <2>. QED
    BY <2>1, <1>1, <1>2, <1>6 DEF Handed, TokensAfter, TokenAfter, a, l, k, s, o, h
<1>7. CASE e = "save_token"
  <2>1. Exec(p, e, c) = [p EXCEPT !.token_list = Append(l, k)]
    BY <1>7, <1>1 DEF Exec, save_token
  <2>. QED
    BY <2>1, <1>1, <1>2, <1>7 DEF Handed, TokensAfter, TokenAfter, a, l, k, s, o, h
<1>8. CASE e = "on_command_end"
  <2>1. Exec(p, e, c) = [p EXCEPT !.out = IF l = <<>> THEN o ELSE Append(o, l), !.token_list = <<>>]
    BY <1>8, <1>1 DEF Exec, on_command_end
  <2>2. Append(o, l) = o \o <<l>>
    BY <1>1, AppendIsConcat
  <2>3. CASE l = <<>>
    BY <2>1, <2>3, <1>1, <1>2, <1>8 DEF Handed, TokensAfter, TokenAfter, a, l, k, s, o, h
  <2>4. CASE l # <<>>
    BY <2>1, <2>2, <2>4, <1>1, <1>8 DEF Handed, TokensAfter, TokenAfter, a, l, k, s, o, h
  <2>. QED
    BY <2>3, <2>4
<1>9. CASE e = "save_token_end_command"
  <2>. DEFINE m == Append(l, k)
              q == [state |-> a, token_list |-> m, token |-> k, ps |-> s, out |-> o, halted |-> h]
  <2>1. m \in Stmt /\ m # <<>>
    BY <1>1, AppendProperties DEF Stmt
  <2>2. save_token(p) = q
    <3>1. save_token(p) = [p EXCEPT !.token_list = m]
      BY <1>1 DEF save_token
    <3>. HIDE DEF m
    <3>. QED
      BY <3>1, <1>1
  <2>3. Append(o, m) = o \o <<m>>
    BY <2>1, <1>1, AppendIsConcat
  <2>4. m = Append(p.token_list, p.token)
    BY DEF l, k
  <2>. HIDE DEF m
  <2>5. on_command_end(q) = [q EXCEPT !.out = Append(o, m), !.token_list = <<>>]
    BY <2>1 DEF on_command_end
  <2>6. Exec(p, e, c) = on_command_end(q)
    BY <2>2, <1>9 DEF Exec
  <2>. QED
    BY <2>3, <2>4, <2>5, <2>6, <1>9 DEF Handed, TokensAfter, TokenAfter, a, l, k, s, o, h
<1>. QED
  BY <1>3, <1>4, <1>5, <1>6, <1>7, <1>8, <1>9 DEF Callbacks

\* The callbacks keep the type, and treat alike what is alike.
LEMMA ExecStep ==
  ASSUME NEW p \in Scanner, NEW e \in Callbacks, NEW c \in Letter
  PROVE  /\ Exec(p, e, c) \in Scanner
         /\ Exec(p, e, c).halted = p.halted
         /\ Handed(p, e) \in Seq(Stmt) /\ Exec(p, e, c).out = p.out \o Handed(p, e)
         /\ \A q \in Scanner : Alike(p, q) => /\ Alike(Exec(p, e, c), Exec(q, e, c))
                                              /\ Handed(q, e) = Handed(p, e)
<1>1. /\ p.token \in Token /\ p.token_list \in Stmt /\ p.out \in Seq(Stmt)
      /\ p.halted \in BOOLEAN /\ p.state \in States /\ p.ps \in Outcome
  BY ScannerFields
<1>2. <<c>> \in Token /\ Append(p.token, c) \in Token /\ <<>> \in Token /\ <<>> \in Stmt
      /\ Append(p.token_list, p.token) \in Stmt
  BY <1>1 DEF Token, Stmt
<1>3. TokensAfter(p, e) \in Stmt /\ TokenAfter(p, e, c) \in Token
  BY <1>1, <1>2 DEF TokensAfter, TokenAfter
<1>4. Handed(p, e) \in Seq(Stmt)
  BY <1>1, <1>2 DEF Handed
<1>5. p.out \o Handed(p, e) \in Seq(Stmt)
  BY <1>1, <1>4, ConcatProperties
<1>6. Exec(p, e, c) = [state |-> p.state, token_list |-> TokensAfter(p, e),
                       token |-> TokenAfter(p, e, c), ps |-> p.ps,
                       out |-> p.out \o Handed(p, e), halted |-> p.halted]
  BY ExecFields
<1>7. ASSUME NEW q \in Scanner, Alike(p, q)
      PROVE  Alike(Exec(p, e, c), Exec(q, e, c)) /\ Handed(q, e) = Handed(p, e)
  <2>1. Exec(q, e, c) = [state |-> q.state, token_list |-> TokensAfter(q, e),
                         token |-> TokenAfter(q, e, c), ps |-> q.ps,
                         out |-> q.out \o Handed(q, e), halted |-> q.halted]
    BY ExecFields
  <2>2. TokensAfter(q, e) = TokensAfter(p, e) /\ TokenAfter(q, e, c) = TokenAfter(p, e, c)
        /\ Handed(q, e) = Handed(p, e) /\ q.state = p.state /\ q.halted = p.halted
    BY <1>7 DEF Alike, TokensAfter, TokenAfter, Handed
  <2>. QED
    BY <2>1, <2>2, <1>6 DEF Alike
<1>8. Exec(p, e, c) \in Scanner
  BY <1>1, <1>3, <1>5, <1>6 DEF Scanner
<1>9. Exec(p, e, c).halted = p.halted /\ Exec(p, e, c).out = p.out \o Handed(p, e)
  BY <1>6
<1>. QED
  BY <1>4, <1>7, <1>8, <1>9

\* From p to p1 and from q to q1 the same is handed on.
HandOn(p, q, p1, q1) == \E o \in Seq(Stmt) : p1.out = p.out \o o /\ q1.out = q.out \o o

\* A character: the same for two states that are alike.
LEMMA ScanStep ==
  ASSUME NEW p \in Scanner, NEW q \in Scanner, Alike(p, q), NEW c \in Letter
  PROVE  /\ Scan(p, c) \in Scanner /\ Scan(q, c) \in Scanner
         /\ Alike(Scan(p, c), Scan(q, c))
         /\ HandOn(p, q, Scan(p, c), Scan(q, c))
         /\ p.halted => Scan(p, c).halted
<1>. DEFINE rows == wcsh_parse_script[p.state]
            matching == {i \in DOMAIN rows : c \in rows[i].when \/ rows[i].when = Other}
            row == rows[Min(matching)]
            Halt(s) == [s EXCEPT !.ps = "PARSE_UNEXPECTED_INPUT", !.halted = TRUE]
            Go(s) == [Exec(s, row.exec, c) EXCEPT !.state = row.goto]
<1>1. p.state \in States /\ q.state = p.state /\ q.halted = p.halted /\ p.halted \in BOOLEAN
  BY ScannerFields DEF Alike
<1>2. Scan(p, c) = IF p.halted THEN p ELSE IF matching = {} THEN Halt(p) ELSE Go(p)
  BY DEF Scan
<1>3. Scan(q, c) = IF p.halted THEN q ELSE IF matching = {} THEN Halt(q) ELSE Go(q)
  BY <1>1 DEF Scan
<1>4. p.out \o <<>> = p.out /\ q.out \o <<>> = q.out /\ <<>> \in Seq(Stmt)
  BY ScannerFields, ConcatEmptySeq
<1>5. CASE p.halted
  BY <1>2, <1>3, <1>4, <1>5 DEF HandOn
<1>6. CASE ~p.halted /\ matching = {}
  <2>1. Scan(p, c) = Halt(p) /\ Scan(q, c) = Halt(q)
    BY <1>2, <1>3, <1>6
  <2>2. ASSUME NEW s \in Scanner, NEW t,
               t = [s EXCEPT !.ps = "PARSE_UNEXPECTED_INPUT", !.halted = TRUE]
        PROVE  /\ t \in Scanner /\ t.out = s.out /\ t.halted = TRUE
               /\ t.state = s.state /\ t.token = s.token /\ t.token_list = s.token_list
    <3>. DEFINE a == s.state
                l == s.token_list
                k == s.token
                o == s.out
                w == "PARSE_UNEXPECTED_INPUT"
    <3>1. t = [state |-> a, token_list |-> l, token |-> k, ps |-> w, out |-> o, halted |-> TRUE]
      BY <2>2 DEF Scanner
    <3>2. a \in States /\ l \in Stmt /\ k \in Token /\ o \in Seq(Stmt) /\ w \in Outcome
      BY ScannerFields DEF Outcome
    <3>. HIDE DEF a, l, k, o, w
    <3>3. t \in Scanner
      BY <3>1, <3>2, MadeScanner
    <3>. QED
      BY <3>1, <3>3 DEF a, l, k, o
  <2>3. ASSUME NEW s \in Scanner
        PROVE  /\ Halt(s) \in Scanner /\ Halt(s).out = s.out /\ Halt(s).halted = TRUE
               /\ Halt(s).state = s.state /\ Halt(s).token = s.token
               /\ Halt(s).token_list = s.token_list
    BY <2>2
  <2>. HIDE DEF Halt
  <2>4. Alike(Halt(p), Halt(q))
    BY <2>3 DEF Alike
  <2>. QED
    BY <2>1, <2>3, <2>4, <1>4 DEF HandOn
<1>7. CASE ~p.halted /\ matching # {}
  <2>1. Scan(p, c) = Go(p) /\ Scan(q, c) = Go(q)
    BY <1>2, <1>3, <1>7
  <2>2. row.exec \in Callbacks /\ row.goto \in States
    <3>1. DOMAIN rows \subseteq Nat /\ \A i \in DOMAIN rows : rows[i].exec \in Callbacks /\ rows[i].goto \in States
      BY <1>1, Rows
    <3>. HIDE DEF rows
    <3>2. matching \subseteq Nat
      BY <3>1
    <3>3. Min(matching) \in matching
      BY <3>2, <1>7, Smallest
    <3>. QED
      BY <3>1, <3>3
  <2>. DEFINE e == row.exec
              g == row.goto
  <2>3. /\ Go(p) = [Exec(p, e, c) EXCEPT !.state = g]
        /\ Go(q) = [Exec(q, e, c) EXCEPT !.state = g] /\ e \in Callbacks /\ g \in States
    BY <2>2
  <2>. HIDE DEF e, g, Go
  <2>4. /\ Exec(p, e, c) \in Scanner /\ Exec(q, e, c) \in Scanner
        /\ Alike(Exec(p, e, c), Exec(q, e, c)) /\ Handed(p, e) \in Seq(Stmt)
        /\ Exec(p, e, c).out = p.out \o Handed(p, e)
        /\ Exec(q, e, c).out = q.out \o Handed(p, e)
    <3>1. Alike(q, p) /\ Alike(p, q)
      BY DEF Alike
    <3>2. /\ Exec(p, e, c) \in Scanner /\ Handed(p, e) \in Seq(Stmt)
          /\ Exec(p, e, c).out = p.out \o Handed(p, e)
          /\ Alike(Exec(p, e, c), Exec(q, e, c)) /\ Handed(q, e) = Handed(p, e)
      BY <2>3, <3>1, ExecStep
    <3>3. Exec(q, e, c) \in Scanner /\ Exec(q, e, c).out = q.out \o Handed(q, e)
      BY <2>3, ExecStep
    <3>. QED
      BY <3>2, <3>3
  <2>5. ASSUME NEW s \in Scanner, NEW t, t = [s EXCEPT !.state = g]
        PROVE  /\ t \in Scanner /\ t.out = s.out /\ t.halted = s.halted
               /\ t.state = g /\ t.token = s.token /\ t.token_list = s.token_list
    BY <2>3, <2>5 DEF Scanner
  <2>6. /\ Go(p) \in Scanner /\ Go(q) \in Scanner
        /\ Go(p).out = p.out \o Handed(p, e) /\ Go(q).out = q.out \o Handed(p, e)
    BY <2>3, <2>4, <2>5
  <2>7. Alike(Go(p), Go(q))
    BY <2>3, <2>4, <2>5 DEF Alike
  <2>. QED
    BY <2>1, <2>4, <2>6, <2>7, <1>7 DEF HandOn
<1>. QED
  BY <1>1, <1>5, <1>6, <1>7

\* A scanner that is started is in one of its states.
LEMMA ParserIsScanner == Parser("BLANK") \in Scanner
<1>. DEFINE a == "BLANK"
            w == "PARSE_PARSING"
<1>1. a \in States /\ w \in Outcome /\ <<>> \in Stmt /\ <<>> \in Token /\ <<>> \in Seq(Stmt)
  BY DEF States, Outcome, Token, Stmt
<1>2. Parser(a) = [state |-> a, token_list |-> <<>>, token |-> <<>>, ps |-> w, out |-> <<>>,
                   halted |-> FALSE]
  BY DEF Parser
<1>. HIDE DEF a, w
<1>3. Parser(a) \in Scanner
  BY <1>1, <1>2, MadeScanner
<1>. QED
  BY <1>3 DEF a

\* Lists of statements are put together in any order of the operations.
LEMMA Concat3 ==
  ASSUME NEW x \in Seq(Stmt), NEW y \in Seq(Stmt), NEW z \in Seq(Stmt)
  PROVE  (x \o y) \o z = x \o (y \o z) /\ y \o z \in Seq(Stmt) /\ x \o y \in Seq(Stmt)
BY ConcatAssociative, ConcatProperties

\* All states on the way through a text are states of the scanner.
LEMMA TrailTypes ==
  ASSUME NEW b \in Scanner, NEW text \in Seq(Letter), NEW r, Trail(r, b, text)
  PROVE  \A k \in 0..Len(text) : r[k] \in Scanner
<1>. DEFINE N == Len(text)
            S == {k \in Nat : k <= N => r[k] \in Scanner}
<1>1. N \in Nat /\ \A k \in 1..N : text[k] \in Letter
  OBVIOUS
<1>2. r[0] \in Scanner /\ \A k \in 1..N : r[k] = Scan(r[k - 1], text[k])
  BY DEF Trail
<1>. HIDE DEF N
<1>3. 0 \in S
  BY <1>2
<1>4. ASSUME NEW k \in Nat, k \in S PROVE k + 1 \in S
  <2>. SUFFICES ASSUME k + 1 <= N PROVE r[k + 1] \in Scanner
    OBVIOUS
  <2>1. k + 1 \in 1..N /\ (k + 1) - 1 = k /\ r[k] \in Scanner
    BY <1>1, <1>4
  <2>2. r[k + 1] = Scan(r[k], text[k + 1]) /\ text[k + 1] \in Letter
    BY <2>1, <1>1, <1>2
  <2>3. Alike(r[k], r[k])
    BY DEF Alike
  <2>. QED
    BY <2>1, <2>2, <2>3, ScanStep
<1>5. Nat \subseteq S
  <2>. HIDE DEF S
  <2>. QED
    BY <1>3, <1>4, CountUp
<1>. QED
  BY <1>1, <1>5 DEF N

\* The way through a text that is scanned to its end: no state of it has given up,
\* and all that was handed on comes first in what is handed on at the end.
LEMMA TrailGrows ==
  ASSUME NEW b \in Scanner, NEW text \in Seq(Letter), NEW r, Trail(r, b, text),
         ~r[Len(text)].halted
  PROVE  \A k \in 0..Len(text) :
             ~r[k].halted /\ \E o \in Seq(Stmt) : r[Len(text)].out = r[k].out \o o
<1>. DEFINE N == Len(text)
            Good(k) == ~r[k].halted /\ \E o \in Seq(Stmt) : r[N].out = r[k].out \o o
            S == {j \in Nat : j <= N => Good(N - j)}
<1>1. N \in Nat /\ \A k \in 1..N : text[k] \in Letter
  OBVIOUS
<1>2. (\A k \in 1..N : r[k] = Scan(r[k - 1], text[k])) /\ ~r[N].halted
  BY DEF Trail
<1>3. \A k \in 0..N : r[k] \in Scanner
  BY TrailTypes
<1>. HIDE DEF N
<1>4. 0 \in S
  <2>1. r[N] \in Scanner /\ N - 0 = N
    BY <1>1, <1>3
  <2>2. r[N].out = r[N].out \o <<>> /\ <<>> \in Seq(Stmt)
    BY <2>1, ScannerFields, ConcatEmptySeq
  <2>3. Good(N)
    BY <2>2, <1>2
  <2>. HIDE DEF Good
  <2>. QED
    BY <2>1, <2>3
<1>5. ASSUME NEW j \in Nat, j \in S PROVE j + 1 \in S
  <2>. SUFFICES ASSUME j + 1 <= N PROVE Good(N - (j + 1))
    OBVIOUS
  <2>. DEFINE k == N - j
  <2>1. k \in 1..N /\ N - (j + 1) = k - 1 /\ k - 1 \in 0..N /\ k \in 0..N
    BY <1>1
  <2>. HIDE DEF Good
  <2>2. Good(k)
    BY <1>1, <1>5
  <2>. USE DEF Good
  <2>. HIDE DEF k
  <2>3. r[k - 1] \in Scanner /\ r[k] \in Scanner /\ r[k] = Scan(r[k - 1], text[k]) /\ text[k] \in Letter
    BY <2>1, <1>1, <1>2, <1>3
  <2>. DEFINE p == r[k - 1]
              q == r[k]
              z == r[N]
              c == text[k]
  <2>4. p \in Scanner /\ q \in Scanner /\ q = Scan(p, c) /\ c \in Letter
    BY <2>3
  <2>5. ~q.halted
    BY <2>2
  <2>6. PICK o1 \in Seq(Stmt) : z.out = q.out \o o1
    BY <2>2
  <2>. HIDE DEF p, q, z, c
  <2>7. Alike(p, p)
    BY DEF Alike
  <2>8. p.halted => q.halted
    BY <2>4, <2>7, ScanStep
  <2>9. PICK o2 \in Seq(Stmt) : q.out = p.out \o o2
    <3>1. HandOn(p, p, Scan(p, c), Scan(p, c))
      BY <2>4, <2>7, ScanStep
    <3>. QED
      BY <3>1, <2>4 DEF HandOn
  <2>10. (p.out \o o2) \o o1 = p.out \o (o2 \o o1) /\ o2 \o o1 \in Seq(Stmt)
    <3>1. p.out \in Seq(Stmt)
      BY <2>4, ScannerFields
    <3>. QED
      BY <3>1, Concat3
  <2>11. z.out = p.out \o (o2 \o o1)
    BY <2>6, <2>9, <2>10
  <2>12. Good(k - 1)
    BY <2>5, <2>8, <2>10, <2>11 DEF p, z
  <2>. HIDE DEF Good
  <2>. QED
    BY <2>1, <2>12
<1>6. Nat \subseteq S
  <2>. HIDE DEF S
  <2>. QED
    BY <1>4, <1>5, CountUp
<1>. QED
  <2>. SUFFICES ASSUME NEW k \in 0..N PROVE Good(k)
    BY DEF N
  <2>1. N - k \in Nat /\ N - k <= N /\ N - (N - k) = k
    BY <1>1
  <2>2. N - k \in S
    BY <2>1, <1>6
  <2>. HIDE DEF Good
  <2>. QED
    BY <2>1, <2>2

\* The next m letters of a text from the n-th on.
NextChunk(chunk, text, n, m) ==
    /\ chunk \in Seq(Letter) /\ m = Len(chunk) /\ n + m <= Len(text)
    /\ \A j \in 1..m : chunk[j] = text[n + j]

\* A way through a text to its end.
WholeTrail(r, b, text) == Trail(r, b, text) /\ ~r[Len(text)].halted

\* The scanner p has come as far as the way r has at its n + m-th letter, and has
\* handed on what that one has from the n-th letter on.
Reached(p, r, n, m) ==
    p \in Scanner /\ Alike(p, r[n + m]) /\ r[n + m].out = r[n].out \o p.out

\* A chunk that is fed to a scanner whose statements have been taken.
ChunkFed(p, chunk) == fsm_feed([p EXCEPT !.out = <<>>], chunk)

\* A text that is read in chunks: a scanner that is alike to the one that reads it
\* in one piece, and is fed with the next chunk, is alike to it again, and hands on
\* what that one hands on meanwhile.
LEMMA ChunkScanned ==
  ASSUME NEW b \in Scanner, NEW text \in Seq(Letter), NEW r, WholeTrail(r, b, text),
         NEW p \in Scanner, NEW n \in Nat, NEW m, NEW chunk, NextChunk(chunk, text, n, m),
         Alike(p, r[n])
  PROVE  Reached(ChunkFed(p, chunk), r, n, m)
<1>. DEFINE N == Len(text)
            e == [p EXCEPT !.out = <<>>]
            f == [e EXCEPT !.halted = FALSE]
<1>1. N \in Nat /\ m \in Nat /\ n + m <= N /\ \A j \in 1..m : chunk[j] = text[n + j] /\ chunk[j] \in Letter
  BY DEF NextChunk
<1>2. \A k \in 1..N : r[k] = Scan(r[k - 1], text[k])
  BY DEF Trail, WholeTrail
<1>3. \A k \in 0..N : r[k] \in Scanner /\ ~r[k].halted
  BY TrailTypes, TrailGrows DEF WholeTrail
<1>4. PICK t : Trail(t, f, chunk) /\ fsm_feed(e, chunk) = t[m]
  BY FeedIsTrail DEF NextChunk
<1>5. t[0] = f /\ \A j \in 1..m : t[j] = Scan(t[j - 1], chunk[j])
  BY <1>4 DEF Trail, NextChunk
<1>6. n \in 0..N /\ r[n] \in Scanner /\ ~r[n].halted
  BY <1>1, <1>3
<1>7. f \in Scanner /\ f.out = <<>> /\ Alike(f, p)
  <2>1. p.halted = FALSE
    BY <1>6, ScannerFields DEF Alike
  <2>2. ASSUME NEW g, g = [[p EXCEPT !.out = <<>>] EXCEPT !.halted = FALSE]
        PROVE  /\ g \in Scanner /\ g.out = <<>> /\ g.halted = FALSE
               /\ g.state = p.state /\ g.token = p.token /\ g.token_list = p.token_list
    <3>. DEFINE a == p.state
                l == p.token_list
                k == p.token
                s == p.ps
    <3>1. g = [state |-> a, token_list |-> l, token |-> k, ps |-> s, out |-> <<>>, halted |-> FALSE]
      BY <2>2 DEF Scanner
    <3>2. a \in States /\ l \in Stmt /\ k \in Token /\ s \in Outcome /\ <<>> \in Seq(Stmt)
      BY ScannerFields
    <3>. HIDE DEF a, l, k, s
    <3>3. g \in Scanner
      BY <3>1, <3>2, MadeScanner
    <3>. QED
      BY <3>1, <3>3 DEF a, l, k
  <2>. QED
    BY <2>1, <2>2 DEF Alike
<1>. HIDE DEF N, e, f
<1>. DEFINE Good(j) == /\ t[j] \in Scanner /\ Alike(t[j], r[n + j])
                       /\ r[n + j].out = r[n].out \o t[j].out
            S == {j \in Nat : j <= m => Good(j)}
<1>8. 0 \in S
  <2>1. n + 0 = n
    OBVIOUS
  <2>2. Alike(f, r[n])
    BY <1>7 DEF Alike
  <2>3. r[n].out = r[n].out \o <<>>
    BY <1>6, ScannerFields, ConcatEmptySeq
  <2>4. Good(0)
    BY <2>1, <2>2, <2>3, <1>5, <1>7
  <2>. HIDE DEF Good
  <2>. QED
    BY <2>4
<1>9. ASSUME NEW j \in Nat, j \in S PROVE j + 1 \in S
  <2>. HIDE DEF Good
  <2>. SUFFICES ASSUME j + 1 <= m PROVE Good(j + 1)
    OBVIOUS
  <2>0. Good(j)
    BY <1>1, <1>9
  <2>. USE DEF Good
  <2>. DEFINE i == j + 1
              k == n + i
              c == chunk[i]
              u == t[j]
              v == r[n + j]
              w == r[n]
  <2>1. /\ i \in 1..m /\ i - 1 = j /\ k \in 1..N /\ k - 1 = n + j /\ n + j \in 0..N
        /\ text[k] = c /\ c \in Letter
    <3>1. i \in 1..m /\ i - 1 = j /\ k \in 1..N /\ k - 1 = n + j /\ n + j \in 0..N
      BY <1>1
    <3>. HIDE DEF i
    <3>2. chunk[i] = text[n + i] /\ chunk[i] \in Letter
      BY <3>1, <1>1
    <3>. QED
      BY <3>1, <3>2
  <2>2. t[i] = Scan(u, c)
    <3>1. t[i] = Scan(t[i - 1], chunk[i])
      BY <2>1, <1>5
    <3>. QED
      BY <3>1, <2>1
  <2>3. r[k] = Scan(v, c) /\ v \in Scanner
    <3>1. r[k] = Scan(r[k - 1], text[k])
      BY <2>1, <1>2
    <3>. QED
      BY <3>1, <2>1, <1>3
  <2>4. u \in Scanner /\ Alike(u, v) /\ v.out = w.out \o u.out
    BY <2>0
  <2>5. w \in Scanner
    BY <1>6
  <2>. HIDE DEF i, k, c, u, v, w
  <2>6. Scan(u, c) \in Scanner /\ Alike(Scan(u, c), Scan(v, c))
    BY <2>1, <2>3, <2>4, ScanStep
  <2>7. PICK o \in Seq(Stmt) : Scan(u, c).out = u.out \o o /\ Scan(v, c).out = v.out \o o
    <3>1. HandOn(u, v, Scan(u, c), Scan(v, c))
      BY <2>1, <2>3, <2>4, ScanStep
    <3>. QED
      BY <3>1 DEF HandOn
  <2>8. (w.out \o u.out) \o o = w.out \o (u.out \o o)
    <3>1. w.out \in Seq(Stmt) /\ u.out \in Seq(Stmt)
      BY <2>4, <2>5, ScannerFields
    <3>. QED
      BY <3>1, Concat3
  <2>9. Scan(v, c).out = w.out \o Scan(u, c).out
    BY <2>4, <2>7, <2>8
  <2>. QED
    BY <2>2, <2>3, <2>6, <2>9 DEF i, k, w
<1>10. Nat \subseteq S
  <2>. HIDE DEF S
  <2>. QED
    BY <1>8, <1>9, CountUp
<1>11. Good(m)
  <2>. HIDE DEF Good
  <2>. QED
    BY <1>1, <1>10
<1>12. ChunkFed(p, chunk) = t[m]
  BY <1>4 DEF ChunkFed, e
<1>. QED
  BY <1>11, <1>12 DEF Reached

-----------------------------------------------------------------------------
(* The statements are executed in the order of the script                  *)

\* The way of the scanner through the text of a script, read in one piece.
ScanOf(r, s) ==
    LET text == Append(s.text, "\n")
    IN  /\ Trail(r, Parser("BLANK"), text)
        /\ ~r[Len(text)].halted /\ r[Len(text)].out = s.statements

\* The scanner has come as far as the one that reads the text in one piece, and
\* what that one has handed on is executed or waits in the program.
ScannedTo(r, n) ==
    /\ ScanOf(r, script)
    /\ n + Len(unread) = Len(script.text)
    /\ \A j \in 1..Len(unread) : unread[j] = script.text[n + j]
    /\ Alike(fsm, r[n])
    /\ ran \o program = r[n].out

\* The statement that the end of a script is taken for.
Exit == << <<"exit">> >>

\* The statements that have run, and those of the program, are what the text read so
\* far stands for, and in the end the whole script and "exit".
InOrder ==
    /\ script \in Script /\ ran \in Seq(Stmt) /\ program \in Seq(Stmt)
    /\ reading => /\ unread \in Seq(Letter) /\ fsm \in Scanner
                  /\ \E r : \E n \in Nat : ScannedTo(r, n)
    /\ ~reading => ran \o program = Append(script.statements, Exit)

\* The texts and the statements of the scripts.
LEMMA ScriptTypes ==
  ASSUME NEW s \in Script
  PROVE  /\ s.text \in Seq(Letter) /\ s.statements \in Seq(Stmt)
         /\ Append(s.text, "\n") \in Seq(Letter)
         /\ Len(Append(s.text, "\n")) = Len(s.text) + 1
         /\ Append(s.text, "\n")[Len(s.text) + 1] = "\n"
         /\ \A i \in 1..Len(s.text) : Append(s.text, "\n")[i] = s.text[i]
<1>. DEFINE t == s.text
            c == "\n"
<1>1. t \in Seq(STRING) /\ s.statements \in Seq(Seq(Seq(STRING)))
  BY ShellAssumption
<1>2. STRING \subseteq Letter /\ c \in Letter
  BY DEF Letter
<1>3. t \in Seq(Letter)
  BY <1>1, <1>2, SeqMonotonic
<1>4. Seq(STRING) \subseteq Token
  BY <1>2, SeqMonotonic DEF Token
<1>5. Seq(Seq(STRING)) \subseteq Stmt
  BY <1>4, SeqMonotonic DEF Stmt
<1>6. s.statements \in Seq(Stmt)
  BY <1>1, <1>5, SeqMonotonic
<1>. HIDE DEF t, c
<1>7. /\ Append(t, c) \in Seq(Letter) /\ Len(Append(t, c)) = Len(t) + 1
      /\ Append(t, c)[Len(t) + 1] = c /\ \A i \in 1..Len(t) : Append(t, c)[i] = t[i]
  BY <1>2, <1>3, AppendProperties
<1>. QED
  BY <1>3, <1>6, <1>7 DEF t, c

\* "exit" is a statement.
LEMMA ExitIsStmt == Exit \in Stmt
<1>1. "exit" \in Letter
  BY DEF Letter
<1>2. <<"exit">> \in Token
  BY <1>1 DEF Token
<1>. QED
  BY <1>2 DEF Exit, Stmt

\* What is put together begins with its first part.
LEMMA FirstPart ==
  ASSUME NEW x \in Seq(Stmt), NEW y \in Seq(Stmt)
  PROVE  IsPrefix(x, x \o y)
<1>. DEFINE z == x \o y
            n == Len(x)
<1>1. z \in Seq(Stmt) /\ Len(z) = n + Len(y) /\ n \in Nat /\ Len(y) \in Nat
  BY ConcatProperties, LenProperties
<1>2. \A i \in 1..n : z[i] = x[i] /\ z[i] \in Stmt
  <2>1. \A i \in 1..n + Len(y) : z[i] = IF i <= n THEN x[i] ELSE y[i - n]
    BY ConcatProperties
  <2>2. \A i \in 1..n : x[i] \in Stmt
    BY ElementOfSeq
  <2>. HIDE DEF z, n
  <2>. QED
    BY <1>1, <2>1, <2>2
<1>3. x = SubSeq(x, 1, n)
  BY SubSeqFull
<1>. HIDE DEF z
<1>4. /\ SubSeq(z, 1, n) \in Seq(Stmt) /\ Len(SubSeq(z, 1, n)) = n
      /\ \A i \in 1..n : SubSeq(z, 1, n)[i] = z[i]
  BY <1>1, <1>2
<1>5. SubSeq(z, 1, n) = x
  BY <1>1, <1>2, <1>4, SeqEqual
<1>. QED
  BY <1>1, <1>3, <1>5 DEF IsPrefix, z, n

\* Initially nothing is read.
LEMMA InitInOrder ==
  ASSUME \A s \in Script : Scanned(s), Init
  PROVE  InOrder
<1>. DEFINE p == Parser("BLANK")
            text == Append(script.text, "\n")
<1>1. script \in Script /\ Scanned(script) /\ script.text \in Seq(Letter) /\ text \in Seq(Letter)
  BY ScriptTypes DEF Init
<1>2. [p EXCEPT !.halted = FALSE] = p
  <2>1. ASSUME NEW g \in Scanner, g.halted = FALSE PROVE [g EXCEPT !.halted = FALSE] = g
    BY <2>1 DEF Scanner
  <2>2. p \in Scanner /\ p.halted = FALSE
    BY ParserIsScanner DEF Parser
  <2>. HIDE DEF p
  <2>. QED
    BY <2>1, <2>2
<1>3. PICK r : Trail(r, p, text) /\ fsm_feed(p, text) = r[Len(text)]
  <2>1. \E r : Trail(r, [p EXCEPT !.halted = FALSE], text) /\ fsm_feed(p, text) = r[Len(text)]
    BY <1>1, FeedIsTrail
  <2>. QED
    BY <2>1, <1>2
<1>4. ScanOf(r, script)
  BY <1>1, <1>3 DEF ScanOf, Scanned
<1>5. r[0] = p
  BY <1>3 DEF Trail
<1>6. ran = <<>> /\ program = <<>> /\ unread = script.text /\ fsm = p /\ reading = TRUE
  BY DEF Init
<1>7. <<>> \o <<>> = <<>> /\ p.out = <<>> /\ <<>> \in Seq(Stmt) /\ p \in Scanner /\ Alike(p, p)
  BY ParserIsScanner DEF Parser, Alike
<1>8. ScannedTo(r, 0)
  <2>1. 0 + Len(unread) = Len(script.text) /\ \A j \in 1..Len(unread) : unread[j] = script.text[0 + j]
    BY <1>1, <1>6
  <2>. HIDE DEF p
  <2>. QED
    BY <1>4, <1>5, <1>6, <1>7, <2>1 DEF ScannedTo
<1>. QED
  BY <1>1, <1>6, <1>7, <1>8 DEF InOrder

\* A chunk: what it ends is appended to the program.
LEMMA ChunkInOrder ==
  ASSUME InOrder, ReadChunk
  PROVE  InOrder'
<1>1. PICK m \in 1..2 :
        /\ reading /\ m <= Len(unread)
        /\ unread' = SubSeq(unread, m + 1, Len(unread))
        /\ fsm' = wcsh_chunk_eval(fsm, SubSeq(unread, 1, m))
        /\ wcsh_program_append(fsm'.out)
        /\ UNCHANGED <<script, reading, ran>>
  BY DEF ReadChunk
<1>2. /\ script \in Script /\ ran \in Seq(Stmt) /\ program \in Seq(Stmt)
      /\ unread \in Seq(Letter) /\ fsm \in Scanner
  BY <1>1 DEF InOrder
<1>3. PICK r : \E n \in Nat : ScannedTo(r, n)
  BY <1>1 DEF InOrder
<1>4. PICK n \in Nat : ScannedTo(r, n)
  BY <1>3
<1>. DEFINE text == Append(script.text, "\n")
            chunk == SubSeq(unread, 1, m)
            N == Len(script.text)
            U == Len(unread)
            q == ChunkFed(fsm, chunk)
<1>5. /\ text \in Seq(Letter) /\ Len(text) = N + 1 /\ N \in Nat
      /\ \A i \in 1..N : text[i] = script.text[i]
  BY <1>2, ScriptTypes, LenProperties
<1>6. /\ U \in Nat /\ n + U = N /\ \A j \in 1..U : unread[j] = script.text[n + j]
      /\ \A j \in 1..U : unread[j] \in Letter
  BY <1>2, <1>4, LenProperties, ElementOfSeq DEF ScannedTo
<1>7. m \in Nat /\ 1 <= m /\ m <= U
  BY <1>1
<1>8. chunk \in Seq(Letter) /\ Len(chunk) = m /\ \A j \in 1..m : chunk[j] = unread[j]
  <2>. HIDE DEF U
  <2>. QED
    BY <1>6, <1>7
<1>9. /\ unread' \in Seq(Letter) /\ Len(unread') = U - m
      /\ \A j \in 1..U - m : unread'[j] = unread[m + j]
  <2>1. unread' = SubSeq(unread, m + 1, U)
    BY <1>1
  <2>. HIDE DEF U
  <2>2. \A i \in m + 1..U : unread[i] \in Letter
    BY <1>6, <1>7
  <2>. DEFINE v == SubSeq(unread, m + 1, U)
  <2>3. v \in Seq(Letter) /\ Len(v) = IF m + 1 <= U THEN U - (m + 1) + 1 ELSE 0
    BY <2>2, <1>6, <1>7, SubSeqProperties
  <2>4. \A i \in 1..U - (m + 1) + 1 : v[i] = unread[(m + 1) + i - 1]
    BY <2>2, <1>6, <1>7, SubSeqProperties
  <2>. HIDE DEF v
  <2>5. Len(v) = U - m /\ \A i \in 1..U - m : v[i] = unread[m + i]
    <3>1. U - (m + 1) + 1 = U - m /\ \A i \in 1..U - m : (m + 1) + i - 1 = m + i
      BY <1>6, <1>7
    <3>. QED
      BY <2>3, <2>4, <3>1, <1>6, <1>7
  <2>. QED
    BY <2>1, <2>3, <2>5 DEF v
<1>10. /\ Trail(r, Parser("BLANK"), text) /\ ~r[Len(text)].halted
       /\ Alike(fsm, r[n]) /\ ran \o program = r[n].out
  BY <1>4 DEF ScannedTo, ScanOf
<1>11. n + m <= Len(text) /\ \A j \in 1..m : chunk[j] = text[n + j]
  <2>. HIDE DEF text, chunk, N, U
  <2>. QED
    BY <1>5, <1>6, <1>7, <1>8
<1>12. q \in Scanner /\ Alike(q, r[n + m]) /\ r[n + m].out = r[n].out \o q.out
  <2>. DEFINE b == Parser("BLANK")
  <2>1. b \in Scanner /\ WholeTrail(r, b, text)
    BY <1>10, ParserIsScanner DEF WholeTrail
  <2>2. NextChunk(chunk, text, n, m)
    <3>. HIDE DEF text, chunk, N, U
    <3>. QED
      BY <1>8, <1>11 DEF NextChunk
  <2>. HIDE DEF text, chunk, N, U, b
  <2>. QED
    <3>1. Reached(ChunkFed(fsm, chunk), r, n, m)
      BY <1>2, <1>5, <1>10, <2>1, <2>2, ChunkScanned
    <3>. QED
      BY <3>1 DEF Reached
<1>13. fsm' = q
  <2>1. chunk # <<>>
    BY <1>7, <1>8
  <2>. QED
    BY <1>1, <2>1 DEF wcsh_chunk_eval, ChunkFed
<1>14. program' = program \o q.out
  BY <1>1, <1>13 DEF wcsh_program_append
<1>. HIDE DEF q, text, chunk, N, U
<1>15. q.out \in Seq(Stmt)
  BY <1>12, ScannerFields
<1>16. program' \in Seq(Stmt) /\ ran' \o program' = r[n + m].out
  <2>1. (ran \o program) \o q.out = ran \o (program \o q.out) /\ program \o q.out \in Seq(Stmt)
    BY <1>2, <1>15, Concat3
  <2>. QED
    BY <1>1, <1>10, <1>12, <1>14, <2>1
<1>17. ScanOf(r, script)'
  <2>1. ScanOf(r, script)
    BY <1>4 DEF ScannedTo
  <2>. QED
    BY <2>1, <1>1 DEF ScanOf
<1>18. /\ (n + m) + Len(unread') = Len(script'.text)
       /\ \A j \in 1..Len(unread') : unread'[j] = script'.text[(n + m) + j]
  <2>1. (n + m) + (U - m) = N /\ \A j \in 1..U - m : m + j \in 1..U /\ n + (m + j) = (n + m) + j
    BY <1>6, <1>7
  <2>2. \A j \in 1..U - m : unread'[j] = script.text[(n + m) + j]
    BY <2>1, <1>6, <1>9
  <2>. QED
    BY <2>1, <2>2, <1>1, <1>9 DEF N
<1>19. n + m \in Nat /\ ScannedTo(r, n + m)'
  BY <1>7, <1>12, <1>13, <1>16, <1>17, <1>18 DEF ScannedTo
<1>. QED
  <2>1. unread' \in Seq(Letter) /\ fsm' \in Scanner /\ reading' = reading /\ reading
    BY <1>1, <1>9, <1>12, <1>13
  <2>2. (\E s : \E k \in Nat : ScannedTo(s, k))'
    BY <1>19
  <2>. QED
    BY <1>1, <1>2, <1>16, <2>1, <2>2 DEF InOrder

\* The end of the script: the newline that it is taken for, and "exit".
LEMMA EndInOrder ==
  ASSUME InOrder, ReadEnd
  PROVE  InOrder'
<1>1. /\ reading /\ unread = <<>> /\ reading' = FALSE
      /\ fsm' = wcsh_chunk_eval(fsm, <<>>)
      /\ wcsh_program_append(Append(fsm'.out, Exit))
      /\ UNCHANGED <<script, ran>>
  BY DEF ReadEnd, Exit
<1>2. /\ script \in Script /\ ran \in Seq(Stmt) /\ program \in Seq(Stmt) /\ fsm \in Scanner
  BY <1>1 DEF InOrder
<1>3. PICK r : \E n \in Nat : ScannedTo(r, n)
  BY <1>1 DEF InOrder
<1>4. PICK n \in Nat : ScannedTo(r, n)
  BY <1>3
<1>. DEFINE text == Append(script.text, "\n")
            newline == "\n"
            chunk == <<newline>>
            N == Len(script.text)
            q == ChunkFed(fsm, chunk)
<1>5. n = N
  BY <1>1, <1>4 DEF ScannedTo
<1>6. /\ text \in Seq(Letter) /\ Len(text) = N + 1 /\ N \in Nat /\ text[N + 1] = newline
      /\ script.statements \in Seq(Stmt)
  BY <1>2, ScriptTypes, LenProperties
<1>7. newline \in Letter
  BY DEF Letter
<1>8. /\ Trail(r, Parser("BLANK"), text) /\ ~r[Len(text)].halted /\ r[Len(text)].out = script.statements
      /\ Alike(fsm, r[N]) /\ ran \o program = r[N].out
  BY <1>4, <1>5 DEF ScannedTo, ScanOf
<1>9. chunk \in Seq(Letter) /\ Len(chunk) = 1 /\ \A j \in 1..1 : chunk[j] = text[N + j]
  <2>. HIDE DEF text, N, newline
  <2>. QED
    BY <1>6, <1>7
<1>. HIDE DEF text, N, newline
<1>10. q \in Scanner /\ r[N + 1].out = r[N].out \o q.out
  <2>. DEFINE b == Parser("BLANK")
  <2>1. b \in Scanner /\ WholeTrail(r, b, text)
    BY <1>8, ParserIsScanner DEF WholeTrail
  <2>. HIDE DEF chunk, b
  <2>2. NextChunk(chunk, text, N, 1)
    BY <1>6, <1>9 DEF NextChunk
  <2>. QED
    <3>1. Reached(ChunkFed(fsm, chunk), r, N, 1)
      BY <1>2, <1>6, <1>8, <2>1, <2>2, ChunkScanned
    <3>. QED
      BY <3>1 DEF Reached
<1>11. fsm' = q \/ fsm' = fsm_end(q)
  BY <1>1 DEF wcsh_chunk_eval, ChunkFed, newline
<1>. HIDE DEF q
<1>12. fsm'.out = q.out
  BY <1>10, <1>11 DEF fsm_end, Scanner
<1>13. q.out \in Seq(Stmt)
  BY <1>10, ScannerFields
<1>. DEFINE x == q.out
            e == Exit
<1>14. program' = program \o Append(x, e)
  BY <1>1, <1>12 DEF wcsh_program_append
<1>15. script.statements = (ran \o program) \o x
  BY <1>6, <1>8, <1>10
<1>16. x \in Seq(Stmt) /\ e \in Stmt /\ ran \o program \in Seq(Stmt)
  BY <1>2, <1>13, ExitIsStmt, ConcatProperties
<1>. HIDE DEF x, e
<1>17. Append(x, e) = x \o <<e>> /\ <<e>> \in Seq(Stmt)
  BY <1>16, AppendIsConcat
<1>18. Append(script.statements, e) = ((ran \o program) \o x) \o <<e>>
  BY <1>6, <1>15, <1>16, AppendIsConcat
<1>19. ((ran \o program) \o x) \o <<e>> = (ran \o program) \o (x \o <<e>>) /\ x \o <<e>> \in Seq(Stmt)
  <2>. DEFINE w == ran \o program
              z == <<e>>
  <2>1. w \in Seq(Stmt) /\ z \in Seq(Stmt)
    BY <1>16, <1>17
  <2>. HIDE DEF w, z
  <2>2. (w \o x) \o z = w \o (x \o z) /\ x \o z \in Seq(Stmt)
    BY <1>16, <2>1, Concat3
  <2>. QED
    BY <2>2 DEF w, z
<1>. DEFINE y == x \o <<e>>
<1>20. /\ y \in Seq(Stmt) /\ program' = program \o y
       /\ Append(script.statements, e) = (ran \o program) \o y
  BY <1>14, <1>17, <1>18, <1>19
<1>. HIDE DEF y
<1>21. (ran \o program) \o y = ran \o (program \o y) /\ program \o y \in Seq(Stmt)
  BY <1>2, <1>20, Concat3
<1>22. program' \in Seq(Stmt) /\ ran' \o program' = Append(script'.statements, e)
  BY <1>1, <1>20, <1>21
<1>. QED
  BY <1>1, <1>2, <1>22 DEF InOrder, e

\* A statement that is executed moves from the program to what has run.
LEMMA StepInOrder ==
  ASSUME InOrder, wcsh_program_run_step
  PROVE  InOrder'
<1>1. /\ program # <<>> /\ ran' = Append(ran, Head(program)) /\ program' = Tail(program)
      /\ UNCHANGED <<script, unread, reading, fsm>>
  BY DEF wcsh_program_run_step, remove_head, input
<1>2. ran \in Seq(Stmt) /\ program \in Seq(Stmt)
  BY DEF InOrder
<1>. DEFINE h == Head(program)
            t == Tail(program)
<1>3. h \in Stmt /\ t \in Seq(Stmt) /\ program = <<h>> \o t
  BY <1>1, <1>2
<1>. HIDE DEF h, t
<1>4. Append(ran, h) = ran \o <<h>> /\ <<h>> \in Seq(Stmt) /\ Append(ran, h) \in Seq(Stmt)
  BY <1>2, <1>3, AppendIsConcat
<1>5. (ran \o <<h>>) \o t = ran \o (<<h>> \o t)
  BY <1>2, <1>3, <1>4, Concat3
<1>6. /\ ran' \in Seq(Stmt) /\ program' \in Seq(Stmt) /\ ran' \o program' = ran \o program
  BY <1>1, <1>3, <1>4, <1>5 DEF h, t
<1>7. ASSUME NEW r, NEW n, ScannedTo(r, n) PROVE ScannedTo(r, n)'
  BY <1>1, <1>6, <1>7 DEF ScannedTo, ScanOf
<1>8. (\E r : \E n \in Nat : ScannedTo(r, n)) => (\E r : \E n \in Nat : ScannedTo(r, n))'
  BY <1>7
<1>. QED
  BY <1>1, <1>6, <1>8 DEF InOrder

\* The events change neither the text nor the program.
LEMMA RestInOrder ==
  ASSUME InOrder, UNCHANGED <<script, unread, reading, fsm, program, ran>>
  PROVE  InOrder'
<1>1. ASSUME NEW r, NEW n, ScannedTo(r, n) PROVE ScannedTo(r, n)'
  BY <1>1 DEF ScannedTo, ScanOf
<1>2. (\E r : \E n \in Nat : ScannedTo(r, n)) => (\E r : \E n \in Nat : ScannedTo(r, n))'
  BY <1>1
<1>. QED
  BY <1>2 DEF InOrder

\* Every step keeps the order.
LEMMA NextInOrder == InOrder /\ [Next]_vars => InOrder'
<1>. SUFFICES ASSUME InOrder, [Next]_vars PROVE InOrder'
  OBVIOUS
<1>1. CASE ReadChunk
  BY <1>1, ChunkInOrder
<1>2. CASE ReadEnd
  BY <1>2, EndInOrder
<1>3. CASE wcsh_program_run_step
  BY <1>3, StepInOrder
<1>4. CASE \/ sleep_cb \/ ReconnectTimer \/ on_connected \/ on_disconnected \/ on_error
           \/ \E p \in DataPath, v \in Datum \cup {NoDatum} : Value(p, v)
  <2>1. UNCHANGED <<script, unread, reading, fsm, program, ran>>
    BY <1>4 DEF sleep_cb, ReconnectTimer, on_connected, on_disconnected, on_error, Value, input
  <2>. QED
    BY <2>1, RestInOrder
<1>5. CASE UNCHANGED vars
  BY <1>5, RestInOrder DEF vars, input
<1>. QED
  BY <1>1, <1>2, <1>3, <1>4, <1>5 DEF Next

\* What has run is the beginning of the script.
LEMMA OrderIsPrefix == InOrder => RunsInOrder
<1>. SUFFICES ASSUME InOrder PROVE RunsInOrder
  OBVIOUS
<1>. DEFINE all == Append(script.statements, Exit)
<1>1. script \in Script /\ ran \in Seq(Stmt) /\ program \in Seq(Stmt)
  BY DEF InOrder
<1>2. script.statements \in Seq(Stmt) /\ Exit \in Stmt
  BY <1>1, ScriptTypes, ExitIsStmt
<1>3. \E y \in Seq(Stmt) : all = ran \o y
  <2>1. CASE ~reading
    BY <1>1, <2>1 DEF InOrder
  <2>2. CASE reading
    <3>1. PICK r : \E n \in Nat : ScannedTo(r, n)
      BY <2>2 DEF InOrder
    <3>2. PICK n \in Nat : ScannedTo(r, n)
      BY <3>1
    <3>. DEFINE text == Append(script.text, "\n")
    <3>3. text \in Seq(Letter) /\ n \in 0..Len(text)
      <4>1. text \in Seq(Letter) /\ Len(text) = Len(script.text) + 1 /\ Len(script.text) \in Nat
        BY <1>1, ScriptTypes, LenProperties
      <4>2. n + Len(unread) = Len(script.text) /\ Len(unread) \in Nat
        BY <2>2, <3>2, LenProperties DEF ScannedTo, InOrder
      <4>. HIDE DEF text
      <4>. QED
        BY <4>1, <4>2
    <3>4. /\ Trail(r, Parser("BLANK"), text) /\ ~r[Len(text)].halted
          /\ r[Len(text)].out = script.statements /\ ran \o program = r[n].out
      BY <3>2 DEF ScannedTo, ScanOf
    <3>. HIDE DEF text
    <3>5. PICK o \in Seq(Stmt) : r[Len(text)].out = r[n].out \o o
      BY <3>3, <3>4, ParserIsScanner, TrailGrows
    <3>. DEFINE e == Exit
    <3>6. script.statements = (ran \o program) \o o /\ e \in Stmt
      BY <3>4, <3>5, <1>2
    <3>. HIDE DEF e
    <3>7. Append(script.statements, e) = ((ran \o program) \o o) \o <<e>> /\ <<e>> \in Seq(Stmt)
      BY <1>2, <3>6, AppendIsConcat
    <3>8. ran \o program \in Seq(Stmt)
      BY <1>1, ConcatProperties
    <3>9. ((ran \o program) \o o) \o <<e>> = (ran \o program) \o (o \o <<e>>) /\ o \o <<e>> \in Seq(Stmt)
      <4>. DEFINE x == ran \o program
                  z == <<e>>
      <4>1. x \in Seq(Stmt) /\ z \in Seq(Stmt)
        BY <3>7, <3>8
      <4>. HIDE DEF x, z
      <4>2. (x \o o) \o z = x \o (o \o z) /\ o \o z \in Seq(Stmt)
        BY <4>1, Concat3
      <4>. QED
        BY <4>2 DEF x, z
    <3>. DEFINE y == o \o <<e>>
    <3>10. Append(script.statements, e) = (ran \o program) \o y /\ y \in Seq(Stmt)
      BY <3>7, <3>9
    <3>. HIDE DEF y
    <3>11. (ran \o program) \o y = ran \o (program \o y) /\ program \o y \in Seq(Stmt)
      BY <1>1, <3>10, Concat3
    <3>12. Append(script.statements, e) = ran \o (program \o y)
      BY <3>10, <3>11
    <3>. QED
      BY <3>11, <3>12 DEF e
  <2>. QED
    BY <2>1, <2>2
<1>4. PICK y \in Seq(Stmt) : all = ran \o y
  BY <1>3
<1>. QED
  BY <1>1, <1>4, FirstPart DEF RunsInOrder, Exit

\* Every script whose text is well formed is executed in its order, however its
\* text is cut into chunks and whatever events come in between
\* (wcsh_chunk_eval(), wcsh_program_append(), wcsh_program_run_step()).
THEOREM ScriptsRunInOrder ==
  ASSUME \A s \in Script : Scanned(s)
  PROVE  Spec => []RunsInOrder
<1>1. Init => InOrder
  BY InitInOrder
<1>. QED
  BY <1>1, NextInOrder, OrderIsPrefix, PTL DEF Spec
=============================================================================
