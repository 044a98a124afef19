-------------------------------- MODULE Shell --------------------------------
(***************************************************************************)
(* The shell running a script (tools/wcsh.c, tools/wcsh_program.c): the    *)
(* text is read in chunks of two bytes while the statements read so far    *)
(* are executed, one per call of an idle watcher, and while the connection *)
(* and the data change underneath.  A statement that waits stops the idle  *)
(* watcher, and the event it waits for starts it again.                    *)
(*                                                                         *)
(* The connection is the one CnxLifecycle describes, which Connection      *)
(* implements.  Of the registry of the on/off API (OnRegistry) a path has  *)
(* the types of the callbacks that "on" registered, and the value that its *)
(* subscription remembers: callbacks are only called for another one.  No  *)
(* path lies above another one.  Commands that only print, or only hand a  *)
(* request to the SDK, change nothing here.                                *)
(***************************************************************************)
EXTENDS ShellParser, Integers

CONSTANTS
    Script,         \* scripts: a text, and the statements it stands for
    DataPath,       \* paths, as tokens
    Datum,          \* JSON documents other than null, as tokens
    NoDatum,        \* null, or nothing is cached
    Boolean,        \* those documents that are booleans
    Int32,          \* integers beyond 32 bits, and what json_object_get_int() makes of each
    File,           \* files that "cache load" can read, and the values in each
    NoWait,         \* no value is waited for
    Number,         \* tokens that sscanf("%u") accepts
    MaxDrops,       \* bound: connections lost or refused
    MaxSets         \* bound: values set by the server

ASSUME ShellAssumption ==
    /\ \A s \in Script : s.text \in Seq(STRING) /\ s.statements \in Seq(Seq(Seq(STRING)))
    /\ NoDatum \notin Datum
    /\ Boolean \subseteq Datum
    /\ DOMAIN Int32 \subseteq Datum \ Boolean /\ \A d \in DOMAIN Int32 : Int32[d] \in Datum
    /\ \A f \in DOMAIN File : File[f] \in [DataPath -> Datum \cup {NoDatum}]
    /\ NoWait \notin DataPath \X (Datum \cup {NoDatum})
    /\ MaxDrops \in Nat /\ MaxSets \in Nat

VARIABLES
    script,         \* the script that runs
    unread,         \* its text that has not been read
    reading,        \* the input watcher is active
    fsm,            \* the static machine of wcsh_chunk_eval()
    program,        \* the statements from program_head to program_tail
    program_state, runner_state,
    idle,           \* the idle watcher is active
    ran,            \* statements executed so far
    waiting,        \* bits of "waiting", and "sleep" while ev_sleep is active
    data_cb,        \* the path and value that the callback of "wait data" waits for
    connected, disconnect, done,
    state,          \* ctx->datasync.state
    armed,          \* the reconnection timer is active
    cached,         \* values of the cache
    on,             \* paths and types that "on" registered callbacks for
    hash,           \* sub->hash of each path: a value, NoDatum without a subscription
    stale,          \* history: when "wait data" registered its callback, the
                    \* subscription remembered another value than the cached one,
                    \* and no callback was called since
    drops, sets     \* counters for the bounds

input == <<script, unread, reading, fsm>>
runner == <<program_state, runner_state, idle>>
flags == <<disconnect, done>>
link == <<connected, state, armed, drops>>
subs == <<on, hash, stale>>
data == <<cached, subs, sets>>
vars == <<input, program, runner, ran, waiting, data_cb, flags, link, data>>

Cnx == INSTANCE CnxLifecycle

Init ==
    /\ script \in Script
    /\ unread = script.text /\ reading = TRUE /\ fsm = Parser("BLANK")
    /\ program = <<>>
    /\ program_state = "RUNNING" /\ runner_state = "INACTIVE" /\ idle = FALSE
    /\ ran = <<>>
    /\ waiting = {} /\ data_cb = NoWait
    /\ disconnect = FALSE /\ done = FALSE
    /\ connected = FALSE /\ Cnx!Init /\ armed = FALSE /\ drops = 0
    /\ cached = [p \in DataPath |-> NoDatum] /\ sets = 0
    /\ on = {} /\ hash = [p \in DataPath |-> NoDatum] /\ stale = FALSE

-----------------------------------------------------------------------------
\* commands[]: how many arguments they take.
commands ==
    [cache |-> 1..2, cd |-> 0..1, connect |-> {0}, disconnect |-> {0}, exit |-> {0},
     help |-> 0..1, info |-> {1}, log |-> {1}, ls |-> 0..1, merge |-> {2}, off |-> 1..2,
     on |-> {2}, push |-> {2}, put |-> {2}, sleep |-> {1}, wait |-> 1..3]

\* find_command() and the check of wcsh_exec(): is statement s executed by the
\* command of this name?
Runs(s, name) == s[1] = <<name>> /\ Len(s) - 1 \in commands[name]

-----------------------------------------------------------------------------
(* Mutants: plausible bugs of the definitions below.                       *)

\* With nothing to execute, the program stays paused.
ResumeNothing(queue) ==
    IF queue # <<>>
    THEN program_state' = "RUNNING" /\ runner_state' = "ACTIVE" /\ idle' = TRUE
    ELSE UNCHANGED runner

\* A new statement starts the idle watcher whenever it is stopped.
MustResumeAlways(statements) == statements # <<>> /\ runner_state = "INACTIVE"

\* "wait" does not look whether its event has happened.
WaitUnchecked(s) ==
    {e \in {"connected", "disconnected", "data"} :
        Runs(s, "wait") /\ s[2] = <<e>> /\ (e = "data" => Len(s) = 4)}

-----------------------------------------------------------------------------
(* tools/wcsh_program.c                                                    *)

\* wcsh_program_resume(), with these statements pending.
wcsh_program_resume(queue) ==
    /\ program_state' = "RUNNING"
    /\ \/ queue # <<>> /\ runner_state' = "ACTIVE" /\ idle' = TRUE
       \/ queue = <<>> /\ UNCHANGED <<runner_state, idle>>

wcsh_program_pause ==
    program_state' = "PAUSED" /\ runner_state' = "INACTIVE" /\ idle' = FALSE

\* A statement is appended to a program that runs and whose runner does not.
MustResume(statements) ==
    statements # <<>> /\ program_state = "RUNNING" /\ runner_state = "INACTIVE"

\* wcsh_program_append(), of the statements of one chunk one after the other.
wcsh_program_append(statements) ==
    /\ program' = program \o statements
    /\ \/ MustResume(statements) /\ wcsh_program_resume(program')
       \/ ~MustResume(statements) /\ UNCHANGED runner

\* remove_head(): the end of the program pauses it, with the watcher active.
remove_head ==
    /\ program' = Tail(program)
    /\ program_state' = IF Len(program) = 1 THEN "PAUSED" ELSE program_state
    /\ UNCHANGED <<runner_state, idle>>

-----------------------------------------------------------------------------
(* tools/wcsh.c: the commands                                              *)

\* exec_sleep() and exec_wait(): what the statement makes the program wait for.
exec_sleep(s) == IF Runs(s, "sleep") /\ s[2] \in Number THEN {"sleep"} ELSE {}

\* treenode_from_json(): a boolean becomes null, as does what is not JSON, and an
\* integer is read with 32 bits, whereas the cache keeps them as they are.
treenode_from_json(token) ==
    IF token \in DOMAIN Int32 THEN Int32[token]
    ELSE IF token \in Datum \ Boolean THEN token
    ELSE NoDatum

exec_wait(s) ==
    {e \in {"connected", "disconnected", "data"} :
        /\ Runs(s, "wait") /\ s[2] = <<e>>
        /\ e = "connected" => ~connected
        /\ e = "disconnected" => connected
        /\ e = "data" => Len(s) = 4 /\ s[3] \in DataPath /\ cached[s[3]] # treenode_from_json(s[4])}

Reasons(s) == exec_sleep(s) \cup exec_wait(s)

exec_connect(s) == Runs(s, "connect") /\ disconnect' = FALSE /\ armed' = TRUE /\ UNCHANGED state

exec_disconnect(s) ==
    /\ Runs(s, "disconnect")
    /\ disconnect' = TRUE
    /\ \/ Cnx!CloseRequest
       \/ state \in {"DISCONNECTED", "DISCONNECTING"} /\ UNCHANGED state
    /\ UNCHANGED armed

\* exec_on() and exec_off(): callbacks that are registered and removed.
Types == {"value", "child_added", "child_removed", "child_changed"}

exec_on(s) ==
    {c \in DataPath \X Types : Runs(s, "on") /\ s[2] = <<c[2]>> /\ s[3] = c[1]}

exec_off(s) ==
    {c \in DataPath \X Types :
        /\ Runs(s, "off") /\ s[Len(s)] = c[1]
        /\ Len(s) = 3 => s[2] = <<c[2]>>}

\* exec_cache_load()
Loads(s) == Runs(s, "cache") /\ s[2] = <<"load">> /\ Len(s) = 3 /\ s[3] \in DOMAIN File
exec_cache(s) == IF Loads(s) THEN File[s[3]] ELSE cached

\* The paths that a value callback is registered for by "on" or "wait".
NewValueCb(s) ==
    {p \in DataPath : <<p, "value">> \in exec_on(s) \/ ("data" \in Reasons(s) /\ s[3] = p)}

\* on_registry_add(): the callback is called at once, and the value remembered, if
\* it is known or nobody will tell.  If not, an older subscription goes on
\* remembering what it did.
CalledAtOnce(p) == cached[p] # NoDatum \/ state = "DISCONNECTED"

\* What the subscription of p remembers after statement s: those without a
\* callback are freed, and dispatching the loaded values updates those that have
\* a value callback.
Remembered(s, p) ==
    IF p \notin NewValueCb(s) /\ \A t \in Types : <<p, t>> \notin (on \cup exec_on(s)) \ exec_off(s)
    THEN NoDatum
    ELSE IF (p \in NewValueCb(s) /\ CalledAtOnce(p)) \/ (Loads(s) /\ <<p, "value">> \in on)
    THEN exec_cache(s)[p]
    ELSE hash[p]

\* wcsh_exec(): the other commands print, or call the SDK, and an unknown one
\* or one with a wrong number of arguments only prints.
wcsh_exec(s) ==
    /\ \/ exec_connect(s)
       \/ exec_disconnect(s)
       \/ /\ ~Runs(s, "connect") /\ ~Runs(s, "disconnect")
          /\ UNCHANGED <<disconnect, armed, state>>
    /\ done' = (done \/ Runs(s, "exit"))
    /\ waiting' = waiting \cup Reasons(s)
    /\ data_cb' = IF "data" \in Reasons(s) THEN <<s[3], treenode_from_json(s[4])>> ELSE data_cb
    /\ cached' = exec_cache(s)
    /\ on' = (on \cup exec_on(s)) \ exec_off(s)
    /\ hash' = [p \in DataPath |-> Remembered(s, p)]
    /\ stale' = IF "data" \in Reasons(s) THEN Remembered(s, s[3]) # cached[s[3]] ELSE stale

\* idle_cb(), wcsh_program_run_step()
wcsh_program_run_step ==
    LET s == Head(program)
    IN  /\ idle /\ program # <<>>
        /\ wcsh_exec(s)
        /\ ran' = Append(ran, s)
        /\ \/ Reasons(s) = {} /\ remove_head
           \/ Reasons(s) # {} /\ wcsh_program_pause /\ program' = Tail(program)
        /\ UNCHANGED <<input, connected, drops, sets>>

-----------------------------------------------------------------------------
(* tools/wcsh.c: the input                                                 *)

\* script_data_event(): one or two characters, or the end of the script, which
\* is taken for a last statement, "exit".
ReadChunk ==
    \E n \in 1..2 :
        /\ reading /\ n <= Len(unread)
        /\ unread' = SubSeq(unread, n + 1, Len(unread))
        /\ fsm' = wcsh_chunk_eval(fsm, SubSeq(unread, 1, n))
        /\ wcsh_program_append(fsm'.out)
        /\ UNCHANGED <<script, reading, ran, waiting, data_cb, flags, link, data>>

ReadEnd ==
    /\ reading /\ unread = <<>>
    /\ reading' = FALSE
    /\ fsm' = wcsh_chunk_eval(fsm, <<>>)
    /\ wcsh_program_append(Append(fsm'.out, << <<"exit">> >>))
    /\ UNCHANGED <<script, unread, ran, waiting, data_cb, flags, link, data>>

-----------------------------------------------------------------------------
(* tools/wcsh.c: the events                                                *)

\* An event resumes the program if it waits for it.
Event(reason) ==
    \/ /\ reason \in waiting
       /\ waiting' = waiting \ {reason}
       /\ wcsh_program_resume(program)
    \/ reason \notin waiting /\ UNCHANGED <<waiting, runner>>

sleep_cb ==
    /\ "sleep" \in waiting
    /\ Event("sleep")
    /\ UNCHANGED <<input, program, ran, data_cb, flags, link, data>>

\* The reconnection timer fires.
ReconnectTimer ==
    /\ armed
    /\ armed' = FALSE
    /\ \/ Cnx!Attempt
       \/ state # "DISCONNECTED" /\ UNCHANGED state
    /\ UNCHANGED <<input, program, runner, ran, waiting, data_cb, flags, connected, drops, data>>

on_connected ==
    /\ Cnx!Handshake
    /\ connected' = TRUE
    /\ Event("connected")
    /\ UNCHANGED <<input, program, ran, data_cb, flags, armed, drops, data>>

\* The websocket is closed by either side; the answer decides on a new attempt.
on_disconnected ==
    /\ Cnx!Drop
    /\ state = "DISCONNECTING" \/ drops < MaxDrops
    /\ drops' = IF state = "DISCONNECTING" THEN drops ELSE drops + 1
    /\ connected' = FALSE
    /\ armed' = (armed \/ ~(done \/ disconnect))
    /\ Event("disconnected")
    /\ UNCHANGED <<input, program, ran, data_cb, flags, data>>

\* An attempt fails; the answer is always that it should be repeated.
on_error ==
    /\ Cnx!Drop
    /\ ~connected /\ drops < MaxDrops
    /\ drops' = drops + 1
    /\ armed' = TRUE
    /\ UNCHANGED <<input, program, runner, ran, waiting, data_cb, flags, connected, data>>

\* on_val_trig(): the value callbacks of p, if there are any, are called for a
\* value that differs from the one remembered.
Called(p, v) == v # hash[p] /\ (<<p, "value">> \in on \/ (data_cb # NoWait /\ data_cb[1] = p))

\* A push of the server sets a value.  data_wait_cb() returns 0, and is
\* unregistered, for the value that is waited for.
Value(p, v) ==
    /\ state = "CONNECTED" /\ sets < MaxSets
    /\ cached[p] # v
    /\ cached' = [cached EXCEPT ![p] = v]
    /\ sets' = sets + 1
    /\ \/ /\ Called(p, v) /\ data_cb = <<p, v>>
          /\ Event("data") /\ data_cb' = NoWait
          /\ hash' = [hash EXCEPT ![p] = IF \E t \in Types : <<p, t>> \in on THEN v ELSE NoDatum]
          /\ stale' = FALSE
       \/ /\ Called(p, v) /\ data_cb # <<p, v>>
          /\ hash' = [hash EXCEPT ![p] = v]
          /\ stale' = (stale /\ data_cb[1] # p)
          /\ UNCHANGED <<waiting, runner, data_cb>>
       \/ ~Called(p, v) /\ UNCHANGED <<waiting, runner, data_cb, hash, stale>>
    /\ UNCHANGED <<input, program, ran, flags, link, on>>

-----------------------------------------------------------------------------
Next ==
    \/ ReadChunk \/ ReadEnd
    \/ wcsh_program_run_step
    \/ sleep_cb
    \/ ReconnectTimer
    \/ on_connected \/ on_disconnected \/ on_error
    \/ \E p \in DataPath, v \in Datum \cup {NoDatum} : Value(p, v)

Spec == Init /\ [][Next]_vars

(***************************************************************************)
(* Fairness.  The event loop runs armed timers, ready descriptors, and its *)
(* idle watcher when nothing else is ready; a requested close completes    *)
(* (Connection's CloseCompletes), and on a working network an attempt that *)
(* is repeated often enough succeeds (EventuallyConnected).                *)
(***************************************************************************)
FairSpec ==
    /\ Spec
    /\ WF_vars(ReadChunk) /\ WF_vars(ReadEnd)
    /\ WF_vars(wcsh_program_run_step)
    /\ WF_vars(sleep_cb) /\ WF_vars(ReconnectTimer)
    /\ WF_vars(state = "DISCONNECTING" /\ on_disconnected)
    /\ SF_vars(on_connected)

-----------------------------------------------------------------------------
(* Properties                                                              *)

\* The value that "wait data" waits for is not cached: neither the one that
\* data_wait_cb() compares with nor, where it is the same, the one in the script.
DataIsMissing ==
    LET now == cached[data_cb[1]]
        said == Last(ran)[4]
    IN  now # data_cb[2] /\ (said = treenode_from_json(said) => now # said)

\* The event that the program waits for has not happened yet.
Blocked ==
    \/ "sleep" \in waiting
    \/ "connected" \in waiting /\ ~connected
    \/ "disconnected" \in waiting /\ connected
    \/ "data" \in waiting /\ DataIsMissing

\* The text of a script is well formed and stands for its statements: scanned in
\* one piece, and ended by the newline that its end is taken for, it gives them.
Scanned(s) ==
    LET p == fsm_feed(Parser("BLANK"), Append(s.text, "\n"))
    IN  ~p.halted /\ p.out = s.statements

\* Whatever the chunks the text is read in, and whatever happens meanwhile, the
\* statements of the script are executed in its order, none lost, repeated, or
\* broken in two, and "exit" is the last one.
RunsInOrder == IsPrefix(ran, Append(script.statements, << <<"exit">> >>))

\* No wakeup is lost: when there are statements to execute and the idle watcher
\* is stopped, the event that starts it again is still to come.  The exception is
\* a "wait data" whose subscription, kept by a child callback, remembered a value
\* that was not cached any more (on_registry_add()): it may have missed the event.
NoLostWakeup == program # <<>> => idle \/ Blocked \/ ("data" \in waiting /\ stale)

\* "wait" and "sleep" hold back every statement that follows, those that are
\* read meanwhile included (help of the commands in wcsh.c).
NothingWhileWaiting == [][ran' # ran => waiting = {}]_vars

\* A script runs to its end, unless it waits for what may never happen: a
\* value, the loss of a connection that nobody closes, or a connection that
\* nobody asks for.
ScriptEnds ==
    <>(\/ done
       \/ "data" \in waiting
       \/ "disconnected" \in waiting /\ state = "CONNECTED"
       \/ "connected" \in waiting /\ state = "DISCONNECTED" /\ ~armed)
=============================================================================
