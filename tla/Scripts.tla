------------------------------ MODULE Scripts ------------------------------
(***************************************************************************)
(* The script runner (script_debug/main.c): one thread for each script and *)
(* serial port.  The interpreter (script_parse/script_parse.h) goes ahead  *)
(* as far as the next RECV or IGNORE and returns a list of what is to be   *)
(* done, in which the variables have been replaced by their values; the    *)
(* thread then does it.  Threads wait for each other by PENDING and SYNC   *)
(* (mult_sync.h), hand each other variables by SHARE, and take packets     *)
(* from a queue (squeue.h) that the reader of the port (win_serial.h)      *)
(* fills.                                                                  *)
(*                                                                         *)
(* Loops are unrolled, DELAY, DEBUG and the like are left out, and so is   *)
(* the callback mode.  A pattern of RECV or IGNORE is the one packet that  *)
(* it matches.                                                             *)
(***************************************************************************)
EXTENDS Integers, Sequences, FiniteSets, SequencesExt

CONSTANTS
    Script,         \* the scripts, each with its thread and port
    Name,           \* variables
    NoValue,        \* the variable is not defined; no packet
    Programs,       \* what the scripts and their devices can be
    MaxFaults       \* bound: ports that do not open, timeouts

ASSUME ScriptsAssumption == MaxFaults \in Nat

VARIABLES
    cmd_lines, line,    \* of each script: its commands; what its device sends
    status,             \* of each thread: "new", "running", "ended"
    current_pos, pending_num, pending_flag,     \* of CScriptParse
    finished, variable_pool,                    \* of CScriptParse
    todo,               \* send_data, what is left of it
    received,           \* received, or NoValue
    packages,           \* the queue of CBtIO
    thread_cnt, global_cnt,     \* of CMultSync
    inside,             \* whether the thread is in pending() or sync()
    seen,               \* the global_cnt that sync() has read
    scParses,           \* scParses
    failed,             \* history: a script gave up, or the program did
    stale,              \* history: another value was sent than the variable had
    faults              \* history: see the bound

parseVars == <<current_pos, pending_num, pending_flag, finished>>
syncVars == <<thread_cnt, global_cnt, inside, seen>>
scriptsVars == <<cmd_lines, line, status, parseVars, variable_pool, todo,
                 received, packages, syncVars, scParses, failed, stale, faults>>

-----------------------------------------------------------------------------
Assign(name, value) == [cmd |-> "assign", name |-> name, value |-> value]
Send(name) == [cmd |-> "send", name |-> name]
Share(name) == [cmd |-> "share", name |-> name]
Pending == [cmd |-> "pending"]
Sync == [cmd |-> "sync"]
Flush == [cmd |-> "flush"]
Recv(packet) == [cmd |-> "recv", packet |-> packet]
Ignore(packet) == [cmd |-> "ignore", packet |-> packet]

Receives(c) == c.cmd \in {"recv", "ignore"}

(* What is to be done: a value to send, and whether a PENDING is to be     *)
(* done before that; to receive; or a command of the script.               *)
SendItem(name, value, behind) ==
    [cmd |-> "send", name |-> name, value |-> value, behind |-> behind]
RecvItem == [cmd |-> "recv"]

ScriptsInit ==
    /\ \E p \in Programs : cmd_lines = p.cmd_lines /\ line = p.line
    /\ status = [t \in Script |-> "new"]
    /\ current_pos = [t \in Script |-> 1]
    /\ pending_num = [t \in Script |-> 0]
    /\ pending_flag = [t \in Script |-> {}]
    /\ finished = [t \in Script |-> FALSE]
    /\ variable_pool = [t \in Script |-> [n \in Name |-> NoValue]]
    /\ todo = [t \in Script |-> <<>>]
    /\ received = [t \in Script |-> NoValue]
    /\ packages = [t \in Script |-> <<>>]
    /\ thread_cnt = [t \in Script |-> 0]
    /\ global_cnt = 0
    /\ inside = [t \in Script |-> FALSE]
    /\ seen = [t \in Script |-> 0]
    /\ scParses = <<>>
    /\ failed = FALSE /\ stale = FALSE
    /\ faults = 0

(* The program ends.                                                       *)
Crash ==
    /\ failed' = TRUE
    /\ status' = [t \in Script |-> "ended"]

Failure ==
    /\ faults < MaxFaults
    /\ faults' = faults + 1
    /\ failed' = TRUE

-----------------------------------------------------------------------------
(* Where t stops when it goes on from p, and how many RECV and IGNORE      *)
(* stand there.                                                            *)
Length(t) == Len(cmd_lines[t])

Stop(t, p) ==
    CHOOSE s \in p .. Length(t) + 1 :
        /\ s = Length(t) + 1 \/ Receives(cmd_lines[t][s])
        /\ \A i \in p .. s - 1 : ~Receives(cmd_lines[t][i])

GroupSize(t, s) ==
    CHOOSE n \in 0 .. Length(t) + 1 - s :
        /\ \A i \in s .. s + n - 1 : Receives(cmd_lines[t][i])
        /\ s + n <= Length(t) => ~Receives(cmd_lines[t][s + n])

(* The RECVs among the n lines at s, as numbers from 0.                    *)
Awaited(t, s, n) == {i \in 0 .. n - 1 : cmd_lines[t][s + i].cmd = "recv"}

(* The commands as far as s, done to the variables and put on a list.      *)
Interpret(t, p, s) ==
    LET do(r, c) ==
            CASE c.cmd = "assign" -> [r EXCEPT !.pool[c.name] = c.value]
              [] c.cmd = "send" ->
                    [r EXCEPT !.data = Append(@, SendItem(c.name, r.pool[c.name],
                                                 Pending \in ToSet(@)))]
              [] OTHER -> [r EXCEPT !.data = Append(@, c)]
    IN  FoldLeft(do, [pool |-> variable_pool[t], data |-> <<>>],
                 SubSeq(cmd_lines[t], p, s - 1))

(* A variable without a value: assert(0).                                  *)
Undefined(data) ==
    \E i \in DOMAIN data : data[i].cmd = "send" /\ data[i].value = NoValue

(* get_send_data from p on, with no packet.                                *)
Proceed(t, p) ==
    LET s == Stop(t, p)
        n == GroupSize(t, s)
        r == Interpret(t, p, s)
    IN  /\ variable_pool' = [variable_pool EXCEPT ![t] = r.pool]
        /\ IF Undefined(r.data)
           THEN Crash /\ UNCHANGED <<parseVars, todo>>
           ELSE /\ current_pos' = [current_pos EXCEPT ![t] = s]
                /\ finished' = [finished EXCEPT ![t] = (s > Length(t))]
                /\ pending_num' = [pending_num EXCEPT ![t] = n]
                /\ pending_flag' = [pending_flag EXCEPT ![t] = Awaited(t, s, n)]
                /\ todo' = [todo EXCEPT ![t] =
                        IF Awaited(t, s, n) = {} THEN r.data
                        ELSE Append(r.data, RecvItem)]
                /\ UNCHANGED <<status, failed>>

(* The lines of the group that match the packet: IGNORE always, RECV once. *)
Matching(t) ==
    {i \in 0 .. pending_num[t] - 1 :
        LET c == cmd_lines[t][current_pos[t] + i]
        IN  c.packet = received[t] /\ (c.cmd = "ignore" \/ i \in pending_flag[t])}

(* The flags that are left when the first of them is taken.                *)
FlagsLeft(t) ==
    pending_flag[t] \ {i \in Matching(t) : \A j \in Matching(t) : i <= j}

Begins(t) ==
    /\ pending_num[t] = 0
    /\ Proceed(t, current_pos[t])

(* The packet is one that the script waits for.                            *)
Matches(t) ==
    /\ pending_num[t] > 0 /\ received[t] # NoValue
    /\ Matching(t) # {}
    /\ IF FlagsLeft(t) = {} THEN Proceed(t, current_pos[t] + pending_num[t])
       ELSE /\ pending_flag' = [pending_flag EXCEPT ![t] = FlagsLeft(t)]
            /\ todo' = [todo EXCEPT ![t] = <<RecvItem>>]
            /\ UNCHANGED <<current_pos, pending_num, finished, variable_pool,
                           status, failed>>

(* It is not: the script ends.                                             *)
Unexpected(t) ==
    /\ pending_num[t] > 0 /\ received[t] # NoValue
    /\ Matching(t) = {}
    /\ finished' = [finished EXCEPT ![t] = TRUE]
    /\ failed' = TRUE
    /\ UNCHANGED <<current_pos, pending_num, pending_flag, variable_pool,
                   todo, status>>

(* The thread calls get_send_data.  With a group of IGNOREs only, and no   *)
(* packet before it, it does so for ever.                                  *)
Parse(t) ==
    /\ status[t] = "running" /\ todo[t] = <<>> /\ ~finished[t]
    /\ Begins(t) \/ Matches(t) \/ Unexpected(t)
    /\ UNCHANGED <<cmd_lines, line, received, packages, syncVars, scParses,
                   stale, faults>>

-----------------------------------------------------------------------------
(* The port is opened and the script is read, or not.                      *)
Start(t) ==
    /\ status[t] = "new"
    /\ \/ /\ status' = [status EXCEPT ![t] = "running"]
          /\ scParses' = Append(scParses, t)
          /\ UNCHANGED <<failed, faults>>
       \/ /\ status' = [status EXCEPT ![t] = "ended"]
          /\ Failure
          /\ UNCHANGED scParses
    /\ UNCHANGED <<cmd_lines, line, parseVars, variable_pool, todo, received,
                   packages, syncVars, stale>>

(* The thread does the first thing on its list, which is cmd.              *)
Doing(t, cmd) ==
    /\ status[t] = "running" /\ todo[t] # <<>>
    /\ Head(todo[t]).cmd = cmd

Done(t) == todo' = [todo EXCEPT ![t] = Tail(@)]

DoSend(t) ==
    /\ Doing(t, "send")
    /\ Done(t)
    /\ LET i == Head(todo[t])
       IN  stale' = (stale \/ (i.value # variable_pool[t][i.name] /\ ~i.behind))
    /\ UNCHANGED <<cmd_lines, line, status, parseVars, variable_pool,
                   received, packages, syncVars, scParses, failed, faults>>

(* recv: pop waits for a packet; after a timeout the thread ends.          *)
DoRecv(t) ==
    /\ Doing(t, "recv")
    /\ packages[t] # <<>>
    /\ Done(t)
    /\ received' = [received EXCEPT ![t] = Head(packages[t])]
    /\ packages' = [packages EXCEPT ![t] = Tail(@)]
    /\ UNCHANGED <<cmd_lines, line, status, parseVars, variable_pool,
                   syncVars, scParses, failed, stale, faults>>

Timeout(t) ==
    /\ Doing(t, "recv")
    /\ packages[t] = <<>>
    /\ Failure
    /\ status' = [status EXCEPT ![t] = "ended"]
    /\ UNCHANGED <<cmd_lines, line, parseVars, variable_pool, todo, received,
                   packages, syncVars, scParses, stale>>

DoFlush(t) ==
    /\ Doing(t, "flush")
    /\ Done(t)
    /\ packages' = [packages EXCEPT ![t] = <<>>]
    /\ UNCHANGED <<cmd_lines, line, status, parseVars, variable_pool,
                   received, syncVars, scParses, failed, stale, faults>>

(* share_variable: each script that is on scParses is given the value; one *)
(* that is over is there still, though its object is not, which may crash  *)
(* the program.                                                            *)
DoShare(t) ==
    /\ Doing(t, "share")
    /\ Done(t)
    /\ LET n == Head(todo[t]).name
       IN  variable_pool' = [u \in Script |->
                IF u \in ToSet(scParses)
                THEN [variable_pool[u] EXCEPT ![n] = variable_pool[t][n]]
                ELSE variable_pool[u]]
    /\ \/ UNCHANGED <<status, failed>>
       \/ /\ \E u \in ToSet(scParses) : status[u] = "ended"
          /\ Crash
    /\ UNCHANGED <<cmd_lines, line, parseVars, received, packages, syncVars,
                   scParses, stale, faults>>

(* pending() counts, then looks until there were as many syncs.            *)
PendingCounts(t) ==
    /\ Doing(t, "pending") /\ ~inside[t]
    /\ thread_cnt' = [thread_cnt EXCEPT ![t] = @ + 1]
    /\ inside' = [inside EXCEPT ![t] = TRUE]
    /\ UNCHANGED <<seen, cmd_lines, line, status, parseVars, variable_pool,
                   todo, received, packages, global_cnt, scParses, failed,
                   stale, faults>>

(* Fault: pending() lets a thread go one step too early.                   *)
InStepEarly(t) == thread_cnt[t] <= global_cnt + 1

(* Fault: it keeps the thread for one step too long.                       *)
InStepLate(t) == thread_cnt[t] < global_cnt

InStep(t) == thread_cnt[t] <= global_cnt

PendingEnds(t) ==
    /\ Doing(t, "pending") /\ inside[t]
    /\ InStep(t)
    /\ Done(t)
    /\ inside' = [inside EXCEPT ![t] = FALSE]
    /\ UNCHANGED <<seen, cmd_lines, line, status, parseVars, variable_pool,
                   received, packages, thread_cnt, global_cnt, scParses,
                   failed, stale, faults>>

(* sync() reads global_cnt, and then writes it.                            *)
SyncReads(t) ==
    /\ Doing(t, "sync") /\ ~inside[t]
    /\ thread_cnt' = [thread_cnt EXCEPT ![t] = @ + 1]
    /\ inside' = [inside EXCEPT ![t] = TRUE]
    /\ seen' = [seen EXCEPT ![t] = global_cnt]
    /\ UNCHANGED <<cmd_lines, line, status, parseVars, variable_pool, todo,
                   received, packages, global_cnt, scParses, failed, stale,
                   faults>>

SyncWrites(t) ==
    /\ Doing(t, "sync") /\ inside[t]
    /\ Done(t)
    /\ global_cnt' = seen[t] + 1
    /\ inside' = [inside EXCEPT ![t] = FALSE]
    /\ UNCHANGED <<seen, cmd_lines, line, status, parseVars, variable_pool,
                   received, packages, thread_cnt, scParses, failed, stale,
                   faults>>

(* The script is over: the port is closed and the reader ends.             *)
End(t) ==
    /\ status[t] = "running" /\ todo[t] = <<>> /\ finished[t]
    /\ status' = [status EXCEPT ![t] = "ended"]
    /\ UNCHANGED <<cmd_lines, line, parseVars, variable_pool, todo, received,
                   packages, syncVars, scParses, failed, stale, faults>>

(* The reader of the port: a packet of the device is put into the queue.   *)
Read(t) ==
    /\ status[t] = "running" /\ line[t] # <<>>
    /\ line' = [line EXCEPT ![t] = Tail(@)]
    /\ packages' = [packages EXCEPT ![t] = Append(@, Head(line[t]))]
    /\ UNCHANGED <<cmd_lines, status, parseVars, variable_pool, todo,
                   received, syncVars, scParses, failed, stale, faults>>

Thread(t) ==
    \/ Start(t)
    \/ Parse(t)
    \/ DoSend(t)
    \/ DoRecv(t)
    \/ DoFlush(t)
    \/ DoShare(t)
    \/ PendingCounts(t)
    \/ PendingEnds(t)
    \/ SyncReads(t)
    \/ SyncWrites(t)
    \/ End(t)

Next == \E t \in Script : Thread(t) \/ Timeout(t) \/ Read(t)

Spec == ScriptsInit /\ [][Next]_scriptsVars

(* Threads are scheduled, and devices send what they have to.              *)
FairSpec ==
    /\ Spec
    /\ \A t \in Script : WF_scriptsVars(Thread(t)) /\ WF_scriptsVars(Read(t))

-----------------------------------------------------------------------------
(* A variable is sent with the value it has then, if the scripts use what  *)
(* is shared only after a PENDING, and receive something in between: the   *)
(* SENDs behind a PENDING that no RECV parts from it are given their       *)
(* values before the PENDING is done (script_parse.h:103-140,              *)
(* main.c:43-101, mult_sync.h:10-11).                                      *)
SentFresh == ~stale

Steps(t) == SelectSeq(cmd_lines[t], LAMBDA c : c \in {Pending, Sync})

(* At each step one of the scripts does SYNC, the others do PENDING.       *)
OneSyncs ==
    \A t \in Script : \A n \in DOMAIN Steps(t) :
        \E t1 \in Script :
            {t1} = {u \in Script : n \in DOMAIN Steps(u) /\ Steps(u)[n] = Sync}

IgnoresOnly ==
    \E t \in Script : \E p \in DOMAIN cmd_lines[t] :
        /\ cmd_lines[t][p].cmd = "ignore" /\ (p > 1 => ~Receives(cmd_lines[t][p - 1]))
        /\ Awaited(t, p, GroupSize(t, p)) = {}

(* All scripts end, if none of them gives up, at each step one does SYNC,  *)
(* and no IGNOREs stand for themselves: no thread waits for a step that is *)
(* done, or for a packet that was there (squeue.h:13-37, mult_sync.h:10-11).*)
ScriptsEnd ==
    <>(failed \/ IgnoresOnly \/ ~OneSyncs \/ \A t \in Script : status[t] = "ended")

=============================================================================
