---------------------------- MODULE SendManager ----------------------------
(***************************************************************************)
(* The send manager of src/src/sendm.rs: a queue of reports, statistics    *)
(* and logs for the server, sent one in a tick from its head.  When the    *)
(* manager shuts down, reports and statistics go to disk, one in a tick    *)
(* from the tail; when the queue is empty, they come back.                 *)
(*                                                                         *)
(* A tick of the main loop is here its three systems that touch this       *)
(* state: sys_send_manager (HandlePollEvents), then sys_disk_manager and   *)
(* certm's sys_reset (Save) in any order.  `todo` are those still to run.  *)
(* Messages come from systems of the first stages and have the clock of    *)
(* the machine, which may be set back or stand still between two of them.  *)
(*                                                                         *)
(* The process may die at any time, also while it writes a file; what was  *)
(* written before is then on disk.  The next process starts with a report  *)
(* of its own.  A message is a number, in the order they are handed over.  *)
(***************************************************************************)
EXTENDS Integers, FiniteSets, SequencesExt

CONSTANTS
    MaxMessages,   \* bound: messages handed over, the reports of a start included
    Clock,         \* bound: readings of the clock when message m may be handed over
    Torn, NoFile   \* contents of a file: cut off, and none

Msgs == 1..MaxMessages

ASSUME SendAssumption ==
    /\ MaxMessages \in Nat \ {0}
    /\ Clock \in [Msgs -> SUBSET (Nat \ {0})]
    /\ Torn \notin Msgs /\ NoFile \notin Msgs /\ Torn # NoFile

VARIABLES
    proc,       \* the process: "runs", "died" or "panicked"
    todo,       \* systems that have not run in this tick
    terminate,  \* AppState.is_terminate()
    queue,      \* SendManager.queue
    tryDue,     \* tl_try_send is TRY_SEND_PERIOD ago
    diskDue,    \* tl_disk_check is DISK_CHECK_PERIOD ago
    necessary,  \* the messages that are reports or statistics
    dt,         \* SendData.dt of each message
    dir,        \* the directory of spilled messages exists
    files,      \* its files, by name
    \* History, for the properties.
    handed,     \* number of messages handed over
    born,       \* dt of each message when it was handed over
    got,        \* messages the server has received
    answered,   \* messages the server has answered
    restored,   \* messages that came back from disk
    crashed     \* messages in memory, or being written, when a process died

processVars == <<proc, todo, terminate>>
messageVars == <<necessary, dt, handed, born>>
serverVars == <<got, answered>>
diskVars == <<dir, files>>
vars == <<processVars, queue, tryDue, diskDue, messageVars, diskVars, serverVars,
          restored, crashed>>

Save == {"sys_disk_manager", "sys_reset"}
Systems == {"sys_send_manager"} \cup Save
Times == {0} \cup UNION {Clock[m] : m \in Msgs}

SendTypeOK ==
    /\ proc \in {"runs", "died", "panicked"}
    /\ todo \subseteq Systems
    /\ terminate \in BOOLEAN
    /\ queue \in Seq(Msgs)
    /\ tryDue \in BOOLEAN /\ diskDue \in BOOLEAN
    /\ handed \in Msgs
    /\ necessary \subseteq 1..handed
    /\ dt \in [Msgs -> Times] /\ born \in [Msgs -> Times]
    /\ dir \in BOOLEAN
    /\ files \in [Times -> Msgs \cup {Torn, NoFile}]
    /\ got \subseteq 1..handed /\ answered \subseteq got
    /\ restored \subseteq necessary /\ crashed \subseteq 1..handed

Queued == ToSet(queue)
Files == {t \in Times : files[t] # NoFile}
OnDisk == {files[t] : t \in Files} \cap Msgs

-----------------------------------------------------------------------------
(* SendManager::report, stat and log. *)
Push(q, t) ==
    /\ handed' = handed + 1
    /\ queue' = Append(q, handed + 1)
    /\ dt' = [dt EXCEPT ![handed + 1] = t]
    /\ born' = [born EXCEPT ![handed + 1] = t]

(* The state of a process that has started, but for its queue: that holds main's
   reboot_report. *)
Started == /\ proc' = "runs" /\ todo' = Systems /\ terminate' = FALSE
           /\ tryDue' = FALSE /\ diskDue' = FALSE

(* The first process.  The directory comes with the machine or does not. *)
Init ==
    /\ proc = "runs" /\ todo = Systems /\ terminate = FALSE
    /\ tryDue = FALSE /\ diskDue = FALSE
    /\ queue = <<1>> /\ handed = 1 /\ necessary = {1}
    /\ dt \in {[m \in Msgs |-> IF m = 1 THEN t ELSE 0] : t \in Clock[1]}
    /\ born = dt
    /\ dir \in BOOLEAN
    /\ files = [t \in Times |-> NoFile]
    /\ got = {} /\ answered = {} /\ restored = {} /\ crashed = {}

(* A system of the stages before Save hands over a message. *)
Hand ==
    /\ proc = "runs" /\ Save \subseteq todo
    /\ handed < MaxMessages
    /\ \E t \in Clock[handed + 1] : Push(queue, t)
    /\ necessary' \in {necessary, necessary \cup {handed + 1}}
    /\ UNCHANGED <<processVars, tryDue, diskDue, diskVars, serverVars, restored, crashed>>

(* System s takes its turn: the stage Save comes after the others. *)
MayRun(s) ==
    /\ proc = "runs" /\ s \in todo
    /\ s \in Save => "sys_send_manager" \notin todo

Turn(s) == MayRun(s) /\ todo' = todo \ {s}

-----------------------------------------------------------------------------
(* Variant for mutation runs: a message that was not answered goes to the end. *)
Keep_AtTheEnd(q) == Append(Tail(q), Head(q))

Keep(q) == q

(* Variant for mutation runs: one attempt is enough. *)
SendFirst_Once(arrives, answers) ==
    /\ got' = IF arrives THEN got \cup {Head(queue)} ELSE got
    /\ answered' = IF answers THEN answered \cup {Head(queue)} ELSE answered
    /\ queue' = Tail(queue)
    /\ tryDue' = answers

(* The head is sent.  It reaches the server or not, and the answer comes or not; a
   log is forgotten in any case, anything else stays until it is answered. *)
SendFirst(arrives, answers) ==
    LET m == Head(queue)
        over == answers \/ m \notin necessary
    IN /\ got' = IF arrives THEN got \cup {m} ELSE got
       /\ answered' = IF answers THEN answered \cup {m} ELSE answered
       /\ queue' = IF over THEN Tail(queue) ELSE Keep(queue)
       /\ tryDue' = over

sys_send_manager ==
    /\ Turn("sys_send_manager")
    /\ IF tryDue /\ queue # <<>>
       THEN \/ SendFirst(FALSE, FALSE)
            \/ SendFirst(TRUE, FALSE)
            \/ SendFirst(TRUE, TRUE)
       ELSE UNCHANGED <<queue, tryDue, serverVars>>
    /\ UNCHANGED <<proc, terminate, diskDue, messageVars, diskVars, restored, crashed>>

-----------------------------------------------------------------------------
(* mos::temp_send_data_push: the file is named by the time of the message. *)
Write(m, contents) ==
    /\ dir' = TRUE
    /\ files' = [files EXCEPT ![dt[m]] = contents]

(* Variant for mutation runs: a log at the tail keeps its place. *)
Spill_NotLogs ==
    IF Last(queue) \in necessary
    THEN Write(Last(queue), Last(queue)) /\ queue' = Front(queue)
    ELSE UNCHANGED <<queue, diskVars>>

(* Variant for mutation runs: the message stays in the queue. *)
Spill_Copies ==
    /\ IF Last(queue) \in necessary
       THEN Write(Last(queue), Last(queue))
       ELSE UNCHANGED diskVars
    /\ UNCHANGED queue

(* At shutdown the tail goes to disk; a log goes nowhere. *)
Spill ==
    /\ queue' = Front(queue)
    /\ IF Last(queue) \in necessary
       THEN Write(Last(queue), Last(queue))
       ELSE UNCHANGED diskVars

(* Variants for mutation runs: a file that is cut off stays, and every file stays. *)
RemoveFile_NotTorn(t) == files' = [files EXCEPT ![t] = IF @ = Torn THEN Torn ELSE NoFile]
RemoveFile_Never(t) == UNCHANGED files

RemoveFile(t) == files' = [files EXCEPT ![t] = NoFile]

(* Variant for mutation runs: what cannot be decoded is put in the queue. *)
Restore_Undecoded(t) ==
    /\ RemoveFile(t)
    /\ queue' = Append(queue, files[t])
    /\ dt' = [m \in Msgs |-> IF m = files[t] THEN 0 ELSE dt[m]]
    /\ restored' = restored \cup ({files[t]} \cap Msgs)

(* mos::temp_send_data_pop: the search for the smallest name starts from 0, so that it
   stays at the first file of the directory, and 0 is the time that it returns.  What
   cannot be decoded is dropped. *)
Restore(t) ==
    /\ RemoveFile(t)
    /\ IF files[t] = Torn
       THEN UNCHANGED <<queue, dt, restored>>
       ELSE /\ queue' = Append(queue, files[t])
            /\ dt' = [dt EXCEPT ![files[t]] = 0]
            /\ restored' = restored \cup {files[t]}

Dies(how) ==
    /\ proc' = how
    /\ todo' = Systems /\ terminate' = FALSE
    /\ tryDue' = FALSE /\ diskDue' = FALSE
    /\ queue' = <<>>

(* The disk manager when it has nothing to do with files. *)
NoDiskWork ==
    IF terminate THEN queue = <<>> ELSE ~diskDue \/ queue # <<>> \/ (dir /\ Files = {})

sys_disk_manager ==
    \/ /\ Turn("sys_disk_manager")
       /\ diskDue' = (diskDue /\ terminate)
       /\ \/ NoDiskWork /\ UNCHANGED <<queue, dt, diskVars, restored>>
          \/ terminate /\ queue # <<>> /\ Spill /\ UNCHANGED <<dt, restored>>
          \/ /\ ~terminate /\ diskDue /\ queue = <<>> /\ dir
             /\ \E t \in Files : Restore(t)
             /\ UNCHANGED dir
       /\ UNCHANGED <<proc, terminate, tryDue, necessary, handed, born, serverVars, crashed>>
    \/ /\ MayRun("sys_disk_manager")
       /\ ~terminate /\ diskDue /\ queue = <<>> /\ ~dir  \* read_dir fails: unwrap
       /\ Dies("panicked")
       /\ UNCHANGED <<messageVars, diskVars, serverVars, restored, crashed>>

(* certm.rs: after the answer NotReg to a poll the certificate is reset. *)
sys_reset ==
    /\ Turn("sys_reset")
    /\ terminate' \in {terminate, TRUE}
    /\ UNCHANGED <<proc, queue, tryDue, diskDue, messageVars, diskVars, serverVars,
                   restored, crashed>>

EndTick ==
    /\ proc = "runs" /\ todo = {}
    /\ todo' = Systems
    /\ UNCHANGED <<proc, terminate, queue, tryDue, diskDue, messageVars, diskVars,
                   serverVars, restored, crashed>>

-----------------------------------------------------------------------------
(* Time passes. *)
TryPeriodOver ==
    /\ proc = "runs" /\ ~tryDue
    /\ tryDue' = TRUE
    /\ UNCHANGED <<processVars, queue, diskDue, messageVars, diskVars, serverVars,
                   restored, crashed>>

DiskPeriodOver ==
    /\ proc = "runs" /\ ~diskDue
    /\ diskDue' = TRUE
    /\ UNCHANGED <<processVars, queue, tryDue, messageVars, diskVars, serverVars,
                   restored, crashed>>

(* The process dies: between two systems, or while it writes a file. *)
Crash ==
    /\ proc = "runs"
    /\ Dies("died")
    /\ crashed' = crashed \cup Queued
    /\ UNCHANGED <<messageVars, diskVars, serverVars, restored>>

CrashInPush ==
    /\ MayRun("sys_disk_manager") /\ terminate
    /\ queue # <<>> /\ Last(queue) \in necessary
    /\ Write(Last(queue), Torn)
    /\ Dies("died")
    /\ crashed' = crashed \cup Queued
    /\ UNCHANGED <<messageVars, serverVars, restored>>

(* Another process starts, after certm has registered anew where that was asked. *)
Restart ==
    /\ proc # "runs" /\ handed < MaxMessages
    /\ Started
    /\ \E t \in Clock[handed + 1] : Push(<<>>, t)
    /\ necessary' = necessary \cup {handed + 1}
    /\ UNCHANGED <<diskVars, serverVars, restored, crashed>>

Tick == sys_send_manager \/ sys_disk_manager \/ sys_reset \/ EndTick

Next ==
    \/ Hand \/ Tick
    \/ TryPeriodOver \/ DiskPeriodOver
    \/ Crash \/ CrashInPush \/ Restart

Spec == Init /\ [][Next]_vars

(* The main loop goes on, time passes, and somebody starts the manager again. *)
Fairness ==
    /\ WF_vars(Tick)
    /\ WF_vars(TryPeriodOver)
    /\ WF_vars(DiskPeriodOver)
    /\ WF_vars(Restart)

SendSpec == Spec /\ Fairness

(* About the world, and assumed by Drains alone: a server that is asked again and again
   answers at last. *)
Answered == sys_send_manager /\ answered' # answered
ServerAnswers == SF_vars(Answered)

-----------------------------------------------------------------------------
(* Nobody sends again what the server has answered, nor keeps it: sendm.rs removes it
   from the queue, and mos.rs from the disk before it comes back to the queue. *)
AnsweredIsOver == answered \cap (Queued \cup OnDisk) = {}

(* A message waits at one place, once: retry, spill and return make no copies. *)
OnePlace ==
    /\ Cardinality(Queued) = Len(queue)
    /\ Queued \cap OnDisk = {}
    /\ \A t, u \in Files : files[t] = files[u] /\ files[t] # Torn => t = u

(* Messages that wait in memory since they were handed over reach the server in that
   order, although a head that is not answered is sent again: only what came back from
   disk can be overtaken. *)
InOrder == \A n \in Queued \ restored : \A m \in got : n < m => n \in got

(* Reports and statistics that are nowhere any more and that the server did not answer. *)
Missing == necessary \ (answered \cup crashed \cup Queued \cup OnDisk)

(* What is lost without a crash has a twin, another message that had the same file name:
   handed over in the same millisecond, or come back from disk before as the lost one
   has, because mos.rs gives both the time 0.  Without twins nothing is lost; which of
   them overwrote it the formula leaves open. *)
LossNeedsTwin ==
    \A m \in Missing : \E n \in necessary \ {m} :
        born[n] = born[m] \/ {m, n} \subseteq restored

(* sendm.rs:1, "save SendData on disk if needed": what no process had in memory when it
   died is kept until the server answers. *)
NecessaryKept == Missing = {}

(* sendm.rs:128 unwraps the result of temp_send_data_pop: it asserts that the search for
   spilled messages succeeds, also when there have never been any. *)
PopSucceeds == proc # "panicked"

(* About the world, and assumed by ShutdownSaves: at last no system hands over any more.
   In the instances the bound MaxMessages sees to it; in the code nothing does. *)
HandingOverEnds == <>[][~Hand]_vars

(* A shutdown that is given the time, and in which the other systems at last hand over
   nothing more, empties the queue, whether the server answers or not.  One tick spills
   one message, and that from the tail (sendm.rs:111-118): as long as a tick brings a new
   one, such as the reports of a program that exits as soon as it is started, the
   newest is saved each time and the oldest stay in memory. *)
ShutdownSaves == HandingOverEnds => (terminate ~> (queue = <<>> \/ proc # "runs"))

(* A manager that is left to run, with a server that answers, sends everything at last,
   what former processes left on disk included. *)
Drains ==
    ServerAnswers /\ <>[](proc = "runs" /\ ~terminate)
        => <>[](queue = <<>> /\ Files = {})
=============================================================================
