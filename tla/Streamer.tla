------------------------------ MODULE Streamer ------------------------------
(***************************************************************************)
(* The streamer of src/src/streamer.rs with the executable manager that    *)
(* starts programs for it, through the stages PollServer, HandlePollEvents *)
(* and Main of one tick of the main loop after another.                    *)
(*                                                                         *)
(* A stream connects the standard streams of a program with the server.    *)
(* Its components sit on the program's own entity: it waits                *)
(* (StreamStateRun) until the program has a Run component, for which it    *)
(* sends a RunRequest in every stage, and then transfers                   *)
(* (StreamStateTransfer).  Entities with other components are in other     *)
(* tables of bevy, and tables are gone through in the order in which they  *)
(* came to be, so the manager's runner meets programs without a stream     *)
(* before those with one.                                                  *)
(*                                                                         *)
(* What the server sends is written to the standard input of the program,  *)
(* a pipe, and the write returns when the program has made room by reading *)
(* or has ended: until then the stage, and with it the main loop, waits.   *)
(* Nothing else is modelled of the data that is transferred.               *)
(***************************************************************************)
EXTENDS Execm

CONSTANTS
    Asked,    \* pids the server may ask a stream for
    Stopped   \* programs that somebody may ask to stop (the updater)

ASSUME StreamerAssumption ==
    /\ Asked \subseteq Pids
    /\ Stopped \subseteq Programs

VARIABLES
    stage,     \* stage of the main loop that is running
    sq,        \* Events<events::Stream>: the programs asked for
    st,        \* StreamStateRun ("run"), StreamStateTransfer, or no stream
    nxt,       \* what the stage's commands make of it
    requested, \* streams whose turn in the streamer's runner is over
    open,      \* programs whose stream's connection the server holds open
    writing,   \* programs to which transfer writes and that do not read
    waited     \* history: programs whose stream waited in the last Main stage

streamVars == <<stage, sq, st, nxt, requested, open, writing, waited>>
vars == <<execVars, streamVars>>

HandleSystems == {"sq_update", "adder"}
MainSystems == ExecSystems \cup {"stream_runner", "transfer", "stream_terminator"}

StageSystems ==
    IF stage = "handle" THEN HandleSystems ELSE IF stage = "main" THEN MainSystems ELSE {}

StreamStates == {"none", "run", "transfer"}
InState(s) == {p \in Programs : st[p] = s}

StreamTypeOK ==
    /\ ExecStateOK
    /\ stage \in {"poll", "handle", "main"}
    /\ ran \subseteq StageSystems
    /\ sq \in OrderedQueue(Asked)
    /\ st \in [Programs -> StreamStates]
    /\ nxt \in [Programs -> StreamStates]
    /\ requested \subseteq InState("run")
    /\ open \subseteq {p \in Programs : nxt[p] # "none"}
    /\ writing \subseteq InState("transfer")
    /\ waited \subseteq Programs

StreamInit ==
    /\ Init
    /\ stage = "poll"
    /\ sq = NoOrdered
    /\ st = [p \in Programs |-> "none"]
    /\ nxt = st
    /\ requested = {} /\ open = {} /\ writing = {}
    /\ waited = {}

-----------------------------------------------------------------------------
(* PollServer: the server may ask for one stream. *)
sys_poll ==
    /\ stage = "poll"
    /\ stage' = "handle"
    /\ sq' \in {sq} \cup {SendLast(sq, p) : p \in Asked}
    /\ UNCHANGED <<execVars, st, nxt, requested, open, writing, waited>>

InHandle(s) ==
    /\ stage = "handle"
    /\ Turn(s)
    /\ UNCHANGED <<cmds, run, held, cnt, asked, trq, rrq, procs, told, balance>>
    /\ UNCHANGED <<stage, st, requested, writing, waited>>

sq_update ==
    /\ InHandle("sq_update")
    /\ sq' = SwapOrdered(sq)
    /\ UNCHANGED <<nxt, open>>

(* Variant for mutation runs: an event for a program with a stream has to wait. *)
adder_Waits ==
    /\ InHandle("adder")
    /\ LET reqs == UnreadInOrder(sq) IN
         IF reqs = <<>> \/ reqs[1] \notin InState("none") THEN UNCHANGED <<sq, nxt, open>>
         ELSE /\ sq' = DropFirst(sq, 1)
              /\ nxt' = [nxt EXCEPT ![reqs[1]] = "run"]
              /\ open' = open \cup {reqs[1]}

(* One event is read.  It is forgotten if the program is unknown or has a stream,
   or if the server cannot be connected to. *)
adder ==
    /\ InHandle("adder")
    /\ LET reqs == UnreadInOrder(sq) IN
         IF reqs = <<>> THEN UNCHANGED <<sq, nxt, open>>
         ELSE /\ sq' = DropFirst(sq, 1)
              /\ \/ UNCHANGED <<nxt, open>>
                 \/ /\ reqs[1] \in InState("none")
                    /\ nxt' = [nxt EXCEPT ![reqs[1]] = "run"]
                    /\ open' = open \cup {reqs[1]}

EndHandle ==
    /\ stage = "handle" /\ ran = HandleSystems
    /\ stage' = "main" /\ ran' = {}
    /\ st' = nxt
    /\ UNCHANGED <<cmds, run, held, cnt, asked, trq, rrq, procs, told, balance>>
    /\ UNCHANGED <<sq, nxt, requested, open, writing, waited>>

-----------------------------------------------------------------------------
(* Variant for mutation runs: the query does not look at Terminate. *)
First_EvenHeld == Programs \ run

(* The table without stream components comes first. *)
First == IF Ready \cap InState("none") # {} THEN Ready \cap InState("none") ELSE Ready

ExecOf(A) == stage = "main" /\ A /\ UNCHANGED streamVars

ManagerSystem ==
    ExecOf(\/ terminate_adder \/ terminate_cleaner \/ terminator \/ run_checker
           \/ RunnerFrom(First) \/ trq_update \/ rrq_update)

InMain(s) ==
    /\ stage = "main"
    /\ Turn(s)
    /\ UNCHANGED <<cmds, run, held, cnt, asked, trq, rrq, procs, told, balance>>
    /\ UNCHANGED <<stage, sq, st, requested, waited>>

(* One turn of the loop of the streamer's runner: a waiting stream whose program
   does not run asks for it. *)
request_one(p) ==
    /\ stage = "main" /\ "stream_runner" \notin ran
    /\ \A o \in Before : o[2] = "stream_runner" => o[1] \in ran
    /\ p \in InState("run") \ (run \cup requested)
    /\ requested' = requested \cup {p}
    /\ rrq' = SendLast(rrq, p)
    /\ UNCHANGED <<ran, cmds, run, held, cnt, asked, trq, procs, told, balance>>
    /\ UNCHANGED <<stage, sq, st, nxt, open, writing, waited>>

(* Variant for mutation runs: only streams that had to ask are connected. *)
stream_runner_Asking ==
    /\ InMain("stream_runner")
    /\ InState("run") \subseteq run \cup requested
    /\ nxt' = [p \in Programs |-> IF p \in requested \cap run THEN "transfer" ELSE nxt[p]]
    /\ UNCHANGED <<open, writing>>

(* The other turns, and the end of the system. *)
stream_runner ==
    /\ InMain("stream_runner")
    /\ InState("run") \subseteq run \cup requested
    /\ nxt' = [p \in Programs |-> IF p \in InState("run") \cap run THEN "transfer" ELSE nxt[p]]
    /\ UNCHANGED <<open, writing>>

(* Variant for mutation runs: the connection outlives the stream. *)
Drop_StaysOpen(S) ==
    /\ nxt' = [p \in Programs |-> IF p \in S THEN "none" ELSE nxt[p]]
    /\ UNCHANGED open

Drop(S) ==
    /\ nxt' = [p \in Programs |-> IF p \in S THEN "none" ELSE nxt[p]]
    /\ open' = open \ S

(* Programs for which something may have come from the server, and that may not
   read it: the write to one that has ended fails at once. *)
MayBlock == {p \in InState("transfer") \cap run \cap open : procs[p] > 0}

(* Variant for mutation runs: the end of the connection is not noticed. *)
transfer_NeverEnds ==
    /\ InMain("transfer")
    /\ Drop({})
    /\ writing' \in SUBSET MayBlock

(* Streams whose connection has ended are dropped; others may be, when the
   program has closed its output or the connection fails.  The system is not over
   before its writes have returned, `writing` those that have not: Reads or Ends
   takes a program from it, and EndStreamMain waits for all. *)
transfer ==
    /\ InMain("transfer")
    /\ \E S \in SUBSET (InState("transfer") \cap run) :
         /\ (InState("transfer") \cap run) \ open \subseteq S
         /\ Drop(S)
    /\ writing' \in SUBSET MayBlock

(* Variant for mutation runs: only streams of processes that live no more. *)
stream_terminator_ByProcess ==
    /\ InMain("stream_terminator")
    /\ Drop({p \in InState("transfer") : procs[p] = 0})
    /\ UNCHANGED writing

(* The streamer's terminator: the program has no Run component (any more). *)
stream_terminator ==
    /\ InMain("stream_terminator")
    /\ Drop(InState("transfer") \ run)
    /\ UNCHANGED writing

EndStreamMain ==
    /\ stage = "main" /\ writing = {}
    /\ ApplyCommands(MainSystems)
    /\ stage' = "poll"
    /\ st' = nxt
    /\ requested' = {}
    /\ waited' = InState("run")
    /\ UNCHANGED <<sq, nxt, open, writing>>

MainLoop ==
    \/ sys_poll
    \/ sq_update \/ adder \/ EndHandle
    \/ ManagerSystem
    \/ (\E p \in Programs : request_one(p)) \/ stream_runner
    \/ transfer \/ stream_terminator \/ EndStreamMain

(* The server has ended a connection, and what it sent before has been read. *)
Close(p) ==
    /\ p \in open
    /\ open' = open \ {p}
    /\ UNCHANGED <<execVars, stage, sq, st, nxt, requested, writing, waited>>

(* A program reads what transfer writes to it, or ends: the write returns. *)
Reads(p) ==
    /\ p \in writing
    /\ writing' = writing \ {p}
    /\ UNCHANGED <<execVars, stage, sq, st, nxt, requested, open, waited>>

Ends(p) ==
    /\ Exit(p)
    /\ writing' = writing \ {p}
    /\ UNCHANGED <<stage, sq, st, nxt, requested, open, waited>>

Elsewhere ==
    \/ \E p \in Programs : Close(p) \/ Reads(p) \/ Ends(p)
    \/ (\E p \in Programs : PeriodOver(p)) /\ UNCHANGED streamVars
    \/ ExecOf(\E p \in Stopped : RequestTerminate({p}))

StreamNext == MainLoop \/ Elsewhere

StreamSafety == StreamInit /\ [][StreamNext]_vars

(* The runner's attempt to start p succeeds. *)
Started(p) == ExecOf(RunnerFrom(First)) /\ procs'[p] > procs[p]

(* The main loop runs on unless it waits for a program that does not read, and no
   program is impossible to start for ever. *)
StreamSpec ==
    /\ StreamSafety
    /\ WF_vars(MainLoop)
    /\ \A p \in Programs : SF_vars(Started(p))

-----------------------------------------------------------------------------
(* Every request of the server for a stream is looked at in the tick in which it
   comes, in either order of the update of the queue and its reader, so that
   reading one event in a tick is enough (streamer.rs:93-94, srvm.rs:31-39). *)
NoRequestLeft == stage = "main" => UnreadInOrder(sq) = <<>>

(* A program that does not keep running is started for a stream only: what a
   stream leaves in the queue when it has been connected, and its program ends at
   once, starts the program again in the next stage at the latest
   (streamer.rs:74-86, execm.rs:173-178). *)
NoLateStart ==
    [][\A p \in Programs \ KeepRun :
         procs'[p] > procs[p] => st[p] = "run" \/ p \in waited]_vars

(* A stream stays with the process it was connected to: when that ends it is
   removed before another one can have its place, although both the Run component
   and the stream wait for the ends of stages (streamer.rs:28-34, execm.rs:150-186). *)
OneProcessForStream ==
    [][\A p \in Programs :
         st[p] = "transfer" /\ p \notin run /\ p \in run' => st'[p] # "transfer"]_vars

(* A stream that waits is connected to its program, once nobody asks any more for
   the program to stop (streamer.rs:1-3, 74-86). *)
StreamConnects ==
    \A p \in Programs :
        <>[](Unread(trq) = {}) => (st[p] = "run" ~> st[p] = "transfer")

(* About the world, and assumed by StreamEnds: a program that transfer writes to
   reads at last, or ends.  One that does neither stops the whole manager, which has
   no timeout for it (streamer.rs:56-58). *)
WritesReturn == []<>(writing = {})

(* A stream that transfers ends when its program or the connection does, as long as
   no stream, this one or another, waits for ever for a program to read. *)
StreamEnds ==
    WritesReturn =>
        \A p \in Programs :
            st[p] = "transfer" /\ (p \notin run \/ p \notin open) ~> st[p] = "none"

(* For the executable manager the streamer is somebody who sends requests to run:
   in its company the manager is the one Execm specifies, with one order of the
   table out of those that Execm allows. *)
Manager == INSTANCE Execm
             WITH ran <- IF stage = "main" THEN ran \cap ExecSystems ELSE {},
                  Before <- {}

ImplementsExecm == Manager!ExecSpec
=============================================================================
