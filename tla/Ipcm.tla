-------------------------------- MODULE Ipcm --------------------------------
(***************************************************************************)
(* The IPC server of src/src/ipcm.rs: programs connect to one of two Unix  *)
(* sockets, write one request, a log message or a statistic, and read one  *)
(* answer.  The server accepts in the PollServer stage and handles its     *)
(* clients in HandlePollEvents, each of them once in a tick.               *)
(*                                                                         *)
(* mio registers the listeners edge-triggered: a poll reports a socket to  *)
(* which somebody has connected since the last poll, once, however many    *)
(* they are.  Streams do not block.  A program may die, or give up, at any *)
(* time; it may write its request in two parts, or one that nobody can     *)
(* decode.  A client is read once, into a buffer of BUFSIZE = 4096 bytes:  *)
(* a valid request that is longer is cut.  A connection that is over may   *)
(* be made anew.                                                           *)
(***************************************************************************)
EXTENDS Integers, Sequences, SequencesExt

CONSTANTS
    Sockets,   \* the two listeners
    Conns,     \* connections that exist at the same time
    SocketOf,  \* the listener each is made to
    Unknown    \* connections whose request is a log of an unknown program

ASSUME IpcmAssumption ==
    /\ SocketOf \in [Conns -> Sockets]
    /\ Unknown \subseteq Conns

VARIABLES
    stage,     \* stage of the main loop that is running
    backlog,   \* connections of each listener that are not accepted
    edge,      \* listeners that the next poll reports
    client,    \* IpcClient.state, or where else a connection is
    data,      \* what the program has written ("long": more than BUFSIZE)
    left,      \* connections whose program has closed its end
    handed,    \* history: how often the request went to the SendManager
    answered   \* history: programs that got the answer Ok, until they leave

vars == <<stage, backlog, edge, client, data, left, handed, answered>>

In(s) == {c \in Conns : client[c] = s}

(* Nothing; a request in part, in whole, in whole but longer than BUFSIZE; and what
   is no request at all. *)
Written == {"none", "part", "whole", "long", "bad"}

IpcTypeOK ==
    /\ stage \in {"poll", "handle"}
    /\ backlog \in [Sockets -> Seq(Conns)]
    /\ \A s \in Sockets : /\ IsInjective(backlog[s])
                          /\ ToSet(backlog[s]) = {c \in In("queued") : SocketOf[c] = s}
    /\ edge \subseteq {s \in Sockets : backlog[s] # <<>>}
    /\ client \in [Conns -> {"queued", "read", "write", "gone"}]
    /\ data \in [Conns -> Written]
    /\ left \subseteq Conns
    /\ handed \in [Conns -> Nat]
    /\ answered \subseteq In("gone") \ left
    /\ \A c \in In("gone") : data[c] = "none"

IpcInit ==
    /\ stage = "poll"
    /\ backlog = [s \in Sockets |-> <<>>]
    /\ edge = {}
    /\ client = [c \in Conns |-> "gone"]
    /\ data = [c \in Conns |-> "none"]
    /\ left = Conns
    /\ handed = [c \in Conns |-> 0]
    /\ answered = {}

-----------------------------------------------------------------------------
(* Variant for mutation runs: who is accepted stays in the queue. *)
Rest_All(s) == backlog[s]

(* Whom an accept takes from the queue of listener s, and whom it leaves. *)
Accepted(s) == Head(backlog[s])
Rest(s) == Tail(backlog[s])

(* Variant for mutation runs: the last to connect is accepted first. *)
server_Last ==
    /\ stage = "poll" /\ stage' = "handle"
    /\ client' = [c \in Conns |->
                    IF \E s \in edge : c = Last(backlog[s]) THEN "read" ELSE client[c]]
    /\ backlog' = [s \in Sockets |-> IF s \in edge THEN Front(backlog[s]) ELSE backlog[s]]
    /\ edge' = {}
    /\ UNCHANGED <<data, left, handed, answered>>

(* One accept for each listener that the poll reports. *)
server ==
    /\ stage = "poll" /\ stage' = "handle"
    /\ client' = [c \in Conns |->
                    IF \E s \in edge : c = Accepted(s) THEN "read" ELSE client[c]]
    /\ backlog' = [s \in Sockets |-> IF s \in edge THEN Rest(s) ELSE backlog[s]]
    /\ edge' = {}
    /\ UNCHANGED <<data, left, handed, answered>>

(* handle_client reads once: what can be decoded, what cannot (also the first part
   of a request, and the first BUFSIZE bytes of a longer one), or the end. *)
Requests == {c \in In("read") : data[c] = "whole"}
(* Variant for mutation runs: nothing to read is an error. *)
Fails_WouldBlock == In("read") \ Requests
Fails == {c \in In("read") : \/ data[c] \in {"part", "long", "bad"}
                             \/ data[c] = "none" /\ c \in left}

(* Variant for mutation runs: the request is kept until the answer is written. *)
HandedOver_Again(c) == c \in (Requests \cup In("write")) \ Unknown

(* A log of a program that is not known is answered, and not handed over. *)
HandedOver(c) == c \in Requests \ Unknown

(* Variant for mutation runs: nobody is answered. *)
Answers_None == {}
Answers == In("write")

(* The answer is written in the next tick, and with it, or with a failure, the
   connection is dropped. *)
NextState(c) ==
    CASE c \in Requests                  -> "write"
      [] c \in Fails \cup Answers        -> "gone"
      [] OTHER                           -> client[c]

incoming_handler ==
    /\ stage = "handle" /\ stage' = "poll"
    /\ client' = [c \in Conns |-> NextState(c)]
    /\ handed' = [c \in Conns |-> IF HandedOver(c) THEN handed[c] + 1 ELSE handed[c]]
    /\ answered' = answered \cup (Answers \ left)
    /\ data' = [c \in Conns |-> IF NextState(c) = "gone" THEN "none" ELSE data[c]]
    /\ UNCHANGED <<backlog, edge, left>>

MainLoop == server \/ incoming_handler

-----------------------------------------------------------------------------
(* A program connects (again). *)
Connect(c) ==
    /\ c \in In("gone") \cap left
    /\ backlog' = [backlog EXCEPT ![SocketOf[c]] = Append(@, c)]
    /\ edge' = edge \cup {SocketOf[c]}
    /\ client' = [client EXCEPT ![c] = "queued"]
    /\ left' = left \ {c}
    /\ handed' = [handed EXCEPT ![c] = 0]
    /\ UNCHANGED <<stage, data, answered>>

(* It writes its request, which may be a long one, or a part of it, or something
   else. *)
Write(c) ==
    /\ c \in In("queued") \cup In("read")
    /\ c \notin left
    /\ \E d \in Written \ {"none"} :
         /\ data[c] = "none" \/ (data[c] = "part" /\ d \in {"whole", "long"})
         /\ data' = [data EXCEPT ![c] = d]
    /\ UNCHANGED <<stage, backlog, edge, client, left, handed, answered>>

(* It closes the connection: after the answer, or because it gives up or dies. *)
Leave(c) ==
    /\ c \notin left
    /\ left' = left \cup {c}
    /\ answered' = answered \ {c}
    /\ UNCHANGED <<stage, backlog, edge, client, data, handed>>

Programs == \E c \in Conns : Connect(c) \/ Write(c) \/ Leave(c)

IpcNext == MainLoop \/ Programs

(* The main loop runs for ever; the poll of the listeners has a timeout. *)
IpcSpec == IpcInit /\ [][IpcNext]_vars /\ WF_vars(MainLoop)

-----------------------------------------------------------------------------
(* A request is handed over once at most, and a program that got its answer knows
   that it was, unless it is unknown: two ticks, in between which the program may
   die, separate the one from the other (ipcm.rs:73-104). *)
HandedOnce ==
    \A c \in Conns : /\ handed[c] <= 1
                     /\ c \in answered \ Unknown => handed[c] = 1

(* A program that waits for its answer loses the connection without one only if
   what was read of it at once could not be decoded: no request, one that it was
   still writing, or a valid one that does not fit in the buffer (ipcm.rs:53-61). *)
DroppedForCause ==
    [][\A c \in Conns \ left :
         client[c] # "gone" /\ client'[c] = "gone" /\ c \notin answered'
            => data[c] \in {"part", "long", "bad"}]_vars

(* Who has been accepted and has written a request that fits in the buffer is
   answered, or is gone (ipcm.rs:71-107).  One that does not fit has no answer. *)
Served ==
    \A c \in Conns :
        client[c] = "read" /\ data[c] = "whole" ~> c \in answered \cup left

(* Each event is answered by one accept: of programs that connect together the
   first is accepted, and each of the others when another one comes.  As long as
   others come, nobody waits for ever (ipcm.rs:115-145). *)
AcceptedIfOthersCome ==
    \A c \in Conns :
        []<>(SocketOf[c] \in edge) => (client[c] = "queued" ~> client[c] = "read")
=============================================================================
