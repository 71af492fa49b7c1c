------------------------------- MODULE Stream -------------------------------
(***************************************************************************)
(* A connection of the TCP and TLS listeners (src/server/mod.rs, run_tcp   *)
(* and serve_stream): a reader that starts a task per query, the tasks,    *)
(* and a writer, joined by a bounded channel.  Queries are pipelined; the  *)
(* reply to one may be several messages (a transfer), or none (a drop).    *)
(***************************************************************************)
EXTENDS Integers, Sequences, Functions

CONSTANTS
    Pipelined,          \* the queries of the client, sent in this order
    Parts(_),           \* how many messages a query is answered with
    Channel             \* the bound of the channel (64)

(* no query is sent twice, so that its replies can be told apart *)
ASSUME StreamConstants ==
    /\ Pipelined \in Seq(Range(Pipelined)) /\ IsInjective(Pipelined)
    /\ \A q \in Range(Pipelined) : Parts(q) \in Nat
    /\ Channel \in Nat

VARIABLES
    reader,             \* "reading" or "done"
    unread,             \* the queries on their way
    task,               \* query -> how many messages it has sent; -1: not read, -2: gave up
    serving,            \* the tasks whose chain has not returned yet
    channel,            \* messages <<query, k>>
    writer,             \* "open", "broken" or "closed"
    framed,             \* what has been written to the stream
    stopped             \* the listener's cancel token

streamVars == <<reader, unread, task, serving, channel, writer, framed, stopped>>

Unread == -1
GaveUp == -2
Running(q) == task[q] >= 0 /\ (q \in serving \/ task[q] < Parts(q))

StreamInit ==
    /\ reader = "reading" /\ unread = Pipelined
    /\ task = [q \in Range(Pipelined) |-> Unread] /\ serving = {}
    /\ channel = <<>> /\ writer = "open" /\ framed = <<>> /\ stopped = FALSE
-----------------------------------------------------------------------------
(* the reader: a length and a packet, then a task for it *)
Read ==
    /\ reader = "reading" /\ unread # <<>>
    /\ LET q == Head(unread)
       IN  task' = [task EXCEPT ![q] = 0] /\ serving' = serving \cup {q}
    /\ unread' = Tail(unread)
    /\ UNCHANGED <<reader, channel, writer, framed, stopped>>

(* cancelled; or no (whole) query within idle_timeout and read_timeout, an *)
(* error, or a length of zero.  The reader's sender is dropped.            *)
ReaderEnds ==
    /\ reader = "reading"
    /\ reader' = "done"
    /\ UNCHANGED <<unread, task, serving, channel, writer, framed, stopped>>
Cancel ==
    /\ ~stopped
    /\ stopped' = TRUE
    /\ UNCHANGED <<reader, unread, task, serving, channel, writer, framed>>

(* a task: the chain returns, then its messages are sent one by one; a     *)
(* send waits for room, and fails when the writer has gone                 *)
Served(q) ==
    /\ q \in serving
    /\ serving' = serving \ {q}
    /\ UNCHANGED <<reader, unread, task, channel, writer, framed, stopped>>
SendWaits(q) ==     \* mutant: a send waits for room though the writer has gone
    /\ Running(q) /\ q \notin serving
    /\ Len(channel) < Channel
    /\ channel' = Append(channel, <<q, task[q] + 1>>)
    /\ task' = [task EXCEPT ![q] = @ + 1]
    /\ UNCHANGED <<reader, unread, serving, writer, framed, stopped>>

Send(q) ==
    /\ Running(q) /\ q \notin serving
    /\ IF writer # "open"
       THEN task' = [task EXCEPT ![q] = GaveUp] /\ UNCHANGED channel
       ELSE /\ Len(channel) < Channel
            /\ channel' = Append(channel, <<q, task[q] + 1>>)
            /\ task' = [task EXCEPT ![q] = @ + 1]
    /\ UNCHANGED <<reader, unread, serving, writer, framed, stopped>>

(* the writer: a frame at a time; it ends on an error or write_timeout, or *)
(* when the channel is empty and no sender is left                         *)
Write ==
    /\ writer = "open" /\ channel # <<>>
    /\ framed' = Append(framed, Head(channel))
    /\ channel' = Tail(channel)
    /\ UNCHANGED <<reader, unread, task, serving, writer, stopped>>
WriteFails ==
    /\ writer = "open" /\ channel # <<>>
    /\ writer' = "broken" /\ channel' = <<>>
    /\ UNCHANGED <<reader, unread, task, serving, framed, stopped>>

NoSender == reader = "done" /\ \A q \in DOMAIN task : ~Running(q)
WriterClosesEmpty ==    \* mutant: senders that are left are not waited for
    /\ writer = "open" /\ channel = <<>> /\ reader = "done"
    /\ writer' = "closed"
    /\ UNCHANGED <<reader, unread, task, serving, channel, framed, stopped>>

WriterCloses ==
    /\ writer = "open" /\ channel = <<>> /\ NoSender
    /\ writer' = "closed"
    /\ UNCHANGED <<reader, unread, task, serving, channel, framed, stopped>>

StreamNext ==
    \/ Read
    \/ ReaderEnds
    \/ Cancel
    \/ \E q \in DOMAIN task : Served(q) \/ Send(q)
    \/ Write
    \/ WriteFails
    \/ WriterCloses

(* tasks, the writer and a cancelled or idle reader run on *)
StreamFairness ==
    /\ WF_streamVars(stopped /\ ReaderEnds)
    /\ \A q \in Range(Pipelined) : WF_streamVars(Served(q)) /\ WF_streamVars(Send(q))
    /\ WF_streamVars(Write) /\ WF_streamVars(WriterCloses)
StreamSpec == StreamInit /\ [][StreamNext]_streamVars /\ StreamFairness
-----------------------------------------------------------------------------
(* the messages of q in s: their numbers, and that they are in their order *)
Numbers(s, q) == {f[2] : f \in {g \in Range(s) : g[1] = q}}
Rising(s, q) ==
    \A i, j \in DOMAIN s : i < j /\ s[i][1] = q /\ s[j][1] = q => s[i][2] < s[j][2]

(* A stream that is closed without a write error has carried the whole     *)
(* reply of every query that was read, even one read just before the       *)
(* reader stopped, and the messages of each reply in their order.          *)
AnsweredBeforeClose ==
    \A q \in DOMAIN task :
        /\ Rising(framed, q)
        /\ \E n \in 0 .. Parts(q) :
              /\ Numbers(framed, q) = 1 .. n
              /\ writer = "closed" /\ task[q] # Unread => n = Parts(q)

(* After the listener is stopped the connection ends: the writer is gone   *)
(* and no task is left waiting on the channel, full or not.                *)
StreamEnds == stopped ~> (writer # "open" /\ \A q \in DOMAIN task : ~Running(q))
=============================================================================
