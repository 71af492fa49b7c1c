------------------------------ MODULE ConnPool ------------------------------
(***************************************************************************)
(* The stream connections of one upstream of the forward plugin            *)
(* (Proxy::exchange over TCP or TLS, src/plugins/forward.rs): idle         *)
(* connections wait in a pool; an exchange pops the newest one or dials,   *)
(* writes its request, reads one response, and puts the connection back.   *)
(* After an error it tries once more on a fresh connection.                *)
(*                                                                         *)
(* The upstream answers the requests of a connection in order and may      *)
(* answer after the client gave up.                                        *)
(***************************************************************************)
EXTENDS Naturals, Sequences, Functions

CONSTANTS
    Exchanges,      \* concurrent calls of exchange (queries and probes)
    Conns,          \* sockets
    PoolCap         \* 64 in the code

ASSUME PoolAssumption == PoolCap \in Nat

VARIABLES
    pool,           \* idle connections, newest last
    x,              \* the state of each exchange
    asked,          \* requests on each connection that are not answered yet
    unread          \* answers on each connection that are not read yet

poolVars == <<pool, x, asked, unread>>

NoExchange == [pc |-> "idle"]
Waiting == {e \in Exchanges : x[e].pc \in {"write", "read"}}
Newest == pool[Len(pool)]
Older  == SubSeq(pool, 1, Len(pool) - 1)
InUse == Range(pool) \cup {x[e].conn : e \in Waiting}

PoolInit == /\ pool = <<>>
            /\ x = [e \in Exchanges |-> NoExchange]
            /\ asked = [c \in Conns |-> <<>>]
            /\ unread = [c \in Conns |-> <<>>]

(* take_conn: the newest idle connection; if that has expired, so have the *)
(* older ones, and the loop drops them all.                                *)
TakeConnKept(e) ==          \* mutant: the connection stays in the pool
    /\ x[e] = NoExchange
    /\ \/ /\ pool # <<>>
          /\ x' = [x EXCEPT ![e] = [pc |-> "write", conn |-> Newest, again |-> TRUE]]
          /\ UNCHANGED pool
       \/ /\ pool' = <<>>
          /\ x' = [x EXCEPT ![e] = [pc |-> "dial", again |-> TRUE]]
    /\ UNCHANGED <<asked, unread>>

TakeConn(e) ==
    /\ x[e] = NoExchange
    /\ \/ /\ pool # <<>>
          /\ pool' = Older
          /\ x' = [x EXCEPT ![e] = [pc |-> "write", conn |-> Newest, again |-> TRUE]]
       \/ /\ pool' = <<>>
          /\ x' = [x EXCEPT ![e] = [pc |-> "dial", again |-> TRUE]]
    /\ UNCHANGED <<asked, unread>>

Dial(e) ==
    /\ x[e].pc = "dial"
    /\ \/ \E c \in Conns \ InUse :
             /\ x' = [x EXCEPT ![e] = [pc |-> "write", conn |-> c, again |-> @.again]]
             /\ asked' = [asked EXCEPT ![c] = <<>>]
             /\ unread' = [unread EXCEPT ![c] = <<>>]
       \/ /\ x' = [x EXCEPT ![e] = NoExchange]
          /\ UNCHANGED <<asked, unread>>
    /\ UNCHANGED pool

(* stream_exchange: write the request, read one response. *)
Write(e) ==
    /\ x[e].pc = "write"
    /\ asked' = [asked EXCEPT ![x[e].conn] = Append(@, e)]
    /\ x' = [x EXCEPT ![e] = [pc |-> "read", conn |-> @.conn, again |-> @.again]]
    /\ UNCHANGED <<pool, unread>>

(* put_conn keeps the connection unless the pool is full. *)
PutConn(c) == pool' = IF Len(pool) < PoolCap THEN Append(pool, c) ELSE pool

Read(e) ==
    /\ x[e].pc = "read"
    /\ unread[x[e].conn] # <<>>
    /\ unread' = [unread EXCEPT ![x[e].conn] = Tail(@)]
    /\ PutConn(x[e].conn)
    /\ x' = [x EXCEPT ![e] = NoExchange]
    /\ UNCHANGED asked

(* An I/O error or the read timeout: drop the connection; dial once more.  *)
(* The first exchange retries, whether its connection was pooled or new.   *)
FailReused(e) ==            \* mutant: the connection goes back to the pool
    /\ x[e].pc \in {"write", "read"}
    /\ x' = [x EXCEPT ![e] = IF @.again THEN [pc |-> "dial", again |-> FALSE] ELSE NoExchange]
    /\ PutConn(x[e].conn)
    /\ UNCHANGED <<asked, unread>>

Fail(e) ==
    /\ x[e].pc \in {"write", "read"}
    /\ x' = [x EXCEPT ![e] = IF @.again THEN [pc |-> "dial", again |-> FALSE] ELSE NoExchange]
    /\ UNCHANGED <<pool, asked, unread>>

(* The future is dropped at an await (the deadline of forward, a gone      *)
(* client): the connection is closed with it.                              *)
ExchangeDropped(e) ==
    /\ x[e].pc \in {"dial", "write", "read"}
    /\ x' = [x EXCEPT ![e] = NoExchange]
    /\ UNCHANGED <<pool, asked, unread>>

(* The upstream answers the oldest request of a connection. *)
Answer(c) ==
    /\ asked[c] # <<>>
    /\ unread' = [unread EXCEPT ![c] = Append(@, Head(asked[c]))]
    /\ asked' = [asked EXCEPT ![c] = Tail(@)]
    /\ UNCHANGED <<pool, x>>

PoolNext == \/ \E e \in Exchanges : \/ TakeConn(e) \/ Dial(e) \/ Write(e)
                                    \/ Read(e) \/ Fail(e) \/ ExchangeDropped(e)
            \/ \E c \in Conns : Answer(c)

PoolSpec == PoolInit /\ [][PoolNext]_poolVars
-----------------------------------------------------------------------------
(* The pool of idle connections stays within its limit (put_conn). *)
PoolTypeOK ==
    /\ pool \in Seq(Conns) /\ Len(pool) <= PoolCap
    /\ x = [e \in Exchanges |-> x[e]]
    /\ \A e \in Waiting : x[e].conn \in Conns
    /\ asked \in [Conns -> Seq(Exchanges)]
    /\ unread \in [Conns -> Seq(Exchanges)]

(* A connection is used by one exchange at a time, and not while it waits  *)
(* in the pool.                                                            *)
ExclusiveConn ==
    /\ \A e, f \in Waiting : x[e].conn = x[f].conn => e = f
    /\ \A e \in Waiting : x[e].conn \notin Range(pool)
    /\ IsInjective(pool)

(* The response an exchange reads is the one to its own request, never a   *)
(* late answer to a request that timed out or was dropped.                 *)
NoCrossTalk ==
    \A e \in Exchanges : x[e].pc = "read" /\ unread[x[e].conn] # <<>>
        => Head(unread[x[e].conn]) = e
=============================================================================
