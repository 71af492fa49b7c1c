---------------------------- MODULE ServerProofs ----------------------------
(***************************************************************************)
(* Theorems about the parts of the server that run beside each other: the  *)
(* life of the process (Lifecycle), the start-up probes of loop            *)
(* (LoopProbe) and a connection of a stream listener (Stream).             *)
(*                                                                         *)
(* Lifecycle, for any versions of the Corefile, slots, edits and signals:  *)
(* the process serves until it exits, one watcher is left between two      *)
(* reloads, and a reload hands the endpoint over.  None of the three is    *)
(* inductive: each needs to know, at every place of the main task, which   *)
(* instances listen, which watch, and whose endpoint is registered.        *)
(***************************************************************************)
EXTENDS Lifecycle, LoopProbe, Stream, TLAPS

(* where only the old instance listens, and where both do *)
Before == {"select", "load", "bind", "reload_hook", "endpoint_hook", "other_hooks", "final", "final_drain"}
Both   == {"stop_old", "drain"}

(* the watchers that are not told to stop *)
Watching == {i \in Slots : watcher[i] # "none" /\ i \notin cancelled}

(* The main task is somewhere, and beside the running instance there is at *)
(* most one other, in a slot of its own.                                   *)
PlacesOK ==
    /\ main \in Before \cup Both \cup {"exited"}
    /\ main \in {"bind", "reload_hook", "endpoint_hook", "other_hooks", "stop_old", "drain"} => new \in Slots \ {inst}

(* The listeners and CURRENT at each place of the main task. *)
ListenersOK ==
    /\ main \in Before => listening = {inst} /\ current = inst
    /\ main \in Both   => listening = {inst, new} /\ current = new

(* The watchers at each place of the main task.  A slot that is handed to  *)
(* a new instance has no watcher, and no cancellation left over.           *)
WatchersOK ==
    /\ \A i \in cancelled : watcher[i] # "none"
    /\ main \in {"bind", "reload_hook"} => watcher[new] = "none"
    /\ main \in {"select", "load", "bind", "reload_hook", "final"} => Watching = {inst}
    /\ main \in {"endpoint_hook", "other_hooks", "stop_old"} => Watching = {inst, new}
    /\ main = "drain" => Watching = {new}

(* From its hook on, the new instance has the endpoint. *)
EndpointOK == main \in {"other_hooks", "stop_old", "drain"} => endpoint = new

ProcessInv == TypeOK /\ PlacesOK /\ ListenersOK /\ WatchersOK /\ EndpointOK

(* The first instance runs alone. *)
LEMMA ProcessInit == Init => ProcessInv
<1> SUFFICES ASSUME Init PROVE ProcessInv
  OBVIOUS
<1>1. TypeOK
  <2>1. SignalsOK
    BY Zenon DEF Init, SignalsOK
  <2>2. QED
    BY <2>1, LifecycleConstants DEF Init, TypeOK
<1>2. PlacesOK /\ ListenersOK /\ EndpointOK
  BY DEF Init, PlacesOK, ListenersOK, EndpointOK, Before, Both
<1>3. WatchersOK
  BY DEF Init, WatchersOK, Watching
<1>4. QED
  BY <1>1, <1>2, <1>3 DEF ProcessInv

(* A signal is pending or not after every step. *)
LEMMA SignalsTyped == TypeOK /\ [Next]_vars => SignalsOK'
<1> SUFFICES ASSUME SignalsOK, [Next]_vars PROVE SignalsOK'
  BY DEF TypeOK
<1> USE DEF SignalsOK, sigs
<1>1. CASE Main
  BY <1>1, Zenon DEF Main, TakeHup, TakeNotified, TakeExit, Dropped, Load, Bind, ReloadHook, EndpointHook,
     HooksFail, Spawn, StopOld, Drain, StopFinal, Exit
<1>2. CASE \E i \in Slots : Watch(i)
  BY <1>2, Zenon DEF Watch, WatchWake, WatchNotify, WatchStop
<1>3. CASE (\E v \in Versions : Edit(v)) \/ SigHup \/ SigTerm \/ SigInt
  BY <1>3, Zenon DEF Edit, SigHup, SigTerm, SigInt
<1>4. CASE UNCHANGED vars
  BY <1>4, Zenon DEF vars
<1>5. QED
  BY <1>1, <1>2, <1>3, <1>4 DEF Next

(* Types are kept by every step. *)
LEMMA ProcessTyped == ProcessInv /\ [Next]_vars => TypeOK'
<1> SUFFICES ASSUME ProcessInv, [Next]_vars PROVE TypeOK'
  OBVIOUS
<1>0. SignalsOK'
  BY SignalsTyped DEF ProcessInv
<1> USE <1>0, LifecycleConstants DEF ProcessInv, TypeOK, PlacesOK, Before, Both, env, sigs, slots, serve
<1>1. CASE TakeHup \/ TakeNotified \/ TakeExit
  BY <1>1 DEF TakeHup, TakeNotified, TakeExit, Dropped
<1>2. CASE Load
  BY <1>2 DEF Load
<1>3. CASE Bind
  BY <1>3 DEF Bind
<1>4. CASE ReloadHook
  BY <1>4 DEF ReloadHook, hash_file
<1>5. CASE EndpointHook
  BY <1>5 DEF EndpointHook
<1>6. CASE HooksFail
  BY <1>6 DEF HooksFail, ShutdownHooks
<1>7. CASE Spawn
  BY <1>7 DEF Spawn
<1>8. CASE StopOld
  BY <1>8 DEF StopOld, ShutdownHooks
<1>9. CASE Drain
  BY <1>9 DEF Drain
<1>10. CASE StopFinal \/ Exit
  BY <1>10 DEF StopFinal, Exit, ShutdownHooks
<1>11. CASE \E i \in Slots : Watch(i)
  BY <1>11 DEF Watch, WatchWake, WatchNotify, WatchStop, hash_file
<1>12. CASE \E v \in Versions : Edit(v)
  BY <1>12 DEF Edit
<1>13. CASE SigHup \/ SigTerm \/ SigInt
  BY <1>13 DEF SigHup, SigTerm, SigInt
<1>14. CASE UNCHANGED vars
  BY <1>14 DEF vars
<1>15. QED
  BY <1>1, <1>2, <1>3, <1>4, <1>5, <1>6, <1>7, <1>8, <1>9, <1>10, <1>11, <1>12, <1>13, <1>14, Zenon DEF Next, Main

(* So are the places, the listeners and the endpoint. *)
LEMMA ProcessServes == ProcessInv /\ [Next]_vars => (PlacesOK /\ ListenersOK /\ EndpointOK)'
<1> SUFFICES ASSUME ProcessInv, [Next]_vars PROVE (PlacesOK /\ ListenersOK /\ EndpointOK)'
  OBVIOUS
<1> USE LifecycleConstants DEF ProcessInv, TypeOK, PlacesOK, ListenersOK, EndpointOK, Before, Both, env, sigs, slots, serve
<1>1. CASE TakeHup \/ TakeNotified \/ TakeExit
  BY <1>1 DEF TakeHup, TakeNotified, TakeExit
<1>2. CASE Load
  BY <1>2 DEF Load, Free
<1>3. CASE Bind
  BY <1>3 DEF Bind
<1>4. CASE ReloadHook
  BY <1>4 DEF ReloadHook
<1>5. CASE EndpointHook
  BY <1>5 DEF EndpointHook
<1>6. CASE HooksFail
  BY <1>6 DEF HooksFail
<1>7. CASE Spawn
  BY <1>7 DEF Spawn
<1>8. CASE StopOld
  BY <1>8 DEF StopOld, ShutdownHooks
<1>9. CASE Drain
  BY <1>9 DEF Drain
<1>10. CASE StopFinal \/ Exit
  BY <1>10 DEF StopFinal, Exit, ShutdownHooks
<1>11. CASE \E i \in Slots : Watch(i)
  BY <1>11, Zenon DEF Watch, WatchWake, WatchNotify, WatchStop
<1>12. CASE \E v \in Versions : Edit(v)
  BY <1>12 DEF Edit
<1>13. CASE SigHup \/ SigTerm \/ SigInt
  BY <1>13 DEF SigHup, SigTerm, SigInt
<1>14. CASE UNCHANGED vars
  BY <1>14 DEF vars
<1>15. QED
  BY <1>1, <1>2, <1>3, <1>4, <1>5, <1>6, <1>7, <1>8, <1>9, <1>10, <1>11, <1>12, <1>13, <1>14, Zenon DEF Next, Main

(* And the watchers: a hook starts one, a shutdown hook cancels one, and   *)
(* one that ends takes its cancellation with it.                           *)
LEMMA ProcessWatches == ProcessInv /\ [Next]_vars => WatchersOK'
<1> SUFFICES ASSUME ProcessInv, [Next]_vars PROVE WatchersOK'
  OBVIOUS
<1> USE LifecycleConstants DEF ProcessInv, TypeOK, PlacesOK, WatchersOK, Watching, Before, Both, env, sigs, slots, serve
<1>1. CASE TakeHup \/ TakeNotified \/ TakeExit
  BY <1>1 DEF TakeHup, TakeNotified, TakeExit
<1>2. CASE Load
  BY <1>2 DEF Load, Free
<1>3. CASE Bind
  BY <1>3 DEF Bind
<1>4. CASE ReloadHook
  BY <1>4 DEF ReloadHook
<1>5. CASE EndpointHook
  BY <1>5 DEF EndpointHook
<1>6. CASE HooksFail
  BY <1>6 DEF HooksFail, ShutdownHooks
<1>7. CASE Spawn
  BY <1>7 DEF Spawn
<1>8. CASE StopOld
  BY <1>8 DEF StopOld, ShutdownHooks
<1>9. CASE Drain
  BY <1>9 DEF Drain
<1>10. CASE StopFinal \/ Exit
  BY <1>10 DEF StopFinal, Exit, ShutdownHooks
<1>11. CASE \E i \in Slots : Watch(i)
  <2> PICK i \in Slots : Watch(i)
    BY <1>11
  <2>1. CASE WatchWake(i) \/ WatchNotify(i)
    <3>1. \A j \in Slots : watcher'[j] = "none" <=> watcher[j] = "none"
      BY <2>1, ZenonT(60) DEF WatchWake, WatchNotify
    <3>2. main' = main /\ inst' = inst /\ new' = new /\ cancelled' = cancelled
      BY <2>1, Zenon DEF WatchWake, WatchNotify
    <3>3. Watching' = Watching
      BY <3>1, <3>2
    <3>4. QED
      BY <3>1, <3>2, <3>3
  <2>2. CASE WatchStop(i)
    <3>1. main' = main /\ inst' = inst /\ new' = new
      BY <2>2 DEF WatchStop
    <3>2. Watching' = Watching
      BY <2>2 DEF WatchStop
    <3>3. (main \in {"bind", "reload_hook"} => watcher[new] = "none")'
      BY <2>2, <3>1 DEF WatchStop
    <3>4. (\A j \in cancelled : watcher[j] # "none")'
      BY <2>2 DEF WatchStop
    <3>5. QED
      BY <3>1, <3>2, <3>3, <3>4, Zenon
  <2>3. QED
    BY <2>1, <2>2, Zenon DEF Watch
<1>12. CASE \E v \in Versions : Edit(v)
  BY <1>12 DEF Edit
<1>13. CASE SigHup \/ SigTerm \/ SigInt
  BY <1>13 DEF SigHup, SigTerm, SigInt
<1>14. CASE UNCHANGED vars
  BY <1>14 DEF vars
<1>15. QED
  BY <1>1, <1>2, <1>3, <1>4, <1>5, <1>6, <1>7, <1>8, <1>9, <1>10, <1>11, <1>12, <1>13, <1>14, Zenon DEF Next, Main

(* The invariant holds in every reachable state. *)
LEMMA ProcessInvariant == Spec => []ProcessInv
<1>1. ProcessInv /\ [Next]_vars => ProcessInv'
  BY ProcessTyped, ProcessServes, ProcessWatches DEF ProcessInv
<1>2. QED
  BY ProcessInit, <1>1, PTL DEF Spec

(* Through any number of reloads and failed starts there are listeners     *)
(* until the process exits, and CURRENT is an instance that listens.       *)
THEOREM AlwaysServing == Spec => []NeverDown
<1>1. ProcessInv => NeverDown
  BY DEF ProcessInv, PlacesOK, ListenersOK, NeverDown, Before, Both
<1>2. QED
  BY ProcessInvariant, <1>1, PTL

(* Between two reloads exactly the running instance watches the Corefile.  *)
THEOREM WatcherUnique == Spec => []OneWatcher
<1>1. ProcessInv => OneWatcher
  BY DEF ProcessInv, WatchersOK, OneWatcher, Watching
<1>2. QED
  BY ProcessInvariant, <1>1, PTL

(* The variables have their types, and no failed start leaves a            *)
(* half-started instance behind.                                           *)
THEOREM LifecycleTyped == Spec => []TypeOK
<1>1. ProcessInv => TypeOK
  BY DEF ProcessInv
<1>2. QED
  BY ProcessInvariant, <1>1, PTL

(* A reload that ends has handed the HTTP endpoint to the new instance:    *)
(* the old one's shutdown hook removes only what is still its own.         *)
THEOREM EndpointGoesOver == Spec => EndpointHandedOver
<1>1. ProcessInv /\ [Next]_vars => [main = "drain" /\ main' = "select" => endpoint' = inst']_vars
  <2> SUFFICES ASSUME ProcessInv, Next, main = "drain", main' = "select"
               PROVE  endpoint' = inst'
    OBVIOUS
  <2>1. Drain
    BY Zenon DEF Next, Main, TakeHup, TakeNotified, TakeExit, Load, Bind, ReloadHook, EndpointHook, HooksFail, Spawn,
           StopOld, StopFinal, Exit, Watch, WatchWake, WatchNotify, WatchStop, Edit, SigHup, SigTerm, SigInt
  <2>2. QED
    BY <2>1 DEF Drain, ProcessInv, EndpointOK
<1>2. QED
  BY ProcessInvariant, <1>1, PTL DEF Spec, EndpointHandedOver
-----------------------------------------------------------------------------
(***************************************************************************)
(* LoopProbe, for any number of attempts: without a loop the process never *)
(* exits.  NoFalseExit is not inductive, since it does not bound the       *)
(* arrivals still to come; what carries it is that without a loop a probe, *)
(* counted once when it travels and once when it has arrived, is there at  *)
(* most once, and not at all before it is sent.                            *)
(***************************************************************************)
(* The variables the argument needs have their types. *)
LoopTypeOK ==
    /\ asked \subseteq Probes
    /\ seen \in [Probes -> Nat]
    /\ travelling \in [Probes -> Nat]

(* Without a loop a probe that was sent travels or has arrived, once. *)
SentOnce == ~looping =>
    \A p \in Probes : seen[p] + travelling[p] <= IF p \in asked THEN 1 ELSE 0

LoopInv == LoopTypeOK /\ SentOnce /\ NoFalseExit

(* Nothing has been sent at the start. *)
LEMMA LoopInvInit == LoopInit => LoopInv
BY AttemptsAssumption DEF LoopInit, LoopInv, LoopTypeOK, SentOnce, NoFalseExit, Probes

(* Every step keeps the invariant; an arrival moves a probe from one count *)
(* to the other, and the third arrival it would need never comes.          *)
LEMMA LoopInvNext == LoopInv /\ [LoopNext]_loopVars => LoopInv'
<1> SUFFICES ASSUME LoopInv, [LoopNext]_loopVars PROVE LoopInv'
  OBVIOUS
<1> USE DEF LoopInv, LoopTypeOK, SentOnce, NoFalseExit
<1>1. CASE SendProbe
  BY <1>1 DEF SendProbe
<1>2. CASE SendFails \/ ProbeTimeout \/ ProbeAnswered \/ WindowEnds
  BY <1>2 DEF SendFails, ProbeTimeout, ProbeAnswered, WindowEnds
<1>3. ASSUME NEW p \in Probes, Arrive(p) PROVE LoopInv'
  <2>1. looping' = looping /\ asked' = asked /\ travelling[p] > 0
    BY <1>3 DEF Arrive
  <2>2. CASE off
    BY <1>3, <2>1, <2>2 DEF Arrive, NameOfProbe
  <2>3. CASE ~off
    <3>1. seen' = [seen EXCEPT ![p] = seen[p] + 1]
      BY <1>3, <2>3 DEF Arrive, NameOfProbe
    <3>2. exited' => seen[p] + 1 > 2
      BY <1>3, <2>3, Zenon DEF Arrive, NameOfProbe
    <3>3. travelling' = [travelling EXCEPT ![p] = IF looping /\ ~exited' THEN @ ELSE @ - 1]
      BY <1>3 DEF Arrive
    <3>4. NoFalseExit'
      BY <2>1, <3>2
    <3>5. LoopTypeOK'
      BY <2>1, <3>1, <3>3
    <3>6. SentOnce'
      BY <2>1, <3>1, <3>3
    <3>7. QED
      BY <3>4, <3>5, <3>6
  <2>4. QED
    BY <2>2, <2>3
<1>4. CASE UNCHANGED loopVars
  BY <1>4 DEF loopVars
<1>5. QED
  BY <1>1, <1>2, <1>3, <1>4 DEF LoopNext

(* Slow or silent upstreams never make the process exit, whatever number   *)
(* of probes is sent, and however late they arrive.                        *)
THEOREM NoLoopNoExit == LoopSpec => []NoFalseExit
<1>1. LoopInv => NoFalseExit
  BY DEF LoopInv
<1>2. QED
  BY LoopInvInit, LoopInvNext, <1>1, PTL DEF LoopSpec
-----------------------------------------------------------------------------
(***************************************************************************)
(* Stream, for any pipelined queries, replies and size of the channel.     *)
(* AnsweredBeforeClose does not say where the messages of a reply are that *)
(* are not written yet; the invariant does: while the writer is open, the  *)
(* written messages and then those in the channel are, for each query,     *)
(* what its task has sent, from the first on and in order.                 *)
(***************************************************************************)
(* the queries, and the messages of their replies *)
Sent == Range(Pipelined)
Message == Sent \X Nat

(* How many messages of q have been sent, when the writer is open. *)
Passed(q) == IF task[q] > 0 THEN task[q] ELSE 0

(* The variables the argument needs have their types. *)
StreamTypes ==
    /\ unread \in Seq(Sent)
    /\ task \in [Sent -> Int]
    /\ channel \in Seq(Message)
    /\ framed \in Seq(Message)
    /\ writer \in {"open", "broken", "closed"}

(* A query is on its way once, and then it has no task yet. *)
OnTheWay ==
    /\ \A i \in DOMAIN unread : task[unread[i]] = Unread
    /\ IsInjective(unread)

(* What a task has sent. *)
TasksOK ==
    /\ \A q \in Sent : task[q] <= Parts(q) /\ (writer = "open" => task[q] >= Unread)
    /\ writer = "closed" => NoSender

(* The first n messages of q are written, in their order; while the writer *)
(* is open the channel holds the others that were sent, in their order.    *)
Carried(q, n) ==
    /\ n <= Parts(q)
    /\ Rising(framed, q) /\ Numbers(framed, q) = 1 .. n
    /\ writer = "open" => /\ n <= Passed(q)
                          /\ Rising(channel, q) /\ Numbers(channel, q) = n + 1 .. Passed(q)
    /\ writer = "closed" /\ task[q] # Unread => n = Parts(q)

InOrder == \A q \in Sent : \E n \in Nat : Carried(q, n)

StreamInv == StreamTypes /\ OnTheWay /\ TasksOK /\ InOrder

(* A message at the end of a sequence. *)
LEMMA AppendMessage ==
    ASSUME NEW s \in Seq(Message), NEW m \in Message, NEW q
    PROVE  /\ Numbers(Append(s, m), q) = IF m[1] = q THEN Numbers(s, q) \cup {m[2]} ELSE Numbers(s, q)
           /\ Rising(s, q) /\ (m[1] = q => \A k \in Numbers(s, q) : k < m[2]) => Rising(Append(s, m), q)
<1> DEFINE t == Append(s, m)
<1>1. /\ t \in Seq(Message) /\ Len(t) = Len(s) + 1 /\ DOMAIN t = 1 .. Len(s) + 1
      /\ t[Len(s) + 1] = m /\ DOMAIN s = 1 .. Len(s) /\ Len(s) \in Nat
      /\ \A i \in 1 .. Len(s) : t[i] = s[i]
  OBVIOUS
<1> HIDE DEF t
<1>2. Range(t) = Range(s) \cup {m}
  BY <1>1 DEF Range
<1>3. Numbers(t, q) = IF m[1] = q THEN Numbers(s, q) \cup {m[2]} ELSE Numbers(s, q)
  BY <1>2 DEF Numbers
<1>4. ASSUME Rising(s, q), m[1] = q => \A k \in Numbers(s, q) : k < m[2] PROVE Rising(t, q)
  <2> SUFFICES ASSUME NEW i \in 1 .. Len(s) + 1, NEW j \in 1 .. Len(s) + 1, i < j, t[i][1] = q, t[j][1] = q
               PROVE  t[i][2] < t[j][2]
    BY <1>1 DEF Rising
  <2>1. i \in 1 .. Len(s) /\ t[i] = s[i]
    BY <1>1
  <2>2. CASE j = Len(s) + 1
    <3>1. s[i][2] \in Numbers(s, q)
      BY <1>1, <2>1, Zenon DEF Numbers, Range
    <3>2. QED
      BY <1>1, <1>4, <2>1, <2>2, <3>1
  <2>3. CASE j \in 1 .. Len(s)
    BY <1>1, <1>4, <2>1, <2>3, Zenon DEF Rising
  <2>4. QED
    BY <1>1, <2>2, <2>3
<1>5. QED
  BY <1>3, <1>4 DEF t

(* The first message of a sequence leaves it. *)
LEMMA TailMessages ==
    ASSUME NEW s \in Seq(Message), s # <<>>, NEW q, Rising(s, q)
    PROVE  /\ Head(s) \in Message /\ Tail(s) \in Seq(Message)
           /\ Rising(Tail(s), q)
           /\ Head(s)[1] # q => Numbers(Tail(s), q) = Numbers(s, q)
           /\ Head(s)[1] = q => /\ Numbers(s, q) = Numbers(Tail(s), q) \cup {Head(s)[2]}
                                /\ \A k \in Numbers(Tail(s), q) : Head(s)[2] < k
<1> DEFINE t == Tail(s)  m == Head(s)
<1>1. /\ t \in Seq(Message) /\ DOMAIN t = 1 .. Len(s) - 1 /\ m \in Message
      /\ m = s[1] /\ DOMAIN s = 1 .. Len(s) /\ Len(s) \in Nat /\ Len(s) > 0
      /\ \A i \in 1 .. Len(s) - 1 : t[i] = s[i + 1]
  OBVIOUS
<1> HIDE DEF t, m
<1>2. Range(s) = Range(t) \cup {m}
  <2>1. \A i \in 1 .. Len(s) : i = 1 \/ (i - 1 \in 1 .. Len(s) - 1 /\ s[i] = t[i - 1])
    BY <1>1
  <2>2. \A i \in 1 .. Len(s) - 1 : i + 1 \in 1 .. Len(s) /\ t[i] = s[i + 1]
    BY <1>1
  <2>3. Range(s) \subseteq Range(t) \cup {m}
    BY <1>1, <2>1 DEF Range
  <2>4. m \in Range(s)
    <3>1. 1 \in DOMAIN s
      BY <1>1
    <3>2. QED
      BY <1>1, <3>1 DEF Range
  <2>5. Range(t) \subseteq Range(s)
    <3> SUFFICES ASSUME NEW i \in 1 .. Len(s) - 1 PROVE t[i] \in Range(s)
      BY <1>1 DEF Range
    <3>1. i + 1 \in DOMAIN s /\ t[i] = s[i + 1]
      BY <1>1, <2>2
    <3>2. QED
      BY <3>1 DEF Range
  <2>6. QED
    BY <2>3, <2>4, <2>5
<1>3. Numbers(s, q) = IF m[1] = q THEN Numbers(t, q) \cup {m[2]} ELSE Numbers(t, q)
  BY <1>2 DEF Numbers
<1>4. Rising(t, q)
  <2> SUFFICES ASSUME NEW i \in 1 .. Len(s) - 1, NEW j \in 1 .. Len(s) - 1, i < j, t[i][1] = q, t[j][1] = q
               PROVE  t[i][2] < t[j][2]
    BY <1>1, Zenon DEF Rising
  <2>1. i + 1 \in 1 .. Len(s) /\ j + 1 \in 1 .. Len(s) /\ i + 1 < j + 1
    BY <1>1
  <2>2. t[i] = s[i + 1] /\ t[j] = s[j + 1]
    BY <1>1
  <2>3. s[i + 1][2] < s[j + 1][2]
    BY <1>1, <2>1, <2>2, Zenon DEF Rising
  <2>4. QED
    BY <2>2, <2>3
<1>5. ASSUME m[1] = q, NEW k \in Numbers(t, q) PROVE m[2] < k
  <2>1. PICK i \in 1 .. Len(s) - 1 : t[i][1] = q /\ t[i][2] = k
    BY <1>1 DEF Numbers, Range
  <2>2. i + 1 \in 1 .. Len(s) /\ 1 < i + 1 /\ s[i + 1] = t[i] /\ 1 \in 1 .. Len(s)
    BY <1>1
  <2>3. s[1][2] < s[i + 1][2]
    BY <1>1, <1>5, <2>1, <2>2, Zenon DEF Rising
  <2>4. QED
    BY <1>1, <2>1, <2>2, <2>3, Zenon
<1>6. QED
  BY <1>1, <1>3, <1>4, <1>5, Zenon DEF t, m

(* Nothing is sent at the start. *)
LEMMA StreamInvInit == StreamInit => StreamInv
<1> SUFFICES ASSUME StreamInit PROVE StreamInv
  OBVIOUS
<1>1. StreamTypes
  BY StreamConstants DEF StreamInit, StreamTypes, Sent, Unread
<1>2. OnTheWay
  BY StreamConstants DEF StreamInit, OnTheWay, Range
<1>3. TasksOK
  BY StreamConstants DEF StreamInit, TasksOK, Sent, Unread
<1>4. ASSUME NEW q \in Sent PROVE Carried(q, 0)
  <2>1. Range(framed) = {} /\ Range(channel) = {} /\ DOMAIN framed = {} /\ DOMAIN channel = {}
    BY DEF StreamInit, Range
  <2>2. Numbers(framed, q) = {} /\ Numbers(channel, q) = {} /\ Rising(framed, q) /\ Rising(channel, q)
    BY <2>1 DEF Numbers, Rising
  <2>3. Passed(q) = 0 /\ Parts(q) \in Nat /\ writer = "open"
    BY StreamConstants DEF StreamInit, Passed, Sent, Unread
  <2>4. 1 .. 0 = {} /\ 0 + 1 .. 0 = {}
    OBVIOUS
  <2>5. QED
    BY <2>2, <2>3, <2>4 DEF Carried
<1>5. InOrder
  BY <1>4 DEF InOrder
<1>6. QED
  BY <1>1, <1>2, <1>3, <1>5 DEF StreamInv

(* A step that leaves the messages, the writer and the tasks alone. *)
LEMMA CarriedOn ==
    ASSUME InOrder, UNCHANGED <<task, channel, framed, writer>>
    PROVE  InOrder'
<1> SUFFICES ASSUME NEW q \in Sent PROVE \E n \in Nat : Carried(q, n)'
  BY DEF InOrder
<1>1. PICK n \in Nat : Carried(q, n)
  BY DEF InOrder
<1>2. Carried(q, n)'
  BY <1>1 DEF Carried, Passed
<1>3. QED
  BY <1>2

(* The reader takes the next query: its task has sent nothing. *)
LEMMA ReadKeeps == ASSUME StreamInv, Read PROVE StreamInv'
<1> DEFINE h == Head(unread)  rest == Tail(unread)
<1>1. /\ h \in Sent /\ h = unread[1] /\ rest \in Seq(Sent) /\ DOMAIN rest = 1 .. Len(unread) - 1
      /\ DOMAIN unread = 1 .. Len(unread) /\ Len(unread) \in Nat /\ Len(unread) > 0
      /\ \A i \in 1 .. Len(unread) - 1 : rest[i] = unread[i + 1]
  BY DEF StreamInv, StreamTypes, Read
<1>2. /\ unread' = rest /\ task' = [task EXCEPT ![h] = 0] /\ reader = "reading"
      /\ UNCHANGED <<reader, channel, framed, writer>>
  BY DEF Read
<1> HIDE DEF h, rest
<1>3. task[h] = Unread
  <2>1. 1 \in DOMAIN unread
    BY <1>1
  <2>2. QED
    BY <1>1, <2>1 DEF StreamInv, OnTheWay
<1>4. \A i \in 1 .. Len(unread) - 1 : /\ i + 1 \in DOMAIN unread /\ 1 \in DOMAIN unread /\ i + 1 # 1
  BY <1>1
<1>5. StreamTypes'
  BY <1>1, <1>2 DEF StreamInv, StreamTypes
<1>6. OnTheWay'
  <2>1. ASSUME NEW i \in DOMAIN rest PROVE task'[rest[i]] = Unread
    <3>1. rest[i] = unread[i + 1] /\ rest[i] # h /\ rest[i] \in Sent
      BY <1>1, <1>4 DEF StreamInv, OnTheWay, IsInjective
    <3>2. task[rest[i]] = Unread
      BY <1>1, <1>4, <3>1 DEF StreamInv, OnTheWay
    <3>3. QED
      BY <1>2, <3>1, <3>2 DEF StreamInv, StreamTypes
  <2>2. IsInjective(rest)
    <3> SUFFICES ASSUME NEW i \in DOMAIN rest, NEW j \in DOMAIN rest, rest[i] = rest[j] PROVE i = j
      BY DEF IsInjective
    <3>1. i + 1 \in DOMAIN unread /\ j + 1 \in DOMAIN unread /\ unread[i + 1] = unread[j + 1]
      BY <1>1, <1>4, Zenon
    <3>2. i + 1 = j + 1
      BY <3>1 DEF StreamInv, OnTheWay, IsInjective
    <3>3. QED
      BY <1>1, <3>2
  <2>3. QED
    BY <1>2, <2>1, <2>2 DEF OnTheWay
<1>7. writer # "closed"
  BY <1>2 DEF StreamInv, TasksOK, NoSender
<1>8. TasksOK'
  <2>1. \A q \in Sent : task'[q] = IF q = h THEN 0 ELSE task[q]
    BY <1>1, <1>2 DEF StreamInv, StreamTypes
  <2>2. 0 <= Parts(h) /\ 0 >= Unread
    BY <1>1, StreamConstants DEF Sent, Unread
  <2>3. QED
    BY <1>2, <1>7, <2>1, <2>2 DEF StreamInv, TasksOK
<1>9. InOrder'
  <2> SUFFICES ASSUME NEW q \in Sent PROVE \E n \in Nat : Carried(q, n)'
    BY DEF InOrder
  <2>1. PICK n \in Nat : Carried(q, n)
    BY DEF StreamInv, InOrder
  <2>2. Passed(q)' = Passed(q)
    BY <1>1, <1>2, <1>3 DEF Passed, StreamInv, StreamTypes, Unread
  <2>3. Carried(q, n)'
    BY <1>2, <1>7, <2>1, <2>2 DEF Carried
  <2>4. QED
    BY <2>3
<1>10. QED
  BY <1>5, <1>6, <1>8, <1>9 DEF StreamInv
(* A query with a task is no longer on its way. *)
LEMMA TaskNotUnread ==
    ASSUME StreamInv, NEW p \in Sent, task[p] \in Nat
    PROVE  \A i \in DOMAIN unread : unread[i] # p /\ unread[i] \in Sent
BY DEF StreamInv, StreamTypes, OnTheWay, Unread

(* A task sends its next message, or gives up when the writer has gone. *)
LEMMA SendKeeps == ASSUME StreamInv, NEW p \in Sent, Send(p) PROVE StreamInv'
<1> DEFINE t == task[p]
<1>1. t \in Nat /\ t < Parts(p) /\ Parts(p) \in Nat /\ Running(p) /\ p \in DOMAIN task
  BY StreamConstants DEF Send, Running, StreamInv, StreamTypes, Sent
<1>0. \A i \in DOMAIN unread : unread[i] # p /\ unread[i] \in Sent
  BY <1>1, TaskNotUnread, Zenon
<1>2. writer # "closed" /\ UNCHANGED <<reader, unread, writer, framed>>
  BY <1>1 DEF Send, StreamInv, TasksOK, NoSender
<1>3. CASE writer # "open"
  <2>1. task' = [task EXCEPT ![p] = GaveUp] /\ UNCHANGED channel /\ GaveUp \in Int /\ GaveUp < 0
    BY <1>3 DEF Send, GaveUp
  <2>2. StreamTypes'
    BY <1>2, <2>1 DEF StreamInv, StreamTypes
  <2>3. OnTheWay'
    BY <1>0, <1>2, <2>1 DEF StreamInv, StreamTypes, OnTheWay
  <2>4. TasksOK'
    <3>1. \A q \in Sent : task'[q] = IF q = p THEN GaveUp ELSE task[q]
      BY <2>1 DEF StreamInv, StreamTypes
    <3>2. GaveUp <= Parts(p)
      BY <1>1, <2>1
    <3>3. QED
      BY <1>2, <1>3, <3>1, <3>2 DEF StreamInv, TasksOK
  <2>5. InOrder'
    <3> SUFFICES ASSUME NEW q \in Sent PROVE \E n \in Nat : Carried(q, n)'
      BY DEF InOrder
    <3>1. PICK n \in Nat : Carried(q, n)
      BY DEF StreamInv, InOrder
    <3>2. Carried(q, n)'
      BY <1>2, <1>3, <3>1, Zenon DEF Carried
    <3>3. QED
      BY <3>2
  <2>6. QED
    BY <2>2, <2>3, <2>4, <2>5 DEF StreamInv
<1>4. CASE writer = "open"
  <2> DEFINE m == <<p, t + 1>>
  <2>1. task' = [task EXCEPT ![p] = t + 1] /\ channel' = Append(channel, m) /\ m \in Message
    BY <1>1, <1>4 DEF Send, Message
  <2>2. t + 1 \in Nat /\ t + 1 > 0 /\ t + 1 <= Parts(p) /\ t + 1 >= Unread /\ m[1] = p /\ m[2] = t + 1
    BY <1>1 DEF Unread
  <2> HIDE DEF m
  <2>3. \A q \in Sent : task'[q] = IF q = p THEN t + 1 ELSE task[q]
    BY <2>1 DEF StreamInv, StreamTypes
  <2>4. StreamTypes'
    BY <1>2, <2>1, <2>2 DEF StreamInv, StreamTypes
  <2>5. OnTheWay'
    BY <1>0, <1>2, <2>1 DEF StreamInv, StreamTypes, OnTheWay
  <2>6. TasksOK'
    BY <1>2, <2>2, <2>3 DEF StreamInv, TasksOK
  <2>7. InOrder'
    <3> SUFFICES ASSUME NEW q \in Sent PROVE \E n \in Nat : Carried(q, n)'
      BY DEF InOrder
    <3>1. PICK n \in Nat : Carried(q, n)
      BY DEF StreamInv, InOrder
    <3>2. n <= Passed(q) /\ Rising(channel, q) /\ Numbers(channel, q) = n + 1 .. Passed(q)
      BY <1>4, <3>1 DEF Carried
    <3>3. channel \in Seq(Message)
      BY DEF StreamInv, StreamTypes
    <3>4. CASE q # p
      <4>1. Passed(q)' = Passed(q)
        BY <2>3, <3>4 DEF Passed
      <4>2. Rising(channel', q) /\ Numbers(channel', q) = Numbers(channel, q)
        BY <2>1, <2>2, <3>2, <3>3, <3>4, AppendMessage, Zenon
      <4>3. Carried(q, n)'
        BY <1>2, <1>4, <3>1, <3>2, <4>1, <4>2, Zenon DEF Carried
      <4>4. QED
        BY <4>3
    <3>5. CASE q = p
      <4>1. Passed(p) = t
        BY <1>1 DEF Passed
      <4>2. Passed(p)' = t + 1
        BY <2>2, <2>3 DEF Passed
      <4>3. \A k \in Numbers(channel, p) : k < t + 1
        BY <1>1, <3>2, <3>5, <4>1
      <4>4. Rising(channel', p) /\ Numbers(channel', p) = Numbers(channel, p) \cup {t + 1}
        <5>1. /\ Numbers(Append(channel, m), p) = IF m[1] = p THEN Numbers(channel, p) \cup {m[2]} ELSE Numbers(channel, p)
              /\ Rising(channel, p) /\ (m[1] = p => \A k \in Numbers(channel, p) : k < m[2])
                    => Rising(Append(channel, m), p)
          BY <2>1, <3>3, AppendMessage
        <5>2. QED
          BY <2>1, <2>2, <3>2, <3>5, <4>3, <5>1, Zenon
      <4>5. (n + 1 .. t) \cup {t + 1} = n + 1 .. t + 1 /\ n <= t + 1
        BY <1>1, <3>2, <3>5, <4>1
      <4>6. Numbers(channel', p) = n + 1 .. t + 1
        BY <3>2, <3>5, <4>1, <4>4, <4>5
      <4>7. Carried(p, n)'
        BY <1>2, <1>4, <3>1, <3>5, <4>2, <4>4, <4>5, <4>6, Zenon DEF Carried
      <4>8. QED
        BY <3>5, <4>7
    <3>6. QED
      BY <3>4, <3>5
  <2>8. QED
    BY <2>4, <2>5, <2>6, <2>7 DEF StreamInv
<1>5. QED
  BY <1>3, <1>4

(* The writer takes the first message of the channel. *)
LEMMA WriteKeeps == ASSUME StreamInv, Write PROVE StreamInv'
<1> DEFINE m == Head(channel)
<1>1. /\ writer = "open" /\ channel # <<>> /\ channel \in Seq(Message) /\ framed \in Seq(Message)
      /\ framed' = Append(framed, m) /\ channel' = Tail(channel)
      /\ m \in Message /\ Tail(channel) \in Seq(Message)
      /\ UNCHANGED <<reader, unread, task, serving, writer>>
  BY DEF Write, StreamInv, StreamTypes
<1> HIDE DEF m
<1>2. StreamTypes'
  BY <1>1 DEF StreamInv, StreamTypes
<1>3. OnTheWay' /\ TasksOK'
  BY <1>1, Zenon DEF StreamInv, OnTheWay, TasksOK
<1>4. InOrder'
  <2> SUFFICES ASSUME NEW q \in Sent PROVE \E n \in Nat : Carried(q, n)'
    BY DEF InOrder
  <2>1. PICK n \in Nat : Carried(q, n)
    BY DEF StreamInv, InOrder
  <2>2. /\ n <= Passed(q) /\ Rising(channel, q) /\ Numbers(channel, q) = n + 1 .. Passed(q)
        /\ Rising(framed, q) /\ Numbers(framed, q) = 1 .. n /\ n <= Parts(q)
    BY <1>1, <2>1 DEF Carried
  <2>3. Passed(q)' = Passed(q) /\ Passed(q) \in Nat /\ Parts(q) \in Nat /\ Passed(q) <= Parts(q)
    BY <1>1, StreamConstants DEF Passed, StreamInv, StreamTypes, TasksOK, Sent
  <2>4. CASE m[1] # q
    <3>1. Rising(framed', q) /\ Numbers(framed', q) = Numbers(framed, q)
      BY <1>1, <2>2, <2>4, AppendMessage, Zenon
    <3>2. Rising(channel', q) /\ Numbers(channel', q) = Numbers(channel, q)
      BY <1>1, <2>2, <2>4, TailMessages, Zenon DEF m
    <3>3. Carried(q, n)'
      BY <1>1, <2>2, <2>3, <3>1, <3>2, Zenon DEF Carried
    <3>4. QED
      BY <3>3
  <2>5. CASE m[1] = q
    <3> DEFINE k == m[2]  P == Passed(q)  C == Numbers(Tail(channel), q)
    <3>1. /\ Rising(channel', q) /\ Numbers(channel, q) = C \cup {k} /\ \A j \in C : k < j
      BY <1>1, <2>2, <2>5, TailMessages, Zenon DEF m
    <3>2. k \in Nat
      BY <1>1 DEF Message
    <3>3. n + 1 .. P = C \cup {k} /\ n <= P /\ P \in Nat /\ P <= Parts(q) /\ Parts(q) \in Nat
      BY <2>2, <2>3, <3>1, Zenon
    <3> HIDE DEF k, P, C
    <3>4. k \in n + 1 .. P /\ n + 1 \in n + 1 .. P
      BY <3>2, <3>3
    <3>5. k = n + 1
      BY <3>1, <3>2, <3>3, <3>4
    <3>6. C = n + 2 .. P
      <4>1. \A j \in C : j \in n + 1 .. P /\ n + 1 < j
        BY <3>1, <3>3, <3>5
      <4>2. \A j \in n + 2 .. P : j \in C \cup {k} /\ j # k
        BY <3>3, <3>5
      <4>3. C \subseteq n + 2 .. P
        BY <3>3, <4>1
      <4>4. QED
        BY <4>2, <4>3, Zenon
    <3>7. /\ (1 .. n) \cup {n + 1} = 1 .. n + 1 /\ (n + 1) + 1 .. P = n + 2 .. P
          /\ n + 1 \in Nat /\ n + 1 <= P /\ n + 1 <= Parts(q)
      BY <3>3, <3>4
    <3>8. \A j \in 1 .. n : j < n + 1
      OBVIOUS
    <3>9. Rising(framed', q) /\ Numbers(framed', q) = 1 .. n + 1
      <4>1. /\ Numbers(Append(framed, m), q) = IF m[1] = q THEN Numbers(framed, q) \cup {m[2]} ELSE Numbers(framed, q)
            /\ Rising(framed, q) /\ (m[1] = q => \A j \in Numbers(framed, q) : j < m[2])
                  => Rising(Append(framed, m), q)
        BY <1>1, AppendMessage, Zenon
      <4>2. QED
        BY <1>1, <2>2, <2>5, <3>5, <3>7, <3>8, <4>1, Zenon DEF k
    <3>10. Numbers(channel', q) = (n + 1) + 1 .. Passed(q)
      BY <1>1, <3>6, <3>7 DEF C, P
    <3>11. Carried(q, n + 1)'
      BY <1>1, <2>3, <3>1, <3>7, <3>9, <3>10, Zenon DEF Carried, P
    <3>12. QED
      BY <3>7, <3>11
  <2>6. QED
    BY <2>4, <2>5
<1>5. QED
  BY <1>2, <1>3, <1>4 DEF StreamInv

(* The writer breaks: what it has written stays. *)
LEMMA WriteFailsKeeps == ASSUME StreamInv, WriteFails PROVE StreamInv'
<1>1. /\ writer' = "broken" /\ channel' = <<>> /\ UNCHANGED <<reader, unread, task, serving, framed>>
  BY DEF WriteFails
<1>2. StreamTypes' /\ OnTheWay' /\ TasksOK'
  BY <1>1 DEF StreamInv, StreamTypes, OnTheWay, TasksOK
<1>3. ASSUME NEW q \in Sent, NEW n \in Nat, Carried(q, n) PROVE Carried(q, n)'
  BY <1>1, <1>3 DEF Carried
<1>4. QED
  BY <1>2, <1>3 DEF StreamInv, InOrder

(* The writer closes: nothing is in the channel, and nobody will send, so  *)
(* that what is written is all of every reply.                             *)
LEMMA WriterClosesKeeps == ASSUME StreamInv, WriterCloses PROVE StreamInv'
<1>1. /\ writer = "open" /\ writer' = "closed" /\ channel = <<>> /\ NoSender
      /\ UNCHANGED <<reader, unread, task, serving, channel, framed>>
  BY DEF WriterCloses
<1>2. StreamTypes' /\ OnTheWay'
  BY <1>1 DEF StreamInv, StreamTypes, OnTheWay
<1>3. TasksOK'
  BY <1>1 DEF StreamInv, TasksOK, NoSender, Running
<1>4. InOrder'
  <2> SUFFICES ASSUME NEW q \in Sent PROVE \E n \in Nat : Carried(q, n)'
    BY DEF InOrder
  <2>1. PICK n \in Nat : Carried(q, n)
    BY DEF StreamInv, InOrder
  <2>2. /\ n <= Passed(q) /\ Numbers(channel, q) = n + 1 .. Passed(q)
        /\ Rising(framed, q) /\ Numbers(framed, q) = 1 .. n /\ n <= Parts(q)
    BY <1>1, <2>1 DEF Carried
  <2>3. Numbers(channel, q) = {}
    BY <1>1 DEF Numbers, Range
  <2>4. Passed(q) \in Nat /\ task[q] \in Int
    BY DEF Passed, StreamInv, StreamTypes
  <2>5. n = Passed(q)
    BY <2>2, <2>3, <2>4
  <2>6. ASSUME task[q] # Unread PROVE Passed(q) = Parts(q)
    <3>1. task[q] >= 0 /\ task[q] <= Parts(q) /\ Parts(q) \in Nat /\ q \in DOMAIN task
      BY <1>1, <2>4, <2>6, StreamConstants DEF StreamInv, TasksOK, StreamTypes, Unread, Sent
    <3>2. ~(task[q] < Parts(q))
      BY <1>1, <3>1 DEF NoSender, Running
    <3>3. QED
      BY <2>4, <3>1, <3>2 DEF Passed
  <2>7. Carried(q, n)'
    BY <1>1, <2>2, <2>5, <2>6 DEF Carried
  <2>8. QED
    BY <2>7
<1>5. QED
  BY <1>2, <1>3, <1>4 DEF StreamInv

(* The other steps only end the reader, stop the listener or end a chain;  *)
(* a query that is served is not one the closed writer waits for.          *)
LEMMA RestKeeps ==
    ASSUME StreamInv, UNCHANGED <<unread, task, channel, writer, framed>>,
           serving' \subseteq serving, reader' = reader \/ reader' = "done"
    PROVE  StreamInv'
<1>1. StreamTypes' /\ OnTheWay'
  BY DEF StreamInv, StreamTypes, OnTheWay
<1>2. TasksOK'
  BY DEF StreamInv, TasksOK, NoSender, Running
<1>3. QED
  BY <1>1, <1>2, CarriedOn DEF StreamInv

(* For any pipelined queries, replies and channel: a stream closed without *)
(* an error has carried the whole reply of every query it read, and every  *)
(* reply in order (serve_stream of src/server/mod.rs).                     *)
THEOREM RepliesWhole == StreamSpec => []AnsweredBeforeClose
<1>1. StreamInv /\ [StreamNext]_streamVars => StreamInv'
  <2> SUFFICES ASSUME StreamInv, [StreamNext]_streamVars PROVE StreamInv'
    OBVIOUS
  <2>1. CASE Read
    BY <2>1, ReadKeeps
  <2>2. CASE ReaderEnds \/ Cancel
    BY <2>2, RestKeeps DEF ReaderEnds, Cancel
  <2>3. ASSUME NEW q \in DOMAIN task, Served(q) PROVE StreamInv'
    BY <2>3, RestKeeps DEF Served
  <2>4. ASSUME NEW q \in DOMAIN task, Send(q) PROVE StreamInv'
    BY <2>4, SendKeeps DEF StreamInv, StreamTypes
  <2>5. CASE Write
    BY <2>5, WriteKeeps
  <2>6. CASE WriteFails
    BY <2>6, WriteFailsKeeps
  <2>7. CASE WriterCloses
    BY <2>7, WriterClosesKeeps
  <2>8. CASE UNCHANGED streamVars
    BY <2>8, RestKeeps DEF streamVars
  <2>9. QED
    BY <2>1, <2>2, <2>3, <2>4, <2>5, <2>6, <2>7, <2>8 DEF StreamNext
<1>2. StreamInv => AnsweredBeforeClose
  <2> SUFFICES ASSUME StreamInv, NEW q \in Sent
               PROVE  /\ Rising(framed, q)
                      /\ \E n \in 0 .. Parts(q) :
                            /\ Numbers(framed, q) = 1 .. n
                            /\ writer = "closed" /\ task[q] # Unread => n = Parts(q)
    BY DEF AnsweredBeforeClose, StreamInv, StreamTypes
  <2>1. PICK n \in Nat : Carried(q, n)
    BY DEF StreamInv, InOrder
  <2>2. n \in 0 .. Parts(q)
    BY <2>1, StreamConstants DEF Carried, Sent
  <2>3. QED
    BY <2>1, <2>2 DEF Carried
<1>3. QED
  BY StreamInvInit, <1>1, <1>2, PTL DEF StreamSpec
=============================================================================
