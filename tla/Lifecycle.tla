------------------------------ MODULE Lifecycle ------------------------------
(***************************************************************************)
(* The life of the process: the main loop (src/main.rs), the start and     *)
(* stop of an Instance (src/server/mod.rs), the watcher of the reload      *)
(* plugin (src/plugins/reload.rs) and the registry of the HTTP endpoints   *)
(* (src/server/http_util.rs).                                              *)
(*                                                                         *)
(* A Corefile is its version: it parses or not, and its instance starts or *)
(* not (a listener cannot be bound, or a startup hook fails).  Every       *)
(* version uses reload and one endpoint, on the same address; the startup  *)
(* hook of reload runs before the endpoint's (directive order), other      *)
(* hooks after.  An instance occupies a slot until its watcher has ended.  *)
(***************************************************************************)
EXTENDS Naturals

CONSTANTS
    Versions,           \* what the Corefile can be
    FirstVersion,       \* what the process was started with
    Unparsable,         \* versions parse_file rejects
    Unstartable,        \* versions whose instance fails to start
    EditAnyTime,        \* FALSE: nobody edits the file while it is reloaded
    Slots,              \* for the instances that exist at the same time
    None,               \* no slot, no version, no hash
    MaxEdits, MaxHups   \* bounds

ASSUME LifecycleConstants ==
    /\ Unparsable \subseteq Versions /\ Unstartable \subseteq Versions
    /\ FirstVersion \in Versions \ (Unparsable \cup Unstartable)
    /\ None \notin Slots \cup Versions
    /\ EditAnyTime \in BOOLEAN
    /\ MaxEdits \in Nat /\ MaxHups \in Nat

VARIABLES
    file, edits,            \* the Corefile on disk
    hup, hups, term,        \* signals that wait: SIGHUP or SIGUSR1, SIGTERM
    int,                    \* SIGINT: "none", "pending", or "lost" on the way
    notified,               \* RELOAD changed since wait_reload subscribed
    main,                   \* where the main task is
    inst, new,              \* the instance of run(), the one being started
    ver, hash,              \* slot -> version it was built from, hash of its watcher
    watcher,                \* slot -> "none", "sleep" or "notify"
    cancelled,              \* slots whose watcher was cancelled
    listening,              \* slots whose listeners run
    current,                \* CURRENT
    endpoint,               \* slot whose HTTP endpoint is registered
    tried                   \* history: the version that was last parsed for a load

env   == <<file, edits, hups>>
sigs  == <<hup, term, int, notified>>
slots == <<ver, hash, watcher, cancelled>>
serve == <<listening, current, endpoint>>
vars  == <<env, sigs, main, inst, new, slots, serve, tried>>

(* reload.rs hash_file: nothing for a file that does not parse *)
hash_file == IF file \in Unparsable THEN None ELSE file

Init ==
    /\ file = FirstVersion /\ edits = 0
    /\ hup = FALSE /\ hups = 0 /\ term = FALSE /\ int = "none" /\ notified = FALSE
    /\ main = "select" /\ tried = FirstVersion
    /\ \E s \in Slots :
         /\ inst = s /\ new = None
         /\ ver = [i \in Slots |-> IF i = s THEN FirstVersion ELSE None]
         /\ hash = ver
         /\ watcher = [i \in Slots |-> IF i = s THEN "sleep" ELSE "none"]
         /\ cancelled = {} /\ listening = {s} /\ current = s /\ endpoint = s
-----------------------------------------------------------------------------
(* The environment.  SIGHUP, SIGUSR1 and SIGTERM have streams that outlive *)
(* an iteration of the loop; a SIGINT reaches the loop only while it waits *)
(* in select, where ctrl_c() has subscribed.                               *)
Quiet == main = "select" /\ ~hup /\ ~notified /\ \A i \in Slots : watcher[i] # "notify"

Edit(v) ==
    /\ edits < MaxEdits /\ v # file /\ main # "exited"
    /\ ~EditAnyTime => Quiet
    /\ file' = v /\ edits' = edits + 1
    /\ UNCHANGED <<hups, sigs, main, inst, new, slots, serve, tried>>

SigHup ==
    /\ hups < MaxHups /\ main # "exited"
    /\ hup' = TRUE /\ hups' = hups + 1
    /\ UNCHANGED <<file, edits, term, int, notified, main, inst, new, slots, serve, tried>>

SigTerm ==
    /\ ~term /\ main # "exited"
    /\ term' = TRUE
    /\ UNCHANGED <<env, hup, int, notified, main, inst, new, slots, serve, tried>>

SigInt ==
    /\ int # "pending" /\ main # "exited"
    /\ int' = IF main = "select" THEN "pending" ELSE "lost"
    /\ UNCHANGED <<env, hup, term, notified, main, inst, new, slots, serve, tried>>
-----------------------------------------------------------------------------
(* run(): one branch of the select.  The other futures are dropped, and    *)
(* with them a SIGINT or a change of RELOAD they had not yet reported.     *)
Dropped == IF int = "pending" THEN "lost" ELSE int

TakeHup ==
    /\ main = "select" /\ hup
    /\ hup' = FALSE /\ int' = Dropped /\ notified' = FALSE
    /\ main' = "load"
    /\ UNCHANGED <<env, term, inst, new, slots, serve, tried>>

TakeNotified ==
    /\ main = "select" /\ notified
    /\ int' = Dropped /\ notified' = FALSE
    /\ main' = "load"
    /\ UNCHANGED <<env, hup, term, inst, new, slots, serve, tried>>

TakeExitIgnoresTerm ==      \* mutant: SIGTERM has no branch
    /\ main = "select" /\ int = "pending"
    /\ main' = "final"
    /\ UNCHANGED <<env, sigs, inst, new, slots, serve, tried>>

TakeExit ==
    /\ main = "select" /\ (term \/ int = "pending")
    /\ main' = "final"
    /\ UNCHANGED <<env, sigs, inst, new, slots, serve, tried>>

(* reload(), load(): no plugin has restart hooks.  A file that does not    *)
(* parse leaves everything as it was.                                      *)
Free(i) == i \notin listening \cup {inst, new} /\ watcher[i] = "none"

Load ==
    /\ main = "load"
    /\ \/ /\ file \in Unparsable
          /\ main' = "select"
          /\ UNCHANGED <<new, ver, tried>>
       \/ /\ file \notin Unparsable
          /\ main' = "bind" /\ tried' = file
          /\ \E i \in Slots :
               /\ Free(i)
               /\ new' = i
               /\ ver' = [ver EXCEPT ![i] = file]
    /\ UNCHANGED <<env, sigs, inst, hash, watcher, cancelled, serve>>

(* Instance::start: every listener is bound before a hook runs *)
Bind ==
    /\ main = "bind"
    /\ \/ /\ main' = "reload_hook"
          /\ UNCHANGED <<new, ver>>
       \/ /\ ver[new] \in Unstartable
          /\ main' = "select" /\ new' = None
          /\ ver' = [ver EXCEPT ![new] = None]
    /\ UNCHANGED <<env, sigs, inst, hash, watcher, cancelled, serve, tried>>

(* the startup hook of reload *)
ReloadHook ==
    /\ main = "reload_hook"
    /\ hash' = [hash EXCEPT ![new] = hash_file]
    /\ watcher' = [watcher EXCEPT ![new] = "sleep"]
    /\ main' = "endpoint_hook"
    /\ UNCHANGED <<env, sigs, inst, new, ver, cancelled, serve, tried>>

(* Endpoints::install, the startup hook: it cancels the endpoint on the    *)
(* same address before it listens itself.                                  *)
EndpointHook ==
    /\ main = "endpoint_hook"
    /\ endpoint' = new
    /\ main' = "other_hooks"
    /\ UNCHANGED <<env, sigs, inst, new, slots, listening, current, tried>>

(* The shutdown hooks of an instance: its watcher is cancelled, and its    *)
(* endpoint removed if it is still registered.                             *)
ShutdownHooksNoCancel(i) ==     \* mutant: the watcher is not stopped
    /\ UNCHANGED cancelled
    /\ endpoint' = IF endpoint = i THEN None ELSE endpoint

ShutdownHooks(i) ==
    /\ cancelled' = cancelled \cup {i}
    /\ endpoint' = IF endpoint = i THEN None ELSE endpoint

(* A later hook fails: the shutdown hooks of the half-started instance.    *)
HooksFail ==
    /\ main = "other_hooks" /\ ver[new] \in Unstartable
    /\ ShutdownHooks(new)
    /\ main' = "select" /\ new' = None
    /\ ver' = [ver EXCEPT ![new] = None]
    /\ UNCHANGED <<env, sigs, inst, hash, watcher, listening, current, tried>>

(* The tasks are spawned and CURRENT is replaced. *)
Spawn ==
    /\ main = "other_hooks" /\ ver[new] \notin Unstartable
    /\ listening' = listening \cup {new}
    /\ current' = new
    /\ main' = "stop_old"
    /\ UNCHANGED <<env, sigs, inst, new, slots, endpoint, tried>>

(* old.stop() *)
StopOld ==
    /\ main = "stop_old"
    /\ ShutdownHooks(inst)
    /\ main' = "drain"
    /\ UNCHANGED <<env, sigs, inst, new, ver, hash, watcher, listening, current, tried>>

DrainKeepsOld ==        \* mutant: run() keeps the stopped instance
    /\ main = "drain"
    /\ listening' = listening \ {inst}
    /\ ver' = [ver EXCEPT ![inst] = None]
    /\ new' = None
    /\ main' = "select"
    /\ UNCHANGED <<env, sigs, inst, hash, watcher, cancelled, current, endpoint, tried>>

Drain ==
    /\ main = "drain"
    /\ listening' = listening \ {inst}
    /\ ver' = [ver EXCEPT ![inst] = None]
    /\ inst' = new /\ new' = None
    /\ main' = "select"
    /\ UNCHANGED <<env, sigs, hash, watcher, cancelled, current, endpoint, tried>>

(* stop_final(): DNS answers through lameduck, then stop() *)
StopFinal ==
    /\ main = "final"
    /\ ShutdownHooks(inst)
    /\ main' = "final_drain"
    /\ UNCHANGED <<env, sigs, inst, new, ver, hash, watcher, listening, current, tried>>

Exit ==
    /\ main = "final_drain"
    /\ listening' = {}
    /\ main' = "exited"
    /\ UNCHANGED <<env, sigs, inst, new, slots, current, endpoint, tried>>
-----------------------------------------------------------------------------
(* The watcher of the instance in slot i, from its sleep to request_reload *)
WatchWakeOnce(i) ==         \* mutant: the watcher ends with its first request
    /\ main # "exited" /\ watcher[i] = "sleep" /\ i \notin cancelled
    /\ hash_file \notin {None, hash[i]}
    /\ cancelled' = cancelled \cup {i}
    /\ watcher' = [watcher EXCEPT ![i] = "notify"]
    /\ UNCHANGED <<env, sigs, main, inst, new, ver, hash, serve, tried>>

WatchWake(i) ==
    /\ main # "exited" /\ watcher[i] = "sleep" /\ i \notin cancelled
    /\ hash_file \notin {None, hash[i]}
    /\ hash' = [hash EXCEPT ![i] = hash_file]
    /\ watcher' = [watcher EXCEPT ![i] = "notify"]
    /\ UNCHANGED <<env, sigs, main, inst, new, ver, cancelled, serve, tried>>

(* request_reload: only a main loop that waits has subscribed to RELOAD *)
WatchNotify(i) ==
    /\ main # "exited" /\ watcher[i] = "notify"
    /\ watcher' = [watcher EXCEPT ![i] = "sleep"]
    /\ notified' = (main = "select")
    /\ UNCHANGED <<env, hup, term, int, main, inst, new, ver, hash, cancelled, serve, tried>>

WatchStop(i) ==
    /\ main # "exited" /\ watcher[i] = "sleep" /\ i \in cancelled
    /\ watcher' = [watcher EXCEPT ![i] = "none"]
    /\ hash' = [hash EXCEPT ![i] = None]
    /\ cancelled' = cancelled \ {i}
    /\ UNCHANGED <<env, sigs, main, inst, new, ver, serve, tried>>
-----------------------------------------------------------------------------
Main == \/ TakeHup \/ TakeNotified \/ TakeExit \/ Load \/ Bind \/ ReloadHook
        \/ EndpointHook \/ HooksFail \/ Spawn \/ StopOld \/ Drain
        \/ StopFinal \/ Exit

Watch(i) == WatchWake(i) \/ WatchNotify(i) \/ WatchStop(i)

Next == \/ Main
        \/ \E i \in Slots : Watch(i)
        \/ \E v \in Versions : Edit(v)
        \/ SigHup \/ SigTerm \/ SigInt

Spec == Init /\ [][Next]_vars

(* The main task and the watchers run, and select picks at random among    *)
(* the branches that are ready.                                            *)
Fairness == /\ WF_vars(Main)
            /\ \A i \in Slots : WF_vars(Watch(i))
            /\ SF_vars(TakeExit)

FairSpec == Spec /\ Fairness
-----------------------------------------------------------------------------
SignalsOK == {hup, term, notified} \subseteq BOOLEAN /\ int \in {"none", "pending", "lost"}

(* The variables have their types; a half-started instance exists exactly  *)
(* while a reload is under way, so that no failed start leaves one behind. *)
TypeOK ==
    /\ SignalsOK
    /\ file \in Versions /\ edits \in 0..MaxEdits /\ hups \in 0..MaxHups
    /\ inst \in Slots /\ new \in Slots \cup {None}
    /\ new = None <=> main \in {"select", "load", "final", "final_drain", "exited"}
    /\ ver \in [Slots -> Versions \cup {None}]
    /\ hash \in [Slots -> Versions \cup {None}]
    /\ watcher \in [Slots -> {"none", "sleep", "notify"}]
    /\ cancelled \subseteq Slots /\ listening \subseteq Slots
    /\ current \in Slots /\ endpoint \in Slots \cup {None}
    /\ tried \in Versions

(* Through any reloads, failed ones included, there are listeners until    *)
(* the process exits, those of the instance the main loop will stop, and   *)
(* a self lookup through CURRENT meets a running instance.                 *)
NeverDown == main # "exited" => {inst, current} \subseteq listening

(* Between two reloads exactly the running instance watches the Corefile:  *)
(* no watcher of a stopped or half-started instance is left running, and   *)
(* the running instance did not lose its own.                              *)
OneWatcher == main = "select" =>
    {i \in Slots : watcher[i] # "none" /\ i \notin cancelled} = {inst}

(* After a reload the HTTP endpoint is the one of the new instance: the    *)
(* stop of the old one has not torn down the replacement (the comment on   *)
(* Endpoints).                                                             *)
EndpointHandedOver ==
    [][main = "drain" /\ main' = "select" => endpoint' = inst']_vars

(* SIGTERM ends the process, whatever reloads go on. *)
TermExits == term ~> main = "exited"

(* A Corefile that stays on disk is the running one in the end, unless it  *)
(* does not parse, or it was tried and does not start: the watcher of      *)
(* whatever instance then runs has seen the last edit, also after reloads  *)
(* that failed.                                                            *)
EditLoaded == <>[](\/ main = "exited"
                   \/ ver[inst] = file
                   \/ file \in Unparsable
                   \/ file \in Unstartable /\ tried = file)
-----------------------------------------------------------------------------
(* Stated by the docs and not so in every interleaving:                    *)

(* A failed reload keeps the old instance, with its HTTP endpoint.         *)
EndpointServed == main = "select" => endpoint = inst

(* SIGINT shuts down.                                                      *)
IntExits == int # "none" ~> main = "exited"
=============================================================================
