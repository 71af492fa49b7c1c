------------------------------- MODULE MCTasks -------------------------------
(* Background tasks.  Those of the cache plugin refresh an entry (two      *)
(* keys, three threads, four memory cells: a thread can hold a clone over  *)
(* a whole refresh while both keys have entries).  The others              *)
(* keep what is served in step with its source: a watcher of the           *)
(* kubernetes store with its index by address (two pods, two addresses),   *)
(* the refresh task of a secondary zone (two primaries, serials of four    *)
(* bits on both sides of the wrap), the polls of sign and file.  They      *)
(* share no state: a behaviour follows one of the four, and the others     *)
(* rest in a state in which none of their tasks has anything to do.        *)
EXTENDS Inflight, KubeIndex, Secondary, ZoneFile
CONSTANTS k1, k2, c1, c2, c3, f1, f2, f3, f4, a, b, ip1, ip2
VARIABLE part

TwoKeys      == {k1, k2}
ThreeCallers == {c1, c2, c3}
FourFlags    == {f1, f2, f3, f4}

TwoObjects == {a, b}
TwoIps     == {ip1, ip2}
AllValues  == {s : s \in SUBSET TwoIps}

taskVars == <<part, inflightVars, vars, secondaryVars, fileVars>>

KubeRests ==            \* an empty cluster, watched
    /\ cluster = [o \in Objects |-> NoObject] /\ phase = "watching"
    /\ todo = {} /\ queue = <<>> /\ seen = {} /\ changes = 0 /\ breaks = 0
    /\ objs = cluster /\ byIp = [ip \in Ips |-> NoObject] /\ synced = TRUE

SecondaryRests ==       \* stopped before a primary was reached
    /\ serial = [p \in Primaries |-> 0] /\ status = [p \in Primaries |-> "down"]
    /\ renewals = 0 /\ notifies = 0 /\ zone = None /\ expired = FALSE /\ kick = FALSE
    /\ pc = "stopped" /\ at = 1 /\ left = 0 /\ failing = FALSE /\ age = 0
    /\ cancel = TRUE /\ asked = Primaries

FileRests == ZoneFileInit /\ ~signing

TasksInit ==
    /\ part \in {"refresh", "kube", "secondary", "file"}
    /\ InflightInit
    /\ IF part = "kube" THEN Init ELSE KubeRests
    /\ IF part = "secondary" THEN SecondaryInit ELSE SecondaryRests
    /\ IF part = "file" THEN ZoneFileInit ELSE FileRests

TasksNext ==
    \/ part = "refresh" /\ InflightNext /\ UNCHANGED <<part, vars, secondaryVars, fileVars>>
    \/ part = "kube" /\ Next /\ UNCHANGED <<part, inflightVars, secondaryVars, fileVars>>
    \/ part = "secondary" /\ SecondaryNext /\ UNCHANGED <<part, inflightVars, vars, fileVars>>
    \/ part = "file" /\ ZoneFileNext /\ UNCHANGED <<part, inflightVars, vars, secondaryVars>>

TasksSpec == TasksInit /\ [][TasksNext]_taskVars
             /\ InflightFairness /\ Fairness /\ SecondaryFairness
=============================================================================
