------------------------------ MODULE ZoneFile ------------------------------
(***************************************************************************)
(* How an edit of a zone file reaches the answers: the sign plugin's task  *)
(* (src/plugins/sign.rs) polls the source file and writes a signed file,   *)
(* the file plugin's task (src/plugins/file/mod.rs) polls that file (or    *)
(* the source itself, without sign) and swaps the zone it serves.          *)
(*                                                                         *)
(* A tick is a polling interval.  Each task polls once in every tick, and  *)
(* a poll takes several steps, so that edits and the other task can come   *)
(* in between.  A file is its modification time, its serial, the version   *)
(* of its records and whether it parses; every write has a new mtime.      *)
(* The clock, as an epoch second, is also the serial sign_once prefers.    *)
(***************************************************************************)
EXTENDS Naturals

CONSTANTS
    Resign,         \* ticks after which the zone is signed again (6 days)
    Validity,       \* ticks a signature is valid (32 days)
    ResignJitter,   \* longest jitter added to the age of the signatures
    SerialLead,     \* how far serials of the source may be ahead of the clock
    MaxTicks, MaxEdits

ASSUME ZoneFileConstants ==
    /\ {Resign, Validity, ResignJitter, SerialLead, MaxTicks, MaxEdits} \subseteq Nat
    /\ Resign > 0 /\ Validity > Resign + 1

VARIABLES
    signing,        \* is there a sign plugin?
    clock, edits,
    src, out,       \* the source file, the signed file
    stage,          \* "setup", "loaded" (between setup and startup), "running"
    signer, filer,  \* locals of the two tasks; first is the time read at startup
    served          \* the zone in memory, [serial, version, at]

fileVars == <<signing, clock, edits, src, out, stage, signer, filer, served>>

NoFile == [mtime |-> 0, serial |-> 0, version |-> 0, at |-> 0, ok |-> FALSE]
Path   == IF signing THEN out ELSE src
Larger(a, b) == IF a > b THEN a ELSE b

(* Signer::sign_once, as what it writes *)
SignedFile == [mtime |-> out.mtime + 1, version |-> src.version, at |-> clock, ok |-> TRUE,
               serial |-> Larger(src.serial, clock)]

ZoneFileInit ==
    /\ signing \in BOOLEAN
    /\ clock = 2 /\ edits = 0
    /\ src = [mtime |-> 1, serial |-> 1 + SerialLead, version |-> 1, at |-> clock, ok |-> TRUE]
    /\ out = NoFile
    /\ stage = "setup"
    /\ signer = [pc |-> "off", last |-> 0, first |-> 0, signed |-> 0]
    /\ filer = [pc |-> "off", last |-> 0, first |-> 0, next |-> NoFile]
    /\ served = [serial |-> 0, version |-> 0, at |-> 0]
-----------------------------------------------------------------------------
(* The operator edits the source: a new version with a larger serial, at   *)
(* most SerialLead ahead of the clock, that may not parse.                 *)
Edit(ok) ==
    /\ edits < MaxEdits /\ edits' = edits + 1
    /\ \E s \in (src.serial + 1)..(clock + SerialLead) :
          src' = [mtime |-> src.mtime + 1, version |-> src.version + 1, ok |-> ok, at |-> clock, serial |-> s]
    /\ UNCHANGED <<signing, clock, out, stage, signer, filer, served>>

(* Time passes once both tasks have polled. *)
TickFile ==
    /\ stage = "running" /\ clock < MaxTicks
    /\ signer.pc \in {"off", "done"} /\ filer.pc = "done"
    /\ clock' = clock + 1
    /\ signer' = [signer EXCEPT !.pc = IF @ = "done" THEN "stat" ELSE @]
    /\ filer' = [filer EXCEPT !.pc = "stat"]
    /\ UNCHANGED <<signing, edits, src, out, stage, served>>
-----------------------------------------------------------------------------
(* setup of sign: the zone is signed at once, or the server does not start *)
SetupSign ==
    /\ stage = "setup" /\ signing /\ src.ok /\ out.mtime = 0
    /\ out' = SignedFile
    /\ UNCHANGED <<signing, clock, edits, src, stage, signer, filer, served>>

(* setup of file *)
SetupFile ==
    /\ stage = "setup" /\ Path.ok
    /\ stage' = "loaded"
    /\ served' = [serial |-> Path.serial, version |-> Path.version, at |-> Path.at]
    /\ UNCHANGED <<signing, clock, edits, src, out, signer, filer>>

(* The startup hooks: each task reads the time of the file it watches.     *)
Startup ==
    /\ stage = "loaded"
    /\ stage' = "running"
    /\ signer' = IF signing THEN [pc |-> "done", last |-> src.mtime, first |-> src.mtime, signed |-> clock] ELSE signer
    /\ filer' = [filer EXCEPT !.pc = "done", !.last = Path.mtime, !.first = Path.mtime]
    /\ UNCHANGED <<signing, clock, edits, src, out, served>>
-----------------------------------------------------------------------------
(* The sign task: stat, then sign_once reads the source, then renames.     *)
SignStatEdits ==    \* mutant: the age of the signatures is not looked at
    /\ signer.pc = "stat"
    /\ signer' = IF src.mtime # signer.last
                 THEN [signer EXCEPT !.pc = "sign", !.last = src.mtime, !.signed = clock]
                 ELSE [signer EXCEPT !.pc = "done"]
    /\ UNCHANGED <<signing, clock, edits, src, out, stage, filer, served>>

SignStat ==
    /\ signer.pc = "stat"
    /\ \E j \in 0..ResignJitter :
          signer' = IF src.mtime # signer.last \/ clock - signer.signed + j > Resign
                    THEN [signer EXCEPT !.pc = "sign", !.last = src.mtime, !.signed = clock]
                    ELSE [signer EXCEPT !.pc = "done"]
    /\ UNCHANGED <<signing, clock, edits, src, out, stage, filer, served>>

SignOnce ==
    /\ signer.pc = "sign"
    /\ signer' = [signer EXCEPT !.pc = "done"]
    /\ out' = IF src.ok THEN SignedFile ELSE out
    /\ UNCHANGED <<signing, clock, edits, src, stage, filer, served>>

(* The file task: stat, load, and a swap when the serial is another one.   *)
FileStat ==
    /\ filer.pc = "stat"
    /\ filer' = IF Path.mtime = filer.last THEN [filer EXCEPT !.pc = "done"]
                ELSE [filer EXCEPT !.pc = "load", !.last = Path.mtime]
    /\ UNCHANGED <<signing, clock, edits, src, out, stage, signer, served>>

FileLoad ==
    /\ filer.pc = "load"
    /\ filer' = [filer EXCEPT !.pc = IF Path.ok THEN "swap" ELSE "done", !.next = Path]
    /\ UNCHANGED <<signing, clock, edits, src, out, stage, signer, served>>

FileSwapRestat ==   \* mutant: the time is read again after the load
    /\ filer.pc = "swap"
    /\ served' = IF filer.next.serial = served.serial THEN served
                 ELSE [serial |-> filer.next.serial, version |-> filer.next.version, at |-> filer.next.at]
    /\ filer' = [filer EXCEPT !.pc = "done", !.next = NoFile, !.last = Path.mtime]
    /\ UNCHANGED <<signing, clock, edits, src, out, stage, signer>>

FileSwap ==
    /\ filer.pc = "swap"
    /\ served' = IF filer.next.serial = served.serial THEN served
                 ELSE [serial |-> filer.next.serial, version |-> filer.next.version, at |-> filer.next.at]
    /\ filer' = [filer EXCEPT !.pc = "done", !.next = NoFile]
    /\ UNCHANGED <<signing, clock, edits, src, out, stage, signer>>

SignTask == SignStat \/ SignOnce
FileTask == FileStat \/ FileLoad \/ FileSwap

ZoneFileNext ==
    \/ \E ok \in BOOLEAN : Edit(ok)
    \/ SetupSign \/ SetupFile \/ Startup
    \/ SignTask \/ FileTask \/ TickFile

ZoneFileSpec == ZoneFileInit /\ [][ZoneFileNext]_fileVars
-----------------------------------------------------------------------------
Polled == stage = "running" /\ signer.pc \in {"off", "done"} /\ filer.pc = "done"

(* An edit made while the tasks run is served two polls later, whatever    *)
(* reads, writes and edits interleave with the polls.  (An edit between    *)
(* setup and startup is only seen with the next one: the tasks take the    *)
(* time of that file for the time of the file they loaded.)                *)
EditServedSoon ==
    Polled /\ src.ok /\ clock >= src.at + 2 /\ src.mtime > (IF signing THEN signer.first ELSE filer.first)
        => served.version = src.version

(* The signatures that are served are renewed in time, as long as the      *)
(* source parses: when both tasks have seen the last write of their file,  *)
(* the signatures are not older than Resign.                               *)
SignaturesFresh ==
    Polled /\ signing /\ src.ok /\ signer.last = src.mtime /\ filer.last = out.mtime
        => clock - served.at <= Resign

(* Said of sign ("re-signs before signatures expire") and not so when the  *)
(* serials of the source are ahead of the clock, as dates are: the new     *)
(* signed file has the old serial, and the file plugin does not swap it.   *)
ServedValid == stage = "running" /\ signing /\ src.ok => clock - served.at <= Validity
=============================================================================
