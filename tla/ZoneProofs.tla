----------------------------- MODULE ZoneProofs -----------------------------
(***************************************************************************)
(* ZoneFile, for any edits, serials and signing intervals.  EditServedSoon *)
(* and SignaturesFresh speak of moments when both tasks have polled; the   *)
(* invariants follow a version and a signing through the two tasks.        *)
(***************************************************************************)
EXTENDS ZoneFile, TLAPS

(* the files, the source and the signed one *)
File == [mtime : Nat, serial : Nat, version : Nat, at : Nat, ok : BOOLEAN]

(* The types, and which tasks run in which stage. *)
FileType ==
    /\ signing \in BOOLEAN /\ clock \in Nat
    /\ src \in File /\ out \in File
    /\ stage \in {"setup", "loaded", "running"}
    /\ signer \in [pc : {"off", "stat", "sign", "done"}, last : Nat, first : Nat, signed : Nat]
    /\ filer \in [pc : {"off", "stat", "load", "swap", "done"}, last : Nat, first : Nat, next : File]
    /\ served \in [serial : Nat, version : Nat, at : Nat]
    /\ filer.pc = "off" <=> stage # "running"
    /\ signer.pc = "off" <=> stage # "running" \/ ~signing

(* A write of a file never lowers the serial, and a new version raises it. *)
Older(f, g) == /\ f.version <= g.version /\ f.serial <= g.serial
               /\ f.version = g.version \/ f.serial < g.serial

(* Each copy of the zone is no newer than the one it was taken from: what  *)
(* is served, what the file task has parsed, the file it reads, and the    *)
(* source; the times and the marks of both tasks are not ahead either.     *)
OrderInv ==
    /\ src.version = src.mtime /\ src.at <= clock
    /\ out.ok => out.mtime > 0
    /\ signing /\ stage # "setup" => out.mtime > 0
    /\ signing /\ out.mtime > 0 =>
          /\ out.ok /\ out.version <= src.version /\ out.at <= clock
          /\ \/ out.serial = out.at
             \/ out.serial < src.serial
             \/ out.serial = src.serial /\ out.version = src.version
          /\ stage # "running" => out.at = clock
          /\ stage = "loaded" => served.version = out.version /\ served.at = out.at
    /\ signer.pc \in {"stat", "sign"} => out.at < clock
    /\ signer.pc # "off" => signer.last <= src.mtime
    /\ stage # "setup" => Older(served, Path)
    /\ filer.pc # "off" => filer.last <= Path.mtime
    /\ filer.pc = "swap" =>
          /\ filer.next.ok /\ filer.last <= filer.next.mtime /\ filer.next.mtime <= Path.mtime
          /\ filer.next.mtime = Path.mtime => filer.next = Path
          /\ Older(served, filer.next) /\ Older(filer.next, Path)

(* the mtime the task that reads the source recorded at its start *)
First == IF signing THEN signer.first ELSE filer.first

(* What a poll has achieved: two ticks after an edit the sign task has     *)
(* seen it and the signed file holds it, and the file task, once it has    *)
(* compared or loaded, has it too.                                         *)
TimingInv ==
    /\ signer.pc \in {"sign", "done"} /\ src.at < clock => signer.last = src.mtime
    /\ signer.pc # "off" /\ clock >= src.at + 2 => signer.last = src.mtime
    /\ signer.pc # "off" /\ src.ok /\ signer.last = src.mtime /\ src.mtime > signer.first
          /\ (signer.pc # "sign" \/ clock >= src.at + 2) => out.version = src.version
    /\ filer.pc \in {"stat", "done"} /\ filer.last = Path.mtime /\ Path.ok
          /\ (signing \/ src.mtime > filer.first) => served.version = Path.version
    /\ src.ok /\ clock >= src.at + 2 /\ src.mtime > First =>
          /\ filer.pc = "swap" => filer.next.version = src.version
          /\ filer.pc = "done" => served.version = src.version

(* The age of the signatures: the signed file is as new as the last        *)
(* signing, which was within Resign, and the time of a signing is its      *)
(* serial, so that no two signed files look the same to the file task.     *)
FreshInv ==
    /\ signer.pc \in {"stat", "done"} /\ src.ok /\ signer.last = src.mtime => out.at >= signer.signed
    /\ signer.pc = "done" => clock <= signer.signed + Resign
    /\ signer.pc = "sign" => signer.signed = clock
    /\ src.serial <= clock
    /\ signing =>
          /\ out.serial = out.at
          /\ stage # "setup" => served.serial = served.at
          /\ filer.pc = "swap" => filer.next.serial = filer.next.at
          /\ filer.pc \in {"stat", "done"} /\ filer.last = out.mtime => served.at = out.at
-----------------------------------------------------------------------------
(* The types hold at the start, *)
LEMMA TypeInit == ZoneFileInit => FileType
BY ZoneFileConstants DEF ZoneFileInit, FileType, File, NoFile

(* for the file that sign writes and the one that file reads, *)
LEMMA SignedType == ASSUME FileType PROVE SignedFile \in File /\ Path \in File
BY DEF FileType, SignedFile, File, Larger, Path

(* and after every step. *)
LEMMA TypeNext == FileType /\ [ZoneFileNext]_fileVars => FileType'
<1> SUFFICES ASSUME FileType, [ZoneFileNext]_fileVars PROVE FileType'
  OBVIOUS
<1>0. SignedFile \in File /\ Path \in File
  BY SignedType
<1>1. ASSUME NEW ok \in BOOLEAN, Edit(ok) PROVE FileType'
  <2>1. src' \in File
    BY <1>1, ZoneFileConstants DEF Edit, FileType, File
  <2>2. QED
    BY <1>1, <2>1 DEF Edit, FileType
<1>2. CASE TickFile
  BY <1>2 DEF TickFile, FileType
<1>3. CASE SetupSign
  BY <1>0, <1>3 DEF SetupSign, FileType
<1>4. CASE SetupFile
  BY <1>0, <1>4 DEF SetupFile, FileType, File
<1>5. CASE Startup
  BY <1>0, <1>5, Zenon DEF Startup, FileType, File
<1>6. CASE SignStat
  <2> DEFINE Signer == [pc : {"off", "stat", "sign", "done"}, last : Nat, first : Nat, signed : Nat]
  <2>1. src.mtime \in Nat /\ clock \in Nat /\ signer \in Signer
    BY DEF FileType, File
  <2>2. \/ signer' = [signer EXCEPT !.pc = "sign", !.last = src.mtime, !.signed = clock]
        \/ signer' = [signer EXCEPT !.pc = "done"]
    BY <1>6 DEF SignStat
  <2>3. signer' \in Signer
    BY <2>1, <2>2, Zenon
  <2>4. QED
    BY <1>6, <2>3 DEF SignStat, FileType
<1>7. CASE SignOnce
  BY <1>0, <1>7 DEF SignOnce, FileType
<1>8. CASE FileStat
  BY <1>0, <1>8, Zenon DEF FileStat, FileType, File
<1>9. CASE FileLoad
  BY <1>0, <1>9, Zenon DEF FileLoad, FileType
<1>10. CASE FileSwap
  <2>1. NoFile \in File
    BY DEF NoFile, File
  <2>2. served' \in [serial : Nat, version : Nat, at : Nat]
    BY <1>10 DEF FileSwap, FileType, File
  <2>3. QED
    BY <1>10, <2>1, <2>2, Zenon DEF FileSwap, FileType
<1>11. CASE UNCHANGED fileVars
  BY <1>11 DEF fileVars, FileType
<1>12. QED
  BY <1>1, <1>2, <1>3, <1>4, <1>5, <1>6, <1>7, <1>8, <1>9, <1>10, <1>11
     DEF ZoneFileNext, SignTask, FileTask
-----------------------------------------------------------------------------
(* Copies of copies are no newer. *)
LEMMA OlderTransitive ==
    ASSUME NEW f, NEW g, NEW h, f.serial \in Nat, f.version \in Nat,
           g.serial \in Nat, g.version \in Nat, h.serial \in Nat, h.version \in Nat,
           Older(f, g), Older(g, h)
    PROVE  Older(f, h)
BY DEF Older

(* The fields of a file. *)
LEMMA FileFields ==
    \A f \in File : /\ f.serial \in Nat /\ f.version \in Nat /\ f.at \in Nat /\ f.mtime \in Nat
                    /\ f.ok \in BOOLEAN
BY DEF File

(* What sign_once writes is newer than what it wrote before. *)
LEMMA SignedNewer ==
    ASSUME FileType, OrderInv, signing, out.mtime > 0, out.at < clock
    PROVE  Older(out, SignedFile)
<1>1. /\ out.serial \in Nat /\ out.version \in Nat /\ out.at \in Nat
      /\ src.serial \in Nat /\ src.version \in Nat /\ clock \in Nat
  BY FileFields DEF FileType
<1>2. SignedFile.version = src.version /\ SignedFile.serial = Larger(src.serial, clock)
  BY DEF SignedFile
<1>3. \/ out.serial = out.at
      \/ out.serial < src.serial
      \/ out.serial = src.serial /\ out.version = src.version
  BY DEF OrderInv
<1>4. out.version <= src.version
  BY DEF OrderInv
<1>5. QED
  BY <1>1, <1>2, <1>3, <1>4 DEF Older, Larger

(* At the start there is only the source. *)
LEMMA OrderInit == ZoneFileInit => OrderInv
BY ZoneFileConstants DEF ZoneFileInit, OrderInv, NoFile, Path, Older

(* An edit makes the source newer, sign_once the signed file, and the file *)
(* task only moves forward: the order of the copies stays.                 *)
LEMMA OrderNext == FileType /\ FileType' /\ OrderInv /\ [ZoneFileNext]_fileVars => OrderInv'
<1> SUFFICES ASSUME FileType, FileType', OrderInv, [ZoneFileNext]_fileVars PROVE OrderInv'
  OBVIOUS
<1>1. ASSUME NEW ok \in BOOLEAN, Edit(ok) PROVE OrderInv'
  <2>1. PICK s \in (src.serial + 1)..(clock + SerialLead) :
          src' = [mtime |-> src.mtime + 1, version |-> src.version + 1, ok |-> ok, at |-> clock, serial |-> s]
    BY <1>1 DEF Edit
  <2>2. /\ src'.mtime = src.mtime + 1 /\ src'.version = src.version + 1
        /\ src'.at = clock /\ src'.serial > src.serial
    BY <2>1, ZoneFileConstants DEF FileType, File
  <2>3. QED
    BY <1>1, <2>2, SMTT(60) DEF Edit, FileType, File, OrderInv, Path, Older
<1>2. CASE TickFile
  BY <1>2 DEF TickFile, FileType, OrderInv, File, Path
<1>3. CASE SetupSign
  BY <1>3 DEF SetupSign, SignedFile, Larger, FileType, OrderInv, File, Path
<1>4. CASE SetupFile
  <2>1. served'.serial = Path.serial /\ served'.version = Path.version /\ served'.at = Path.at
    BY <1>4 DEF SetupFile
  <2>2. Path' = Path /\ Older(served', Path)
    BY <1>4, <2>1, SignedType, FileFields DEF SetupFile, Path, Older
  <2>3. signing => out.mtime > 0
    BY <1>4, Zenon DEF SetupFile, OrderInv, Path
  <2>4. signer.pc = "off" /\ filer.pc = "off"
    BY <1>4 DEF SetupFile, FileType
  <2>5. QED
    BY <1>4, <2>1, <2>2, <2>3, <2>4, Zenon DEF SetupFile, OrderInv, Path
<1>5. CASE Startup
  BY <1>5 DEF Startup, FileType, OrderInv, File, Path
<1>6. CASE SignStat
  BY <1>6 DEF SignStat, FileType, OrderInv, File, Path
<1>7. CASE SignOnce
  <2>1. signing /\ out.mtime > 0 /\ out.at < clock /\ Path = out /\ Path' = out' /\ stage = "running"
    BY <1>7 DEF SignOnce, FileType, OrderInv, Path
  <2>2. CASE ~src.ok
    BY <1>7, <2>1, <2>2 DEF SignOnce, FileType, OrderInv
  <2>3. CASE src.ok
    <3>1. /\ out' = SignedFile /\ Older(out, SignedFile) /\ SignedFile \in File
          /\ UNCHANGED <<signing, clock, src, stage, filer, served>> /\ signer' = [signer EXCEPT !.pc = "done"]
      BY <1>7, <2>1, <2>3, SignedNewer, SignedType DEF SignOnce
    <3>2. /\ out'.mtime = out.mtime + 1 /\ out'.version = src.version /\ out'.at = clock /\ out'.ok
          /\ out'.serial = Larger(src.serial, clock)
      BY <3>1 DEF SignedFile
    <3>3. /\ out'.ok /\ out'.version <= src.version /\ out'.at <= clock /\ out'.mtime > out.mtime
          /\ out'.serial = out'.at \/ (out'.serial = src.serial /\ out'.version = src.version)
      BY <3>2, FileFields DEF Larger, FileType
    <3>4. Older(served, out')
      BY <2>1, <3>1, FileFields, OlderTransitive DEF OrderInv, FileType
    <3>5. filer.pc = "swap" => Older(filer.next, out')
      BY <2>1, <3>1, FileFields, OlderTransitive DEF OrderInv, FileType
    <3>6. signer'.pc = "done" /\ signer'.last = signer.last
      BY <3>1 DEF FileType
    <3>7. /\ filer.pc # "off" => filer.last <= out'.mtime
          /\ filer.pc = "swap" => filer.next.mtime < out'.mtime
      BY <2>1, <3>3, <3>1, FileFields DEF OrderInv, FileType
    <3>8. QED
      BY <2>1, <3>1, <3>3, <3>4, <3>5, <3>6, <3>7, FileFields DEF OrderInv, FileType
  <2>4. QED
    BY <2>2, <2>3
<1>8. CASE FileStat
  BY <1>8 DEF FileStat, FileType, OrderInv, File, Path
<1>9. CASE FileLoad
  <2>1. Path' = Path /\ UNCHANGED <<signing, clock, src, out, stage, signer, served>>
    BY <1>9 DEF FileLoad, Path
  <2>2. filer'.next = Path /\ filer'.last = filer.last /\ filer'.pc \in {"swap", "done"}
        /\ (filer'.pc = "swap" => Path.ok) /\ filer.pc = "load"
    BY <1>9 DEF FileLoad, FileType
  <2>3. Older(Path, Path)
    BY SignedType, FileFields DEF Older
  <2>4. stage # "setup"
    BY <2>2 DEF FileType
  <2>5. QED
    BY <2>1, <2>2, <2>3, <2>4, SignedType, FileFields DEF OrderInv
<1>10. CASE FileSwap
  <2>1. Path' = Path /\ UNCHANGED <<signing, clock, src, out, stage, signer>>
    BY <1>10 DEF FileSwap, Path
  <2>2. filer'.last = filer.last /\ filer'.pc = "done" /\ filer.pc = "swap" /\ stage = "running"
    BY <1>10 DEF FileSwap, FileType
  <2>3. Older(served', Path)
    BY <1>10, <2>2 DEF FileSwap, OrderInv, Older, FileType
  <2>4. QED
    BY <2>1, <2>2, <2>3, Zenon DEF OrderInv
<1>11. CASE UNCHANGED fileVars
  BY <1>11, Zenon DEF fileVars, OrderInv, Path
<1>12. QED
  BY <1>1, <1>2, <1>3, <1>4, <1>5, <1>6, <1>7, <1>8, <1>9, <1>10, <1>11
     DEF ZoneFileNext, SignTask, FileTask
-----------------------------------------------------------------------------
(* No task runs at the start. *)
LEMMA TimingInit == ZoneFileInit => TimingInv
BY ZoneFileConstants DEF ZoneFileInit, TimingInv, Path

(* The clock moves only when both tasks have polled, so that each tick     *)
(* brings an edit one task further.                                        *)
LEMMA TimingNext ==
    FileType /\ FileType' /\ OrderInv /\ OrderInv' /\ TimingInv /\ [ZoneFileNext]_fileVars => TimingInv'
<1> SUFFICES ASSUME FileType, FileType', OrderInv, OrderInv', TimingInv, [ZoneFileNext]_fileVars
             PROVE  TimingInv'
  OBVIOUS
<1>1. ASSUME NEW ok \in BOOLEAN, Edit(ok) PROVE TimingInv'
  BY <1>1, SMTT(60) DEF Edit, FileType, OrderInv, TimingInv, File, Path, First, Older
<1>2. CASE TickFile
  BY <1>2 DEF TickFile, FileType, OrderInv, TimingInv, File, Path, First, Older
<1>3. CASE SetupSign
  BY <1>3, Zenon DEF SetupSign, SignedFile, NoFile, FileType, OrderInv, TimingInv, File, Path, First, Older
<1>4. CASE SetupFile
  BY <1>4, Zenon DEF SetupFile, FileType, OrderInv, TimingInv, File, Path, First, Older
<1>5. CASE Startup
  BY <1>5 DEF Startup, FileType, OrderInv, TimingInv, File, Path, First, Older
<1>6. CASE SignStat
  BY <1>6 DEF SignStat, FileType, OrderInv, TimingInv, File, Path, First, Older
<1>7. CASE SignOnce
  BY <1>7 DEF SignOnce, SignedFile, Larger, FileType, OrderInv, TimingInv, File, Path, First, Older
<1>8. CASE FileStat
  BY <1>8 DEF FileStat, FileType, OrderInv, TimingInv, File, Path, First, Older
<1>9. CASE FileLoad
  BY <1>9 DEF FileLoad, FileType, OrderInv, TimingInv, File, Path, First, Older
<1>10. CASE FileSwap
  BY <1>10 DEF FileSwap, FileType, OrderInv, TimingInv, File, Path, First, Older
<1>11. CASE UNCHANGED fileVars
  BY <1>11, Zenon DEF fileVars, TimingInv, Path, First, Older
<1>12. QED
  BY <1>1, <1>2, <1>3, <1>4, <1>5, <1>6, <1>7, <1>8, <1>9, <1>10, <1>11
     DEF ZoneFileNext, SignTask, FileTask
-----------------------------------------------------------------------------
(* Nothing is signed at the start. *)
LEMMA FreshInit == ASSUME SerialLead = 0 PROVE ZoneFileInit => FreshInv
BY ZoneFileConstants, SMTT(60) DEF ZoneFileInit, FreshInv, NoFile

(* A signing is renewed before Resign is over, and a later one is seen by  *)
(* the file task as a new mtime and a new serial.                          *)
LEMMA FreshNext ==
    ASSUME SerialLead = 0, FileType, FileType', OrderInv, OrderInv', FreshInv, [ZoneFileNext]_fileVars
    PROVE  FreshInv'
<1>1. ASSUME NEW ok \in BOOLEAN, Edit(ok) PROVE FreshInv'
  BY <1>1, SMTT(60) DEF Edit, FileType, OrderInv, FreshInv, File, Path
<1>2. CASE TickFile
  BY <1>2 DEF TickFile, FileType, OrderInv, FreshInv, File, Path
<1>3. CASE SetupSign
  BY <1>3, SMTT(60) DEF SetupSign, SignedFile, Larger, FileType, OrderInv, FreshInv, File, Path
<1>4. CASE SetupFile
  BY <1>4, Zenon DEF SetupFile, FileType, OrderInv, FreshInv, File, Path
<1>5. CASE Startup
  <2>1. /\ UNCHANGED <<signing, clock, src, out, served>> /\ stage = "loaded" /\ filer'.pc = "done"
        /\ signing => signer'.pc = "done" /\ signer'.signed = clock
        /\ ~signing => signer'.pc = "off"
    BY <1>5 DEF Startup, FileType
  <2>2. signing => out.at = clock /\ served.at = out.at
    BY <2>1, Zenon DEF OrderInv
  <2>3. clock <= clock + Resign
    BY ZoneFileConstants DEF FileType
  <2>4. QED
    BY <2>1, <2>2, <2>3 DEF FreshInv, FileType
<1>6. CASE SignStat
  <2>1. PICK j \in 0..ResignJitter :
          signer' = IF src.mtime # signer.last \/ clock - signer.signed + j > Resign
                    THEN [signer EXCEPT !.pc = "sign", !.last = src.mtime, !.signed = clock]
                    ELSE [signer EXCEPT !.pc = "done"]
    BY <1>6 DEF SignStat
  <2>2. signer.pc = "stat" /\ UNCHANGED <<signing, clock, src, out, stage, filer, served>>
    BY <1>6 DEF SignStat
  <2>3. CASE src.mtime # signer.last \/ clock - signer.signed + j > Resign
    BY <2>1, <2>2, <2>3 DEF FileType, FreshInv
  <2>4. CASE ~(src.mtime # signer.last \/ clock - signer.signed + j > Resign)
    <3>1. clock <= signer.signed + Resign
      BY <2>4, ZoneFileConstants DEF FileType
    <3>2. signer'.pc = "done" /\ signer'.last = signer.last /\ signer'.signed = signer.signed
      BY <2>1, <2>4 DEF FileType
    <3>3. QED
      BY <2>2, <3>1, <3>2, Zenon DEF FreshInv
  <2>5. QED
    BY <2>3, <2>4
<1>7. CASE SignOnce
  <2>1. signer'.pc = "done" /\ signer'.last = signer.last /\ signer'.signed = signer.signed
        /\ UNCHANGED <<signing, clock, src, stage, filer, served>> /\ signer.pc = "sign"
    BY <1>7 DEF SignOnce, FileType
  <2>2. signer.signed = clock /\ clock <= signer.signed + Resign
    BY <2>1, ZoneFileConstants DEF FreshInv, FileType
  <2>3. CASE ~src.ok
    BY <1>7, <2>1, <2>2, <2>3 DEF SignOnce, FreshInv
  <2>4. CASE src.ok
    <3>1. out'.at = clock /\ out'.serial = Larger(src.serial, clock) /\ out'.mtime = out.mtime + 1
      BY <1>7, <2>4 DEF SignOnce, SignedFile
    <3>2. out'.serial = clock
      BY <3>1, FileFields DEF Larger, FreshInv, FileType
    <3>3. filer.pc # "off" => filer.last # out'.mtime
      BY <2>1, <3>1, FileFields, SMTT(60) DEF FileType, OrderInv, Path
    <3>4. QED
      BY <2>1, <2>2, <3>1, <3>2, <3>3 DEF FreshInv, FileType
  <2>5. QED
    BY <2>3, <2>4
<1>8. CASE FileStat
  BY <1>8 DEF FileStat, FileType, OrderInv, FreshInv, File, Path
<1>9. CASE FileLoad
  BY <1>9 DEF FileLoad, FileType, OrderInv, FreshInv, File, Path
<1>10. CASE FileSwap
  BY <1>10 DEF FileSwap, FileType, OrderInv, FreshInv, File, Path
<1>11. CASE UNCHANGED fileVars
  BY <1>11, Zenon DEF fileVars, FreshInv, Path
<1>12. QED
  BY <1>1, <1>2, <1>3, <1>4, <1>5, <1>6, <1>7, <1>8, <1>9, <1>10, <1>11
     DEF ZoneFileNext, SignTask, FileTask

(* An edit of a zone file made while the tasks of sign and file run is     *)
(* served two polls later (the tasks of src/plugins/sign.rs and of         *)
(* src/plugins/file/mod.rs), for any serials, edits, Resign and jitter.    *)
THEOREM EditServedHolds == ZoneFileSpec => []EditServedSoon
<1>1. FileType /\ OrderInv /\ TimingInv => EditServedSoon
  BY Zenon DEF TimingInv, EditServedSoon, First, Polled
<1>2. QED
  BY <1>1, TypeInit, TypeNext, OrderInit, OrderNext, TimingInit, TimingNext, PTL DEF ZoneFileSpec

(* Where the serial of the source is not ahead of the clock, the zone that *)
(* is served was signed within Resign, whatever the jitter of the task of  *)
(* sign (src/plugins/sign.rs).                                             *)
THEOREM SignaturesFreshHolds ==
    ASSUME SerialLead = 0
    PROVE  ZoneFileSpec => []SignaturesFresh
<1>1. FileType /\ OrderInv /\ FreshInv => SignaturesFresh
  <2> SUFFICES ASSUME FileType, OrderInv, FreshInv, Polled, signing, src.ok,
                      signer.last = src.mtime, filer.last = out.mtime
               PROVE  clock - served.at <= Resign
    BY DEF SignaturesFresh
  <2>1. signer.pc = "done" /\ filer.pc = "done"
    BY DEF Polled, FileType
  <2>2. clock <= signer.signed + Resign /\ out.at >= signer.signed /\ served.at = out.at
    BY <2>1 DEF FreshInv
  <2>3. QED
    BY <2>2, ZoneFileConstants DEF FileType, File
<1>2. ZoneFileInit => FreshInv
  BY FreshInit
<1>3. FileType /\ FileType' /\ OrderInv /\ OrderInv' /\ FreshInv /\ [ZoneFileNext]_fileVars => FreshInv'
  BY FreshNext
<1>4. QED
  BY <1>1, <1>2, <1>3, TypeInit, TypeNext, OrderInit, OrderNext, PTL DEF ZoneFileSpec
=============================================================================
