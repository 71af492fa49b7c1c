------------------------------ MODULE Secondary ------------------------------
(***************************************************************************)
(* A zone slaved from primaries (src/plugins/secondary.rs): the refresh    *)
(* task SecondaryZone::run with its first transfer, its serial checks,     *)
(* transfers and SOA timers, the NOTIFYs that wake it, and what a query is *)
(* answered with meanwhile.                                                *)
(*                                                                         *)
(* The primaries are external: each has a serial and is "up", "down" (an   *)
(* exchange fails) or "bad" (it answers, but Zone::from_records rejects    *)
(* what it transfers).  One step of the task is one exchange with one      *)
(* primary, or a wait.  Time is in ticks; no wait and no exchange          *)
(* outlasts its timeout.                                                   *)
(***************************************************************************)
EXTENDS Naturals

CONSTANTS
    N,                          \* number of primaries, in the order they are tried
    SerialSpace,                \* serials are counted modulo this (2^32)
    InitialSerials,             \* serials the primaries may start with
    Refresh, Retry, Expire,     \* the SOA timers
    Jitter,                     \* longest jitter of a wait
    Backoff,                    \* longest wait between two first transfers
    Exchange,                   \* longest exchange with a primary
    None,                       \* no zone yet
    MaxPrimaryChanges, MaxNotifies     \* bounds

ASSUME SecondaryConstants ==
    /\ N \in Nat \ {0}
    /\ SerialSpace \in Nat \ {0} /\ SerialSpace % 2 = 0
    /\ {Refresh, Retry, Expire, Jitter, Backoff, Exchange} \subseteq Nat
    /\ Refresh > 0 /\ Retry > 0 /\ Expire > 0 /\ Exchange > 0
    /\ InitialSerials \subseteq 0..(SerialSpace - 1)
    /\ None \notin 0..(SerialSpace - 1)

Primaries == 1..N
Serials   == 0..(SerialSpace - 1)
MaxIncrement == SerialSpace \div 2 - 1

VARIABLES
    serial, status,     \* of each primary
    renewals, notifies,
    zone,               \* serial of the zone that is served, or None
    expired, kick,      \* fields of SecondaryZone
    pc,                 \* "first", "backoff", "wait", "check", "transfer", "stopped"
    at,                 \* the primary the task talks to
    left,               \* ticks left of the wait or the exchange
    failing, age,       \* locals of run: failing, last_good.elapsed()
    cancel,
    asked               \* history: primaries asked by this transfer_in

env  == <<serial, status, renewals>>
zn   == <<zone, expired>>
secondaryVars == <<env, notifies, zn, kick, pc, at, left, failing, age, cancel, asked>>

(* serial_less *)
serial_less(a, b) == IF a < b THEN b - a <= MaxIncrement ELSE a - b > MaxIncrement

(* How old the zone may get before its expiry is noticed: the expiry is    *)
(* looked at only after a failed check.                                    *)
Longest == (IF Refresh > Expire + Retry THEN Refresh ELSE Expire + Retry)
           + Jitter + 2 * N * Exchange

SecondaryInit ==
    /\ serial \in [Primaries -> InitialSerials]
    /\ status \in [Primaries -> {"up", "down", "bad"}]
    /\ renewals = 0 /\ notifies = 0
    /\ zone = None /\ expired = FALSE /\ kick = FALSE
    /\ pc = "first" /\ at = 1 /\ left = Exchange
    /\ failing = FALSE /\ age = 0 /\ cancel = FALSE /\ asked = {}
-----------------------------------------------------------------------------
(* A primary gets a new zone, or changes its state. *)
PrimaryChanges(p) ==
    /\ renewals < MaxPrimaryChanges
    /\ renewals' = renewals + 1
    /\ \/ serial' = [serial EXCEPT ![p] = (@ + 1) % SerialSpace] /\ UNCHANGED status
       \/ \E s \in {"up", "down", "bad"} \ {status[p]} :
             status' = [status EXCEPT ![p] = s] /\ UNCHANGED serial
    /\ UNCHANGED <<notifies, zn, kick, pc, at, left, failing, age, cancel, asked>>

(* serve_dns of a NOTIFY: the permit is kept until the task waits. *)
NotifyIn ==
    /\ notifies < MaxNotifies
    /\ notifies' = notifies + 1 /\ kick' = TRUE
    /\ UNCHANGED <<env, zn, pc, at, left, failing, age, cancel, asked>>

(* The shutdown hook. *)
Shutdown ==
    /\ ~cancel /\ cancel' = TRUE
    /\ UNCHANGED <<env, notifies, zn, kick, pc, at, left, failing, age, asked>>

Tick ==
    /\ pc # "stopped" /\ left > 0
    /\ left' = left - 1
    /\ age' = IF zone = None \/ age > Longest THEN age ELSE age + 1
    /\ UNCHANGED <<env, notifies, zn, kick, pc, at, failing, cancel, asked>>
-----------------------------------------------------------------------------
(* the end of an iteration of run, and the wait that follows *)
Good ==
    /\ failing' = FALSE /\ age' = 0
    /\ pc' = "wait" /\ at' = 1
    /\ left' \in Refresh..(Refresh + Jitter)

ExpireNever ==      \* mutant: a failed check does not look at the age
    /\ failing' = TRUE
    /\ pc' = "wait" /\ at' = 1
    /\ left' \in Retry..(Retry + Jitter)
    /\ UNCHANGED <<age, zn>>

Failed ==
    /\ failing' = TRUE
    /\ expired' = (expired \/ age >= Expire)
    /\ pc' = "wait" /\ at' = 1
    /\ left' \in Retry..(Retry + Jitter)
    /\ UNCHANGED <<age, zone>>

(* transfer_in fails: in initial() a backoff follows, in run() a retry.    *)
TransferFails ==
    \/ /\ pc = "first"
       /\ pc' = "backoff" /\ at' = 1
       /\ left' \in 0..Backoff
       /\ UNCHANGED <<failing, age, zn>>
    \/ pc = "transfer" /\ Failed

(* transfer_in: one AXFR.  The first zone that arrives is taken; one that  *)
(* cannot be built ends the transfer with an error.                        *)
TransferOkKeepsExpired ==       \* mutant: the flag is not cleared
    /\ pc \in {"first", "transfer"} /\ status[at] = "up"
    /\ zone' = serial[at] /\ UNCHANGED expired
    /\ asked' = asked \cup {at}
    /\ Good
    /\ UNCHANGED <<env, notifies, kick, cancel>>

TransferOk ==
    /\ pc \in {"first", "transfer"} /\ status[at] = "up"
    /\ zone' = serial[at] /\ expired' = FALSE
    /\ asked' = asked \cup {at}
    /\ Good
    /\ UNCHANGED <<env, notifies, kick, cancel>>

TransferBad ==
    /\ pc \in {"first", "transfer"} /\ status[at] = "bad"
    /\ asked' = asked \cup {at}
    /\ TransferFails
    /\ UNCHANGED <<env, notifies, kick, cancel>>

TransferDown ==
    /\ pc \in {"first", "transfer"} /\ status[at] = "down"
    /\ asked' = asked \cup {at}
    /\ \/ /\ at < N
          /\ at' = at + 1 /\ left' = Exchange
          /\ UNCHANGED <<pc, failing, age, zn>>
       \/ at = N /\ TransferFails
    /\ UNCHANGED <<env, notifies, kick, cancel>>

(* should_transfer: the first primary that answers decides. *)
CheckAnswered ==
    /\ pc = "check" /\ status[at] # "down"
    /\ \/ /\ serial_less(zone, serial[at]) \/ expired
          /\ pc' = "transfer" /\ at' = 1 /\ left' = Exchange /\ asked' = {}
          /\ UNCHANGED <<failing, age>>
       \/ /\ ~(serial_less(zone, serial[at]) \/ expired)
          /\ Good /\ UNCHANGED asked
    /\ UNCHANGED <<env, notifies, zn, kick, cancel>>

CheckDown ==
    /\ pc = "check" /\ status[at] = "down"
    /\ \/ /\ at < N
          /\ at' = at + 1 /\ left' = Exchange
          /\ UNCHANGED <<pc, failing, age, zn>>
       \/ at = N /\ Failed
    /\ UNCHANGED <<env, notifies, kick, cancel, asked>>

(* The select of run and of initial: the timer, a NOTIFY or the shutdown.  *)
Wakes ==
    /\ pc' = IF pc = "wait" THEN "check" ELSE "first"
    /\ left' = Exchange
    /\ asked' = {}
    /\ UNCHANGED <<env, notifies, zn, at, failing, age, cancel>>

WakeTimer ==
    /\ pc \in {"wait", "backoff"} /\ left = 0
    /\ Wakes /\ UNCHANGED kick

WakeKick ==
    /\ pc \in {"wait", "backoff"} /\ kick
    /\ Wakes /\ kick' = FALSE

Stop ==
    /\ pc \in {"wait", "backoff"} /\ cancel
    /\ pc' = "stopped"
    /\ UNCHANGED <<env, notifies, zn, kick, at, left, failing, age, cancel, asked>>
-----------------------------------------------------------------------------
Task == \/ TransferOk \/ TransferBad \/ TransferDown
        \/ CheckAnswered \/ CheckDown \/ WakeTimer \/ WakeKick \/ Stop

SecondaryNext == \/ Task \/ Tick \/ NotifyIn \/ Shutdown
        \/ \E p \in Primaries : PrimaryChanges(p)

SecondarySpec == SecondaryInit /\ [][SecondaryNext]_secondaryVars

(* Timers fire and exchanges end; a select that is ready for the shutdown  *)
(* again and again takes it.                                               *)
SecondaryFairness ==
    WF_secondaryVars(Tick) /\ WF_secondaryVars(Task) /\ SF_secondaryVars(Stop)
-----------------------------------------------------------------------------
(* The zone that queries see. *)
Served == zone # None /\ ~expired

(* A zone without a good check is not served for ever: its expiry is       *)
(* noticed after at most one more retry and the exchanges of one check     *)
(* and one transfer, as long as the task runs.                             *)
ServedAge == Served /\ pc # "stopped" => age <= Longest

(* When the first primary stays up the zone in the end is served and is    *)
(* not older than that primary's; and the task stops after the shutdown    *)
(* hook, whatever the primaries do.                                        *)
SecondaryConverges ==
    /\ <>[](status[1] = "up" /\ ~cancel) => <>[](Served /\ ~serial_less(zone, serial[1]))
    /\ cancel ~> pc = "stopped"
-----------------------------------------------------------------------------
(* Stated by the code or its docs, and not so:                             *)

(* Said of the expiry and only so up to Longest: once `expire` passes      *)
(* without a good check, a zone whose checks fail is not served.           *)
ExpiresOnTime == Served /\ failing => age <= Expire

(* Said of an older serial and not so with two primaries, the first of     *)
(* which fails between the check and the transfer: a zone that has not     *)
(* expired is only replaced by a newer one.                                *)
NoDowngrade == [][Served /\ zone' # zone => serial_less(zone, zone')]_secondaryVars

(* Said when a transfer fails and not so: all primaries have failed.       *)
AllPrimariesFailed == pc = "backoff" => asked = Primaries
=============================================================================
