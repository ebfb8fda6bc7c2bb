---------------------------- MODULE TakeSchedule ----------------------------
(***************************************************************************)
(* What an OrderProcessor promises about attempts, without its lock, its   *)
(* three queues and its timeouts: of the orders it knows, some are         *)
(* scheduled to be looked at again, and at most one is being taken.        *)
(***************************************************************************)
CONSTANT OrderId

VARIABLES known, scheduled, taking

scheduleVars == <<known, scheduled, taking>>

Init == known = {} /\ scheduled = {} /\ taking = {}

(* An order becomes known, or known again, and is taken up at once only     *)
(* when no attempt is outstanding.                                          *)
Announce(o) ==
  /\ known' = known \cup {o}
  /\ \/ taking # {} /\ scheduled' = scheduled \cup {o} /\ UNCHANGED taking
     \/ taking = {} /\ taking' = {o} /\ scheduled' \in {scheduled, scheduled \ {o}}

(* An order that is scheduled is taken up; it may stay scheduled.           *)
Begin(o) ==
  /\ o \in scheduled
  /\ taking = {}
  /\ taking' = {o}
  /\ scheduled' \in {scheduled, scheduled \ {o}}
  /\ UNCHANGED known

(* The attempt ends and the order is scheduled again, or it was rejected    *)
(* and is left as it is.                                                    *)
End(o) ==
  /\ o \in taking
  /\ taking' = {}
  /\ scheduled' \in {scheduled, scheduled \cup {o}}
  /\ UNCHANGED known

(* An order is closed: never the one being taken.                           *)
Forget(o) ==
  /\ taking = {}
  /\ known' = known \ {o}
  /\ scheduled' = scheduled \ {o}
  /\ UNCHANGED taking

Next == \E o \in OrderId : Announce(o) \/ Begin(o) \/ End(o) \/ Forget(o)

Spec == Init /\ [][Next]_scheduleVars
=============================================================================
