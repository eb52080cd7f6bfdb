------------------------------- MODULE Deadline -------------------------------
(***************************************************************************)
(* The deadlines of a UDPConn that shares the socket of its listener: two  *)
(* timers of its own, which close the UDPConn when they fire.              *)
(*                                                                         *)
(* setReadDeadline and setWriteDeadline run under mux and are one step     *)
(* each. A timer that fires runs in a goroutine of its own, which sets err *)
(* and then calls Close; Close holds mux only while it sets closed.        *)
(***************************************************************************)
EXTENDS Naturals

CONSTANT MaxTimer   (* bound: how many timers a behaviour arms *)

ASSUME DeadlineAssumption == MaxTimer \in Nat \ {0}

Timer == 1 .. MaxTimer
NoTimer == 0
Kind == {"read", "write"}
When == {"zero", "past", "future"}

VARIABLES
  field,    (* UDPConn.readTimer and UDPConn.writeTimer                      *)
  timer,    (* the state of each timer that time.AfterFunc made              *)
  kind,     (* what each timer is the deadline of                            *)
  told,     (* what the last call told the application of each deadline:     *)
            (* "set", "none", or "error"                                     *)
  err,      (* UDPConn.err                                                   *)
  closed,   (* UDPConn.closed                                                *)
  closer,   (* who closed it: "nobody", "app", or the deadline that did      *)
  clpc      (* where the one Close that found closed unset is                *)

vars == <<field, timer, kind, told, err, closed, closer, clpc>>

TypeOK ==
  /\ field \in [Kind -> Timer \cup {NoTimer}]
  /\ timer \in [Timer -> {"new", "pending", "stopped", "fired", "closing",
                          "over"}]
  /\ kind \in [Timer -> Kind]
  /\ \A k \in Kind : field[k] # NoTimer => kind[field[k]] = k
  /\ told \in [Kind -> {"set", "none", "error"}]
  /\ err \in Kind \cup {"none"}
  /\ closed \in BOOLEAN
  /\ closer \in Kind \cup {"nobody", "app"}
  /\ clpc \in {"none", "read", "write", "dead", "done"}

Init ==
  /\ field = [k \in Kind |-> NoTimer]
  /\ timer = [t \in Timer |-> "new"]
  /\ kind = [t \in Timer |-> "read"]
  /\ told = [k \in Kind |-> "none"]
  /\ err = "none"
  /\ closed = FALSE
  /\ closer = "nobody"
  /\ clpc = "none"

-----------------------------------------------------------------------------
Pending(t) == t # NoTimer /\ timer[t] = "pending"

Stop(t) == IF Pending(t) THEN [timer EXCEPT ![t] = "stopped"] ELSE timer

(* ErrConnClosed. *)
Closed(k) ==
  /\ closed
  /\ told' = [told EXCEPT ![k] = "error"]
  /\ UNCHANGED <<field, timer, kind>>

(* ErrTimerExpired: the timer of k went off, or was stopped before. It is  *)
(* readTimer that is forgotten, whichever deadline was to be set.          *)
Expired(k) ==
  /\ ~ closed
  /\ field[k] # NoTimer /\ ~ Pending(field[k])
  /\ field' = [field EXCEPT !["read"] = NoTimer]
  /\ told' = [told EXCEPT ![k] = "error"]
  /\ UNCHANGED <<timer, kind>>

(* Mutant: a timer is replaced and left running. *)
Accepted_NotStopped(k, when) ==
  /\ ~ closed
  /\ field[k] # NoTimer => Pending(field[k])
  /\ \E t \in Timer :
       /\ timer[t] = "new"
       /\ timer' = [timer EXCEPT ![t] = "pending"]
       /\ kind' = [kind EXCEPT ![t] = k]
       /\ field' = [field EXCEPT ![k] = t]
  /\ told' = [told EXCEPT ![k] = "set"]

(* The old timer is stopped; a zero time leaves it at that, one that has   *)
(* passed is an error and leaves the stopped timer in its field.           *)
Accepted(k, when) ==
  /\ ~ closed
  /\ field[k] # NoTimer => Pending(field[k])
  /\ \/ /\ when = "zero"
        /\ timer' = Stop(field[k])
        /\ field' = [field EXCEPT ![k] = NoTimer]
        /\ told' = [told EXCEPT ![k] = "none"]
        /\ UNCHANGED kind
     \/ /\ when = "past"
        /\ timer' = Stop(field[k])
        /\ told' = [told EXCEPT ![k] = "error"]
        /\ UNCHANGED <<field, kind>>
     \/ /\ when = "future"
        /\ \E t \in Timer :
             /\ timer[t] = "new"
             /\ \A u \in Timer : u < t => timer[u] # "new"
             /\ timer' = [Stop(field[k]) EXCEPT ![t] = "pending"]
             /\ kind' = [kind EXCEPT ![t] = k]
             /\ field' = [field EXCEPT ![k] = t]
        /\ told' = [told EXCEPT ![k] = "set"]

SetDeadline(k, when) ==
  /\ Closed(k) \/ Expired(k) \/ Accepted(k, when)
  /\ UNCHANGED <<err, closed, closer, clpc>>

-----------------------------------------------------------------------------
(* The first Close sets closed under mux and does the rest.                *)
CloseBy(who) ==
  /\ closed' = TRUE
  /\ closer' = IF closed THEN closer ELSE who
  /\ clpc' = IF closed THEN clpc ELSE "read"

AppClose ==
  /\ ~ closed
  /\ CloseBy("app")
  /\ UNCHANGED <<field, timer, kind, told, err>>

(* Mutant: the timer calls Close and leaves err alone. *)
Fire_NoErr(t) ==
  /\ timer[t] = "pending"
  /\ timer' = [timer EXCEPT ![t] = "closing"]
  /\ UNCHANGED <<field, kind, told, err, closed, closer, clpc>>

(* func() { c.err = ErrReadTimeout; c.Close() }, and the same for writes.  *)
Fire(t) ==
  /\ timer[t] = "pending"
  /\ timer' = [timer EXCEPT ![t] = "fired"]
  /\ UNCHANGED <<field, kind, told, err, closed, closer, clpc>>

SetErr(t) ==
  /\ timer[t] = "fired"
  /\ err' = kind[t]
  /\ timer' = [timer EXCEPT ![t] = "closing"]
  /\ UNCHANGED <<field, kind, told, closed, closer, clpc>>

TimerClose(t) ==
  /\ timer[t] = "closing"
  /\ timer' = [timer EXCEPT ![t] = "over"]
  /\ CloseBy(kind[t])
  /\ UNCHANGED <<field, kind, told, err>>

(* Close stops the two timers, without mux, and closes dead. *)
CloseStop(k) ==
  /\ clpc = k
  /\ timer' = Stop(field[k])
  /\ field' = [field EXCEPT ![k] = NoTimer]
  /\ clpc' = IF k = "read" THEN "write" ELSE "dead"
  /\ UNCHANGED <<kind, told, err, closed, closer>>

CloseDead ==
  /\ clpc = "dead"
  /\ clpc' = "done"
  /\ UNCHANGED <<field, timer, kind, told, err, closed, closer>>

-----------------------------------------------------------------------------
TimerStep(t) == Fire(t) \/ SetErr(t) \/ TimerClose(t)

CloseStep == (\E k \in Kind : CloseStop(k)) \/ CloseDead

Next ==
  \/ \E k \in Kind, when \in When : SetDeadline(k, when)
  \/ AppClose
  \/ \E t \in Timer : TimerStep(t)
  \/ CloseStep

Spec == Init /\ [][Next]_vars

-----------------------------------------------------------------------------
Counting(k) == {t \in Timer : Pending(t) /\ kind[t] = k}

(* The write timer that counts down, if any, is writeTimer, so that the    *)
(* next setWriteDeadline or Close can stop it; and it counts down exactly  *)
(* while the application was last told that its deadline is set, until it  *)
(* goes off. None counts down behind a Close. (Read timers that a refused  *)
(* deadline has made the UDPConn forget do: setWriteDeadline.)             *)
WriteTimerHeld ==
  /\ Counting("write") \subseteq {field["write"]}
  /\ Counting("write") # {} /\ ~ closed => told["write"] = "set"
  /\ clpc \in {"dead", "done"} => Counting("write") = {}

(* Once dead is closed, a Read that it wakes finds the timeout in err when *)
(* it was a deadline that closed the UDPConn.                              *)
TimeoutIsReported == clpc = "done" /\ closer \in Kind => err # "none"

=============================================================================
