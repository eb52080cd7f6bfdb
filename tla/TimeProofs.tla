------------------------------ MODULE TimeProofs ------------------------------
(***************************************************************************)
(* Proofs about the two clocks that close a UDPConn of a Listener: its     *)
(* deadlines (Deadline), for every number of timers, and the passes of     *)
(* checkExpire (Expire), for every set of UDPConns, every threshold and    *)
(* every expiry.  The two have no state in common.                         *)
(***************************************************************************)
EXTENDS Deadline, Expire, TLAPS

(* What an action keeps, once for every action that Next is made of. *)
LEMMA NextCases ==
  ASSUME NEW P,
         \A k \in Kind : Closed(k) /\ UNCHANGED <<err, closed, closer, clpc>>
                           => P,
         \A k \in Kind : Expired(k) /\ UNCHANGED <<err, closed, closer, clpc>>
                           => P,
         \A k \in Kind, when \in When :
           Accepted(k, when) /\ UNCHANGED <<err, closed, closer, clpc>> => P,
         AppClose => P,
         \A t \in Timer : Fire(t) => P,
         \A t \in Timer : SetErr(t) => P,
         \A t \in Timer : TimerClose(t) => P,
         \A k \in Kind : CloseStop(k) => P,
         CloseDead => P,
         UNCHANGED vars => P
  PROVE  [Next]_vars => P
BY DEF Next, SetDeadline, TimerStep, CloseStep

-----------------------------------------------------------------------------
(* A timer that a field holds was armed for that field.                    *)
FieldArmed == \A k \in Kind : field[k] # NoTimer => timer[field[k]] # "new"

TypeInv == TypeOK /\ FieldArmed

LEMMA StopType ==
  ASSUME TypeInv, NEW k \in Kind
  PROVE  /\ Stop(field[k]) \in [Timer -> {"new", "pending", "stopped", "fired",
                                          "closing", "over"}]
         /\ \A t \in Timer : (Stop(field[k]))[t] = "new" <=> timer[t] = "new"
         /\ \A t \in Timer : (Stop(field[k]))[t] = "pending"
                               <=> timer[t] = "pending" /\ t # field[k]
         /\ \A t \in Timer : (Stop(field[k]))[t] = "closing"
                               <=> timer[t] = "closing"
BY DeadlineAssumption DEF TypeInv, TypeOK, FieldArmed, Stop, Pending, NoTimer,
   Timer, Kind

LEMMA TypeInit == Init => TypeInv
<1> SUFFICES ASSUME Init PROVE TypeInv
  OBVIOUS
<1>1. "read" \in Kind
  BY DEF Kind
<1>2. \A k \in Kind : field[k] = NoTimer
  BY DEF Init
<1>3. TypeOK
  BY <1>1, <1>2 DEF Init, TypeOK
<1>4. FieldArmed
  BY <1>2 DEF FieldArmed
<1> QED
  BY <1>3, <1>4 DEF TypeInv

LEMMA TypeStep == TypeInv /\ [Next]_vars => TypeInv'
<1> SUFFICES ASSUME TypeInv PROVE [Next]_vars => TypeInv'
  OBVIOUS
<1> USE DEF TypeInv, TypeOK, FieldArmed, NoTimer
<1>1. \A k \in Kind : Closed(k) /\ UNCHANGED <<err, closed, closer, clpc>>
                        => TypeInv'
  BY DEF Closed
<1>2. \A k \in Kind : Expired(k) /\ UNCHANGED <<err, closed, closer, clpc>>
                        => TypeInv'
  BY DEF Expired, Kind
<1>3. ASSUME NEW k \in Kind, NEW when \in When, Accepted(k, when),
             UNCHANGED <<err, closed, closer, clpc>>
      PROVE  TypeInv'
  <2>1. CASE when = "zero"
    <3>1. /\ timer' = Stop(field[k])
          /\ field' = [field EXCEPT ![k] = NoTimer]
          /\ told' = [told EXCEPT ![k] = "none"]
          /\ kind' = kind
      BY <1>3, <2>1 DEF Accepted
    <3>2. FieldArmed'
      BY <3>1, StopType
    <3>3. \A j \in Kind : field'[j] # NoTimer => kind'[field'[j]] = j
      BY <3>1
    <3> QED
      BY <1>3, <3>1, <3>2, <3>3, StopType
  <2>2. CASE when = "past"
    <3>1. /\ timer' = Stop(field[k])
          /\ told' = [told EXCEPT ![k] = "error"]
          /\ UNCHANGED <<field, kind>>
      BY <1>3, <2>2 DEF Accepted
    <3>2. FieldArmed'
      BY <3>1, StopType
    <3>3. \A j \in Kind : field'[j] # NoTimer => kind'[field'[j]] = j
      BY <3>1
    <3> QED
      BY <1>3, <3>1, <3>2, <3>3, StopType
  <2>3. CASE when = "future"
    <3>1. PICK t \in Timer :
            /\ timer[t] = "new"
            /\ timer' = [Stop(field[k]) EXCEPT ![t] = "pending"]
            /\ kind' = [kind EXCEPT ![t] = k]
            /\ field' = [field EXCEPT ![k] = t]
            /\ told' = [told EXCEPT ![k] = "set"]
      BY <1>3, <2>3 DEF Accepted
    <3>2. FieldArmed'
      BY <3>1, StopType
    <3>3. \A j \in Kind : field'[j] # NoTimer => kind'[field'[j]] = j
      BY <3>1
    <3> QED
      BY <1>3, <3>1, <3>2, <3>3, StopType
  <2> QED
    BY <2>1, <2>2, <2>3 DEF When
<1>4. AppClose => TypeInv'
  BY DEF AppClose, CloseBy
<1>5. \A t \in Timer : Fire(t) => TypeInv'
  BY DEF Fire
<1>6. \A t \in Timer : SetErr(t) => TypeInv'
  BY DEF SetErr
<1>7. \A t \in Timer : TimerClose(t) => TypeInv'
  BY DEF TimerClose, CloseBy
<1>8. \A k \in Kind : CloseStop(k) => TypeInv'
  BY StopType DEF CloseStop
<1>9. CloseDead => TypeInv'
  BY DEF CloseDead
<1>10. UNCHANGED vars => TypeInv'
  BY DEF vars
<1> HIDE DEF TypeInv
<1> QED
  BY <1>1, <1>2, <1>3, <1>4, <1>5, <1>6, <1>7, <1>8, <1>9, <1>10, NextCases

LEMMA TypeHolds == Spec => []TypeInv
BY TypeInit, TypeStep, PTL DEF Spec

(* Every variable of the deadlines has its type (readTimer, writeTimer and *)
(* err of udpconn.go), and a field holds a timer of its own kind only.     *)
THEOREM DeadlineTypeCorrect == Spec => []TypeOK
<1>1. TypeInv => TypeOK
  BY DEF TypeInv
<1> QED
  BY <1>1, TypeHolds, PTL

-----------------------------------------------------------------------------
(***************************************************************************)
(* The write timer.                                                        *)
(***************************************************************************)
(* WriteTimerHeld with what makes it inductive: the part of Close that     *)
(* stops timers runs after closed is set, so none is armed behind it.      *)
HeldInv ==
  /\ \A t \in Timer : timer[t] = "pending" /\ kind[t] = "write"
                        => /\ field["write"] = t
                           /\ ~ closed => told["write"] = "set"
                           /\ clpc \notin {"dead", "done"}
  /\ clpc # "none" => closed

LEMMA HeldInit == Init => HeldInv
BY DEF Init, HeldInv

LEMMA HeldStep == TypeInv /\ HeldInv /\ [Next]_vars => HeldInv'
<1> SUFFICES ASSUME TypeInv, HeldInv PROVE [Next]_vars => HeldInv'
  OBVIOUS
<1>t. /\ field \in [Kind -> Timer \cup {NoTimer}]
      /\ timer \in [Timer -> {"new", "pending", "stopped", "fired", "closing",
                              "over"}]
      /\ kind \in [Timer -> Kind]
      /\ \A k \in Kind : field[k] # NoTimer => kind[field[k]] = k
      /\ told \in [Kind -> {"set", "none", "error"}]
      /\ NoTimer \notin Timer
      /\ "write" \in Kind /\ "read" \in Kind
      /\ closed \in BOOLEAN
  BY DEF TypeInv, TypeOK, Kind, NoTimer, Timer
<1> USE DEF HeldInv
<1>1. \A k \in Kind : Closed(k) /\ UNCHANGED <<err, closed, closer, clpc>>
                        => HeldInv'
  BY DEF Closed
<1>2. \A k \in Kind : Expired(k) /\ UNCHANGED <<err, closed, closer, clpc>>
                        => HeldInv'
  BY <1>t DEF Expired, Pending
<1>3. ASSUME NEW k \in Kind, NEW when \in When, Accepted(k, when),
             UNCHANGED <<err, closed, closer, clpc>>
      PROVE  HeldInv'
  <2>1. ~ closed /\ clpc = "none"
    BY <1>3 DEF Accepted
  <2>2. CASE when = "zero"
    BY <1>t, <1>3, <2>1, <2>2, StopType DEF Accepted
  <2>3. CASE when = "past"
    BY <1>t, <1>3, <2>1, <2>3, StopType DEF Accepted
  <2>4. CASE when = "future"
    <3>1. PICK t \in Timer :
            /\ timer[t] = "new"
            /\ timer' = [Stop(field[k]) EXCEPT ![t] = "pending"]
            /\ kind' = [kind EXCEPT ![t] = k]
            /\ field' = [field EXCEPT ![k] = t]
            /\ told' = [told EXCEPT ![k] = "set"]
      BY <1>3, <2>4 DEF Accepted
    <3>2. ASSUME NEW u \in Timer, timer'[u] = "pending", kind'[u] = "write"
          PROVE  field'["write"] = u /\ told'["write"] = "set"
      <4>1. CASE u = t
        BY <1>t, <3>1, <3>2, <4>1
      <4>2. CASE u # t
        <5>1. timer[u] = "pending" /\ u # field[k] /\ kind[u] = "write"
          BY <1>t, <3>1, <3>2, <4>2, StopType
        <5> QED
          BY <1>t, <3>1, <5>1, <2>1
      <4> QED
        BY <4>1, <4>2
    <3> QED
      BY <1>3, <2>1, <3>2
  <2> QED
    BY <2>2, <2>3, <2>4 DEF When
<1>4. AppClose => HeldInv'
  BY <1>t DEF AppClose, CloseBy
<1>5. \A t \in Timer : Fire(t) => HeldInv'
  BY <1>t DEF Fire
<1>6. \A t \in Timer : SetErr(t) => HeldInv'
  BY <1>t DEF SetErr
<1>7. \A t \in Timer : TimerClose(t) => HeldInv'
  BY <1>t DEF TimerClose, CloseBy
<1>8. \A k \in Kind : CloseStop(k) => HeldInv'
  <2> SUFFICES ASSUME NEW k \in Kind, CloseStop(k) PROVE HeldInv'
    OBVIOUS
  <2>1. k = "read" \/ k = "write"
    BY DEF Kind
  <2>2. closed
    BY <2>1 DEF CloseStop
  <2> QED
    BY <1>t, <2>1, <2>2, StopType DEF CloseStop
<1>9. CloseDead => HeldInv'
  BY <1>t DEF CloseDead
<1>10. UNCHANGED vars => HeldInv'
  BY DEF vars
<1> HIDE DEF HeldInv
<1> QED
  BY <1>1, <1>2, <1>3, <1>4, <1>5, <1>6, <1>7, <1>8, <1>9, <1>10, NextCases

(* At most one write timer counts down, it is the one that                 *)
(* setWriteDeadline and Close would stop, and none does behind a Close.    *)
THEOREM WriteTimerIsHeld == Spec => []WriteTimerHeld
<1>1. TypeInv /\ HeldInv => WriteTimerHeld
  <2> SUFFICES ASSUME TypeInv, HeldInv PROVE WriteTimerHeld
    OBVIOUS
  <2>1. \A t \in Counting("write") :
          t \in Timer /\ timer[t] = "pending" /\ kind[t] = "write"
    BY DEF Counting, Pending
  <2> QED
    BY <2>1 DEF HeldInv, WriteTimerHeld
<1> QED
  BY <1>1, TypeHolds, TypeStep, HeldInit, HeldStep, PTL DEF Spec

-----------------------------------------------------------------------------
(***************************************************************************)
(* The error that a Read finds.                                            *)
(***************************************************************************)
(* err is set before the timer calls Close and is never reset.             *)
ErrInv ==
  /\ closer \in Kind => err # "none"
  /\ \A t \in Timer : timer[t] = "closing" => err # "none"

LEMMA ErrInit == Init => ErrInv
BY DEF Init, ErrInv, Kind

LEMMA ErrStep == TypeInv /\ ErrInv /\ [Next]_vars => ErrInv'
<1> SUFFICES ASSUME TypeInv, ErrInv PROVE [Next]_vars => ErrInv'
  OBVIOUS
<1>t. /\ timer \in [Timer -> {"new", "pending", "stopped", "fired", "closing",
                              "over"}]
      /\ kind \in [Timer -> Kind]
      /\ "none" \notin Kind /\ "app" \notin Kind
  BY DEF TypeInv, TypeOK, Kind
<1> USE DEF ErrInv
<1>1. \A k \in Kind : Closed(k) /\ UNCHANGED <<err, closed, closer, clpc>>
                        => ErrInv'
  BY DEF Closed
<1>2. \A k \in Kind : Expired(k) /\ UNCHANGED <<err, closed, closer, clpc>>
                        => ErrInv'
  BY DEF Expired
<1>3. \A k \in Kind, when \in When :
        Accepted(k, when) /\ UNCHANGED <<err, closed, closer, clpc>> => ErrInv'
  BY StopType DEF Accepted
<1>4. AppClose => ErrInv'
  BY <1>t DEF AppClose, CloseBy
<1>5. \A t \in Timer : Fire(t) => ErrInv'
  BY <1>t DEF Fire
<1>6. \A t \in Timer : SetErr(t) => ErrInv'
  BY <1>t DEF SetErr
<1>7. \A t \in Timer : TimerClose(t) => ErrInv'
  BY <1>t DEF TimerClose, CloseBy
<1>8. \A k \in Kind : CloseStop(k) => ErrInv'
  BY StopType DEF CloseStop
<1>9. CloseDead => ErrInv'
  BY DEF CloseDead
<1>10. UNCHANGED vars => ErrInv'
  BY DEF vars
<1> HIDE DEF ErrInv
<1> QED
  BY <1>1, <1>2, <1>3, <1>4, <1>5, <1>6, <1>7, <1>8, <1>9, <1>10, NextCases

(* A deadline that closes the UDPConn has set err before dead is closed,   *)
(* so the Read that it wakes does not report a plain close.                *)
THEOREM TimeoutReported == Spec => []TimeoutIsReported
<1>1. ErrInv => TimeoutIsReported
  BY DEF ErrInv, TimeoutIsReported
<1> QED
  BY <1>1, TypeHolds, TypeStep, ErrInit, ErrStep, PTL DEF Spec

-----------------------------------------------------------------------------
(***************************************************************************)
(* The passes of checkExpire.                                              *)
(***************************************************************************)

LEMMA ExpireNextCases ==
  ASSUME NEW P,
         Tick => P,
         ExpireStop => P,
         \A c \in Conn : Create(c) => P,
         \A c \in Conn : Receive(c) => P,
         \A c \in Conn : ConnClose(c) => P,
         \A c \in Conn : VisitAlive(c) => P,
         \A c \in Conn : Count(c) => P,
         \A c \in Conn : VisitIdle(c) => P,
         \A c \in Conn : CloseIdle(c) => P,
         UNCHANGED expireVars => P,
         [ExpireNext]_expireVars
  PROVE  P
BY DEF ExpireNext

(* Every variable keeps its type; the expiry is one of the three.          *)
THEOREM ExpireTypeCorrect == ExpireSpec => []ExpireTypeOK
<1>1. ExpireInit => ExpireTypeOK
  BY ExpireAssumption DEF ExpireInit, ExpireTypeOK
<1>2. ExpireTypeOK /\ [ExpireNext]_expireVars => ExpireTypeOK'
  <2> SUFFICES ASSUME ExpireTypeOK, [ExpireNext]_expireVars PROVE ExpireTypeOK'
    OBVIOUS
  <2> USE ExpireAssumption DEF ExpireTypeOK, connVars
  <2>1. CASE Tick
    <3>1. \A k : updateClientExpire(k) \in {ExpireFew, ExpireSome, ExpireMany}
      BY DEF updateClientExpire
    <3> QED BY <2>1, <3>1 DEF Tick, PassOver, Open
  <2>2. CASE ExpireStop
    BY <2>2 DEF ExpireStop, PassOver
  <2>3. ASSUME NEW c \in Conn, Create(c) PROVE ExpireTypeOK'
    BY <2>3 DEF Create
  <2>4. ASSUME NEW c \in Conn, Receive(c) PROVE ExpireTypeOK'
    BY <2>4 DEF Receive
  <2>5. ASSUME NEW c \in Conn, ConnClose(c) PROVE ExpireTypeOK'
    BY <2>5 DEF ConnClose
  <2>6. ASSUME NEW c \in Conn, VisitAlive(c) PROVE ExpireTypeOK'
    BY <2>6 DEF VisitAlive, Visit
  <2>7. ASSUME NEW c \in Conn, VisitIdle(c) PROVE ExpireTypeOK'
    BY <2>7 DEF VisitIdle, Visit
  <2>8. ASSUME NEW c \in Conn, Count(c) PROVE ExpireTypeOK'
    BY <2>8 DEF Count
  <2>9. ASSUME NEW c \in Conn, CloseIdle(c) PROVE ExpireTypeOK'
    BY <2>9 DEF CloseIdle
  <2>10. CASE UNCHANGED expireVars
    BY <2>10 DEF expireVars
  <2> QED
    BY <2>1, <2>2, <2>3, <2>4, <2>5, <2>6, <2>7, <2>8, <2>9, <2>10, ExpireNextCases
<1> QED BY <1>1, <1>2, PTL DEF ExpireSpec

(***************************************************************************)
(* How lastAliveAt, the counter and the last packet relate. Due(c) is 1    *)
(* for a UDPConn that the pass has still to visit, whose last visit was in *)
(* the pass before, and for the one it is about to close.                  *)
(***************************************************************************)
Due(c) == IF c \in list \cup doomed THEN 1 ELSE 0

UnseenInv ==
  \A c \in Conn : life[c] = "none" => /\ c \notin list \cup doomed
                                     /\ aliveAt[c] = 0
                                     /\ ~ counted[c] /\ ~ pending[c]

HeardInPast == \A c \in Conn : heard[c] <= pass

(* A packet waits for its count no longer than into the next pass.         *)
PendingIsNew == \A c \in Conn : pending[c] => heard[c] >= pass - 1

(* A packet that was counted, or the UDPConn itself, is newer than the     *)
(* visit before the last.                                                  *)
FreshIsNew ==
  \A c \in Open : counted[c] \/ aliveAt[c] = 0 => heard[c] >= pass - 1 - Due(c)

(* With batches, what came after lastAliveAt was counted or is about to.   *)
NothingUncounted ==
  \A c \in Conn :
    batched /\ ~ counted[c] /\ ~ pending[c] /\ aliveAt[c] # 0 => heard[c] <= aliveAt[c]

(* lastAliveAt is at most two passes after the packet it stands for.       *)
AliveWasHeard ==
  \A c \in Open : aliveAt[c] # 0 => heard[c] >= aliveAt[c] - 2

VisitedIsYoung ==
  \A c \in Open : c \notin list \cup doomed => pass - heard[c] <= expire + 2

ExpireInv ==
  /\ UnseenInv /\ HeardInPast /\ PendingIsNew /\ FreshIsNew /\ NothingUncounted
  /\ AliveWasHeard /\ VisitedIsYoung

LEMMA TypedNumbers ==
  ASSUME ExpireTypeOK
  PROVE  /\ pass \in Nat /\ expire \in Nat
         /\ aliveAt \in [Conn -> Nat] /\ heard \in [Conn -> Nat]
<1>1. 0 .. MaxPass \subseteq Nat
  BY ExpireAssumption
<1>2. expire \in Nat
  BY ExpireAssumption DEF ExpireTypeOK
<1> QED BY <1>1, <1>2 DEF ExpireTypeOK

LEMMA ExpireInvInit == ExpireInit => ExpireInv
BY ExpireAssumption
   DEF ExpireInit, ExpireInv, UnseenInv, HeardInPast, PendingIsNew, FreshIsNew,
       NothingUncounted, AliveWasHeard, VisitedIsYoung, Open

LEMMA ExpireInvStep ==
  ASSUME ExpireTypeOK, ExpireInv, [ExpireNext]_expireVars
  PROVE  ExpireInv'
<1> USE DEF ExpireInv, UnseenInv, HeardInPast, PendingIsNew, FreshIsNew,
            NothingUncounted, AliveWasHeard, VisitedIsYoung, Due, Open, connVars
<1>0. /\ pass \in Nat /\ expire \in Nat /\ list \subseteq Conn /\ doomed \subseteq Conn
      /\ life \in [Conn -> {"none", "open", "closed", "expired"}]
      /\ pending \in [Conn -> BOOLEAN] /\ counted \in [Conn -> BOOLEAN]
      /\ aliveAt \in [Conn -> Nat] /\ heard \in [Conn -> Nat]
  BY TypedNumbers DEF ExpireTypeOK
<1>1. CASE Tick
  <2>1. /\ pass' = pass + 1 /\ list = {} /\ doomed = {} /\ list' = Open
        /\ \A c \in Conn : pending[c] => heard[c] = pass
        /\ UNCHANGED <<batched, doomed, connVars>>
    BY <1>1 DEF Tick, PassOver
  <2>2. /\ \A c \in Open : Due(c) = 0 /\ Due(c)' = 1
        /\ Open' = Open
    BY <1>0, <2>1
  <2>3. UnseenInv' /\ HeardInPast' /\ PendingIsNew' /\ NothingUncounted'
    BY <1>0, <2>1
  <2>4. AliveWasHeard' /\ VisitedIsYoung'
    BY <1>0, <2>1
  <2>5. FreshIsNew'
    <3> SUFFICES ASSUME NEW c \in Open', (counted[c] \/ aliveAt[c] = 0)'
                 PROVE  (heard[c] >= pass - 1 - Due(c))'
      BY DEF FreshIsNew
    <3> HIDE DEF Due
    <3> QED BY <1>0, <2>1, <2>2
  <2> QED BY <2>3, <2>4, <2>5
<1>2. CASE ExpireStop
  BY <1>0, <1>2 DEF ExpireStop
<1>3. ASSUME NEW c \in Conn, Create(c) PROVE ExpireInv'
  BY <1>0, <1>3 DEF Create
<1>4. ASSUME NEW c \in Conn, Receive(c) PROVE ExpireInv'
  BY <1>0, <1>4 DEF Receive
<1>5. ASSUME NEW c \in Conn, Count(c) PROVE ExpireInv'
  BY <1>0, <1>5 DEF Count
<1>6. ASSUME NEW c \in Conn, ConnClose(c) PROVE ExpireInv'
  BY <1>0, <1>6 DEF ConnClose
<1>7. ASSUME NEW c \in Conn, VisitAlive(c) PROVE ExpireInv'
  BY <1>0, <1>7 DEF VisitAlive, Visit
<1>8. ASSUME NEW c \in Conn, VisitIdle(c) PROVE ExpireInv'
  BY <1>0, <1>8 DEF VisitIdle, Visit
<1>9. ASSUME NEW c \in Conn, CloseIdle(c) PROVE ExpireInv'
  <2>1. doomed' = doomed \ {c} /\ Open' = Open \ {c}
    BY <1>0, <1>9 DEF CloseIdle
  <2> QED BY <1>0, <1>9, <2>1 DEF CloseIdle
<1>10. CASE UNCHANGED expireVars
  BY <1>0, <1>10 DEF expireVars
<1> QED
  BY <1>1, <1>2, <1>3, <1>4, <1>5, <1>6, <1>7, <1>8, <1>9, <1>10, ExpireNextCases

LEMMA ExpireInvHolds == ExpireSpec => []ExpireInv
BY ExpireInvInit, ExpireInvStep, ExpireTypeCorrect, PTL DEF ExpireSpec

(* When a pass is over, every UDPConn that is left was heard within the    *)
(* expiry of that pass and two intervals. (checkExpire)                    *)
THEOREM SilenceIsBounded == ExpireSpec => []NoneOutlivesSilence
<1>1. ExpireInv => NoneOutlivesSilence
  BY DEF ExpireInv, VisitedIsYoung, NoneOutlivesSilence, PassOver
<1> QED BY <1>1, ExpireInvHolds, PTL

(* A Listener that reads in batches decides to close no UDPConn that queued*)
(* a packet within its expiry, whichever way the visit, the queueing and   *)
(* the counting of packets fall, but for a packet that is not yet counted. *)
(* (checkExpire, PutRxQueue2)                                              *)
THEOREM ExpiredWasIdle == ExpireSpec => OnlyIdleExpired
<1>1. ASSUME ExpireTypeOK, ExpireInv, [ExpireNext]_expireVars, NEW c \in Conn,
             batched, DoomedAlive(c)
      PROVE  FALSE
  <2>0. /\ pass \in Nat /\ expire \in Nat
        /\ aliveAt[c] \in Nat /\ heard[c] \in Nat
        /\ life \in [Conn -> {"none", "open", "closed", "expired"}]
    BY <1>1, TypedNumbers DEF ExpireTypeOK
  <2>1. VisitIdle(c)
    BY <1>1, <2>0
    DEF DoomedAlive, ExpireNext, Tick, ExpireStop, Create, Receive, Count, ConnClose,
        VisitAlive, VisitIdle, CloseIdle, expireVars, connVars
  <2>2. ~ counted[c] /\ aliveAt[c] # 0 /\ pass - aliveAt[c] > expire /\ ~ pending[c]
    BY <1>1, <2>0, <2>1 DEF VisitIdle, DoomedAlive
  <2>3. heard[c] <= aliveAt[c]
    BY <1>1, <2>2 DEF ExpireInv, NothingUncounted
  <2> QED BY <1>1, <2>0, <2>2, <2>3 DEF DoomedAlive
<1>2. ExpireTypeOK /\ ExpireInv /\ [ExpireNext]_expireVars =>
        [\A c \in Conn : batched => ~ DoomedAlive(c)]_expireVars
  BY <1>1
<1> QED BY <1>2, ExpireInvHolds, ExpireTypeCorrect, PTL DEF ExpireSpec, OnlyIdleExpired

=============================================================================
