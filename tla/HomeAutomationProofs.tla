------------------------ MODULE HomeAutomationProofs ------------------------
(***************************************************************************)
(* Proofs about the "if-hot-then-light" demo, for any payloads of the user *)
(* and readings of others, any period and any number of losses, stops and  *)
(* clock settings.                                                         *)
(***************************************************************************)
EXTENDS HomeAutomation, TLAPS

\* The light's state alone is not inductive: what it will be made of is in
\* flight.  Without the user only "3" is on its way, and only after a reading
\* above 80, as is such a reading on the topic.
Causes ==
  /\ ~user => \A p \in commands : p = {3} /\ hot
  /\ \A t \in latest : t > 80 => hot

\* No negative number is on its way unless the user has sent one.
Signs == ~negative => \A p \in commands : \A v \in p : v >= 0

IInv == TypeOK /\ LightHasCause /\ SwitchAnnounced /\ Causes /\ Signs

-----------------------------------------------------------------------------
(* What the callbacks do with a payload and a reading. *)

\* A payload says one integer, or nothing, which reads as 0xFF.
LEMMA NewValTyped ==
  ASSUME NEW p \in Payloads \cup {{3}}
  PROVE  /\ NewVal(p) \in Int
         /\ p # {} => NewVal(p) \in p
         /\ p = {} => NewVal(p) = 255
<1>1. p \subseteq Int
  BY HomeAssumption
<1>2. CASE p = {}
  BY <1>2 DEF NewVal
<1>3. CASE p # {}
  <2>1. (CHOOSE v \in p : TRUE) \in p
    BY <1>3
  <2> QED
    BY <1>1, <1>3, <2>1 DEF NewVal
<1> QED
  BY <1>2, <1>3

\* The command of the application reads as 3.
LEMMA NewValOfThree == NewVal({3}) = 3
BY DEF NewVal

\* on_light_command keeps the brightness a uint8_t, and in step with what the
\* light announces as long as the number is not negative.
LEMMA OnLightCommandRange ==
  ASSUME NEW p \in Payloads \cup {{3}}, OnLightCommand(p),
         brightness \in 0 .. 255, announced \in {"on", "off"}
  PROVE  /\ brightness' \in 0 .. 255 /\ announced' \in {"on", "off"}
         /\ handled' = p
         /\ p = {3} => brightness' = 3
         /\ /\ \A v \in p : v >= 0
            /\ brightness <= 10 /\ (announced = "on" <=> brightness > 0)
            => brightness' <= 10 /\ (announced' = "on" <=> brightness' > 0)
<1> DEFINE v == NewVal(p)
<1>1. v \in Int /\ (p = {3} => v = 3) /\ ((\A w \in p : w >= 0) => v >= 0)
  <2>1. (\A w \in p : w >= 0) => v >= 0
    BY NewValTyped
  <2> QED
    BY <2>1, NewValTyped, NewValOfThree
<1>2. CASE v = 255
  <2>1. UNCHANGED <<brightness, announced>> /\ handled' = p
    BY <1>2 DEF OnLightCommand
  <2> QED
    BY <1>1, <1>2, <2>1
<1>3. CASE v # 255
  <2>1. /\ announced' = IF (v > 0) = (brightness > 0) THEN announced
                        ELSE IF v > 0 THEN "on" ELSE "off"
        /\ brightness' = IF v < 10 THEN v % 256 ELSE 10
        /\ handled' = p
    BY <1>3 DEF OnLightCommand
  <2> HIDE DEF v
  <2>2. brightness' \in 0 .. 255 /\ announced' \in {"on", "off"}
    BY <1>1, <2>1
  <2>3. v >= 0 => brightness' <= 10 /\ (v > 0 <=> brightness' > 0)
    BY <1>1, <2>1
  <2>4. (announced = "on" <=> brightness > 0) => (announced' = "on" <=> v > 0)
    <3>1. CASE v > 0
      BY <1>1, <2>1, <3>1
    <3>2. CASE ~(v > 0)
      BY <1>1, <2>1, <3>2
    <3> QED
      BY <3>1, <3>2
  <2>5. v = 3 => brightness' = 3
    BY <2>1
  <2> QED
    BY <1>1, <2>1, <2>2, <2>3, <2>4, <2>5
<1> QED
  BY <1>2, <1>3

-----------------------------------------------------------------------------
(* Every step keeps the invariant. *)

\* What periodic_publish does to a device that is running after the step.
LEMMA PublishKeeps ==
  ASSUME IInv, NEW d \in Publisher, PeriodicPublish(d), d \in booted',
         booted \subseteq booted', booted' \subseteq Device,
         UNCHANGED <<commands, lamp, faults, user, negative>>
  PROVE  IInv'
<1>1. posted' \subseteq Publisher \cap booted'
  BY DEF PeriodicPublish, IInv, TypeOK
<1>2. CASE Due(d)
  <2>1. /\ age' = [age EXCEPT ![d] = 0]
        /\ latest' = IF d = Sensor THEN {90} ELSE latest
        /\ hot' = (hot \/ d = Sensor)
    BY <1>2 DEF PeriodicPublish
  <2>2. hot' \in BOOLEAN /\ (hot => hot') /\ (d = Sensor => hot')
    BY <2>1, Zenon
  <2>3. age' \in [Publisher -> -Period .. Period]
    BY <2>1, HomeAssumption DEF IInv, TypeOK
  <2>4. latest' \in {{}} \cup {{t} : t \in 0 .. 255}
    BY <2>1 DEF IInv, TypeOK
  <2>5. TypeOK'
    BY <1>1, <2>2, <2>3, <2>4 DEF IInv, TypeOK, lamp, faults
  <2>6. LightHasCause' /\ SwitchAnnounced'
    BY <2>2 DEF IInv, LightHasCause, SwitchAnnounced, lamp
  <2>7. Causes' /\ Signs'
    BY <2>1, <2>2 DEF IInv, Causes, Signs
  <2> QED
    BY <2>5, <2>6, <2>7 DEF IInv
<1>3. CASE ~Due(d)
  <2>1. UNCHANGED <<age, latest, hot>>
    BY <1>3 DEF PeriodicPublish
  <2> QED
    BY <1>1, <2>1 DEF IInv, TypeOK, LightHasCause, SwitchAnnounced, Causes, Signs, lamp, faults
<1> QED
  BY <1>2, <1>3

\* What is added to the commands on their way.
LEMMA NotifiedAdds ==
  ASSUME NEW p
  PROVE  Notified(p) = commands \/ Notified(p) = commands \cup {p}
BY DEF Notified

\* A poll of the application: no command without a reading above 80.
LEMMA PollKeeps ==
  ASSUME IInv, Poll
  PROVE  IInv'
<1>1. PICK temp \in latest : commands' = IF temp <= 80 THEN commands ELSE Notified({3})
  BY DEF Poll, OnTempContent
<1>2. temp \in Int
  BY <1>1 DEF IInv, TypeOK
<1>3. UNCHANGED <<booted, timers, latest, lamp, faults, history>>
  BY DEF Poll
<1>4. \/ commands' = commands
      \/ commands' = commands \cup {{3}} /\ temp > 80 /\ hot
  BY <1>1, <1>2, NotifiedAdds DEF IInv, Causes
<1>5. TypeOK' /\ LightHasCause' /\ SwitchAnnounced'
  BY <1>3, <1>4 DEF IInv, TypeOK, LightHasCause, SwitchAnnounced, timers, lamp, faults, history
<1>6. Causes' /\ Signs'
  BY <1>3, <1>4 DEF IInv, Causes, Signs, history
<1> QED
  BY <1>5, <1>6 DEF IInv

\* A command reaches the light, and may stay to be delivered again.
LEMMA DeliverKeeps ==
  ASSUME IInv, NEW p \in Payloads \cup {{3}}, Deliver(p)
  PROVE  IInv'
<1>1. /\ p \in commands /\ OnLightCommand(p) /\ commands' \subseteq commands
      /\ UNCHANGED <<booted, timers, latest, faults, history>>
  BY DEF Deliver
<1>2. /\ brightness' \in 0 .. 255 /\ announced' \in {"on", "off"} /\ handled' = p
      /\ p = {3} => brightness' = 3
      /\ /\ \A v \in p : v >= 0
         /\ brightness <= 10 /\ (announced = "on" <=> brightness > 0)
         => brightness' <= 10 /\ (announced' = "on" <=> brightness' > 0)
  <2>1. brightness \in 0 .. 255 /\ announced \in {"on", "off"}
    BY DEF IInv, TypeOK
  <2> QED
    BY <1>1, <2>1, OnLightCommandRange
<1>3. TypeOK'
  BY <1>1, <1>2 DEF IInv, TypeOK, timers, faults, history
<1>4. LightHasCause'
  <2>1. ~user => brightness' = 3 /\ hot
    BY <1>1, <1>2 DEF IInv, Causes
  <2> QED
    BY <1>1, <2>1 DEF LightHasCause, history
<1>5. SwitchAnnounced'
  BY <1>1, <1>2 DEF IInv, Signs, SwitchAnnounced, history
<1>6. Causes' /\ Signs'
  BY <1>1 DEF IInv, Causes, Signs, history
<1> QED
  BY <1>3, <1>4, <1>5, <1>6 DEF IInv

\* A command of the user.
LEMMA UserKeeps ==
  ASSUME IInv, UserCommands
  PROVE  IInv'
<1>1. PICK p \in Payloads : /\ commands' = Notified(p)
                            /\ negative' = (negative \/ \E v \in p : v < 0)
  BY DEF UserCommands
<1>2. user' = TRUE /\ UNCHANGED <<booted, timers, latest, lamp, faults, hot>>
  BY DEF UserCommands
<1>3. commands' = commands \/ commands' = commands \cup {p}
  BY <1>1, NotifiedAdds
<1>4. /\ negative' \in BOOLEAN /\ (negative => negative')
      /\ (\E v \in p : v < 0) => negative'
  BY <1>1, Zenon
<1>5. p \subseteq Int
  BY HomeAssumption
<1>6. TypeOK'
  <2>1. user' \in BOOLEAN
    BY <1>2
  <2>2. commands' \subseteq Payloads \cup {{3}}
    BY <1>3 DEF IInv, TypeOK
  <2> QED
    BY <1>2, <1>4, <2>1, <2>2 DEF IInv, TypeOK, timers, lamp, faults
<1>7. LightHasCause' /\ SwitchAnnounced'
  BY <1>2, <1>4 DEF IInv, LightHasCause, SwitchAnnounced, lamp
<1>8. Causes'
  BY <1>2 DEF IInv, Causes
<1>9. Signs'
  <2> SUFFICES ASSUME ~negative', NEW q \in commands', NEW v \in q
               PROVE  v >= 0
    BY DEF Signs
  <2>1. CASE q \in commands
    BY <1>4, <2>1 DEF IInv, Signs
  <2>2. CASE q = p
    BY <1>4, <1>5, <2>2
  <2> QED
    BY <1>3, <2>1, <2>2
<1> QED
  BY <1>6, <1>7, <1>8, <1>9 DEF IInv

\* A signal ends a program.
LEMMA StopKeeps ==
  ASSUME IInv, NEW d \in Device, Stop(d)
  PROVE  IInv'
<1>1. /\ booted' = booted \ {d} /\ posted' = posted \ {d} /\ stops < MaxStops
      /\ age' = [p \in Publisher |-> IF p = d THEN Period ELSE age[p]]
      /\ stops' = stops + 1
      /\ UNCHANGED <<latest, commands, lost, steps, history>>
  BY DEF Stop
<1>2. \/ brightness' = 0 /\ announced' = "off" /\ handled' = {}
      \/ UNCHANGED lamp
  BY DEF Stop
<1>3. TypeOK'
  <2>1. age' \in [Publisher -> -Period .. Period]
    BY <1>1, HomeAssumption DEF IInv, TypeOK
  <2>2. stops' \in 0 .. MaxStops
    BY <1>1, HomeAssumption DEF IInv, TypeOK
  <2> QED
    BY <1>1, <1>2, <2>1, <2>2 DEF IInv, TypeOK, lamp, history
<1>4. LightHasCause' /\ SwitchAnnounced'
  BY <1>1, <1>2 DEF IInv, TypeOK, LightHasCause, SwitchAnnounced, lamp, history
<1>5. Causes' /\ Signs'
  BY <1>1 DEF IInv, Causes, Signs, history
<1> QED
  BY <1>3, <1>4, <1>5 DEF IInv

\* A command is lost, or finds the light stopped.
LEMMA LosesKeep ==
  ASSUME IInv, Lose \/ Unheard
  PROVE  IInv'
<1>1. /\ commands' \subseteq commands /\ lost' \in 0 .. MaxLoss
      /\ UNCHANGED <<booted, timers, latest, lamp, steps, stops, history>>
  BY HomeAssumption DEF Lose, Unheard, faults, IInv, TypeOK
<1>2. TypeOK' /\ LightHasCause' /\ SwitchAnnounced'
  BY <1>1 DEF IInv, TypeOK, LightHasCause, SwitchAnnounced, timers, lamp, history
<1>3. Causes' /\ Signs'
  BY <1>1 DEF IInv, Causes, Signs, history
<1> QED
  BY <1>2, <1>3 DEF IInv

\* The topic's reading expires or is replaced.
LEMMA OtherContentKeeps ==
  ASSUME IInv, OtherContent
  PROVE  IInv'
<1>1. /\ latest' \in {{}} \cup {{t} : t \in Readings}
      /\ hot' = (hot \/ \E t \in latest' : t > 80)
      /\ UNCHANGED <<booted, timers, commands, lamp, faults, user, negative>>
  BY DEF OtherContent
<1>2. /\ hot' \in BOOLEAN /\ (hot => hot')
      /\ \A t \in latest' : t > 80 => hot'
  BY <1>1, Zenon
<1>3. TypeOK'
  <2>1. latest' \in {{}} \cup {{t} : t \in 0 .. 255}
    BY <1>1, HomeAssumption
  <2> QED
    BY <1>1, <1>2, <2>1 DEF IInv, TypeOK, timers, lamp, faults
<1>4. LightHasCause' /\ SwitchAnnounced'
  BY <1>1, <1>2 DEF IInv, LightHasCause, SwitchAnnounced, lamp
<1>5. Causes' /\ Signs'
  BY <1>1, <1>2 DEF IInv, Causes, Signs
<1> QED
  BY <1>3, <1>4, <1>5 DEF IInv

\* Time passes, and the wall clock is set.
LEMMA ClockKeeps ==
  ASSUME IInv, Tick \/ ClockSet
  PROVE  IInv'
<1>1. /\ UNCHANGED <<booted, posted, latest, commands, lamp, lost, stops, history>>
      /\ steps' \in 0 .. MaxSteps
  BY HomeAssumption DEF Tick, ClockSet, faults, IInv, TypeOK
<1>2. age' \in [Publisher -> -Period .. Period]
  <2>1. CASE Tick
    <3>1. \A d \in Publisher : Later(age[d]) \in -Period .. Period
      BY HomeAssumption DEF Later, IInv, TypeOK
    <3> QED
      BY <2>1, <3>1 DEF Tick
  <2>2. CASE ClockSet
    BY <2>2 DEF ClockSet, IInv, TypeOK
  <2> QED
    BY <2>1, <2>2
<1>3. TypeOK' /\ LightHasCause' /\ SwitchAnnounced'
  BY <1>1, <1>2 DEF IInv, TypeOK, LightHasCause, SwitchAnnounced, lamp, history
<1>4. Causes' /\ Signs'
  BY <1>1 DEF IInv, Causes, Signs, history
<1> QED
  BY <1>3, <1>4 DEF IInv

\* Init establishes the invariant.
LEMMA InitInvariant == Init => IInv
<1> SUFFICES ASSUME Init PROVE IInv
  OBVIOUS
<1>1. {hot, user, negative} \subseteq BOOLEAN
  BY Zenon DEF Init
<1>2. age \in [Publisher -> -Period .. Period]
  BY HomeAssumption DEF Init
<1>3. TypeOK
  BY <1>1, <1>2, HomeAssumption DEF Init, TypeOK
<1>4. LightHasCause /\ SwitchAnnounced
  BY DEF Init, LightHasCause, SwitchAnnounced
<1>5. Causes /\ Signs
  BY DEF Init, Causes, Signs
<1> QED
  BY <1>3, <1>4, <1>5 DEF IInv

\* Every step keeps the invariant.
LEMMA NextInvariant == IInv /\ [Next]_vars => IInv'
<1> SUFFICES ASSUME IInv, [Next]_vars PROVE IInv'
  OBVIOUS
<1>1. CASE UNCHANGED vars
  BY <1>1 DEF IInv, TypeOK, LightHasCause, SwitchAnnounced, Causes, Signs,
              vars, timers, lamp, faults, history
<1>2. ASSUME NEW d \in Device, AfterBootstrapping(d)
      PROVE  IInv'
  <2>1. /\ booted' = booted \cup {d}
        /\ UNCHANGED <<commands, lamp, faults, user, negative>>
    BY <1>2 DEF AfterBootstrapping
  <2>2. booted \subseteq booted' /\ booted' \subseteq Device
    BY <2>1 DEF IInv, TypeOK
  <2>3. CASE d \in Publisher
    BY <1>2, <2>1, <2>2, <2>3, PublishKeeps DEF AfterBootstrapping
  <2>4. CASE d \notin Publisher
    <3>1. UNCHANGED <<timers, latest, hot>>
      BY <1>2, <2>4 DEF AfterBootstrapping
    <3> QED
      BY <2>1, <2>2, <3>1 DEF IInv, TypeOK, LightHasCause, SwitchAnnounced,
                              Causes, Signs, timers, lamp, faults
  <2> QED
    BY <2>3, <2>4
<1>3. ASSUME NEW d \in Publisher, Dispatch(d)
      PROVE  IInv'
  <2>1. /\ d \in booted' /\ booted' = booted /\ booted' \subseteq Device
        /\ UNCHANGED <<commands, lamp, faults, user, negative>>
    BY <1>3 DEF Dispatch, IInv, TypeOK
  <2> QED
    BY <1>3, <2>1, PublishKeeps DEF Dispatch
<1>4. CASE Poll
  BY <1>4, PollKeeps
<1>5. ASSUME NEW p \in Payloads \cup {{3}}, Deliver(p)
      PROVE  IInv'
  BY <1>5, DeliverKeeps
<1>6. CASE UserCommands
  BY <1>6, UserKeeps
<1>7. ASSUME NEW d \in Device, Stop(d)
      PROVE  IInv'
  BY <1>7, StopKeeps
<1>8. CASE Lose \/ Unheard
  BY <1>8, LosesKeep
<1>9. CASE OtherContent
  BY <1>9, OtherContentKeeps
<1>10. CASE Tick \/ ClockSet
  BY <1>10, ClockKeeps
<1> QED
  BY <1>1, <1>2, <1>3, <1>4, <1>5, <1>6, <1>7, <1>8, <1>9, <1>10 DEF Next

\* The invariant holds of every behaviour of the demo.
THEOREM InvariantHolds == Spec => []IInv
<1> QED  BY InitInvariant, NextInvariant, PTL DEF Spec

\* Type correctness: the brightness stays a uint8_t.
THEOREM TypeCorrect == Spec => []TypeOK
<1>1. IInv => TypeOK
  BY DEF IInv
<1> QED  BY <1>1, InvariantHolds, PTL

\* The light is never lit without a cause.
THEOREM LightIsCaused == Spec => []LightHasCause
<1>1. IInv => LightHasCause
  BY DEF IInv
<1> QED  BY <1>1, InvariantHolds, PTL

\* What the light announces is what it does, while no command is negative.
THEOREM SwitchIsAnnounced == Spec => []SwitchAnnounced
<1>1. IInv => SwitchAnnounced
  BY DEF IInv
<1> QED  BY <1>1, InvariantHolds, PTL
=============================================================================
