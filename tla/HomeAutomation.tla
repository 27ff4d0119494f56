--------------------------- MODULE HomeAutomation ---------------------------
(***************************************************************************)
(* The "if-hot-then-light" demo of docs/src/application.rst: a temperature *)
(* sensor (examples/tutorial-app-sub.c) publishes readings, an application *)
(* (app-template.c) polls them and commands a light (tutorial-app.c), which*)
(* the user commands too.  The pub-sub service of ndn-lite is external: it *)
(* keeps the latest reading until it expires, and a command in flight may  *)
(* be lost, delayed, overtaken or delivered again.                         *)
(***************************************************************************)
EXTENDS Integers, FiniteSets

CONSTANTS
  Publisher,     \* the devices that run periodic_publish
  Period,        \* the 400000 ms between two publications
  Payloads,      \* commands of the user: {} (no payload) or {the number said}
  Readings,      \* what other publishers of the temperature topic may say
  MaxLoss,       \* bound: commands lost
  MaxSteps,      \* bound: times the wall clock is set
  MaxStops,      \* bound: programs ended, to be started again
  QueueMayFill   \* ndn_msgqueue_post may return NULL

Sensor == "sensor"
Light  == "light"
Application == "application"
Device == {Sensor, Light, Application}

ASSUME HomeAssumption ==
  /\ Publisher \subseteq {Sensor, Light} /\ Sensor \in Publisher
  /\ Period \in Nat \ {0}
  /\ \A p \in Payloads : p \subseteq Int /\ Cardinality(p) <= 1
  /\ Readings \subseteq 0 .. 255
  /\ {MaxLoss, MaxSteps, MaxStops} \subseteq Nat /\ QueueMayFill \in BOOLEAN

VARIABLES
  booted,      \* devices running, past after_bootstrapping
  posted,      \* publishers with a periodic_publish in their message queue
  age,         \* ndn_time_now_ms() - last, as an integer, at most Period
  latest,      \* the reading on the temperature topic: {} or {degrees}
  commands,    \* payloads of commands on their way to the light
  brightness,  \* light_brightness, a uint8_t
  announced,   \* history: the last "Switch on" or "Turn off" of the light
  handled,     \* history: the payload of the last command handled
  lost, steps, stops, \* commands lost, clock settings and stops so far
  hot,         \* history: a reading above 80 has been published
  user,        \* history: the user has sent a command
  negative     \* history: the user has sent a negative number

timers  == <<posted, age>>
lamp    == <<brightness, announced, handled>>
faults  == <<lost, steps, stops>>
history == <<hot, user, negative>>
vars    == <<booted, timers, latest, commands, lamp, faults, history>>

\* `last' is 0 at first, long ago unless the clock starts at the epoch.
Init ==
  /\ booted = {} /\ posted = {}
  /\ age \in [Publisher -> 0 .. Period]
  /\ latest = {} /\ commands = {}
  /\ brightness = 0 /\ announced = "off" /\ handled = {}
  /\ lost = 0 /\ steps = 0 /\ stops = 0
  /\ hot = FALSE /\ user = FALSE /\ negative = FALSE

-----------------------------------------------------------------------------
(* periodic_publish of the light, periodic_publish_temp of the sensor. *)

\* Mutant: `last' is compared with the time as signed, and > for >=.
DueNever(d) == age[d] > Period

\* now - last >= 400000 in uint64_t: a difference below zero is enormous.
Due(d) == age[d] >= Period \/ age[d] < 0

\* Publish when due, set last, and post the next call: nobody looks at
\* whether the queue took it.
PeriodicPublish(d) ==
  /\ IF Due(d)
       THEN /\ age' = [age EXCEPT ![d] = 0]
            /\ latest' = IF d = Sensor THEN {90} ELSE latest
            /\ hot' = (hot \/ d = Sensor)
       ELSE UNCHANGED <<age, latest, hot>>
  /\ posted' \in {posted \cup {d}} \cup (IF QueueMayFill THEN {posted \ {d}} ELSE {})

\* after_bootstrapping: the subscription is made and, on a publisher,
\* periodic_publish called for the first time.
AfterBootstrapping(d) ==
  /\ d \notin booted
  /\ booted' = booted \cup {d}
  /\ IF d \in Publisher THEN PeriodicPublish(d) ELSE UNCHANGED <<timers, latest, hot>>
  /\ UNCHANGED <<commands, lamp, faults, user, negative>>

Dispatch(d) ==
  /\ d \in posted
  /\ PeriodicPublish(d)
  /\ UNCHANGED <<booted, commands, lamp, faults, user, negative>>

-----------------------------------------------------------------------------
(* The application. *)

\* A command reaches the light only once it has subscribed.
Notified(p) == IF Light \in booted THEN commands \cup {p} ELSE commands

\* Mutant: the comparison is the other way round.
OnTempContentCold(temp) ==
  commands' = IF temp <= 80 THEN Notified({3}) ELSE commands

\* on_temp_content: above 80 degrees, publish the command "3".
OnTempContent(temp) ==
  commands' = IF temp <= 80 THEN commands ELSE Notified({3})

\* The subscription polls every 4 s and may find the same reading again.
Poll ==
  /\ Application \in booted
  /\ \E temp \in latest : OnTempContent(temp)
  /\ UNCHANGED <<booted, timers, latest, lamp, faults, history>>

-----------------------------------------------------------------------------
(* The light. *)

\* What atoi makes of a payload; 0xFF when there is none.
NewVal(p) == IF p = {} THEN 255 ELSE CHOOSE v \in p : TRUE

\* Mutant: the value is stored before it is compared with the old one.
OnLightCommandLate(p) ==
  LET v   == NewVal(p)
      new == IF v < 10 THEN v % 256 ELSE 10
  IN  /\ handled' = p
      /\ IF v = 255
           THEN UNCHANGED <<brightness, announced>>
           ELSE /\ announced' = IF (v > 0) = (new > 0) THEN announced
                                ELSE IF v > 0 THEN "on" ELSE "off"
                /\ brightness' = new

\* Mutant: light_brightness is an int.
OnLightCommandWide(p) ==
  LET v == NewVal(p)
  IN  /\ handled' = p
      /\ IF v = 255
           THEN UNCHANGED <<brightness, announced>>
           ELSE /\ announced' = IF (v > 0) = (brightness > 0) THEN announced
                                ELSE IF v > 0 THEN "on" ELSE "off"
                /\ brightness' = IF v < 10 THEN v ELSE 10

\* on_light_command: 0xFF asks; below 10 the value is stored in a uint8_t,
\* from 10 on it is 10.  A switch between dark and lit is announced.
OnLightCommand(p) ==
  LET v == NewVal(p)
  IN  /\ handled' = p
      /\ IF v = 255
           THEN UNCHANGED <<brightness, announced>>
           ELSE /\ announced' = IF (v > 0) = (brightness > 0) THEN announced
                                ELSE IF v > 0 THEN "on" ELSE "off"
                /\ brightness' = IF v < 10 THEN v % 256 ELSE 10

\* A command that is not removed will be delivered again.
Deliver(p) ==
  /\ Light \in booted /\ p \in commands
  /\ OnLightCommand(p)
  /\ commands' \in {commands, commands \ {p}}
  /\ UNCHANGED <<booted, timers, latest, faults, history>>

\* A command that finds the light stopped is dropped.
Unheard ==
  /\ Light \notin booted
  /\ \E p \in commands : commands' = commands \ {p}
  /\ UNCHANGED <<booted, timers, latest, lamp, faults, history>>

-----------------------------------------------------------------------------
(* The environment. *)

\* A signal ends a program, which may then be started and bootstrapped again:
\* its statics are as at first, and `last' is long ago.  What it published
\* stays where it has been stored.
Stop(d) ==
  /\ d \in booted /\ stops < MaxStops
  /\ booted' = booted \ {d} /\ posted' = posted \ {d}
  /\ age' = [p \in Publisher |-> IF p = d THEN Period ELSE age[p]]
  /\ IF d = Light THEN brightness' = 0 /\ announced' = "off" /\ handled' = {}
     ELSE UNCHANGED lamp
  /\ stops' = stops + 1
  /\ UNCHANGED <<latest, commands, lost, steps, history>>

Lose ==
  /\ lost < MaxLoss
  /\ \E p \in commands : commands' = commands \ {p}
  /\ lost' = lost + 1
  /\ UNCHANGED <<booted, timers, latest, lamp, steps, stops, history>>

UserCommands ==
  /\ \E p \in Payloads :
       /\ commands' = Notified(p)
       /\ negative' = (negative \/ \E v \in p : v < 0)
  /\ user' = TRUE
  /\ UNCHANGED <<booted, timers, latest, lamp, faults, hot>>

\* The reading expires, or another publisher of the topic replaces it.
OtherContent ==
  /\ latest' \in {{}} \cup {{t} : t \in Readings}
  /\ hot' = (hot \/ \E t \in latest' : t > 80)
  /\ UNCHANGED <<booted, timers, commands, lamp, faults, user, negative>>

Later(t) == IF t < Period THEN t + 1 ELSE Period

Tick ==
  /\ age' = [d \in Publisher |-> Later(age[d])]
  /\ UNCHANGED <<booted, posted, latest, commands, lamp, faults, history>>

\* CLOCK_REALTIME is set, forwards or backwards.
ClockSet ==
  /\ steps < MaxSteps
  /\ steps' = steps + 1
  /\ \E d \in Publisher, t \in -Period .. Period : age' = [age EXCEPT ![d] = t]
  /\ UNCHANGED <<booted, posted, latest, commands, lamp, lost, stops, history>>

Next ==
  \/ \E d \in Device : AfterBootstrapping(d) \/ Stop(d)
  \/ \E d \in Publisher : Dispatch(d)
  \/ Poll
  \/ \E p \in Payloads \cup {{3}} : Deliver(p)
  \/ Unheard \/ Lose \/ UserCommands \/ OtherContent \/ Tick \/ ClockSet

Spec == Init /\ [][Next]_vars

\* The main loops dispatch what is posted, time passes, and a command in
\* flight arrives.  The subscription polls for ever, and a poll in the end
\* gets its answer.  Fairness asks no queue to refuse a post: a dispatch that
\* changes nothing but for that is a stutter it does not force.
Fairness ==
  /\ \A d \in Publisher : WF_vars(Dispatch(d) /\ d \in posted')
  /\ WF_vars(Tick)
  /\ WF_vars(Poll)
  /\ WF_vars(Deliver({3}))

FairSpec == Spec /\ Fairness

-----------------------------------------------------------------------------
TypeOK ==
  /\ booted \subseteq Device /\ posted \subseteq Publisher \cap booted
  /\ age \in [Publisher -> -Period .. Period]
  /\ latest \in {{}} \cup {{t} : t \in 0 .. 255}
  /\ commands \subseteq Payloads \cup {{3}}
  /\ handled \in Payloads \cup {{}, {3}}
  /\ brightness \in 0 .. 255 /\ announced \in {"on", "off"}
  /\ lost \in 0 .. MaxLoss /\ steps \in 0 .. MaxSteps /\ stops \in 0 .. MaxStops
  /\ {hot, user, negative} \subseteq BOOLEAN

\* Without a command of the user, the light is dark until some reading above 80
\* degrees has been published, and is then lit at 3 or dark: no stale, repeated
\* or reordered command and no restart makes anything else of it
\* (on_temp_content and on_light_command together).
LightHasCause ==
  ~user => brightness \in (IF hot THEN {0, 3} ELSE {0})

\* What the light last announced agrees with its brightness, and the
\* brightness stays in its range, under any order and repetition of commands,
\* as long as none is negative: a negative one wraps in the uint8_t and lights
\* the lamp unannounced.
SwitchAnnounced ==
  ~negative => brightness <= 10 /\ (announced = "on" <=> brightness > 0)

\* docs/src/examples.rst:115: a publication "every 400000ms".  A publisher
\* publishes again and again, however the clock is set and whatever device is
\* started again, unless it has been stopped or its queue has refused the next
\* call: the post at the end of periodic_publish ignores the NULL.
PublishesAgain ==
  \A d \in Publisher :
    \/ []<>(d \notin posted)
    \/ []<><<age[d] # 0 /\ age'[d] = 0 /\ UNCHANGED faults>>_vars

\* docs/src/application.rst:12: while the topic says more than 80 degrees the
\* light is brought to 3, even if some of the commands are lost, and again after
\* a restart of the light or the application.
Hot == \E t \in latest : t > 80
HotThenLight ==
  Hot /\ {Application, Light} \subseteq booted ~>
    brightness = 3 \/ ~Hot \/ ~({Application, Light} \subseteq booted)

\* docs/src/examples.rst:135: a number between 0 and 100 is the brightness.
CommandObeyed ==
  \A v \in handled : v \in 0 .. 100 => brightness = v
=============================================================================
