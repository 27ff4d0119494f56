---------------------------- MODULE DeviceProgram ----------------------------
(***************************************************************************)
(* How a device comes by its secrets and how its program lives and ends.   *)
(* tutorial-gen-new-shared-info.c writes the shared-info file, QR_encoder  *)
(* shows it to the controller, the user copies it for a device, and the    *)
(* device programs (tutorial-app.c, tutorial-app-sub.c, app-template.c,    *)
(* test-repo.c: one main and one load_bootstrapping_info) read it, set up  *)
(* their face and bootstrapping, and loop until a signal ends them.        *)
(***************************************************************************)
EXTENDS Integers, FiniteSets, Sequences

CONSTANTS
  Device,    \* the device programs
  Base,      \* 16: a character below it is a hexadecimal digit
  Secrets,   \* what the random generator may come up with
  KeyLen     \* bytes of the private key, the public key and the HMAC key

ASSUME DeviceAssumption ==
  /\ Base \in Nat \ {0}
  /\ {KeyLen.prv, KeyLen.pub, KeyLen.hmac} \subseteq Nat \ {0}
  /\ \A s \in Secrets :
       /\ s.id \in 0 .. Base - 1
       /\ s.prv \in [1 .. KeyLen.prv -> 0 .. Base * Base - 1]
       /\ s.pub \in [1 .. KeyLen.pub -> 0 .. Base * Base - 1]
       /\ s.hmac \in [1 .. KeyLen.hmac -> 0 .. Base * Base - 1]

VARIABLES
  made,      \* history: the secrets generated
  writing,   \* those the generator has not flushed yet, in a set
  text,      \* tutorial_shared_info.txt, a sequence of characters
  copy,      \* the copy each device reads
  qr,        \* what QR_encoder has read and shown, in a set of at most one
  stage,     \* where main of each device is
  running,   \* the flag its loop tests
  info,      \* what it has loaded, in a set of at most one
  signalled  \* history: the stage its last signal has come at

files  == <<made, writing, text, copy, qr>>
device == <<stage, running, info, signalled>>
vars   == <<files, device>>

\* The stages of main: before and after the handlers are installed, with the
\* secrets loaded, with bootstrapping started, at the test of the loop and in
\* ndn_forwarder_process; then how it has ended.
Before == {"handling", "loaded", "ready"}
Over   == {"ended", "failed", "killed"}
Stage  == {"off", "born", "loop", "turn"} \cup Before \cup Over

-----------------------------------------------------------------------------
(* The file: characters are integers, digits below Base. *)

NL     == -1
Letter == Base   \* stands for "device-"

\* %02X for each byte.
Hex(bytes) ==
  [i \in 1 .. 2 * Len(bytes) |->
     IF i % 2 = 1 THEN bytes[(i + 1) \div 2] \div Base ELSE bytes[i \div 2] % Base]

IdText(s) == <<Letter, s.id>>

Text(s) ==
  Hex(s.prv) \o <<NL>> \o IdText(s) \o <<NL>> \o Hex(s.pub) \o <<NL>> \o Hex(s.hmac)

\* Where line n of t ends: at its newline, or with the text.
EndOf(t, n) ==
  LET Breaks == {i \in DOMAIN t : t[i] = NL}
      nth    == {i \in Breaks : Cardinality({j \in Breaks : j <= i}) = n}
  IN  IF n = 0 THEN 0 ELSE CHOOSE i \in nth \cup (IF nth = {} THEN {Len(t)} ELSE {}) : TRUE

\* fgets and readline: line n with its newline, empty past the end.
Line(t, n) == SubSeq(t, EndOf(t, n - 1) + 1, EndOf(t, n))

\* buf[strlen(buf) - 1] = '\0', and the [:-1] of Python.
Chomp(line) == SubSeq(line, 1, Len(line) - 1)

\* sscanf("%2hhx") at k: up to two digits, and the zero that was there before
\* when there is none.
Byte(line, k) ==
  LET Digit(i) == i <= Len(line) /\ line[i] \in 0 .. Base - 1
  IN  IF ~Digit(k) THEN 0
      ELSE IF Digit(k + 1) THEN line[k] * Base + line[k + 1] ELSE line[k]

Bytes(line, n) == [i \in 1 .. n |-> Byte(line, 2 * i - 1)]

\* Mutant: a missing line is read as an empty one.
LoadableHead(t) == Line(t, 1) # << >>

\* load_bootstrapping_info: exit(1) when fgets returns NULL for a line.
Loadable(t) == \A n \in 1 .. 4 : Line(t, n) # << >>

Loaded(t) ==
  [prv  |-> Bytes(Line(t, 1), KeyLen.prv),
   id   |-> Chomp(Line(t, 2)),
   pub  |-> Bytes(Line(t, 3), KeyLen.pub),
   hmac |-> Bytes(Line(t, 4), KeyLen.hmac),
   from |-> t]

-----------------------------------------------------------------------------
Init ==
  /\ made = {} /\ writing = {} /\ text = << >> /\ qr = {}
  /\ copy = [d \in Device |-> << >>]
  /\ stage = [d \in Device |-> "off"]
  /\ running = [d \in Device |-> FALSE]
  /\ info = [d \in Device |-> {}]
  /\ signalled = [d \in Device |-> "off"]

\* fopen("w+") empties the file; what is printed waits in its buffer.
GenerateOpens ==
  /\ writing = {}
  /\ \E s \in Secrets \ made : writing' = {s} /\ made' = made \cup {s}
  /\ text' = << >>
  /\ UNCHANGED <<copy, qr, device>>

\* fclose flushes it.  Nobody looks at its result: on a full disk, or when the
\* program is killed, only some of the text is there.
GenerateCloses ==
  /\ \E s \in writing : \E n \in 0 .. Len(Text(s)) : text' = SubSeq(Text(s), 1, n)
  /\ writing' = {}
  /\ UNCHANGED <<made, copy, qr, device>>

Copy(d) ==
  /\ copy' = [copy EXCEPT ![d] = text]
  /\ UNCHANGED <<made, writing, text, qr, device>>

\* Mutant: the newline stays on the identifier.
EncodeQRUnstripped ==
  /\ qr' = {[id |-> Line(text, 2), pub |-> Chomp(Line(text, 3)),
             sym |-> Line(text, 4), from |-> text]}
  /\ UNCHANGED <<made, writing, text, copy, device>>

\* The first line, the private key, is skipped.
EncodeQR ==
  /\ qr' = {[id |-> Chomp(Line(text, 2)), pub |-> Chomp(Line(text, 3)),
             sym |-> Line(text, 4), from |-> text]}
  /\ UNCHANGED <<made, writing, text, copy, device>>

-----------------------------------------------------------------------------
(* main of a device program. *)

Goes(d, from, to) == stage[d] = from /\ stage' = [stage EXCEPT ![d] = to]

Launch(d) == Goes(d, "off", "born") /\ UNCHANGED <<files, running, info, signalled>>

\* The three calls of signal().
InstallHandlers(d) ==
  /\ Goes(d, "born", "handling")
  /\ UNCHANGED <<files, running, info, signalled>>

Load(d) ==
  /\ IF Loadable(copy[d])
       THEN Goes(d, "handling", "loaded") /\ info' = [info EXCEPT ![d] = {Loaded(copy[d])}]
       ELSE Goes(d, "handling", "failed") /\ UNCHANGED info
  /\ UNCHANGED <<files, running, signalled>>

\* ndn_lite_startup, the face, the services, ndn_security_bootstrapping.
SetUp(d) == Goes(d, "loaded", "ready") /\ UNCHANGED <<files, running, info, signalled>>

\* running is set after the handlers that clear it are in place.
EnterLoop(d) ==
  /\ Goes(d, "ready", "loop")
  /\ running' = [running EXCEPT ![d] = TRUE]
  /\ UNCHANGED <<files, info, signalled>>

\* ndn_forwarder_process and what it calls, after_bootstrapping with its
\* delays among them; a signal may come meanwhile.
Turn(d) ==
  /\ (running[d] /\ Goes(d, "loop", "turn")) \/ Goes(d, "turn", "loop")
  /\ UNCHANGED <<files, running, info, signalled>>

\* The face is destroyed and main returns.
Leave(d) ==
  /\ ~running[d] /\ Goes(d, "loop", "ended")
  /\ UNCHANGED <<files, running, info, signalled>>

\* Mutant: a second signal takes the first one back.
SignalHandlerToggles(d) == running' = [running EXCEPT ![d] = ~@]

SignalHandler(d) == running' = [running EXCEPT ![d] = FALSE]

\* SIGINT, SIGTERM or SIGQUIT: the default action ends a program that has not
\* installed its handlers.
Signal(d) ==
  /\ stage[d] \notin Over \cup {"off"}
  /\ signalled' = [signalled EXCEPT ![d] = stage[d]]
  /\ IF stage[d] = "born"
       THEN Goes(d, "born", "killed") /\ UNCHANGED running
       ELSE SignalHandler(d) /\ UNCHANGED stage
  /\ UNCHANGED <<files, info>>

Main(d) ==
  InstallHandlers(d) \/ Load(d) \/ SetUp(d) \/ EnterLoop(d) \/ Turn(d) \/ Leave(d)

Next ==
  \/ GenerateOpens \/ GenerateCloses \/ EncodeQR
  \/ \E d \in Device : Copy(d) \/ Launch(d) \/ Main(d) \/ Signal(d)

Spec == Init /\ [][Next]_vars

\* A program that has been started runs.
FairSpec == Spec /\ \A d \in Device : WF_vars(Main(d))

-----------------------------------------------------------------------------
Char == {NL} \cup 0 .. Base

TypeOK ==
  /\ made \subseteq Secrets /\ writing \subseteq made /\ Cardinality(writing) <= 1
  /\ \A t \in {text} \cup {copy[d] : d \in Device} : \A i \in DOMAIN t : t[i] \in Char
  /\ stage \in [Device -> Stage] /\ signalled \in [Device -> Stage]
  /\ running \in [Device -> BOOLEAN]
  /\ \A d \in Device : running[d] => stage[d] \in {"loop", "turn"}
  /\ Cardinality(qr) <= 1 /\ \A d \in Device : Cardinality(info[d]) <= 1

\* A device past load_bootstrapping_info has the keys and the identifier of one
\* run of the generator, whole, though the file may have been cut anywhere, be
\* half written or written again meanwhile: only the last line, the HMAC key,
\* may be cut, and the missing digits are then taken for zeros unnoticed.
LoadedWasMade ==
  \A d \in Device : \A i \in info[d] :
    \E s \in made :
      /\ i.prv = s.prv /\ i.id = IdText(s) /\ i.pub = s.pub
      /\ \E n \in 1 .. 2 * KeyLen.hmac :
           i.hmac = Bytes(SubSeq(Hex(s.hmac), 1, n), KeyLen.hmac)

\* A device and a QR code made from the same whole file agree on the
\* identifier, the public key and the shared secret, digit by digit: what
\* load_bootstrapping_info and QR_encoder.py read out of it is the same.
PairedAlike ==
  \A d \in Device : \A i \in info[d], q \in qr :
    i.from = q.from /\ (\E s \in made : i.from = Text(s)) =>
      q.id = i.id /\ q.pub = Hex(i.pub) /\ q.sym = Hex(i.hmac)

\* A signal ends the program, unless it comes after the handlers are installed
\* and before the loop: main then sets the flag that the handler has cleared.
SignalEnds ==
  \A d \in Device :
    signalled[d] # "off" ~> stage[d] \in Over \/ signalled[d] \in Before
=============================================================================
