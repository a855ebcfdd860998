------------------------------ MODULE Firmware ------------------------------
(***************************************************************************)
(* The firmware of the sensor node: the main loop of user/main.c, which    *)
(* reads the DHT11 and sends two datagrams, over the driver of the Wi-Fi   *)
(* module.  The main loop is a sequence of instructions; the interrupt     *)
(* may come between any two.                                               *)
(***************************************************************************)
EXTENDS Esp8266

CONSTANTS
  Values,   \* readings of the sensor
  Bad       \* five bytes whose checksum is wrong

ASSUME FirmwareAssumption == Values \subseteq Nat \ {0} /\ Bad \notin Nat

VARIABLES
  pc,         \* index into Program
  dht_data,   \* the buffer: a reading, 0 at first, or Bad
  current,    \* current_temp and current_hum
  sensor,     \* "working", or "dead": it stopped in the middle of a frame
  air,        \* the last datagram sent
  lastGood,   \* history: the last reading that came through
  untimely    \* history: a delay was too short for the module

main == <<pc, dht_data, current, sensor, lastGood>>
firmwareVars == <<driver, module, line, lost, main, air, untimely>>

-----------------------------------------------------------------------------
(* The program *)

Clear == [do |-> "clear", what |-> "none"]
Send(what) == [do |-> "send", what |-> what]
Wait == [do |-> "wait", what |-> "none"]
Delay == [do |-> "delay", what |-> "none"]
ReadSensor == [do |-> "read", what |-> "none"]

esp8266_link_wifi ==
  <<Send("RST"), Delay, Clear, Send("CWMODE"), Wait, Clear, Send("CWJAP"), Wait, Send("CIFSR")>>

esp8266_connect_udp_multicast == <<Send("CIPCLOSE"), Delay, Send("CIPSTART"), Delay>>

ClearedOnce(message) ==
  <<Clear, Send("CIPSEND"), Wait, Wait, Clear, Send(message), Wait>>
AnswerTwice(message) ==
  <<Clear, Send("CIPSEND"), Wait, Clear, Wait, Clear, Send(message), Wait, Clear, Wait>>
\* OK, the prompt, SEND OK
esp8266_send(message) ==
  <<Clear, Send("CIPSEND"), Wait, Clear, Wait, Clear, Send(message), Wait>>

Start == esp8266_link_wifi \o <<Delay>> \o esp8266_connect_udp_multicast
Loop ==
  <<ReadSensor>> \o esp8266_send("temperature") \o <<Delay>> \o esp8266_send("humidity") \o <<Delay>>
Program == Start \o Loop

Instruction == Program[pc]
Advance == pc' = IF pc = Len(Program) THEN Len(Start) + 1 ELSE pc + 1

FirmwareInit ==
  /\ EspInit
  /\ pc = 1 /\ dht_data = 0 /\ current = 0 /\ sensor = "working"
  /\ air = [what |-> "humidity", value |-> 0]
  /\ lastGood = 0 /\ untimely = FALSE

\* Delays are longer than the module needs.
DelayTooShort == job # "none" \/ line # <<>>

Sending ==
  /\ Instruction.do = "send" /\ Transmit(Instruction.what) /\ Advance
  /\ UNCHANGED <<driver, dht_data, current, sensor, lastGood, air, untimely>>

Clearing ==
  /\ Instruction.do = "clear" /\ ok_flag' = 0 /\ Advance
  /\ UNCHANGED <<flag, data_flag, len_buf, len, i, overflow>>
  /\ UNCHANGED <<module, line, lost, dht_data, current, sensor, lastGood, air, untimely>>

Waiting ==
  /\ Instruction.do = "wait" /\ ok_flag = 1 /\ Advance
  /\ UNCHANGED <<driver, module, line, lost, dht_data, current, sensor, lastGood, air, untimely>>

Delaying ==
  /\ Instruction.do = "delay" /\ Advance
  /\ untimely' = (untimely \/ DelayTooShort)
  /\ UNCHANGED <<driver, module, line, lost, dht_data, current, sensor, lastGood, air>>

EmptyBuffer == 0
\* After a timeout the buffer is what it was.
TimedOut == dht_data

\* get_dht_value and the check: a wrong checksum keeps the last values, a timeout takes
\* the buffer again.
Reading ==
  /\ Instruction.do = "read" /\ sensor = "working" /\ Advance
  /\ \/ \E v \in Values : dht_data' = v /\ lastGood' = v
     \/ dht_data' = Bad /\ UNCHANGED lastGood
     \/ dht_data' = TimedOut /\ UNCHANGED lastGood
  /\ current' = IF dht_data' = Bad THEN current ELSE dht_data'
  /\ UNCHANGED <<driver, module, line, lost, sensor, air, untimely>>

\* No further edge comes from the sensor: the driver waits for it without a limit.
SensorDies ==
  /\ Instruction.do = "read" /\ sensor = "working" /\ sensor' = "dead"
  /\ UNCHANGED <<driver, module, line, lost, pc, dht_data, current, lastGood, air, untimely>>

Main == Sending \/ Clearing \/ Waiting \/ Delaying \/ Reading \/ SensorDies

\* The line brings a character in 87 us: the loop has left a wait that is over, and
\* cleared the flag, before the next one.
LoopAhead == Instruction.do # "clear" /\ ~(Instruction.do = "wait" /\ ok_flag = 1)

Interrupt == LoopAhead /\ dataHandler /\ UNCHANGED <<main, air, untimely>>

Leaves == ModuleSends /\ air' = [what |-> job, value |-> current]

Module == (Leaves \/ (ModuleAnswers /\ UNCHANGED air)) /\ UNCHANGED <<main, untimely>>

Noise == LoseCharacter /\ UNCHANGED <<main, air, untimely>>
Peer == DatagramArrives /\ UNCHANGED <<main, air, untimely>>

\* Nothing is known after a character was stored behind its buffer.
FirmwareNext == ~overflow /\ (Main \/ Interrupt \/ Module \/ Noise \/ Peer)

FirmwareSpec == FirmwareInit /\ [][FirmwareNext]_firmwareVars

\* The processor runs, interrupts are taken, the module answers.
Fairness ==
  /\ WF_firmwareVars(~overflow /\ Main)
  /\ WF_firmwareVars(~overflow /\ Interrupt)
  /\ WF_firmwareVars(~overflow /\ Module)

FairSpec == FirmwareSpec /\ Fairness
-----------------------------------------------------------------------------
FirmwareTypeOK ==
  /\ ok_flag \in {0, 1} /\ flag \in {"O_F", "K_F"}
  /\ data_flag \in {"ADD_S", "I_S", "P_S", "D_S", "H_S", "LEN_S", "DATA_S"}
  /\ len_buf \in Seq(Characters) /\ Len(len_buf) <= LEN_BUF + 1
  /\ line \in Seq(Characters)
  /\ mode \in {"command", "data"} /\ pc \in 1 .. Len(Program)
  /\ dht_data \in Values \union {0, Bad} /\ current \in Values \union {0}
  /\ {overflow, linked, lost, refused, untimely} \subseteq BOOLEAN

\* The program and the module agree where they are: a command is sent to a module that
\* is ready for one, a message to one that has given the prompt.
HandshakeInStep ==
  ~untimely /\ Instruction.do = "send" =>
    /\ job = "none"
    /\ mode = IF Instruction.what \in Messages THEN "data" ELSE "command"

\* Datagrams alternate between the two sensors and carry the last reading that came
\* through, whatever the sensor did since; none is sent twice (main.c:98).
DatagramsAlternate ==
  [][~untimely /\ ModuleSends =>
       air'.what \in Messages \ {air.what} /\ air'.value = lastGood]_firmwareVars

\* As long as no character is lost every frame is read as one, whatever it holds.  The parser
\* leaves its buffers exactly where a datagram is longer than data_buf, which nothing in the
\* code prevents (esp8266.c:79): never for a length, and not by a shorter one.
FramesInStep ==
  /\ FirmwareTypeOK
  /\ ~lost =>
       /\ overflow => /\ len > DATA_BUF
                       /\ <<data_flag, i>> \in {<<"DATA_S", DATA_BUF + 1>>, <<"ADD_S", 0>>}
       /\ ~overflow /\ line = <<>> => data_flag = "ADD_S" /\ i = 0 /\ len <= DATA_BUF

\* The loop goes on unless a character was lost, the module refused, the sensor died or a
\* datagram was longer than its buffer.
KeepsSending ==
  \/ []<>(Instruction = ReadSensor)
  \/ <>(lost \/ refused \/ sensor = "dead" \/ untimely \/ overflow)
=============================================================================
