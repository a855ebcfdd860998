------------------------------ MODULE Esp8266 ------------------------------
(***************************************************************************)
(* The firmware's driver of the Wi-Fi module: the interrupt handler that   *)
(* takes one character at a time, and the module at the other end of the   *)
(* serial line, which is external.  The main loop sends commands and       *)
(* waits for ok_flag; Firmware says in which order.                        *)
(*                                                                         *)
(* Characters that no comparison of the driver names are ".".              *)
(***************************************************************************)
EXTENDS Naturals, Sequences

CONSTANTS
  Payloads,    \* contents of datagrams the module receives
  LEN_BUF,     \* size of len_buf (5)
  DATA_BUF,    \* size of data_buf (512)
  LineBound    \* bound: characters on the line when a datagram arrives

DigitOf == <<"1", "2", "3", "4", "5", "6", "7", "8", "9">>
Digits == {DigitOf[d] : d \in 1 .. 9}
Digit(c) == CHOOSE d \in 1 .. 9 : DigitOf[d] = c
Characters == {"O", "K", ">", "+", "I", "P", "D", ",", ":", "."} \union Digits

\* A datagram may be longer than data_buf: the module reports up to 1472 characters of UDP.
\* Its length is one digit here and four there; len_buf has place for it and the ":".
ASSUME Esp8266Assumption ==
  /\ \A p \in Payloads : p \in Seq(Characters) /\ Len(p) \in 1 .. 9
  /\ LEN_BUF \in Nat \ {0, 1}
  /\ DATA_BUF \in Nat \ {0}
  /\ LineBound \in Nat

VARIABLES
  ok_flag,     \* the main loop waits for it
  flag,        \* "O_F", "K_F": the progress in "OK"
  data_flag,   \* the progress in "+IPD,<len>:<data>"
  len_buf,     \* the characters of the length so far
  len, i,      \* the length, the index of the next character
  overflow,    \* a character was stored behind its buffer; nothing is known from then on
  line,        \* characters from the module to the interrupt
  job,         \* module: the command it works on, or "none"
  mode,        \* module: "command", or "data" after the prompt
  linked,      \* module: the connection is configured
  lost,        \* history: a character was lost on the line
  refused      \* history: the module answered an error

driver == <<ok_flag, flag, data_flag, len_buf, len, i, overflow>>
module == <<job, mode, linked, refused>>

EspInit ==
  /\ ok_flag = 0 /\ flag = "O_F"
  /\ data_flag = "ADD_S" /\ len_buf = <<>> /\ len = 0 /\ i = 0 /\ overflow = FALSE
  /\ line = <<>> /\ job = "none" /\ mode = "command" /\ linked = FALSE
  /\ lost = FALSE /\ refused = FALSE

-----------------------------------------------------------------------------
(* USART2_IRQHandler, dataHandler *)

\* atoi takes the digits up to the first other character.
atoi(s) ==
  LET prefix == CHOOSE n \in 0 .. Len(s) :
                  /\ \A k \in 1 .. n : s[k] \in Digits
                  /\ n < Len(s) => s[n + 1] \notin Digits
      value[n \in 0 .. prefix] == IF n = 0 THEN 0 ELSE 10 * value[n - 1] + Digit(s[n])
  IN  value[prefix]

\* "+IPD," is expected one character after the other.
Expected ==
  [ADD_S |-> <<"+", "I_S">>, I_S |-> <<"I", "P_S">>, P_S |-> <<"P", "D_S">>,
   D_S |-> <<"D", "H_S">>, H_S |-> <<",", "LEN_S">>]

LengthEnds(c) == c = ":"
DataEndsLate == i = len
DataEnds == i + 1 = len

Frame(c) ==
  CASE data_flag = "LEN_S" /\ LengthEnds(c) ->
         /\ len' = atoi(len_buf) /\ data_flag' = "DATA_S"
         /\ i' = 0 /\ len_buf' = <<>>
         /\ overflow' = (i >= LEN_BUF)
    [] data_flag = "LEN_S" /\ ~LengthEnds(c) ->
         /\ len_buf' = Append(len_buf, c) /\ i' = i + 1 /\ overflow' = (i >= LEN_BUF)
         /\ UNCHANGED <<len, data_flag>>
    [] data_flag = "DATA_S" ->
         /\ overflow' = (i >= DATA_BUF)
         /\ IF DataEnds THEN i' = 0 /\ data_flag' = "ADD_S"
            ELSE i' = i + 1 /\ UNCHANGED data_flag
         /\ UNCHANGED <<len, len_buf>>
    [] OTHER ->
         /\ data_flag' = IF c = Expected[data_flag][1] THEN Expected[data_flag][2] ELSE "ADD_S"
         /\ UNCHANGED <<len, len_buf, i, overflow>>

\* Looked for in every character, the ones of a datagram too.
Answered(c) ==
  CASE c = ">" -> ok_flag' = 1 /\ UNCHANGED flag
    [] c # ">" /\ ok_flag = 0 /\ flag = "O_F" ->
         flag' = (IF c = "O" THEN "K_F" ELSE "O_F") /\ UNCHANGED ok_flag
    [] c # ">" /\ ok_flag = 0 /\ flag = "K_F" ->
         flag' = "O_F" /\ ok_flag' = IF c = "K" THEN 1 ELSE 0
    [] OTHER -> UNCHANGED <<ok_flag, flag>>

dataHandler ==
  /\ line # <<>> /\ line' = Tail(line)
  /\ Frame(Head(line)) /\ Answered(Head(line))
  /\ UNCHANGED <<module, lost>>

LoseCharacter ==
  /\ line # <<>> /\ ~lost
  /\ line' = Tail(line) /\ lost' = TRUE
  /\ UNCHANGED <<driver, module>>

-----------------------------------------------------------------------------
(* The module *)

Say(text) == line' = line \o text
Busy == <<".">>
Messages == {"temperature", "humidity"}

\* What the module makes of what it is sent: nothing while it works; after the prompt
\* everything is data.
Transmit(what) ==
  /\ IF job = "none" THEN job' = what /\ UNCHANGED line ELSE Say(Busy) /\ UNCHANGED job
  /\ UNCHANGED <<mode, linked, lost, refused>>

\* The texts around an answer have an "O" of their own ("CONNECTED", "ERROR").
Ok == <<"O", ".", "O", "K">>
Failure == <<"O", ".">>

Refuse(may) ==
  /\ may /\ Say(Failure) /\ mode' = "command" /\ UNCHANGED linked /\ refused' = TRUE

Accept(text) == Say(text) /\ UNCHANGED refused

NextJob == job # "none" /\ job' = IF job = "CIPSEND" /\ linked THEN "prompt" ELSE "none"

\* The datagram leaves.
ModuleSends ==
  /\ NextJob /\ mode = "data"
  /\ Accept(Ok) /\ mode' = "command"
  /\ UNCHANGED <<linked, driver, lost>>

ModuleAnswers ==
  /\ NextJob
  /\ IF mode = "data" THEN Refuse(TRUE)
     ELSE \/ /\ job \in {"RST", "CIPCLOSE"}
             /\ Accept(Ok) /\ linked' = FALSE /\ UNCHANGED mode
          \/ /\ job \in {"CWMODE", "CWJAP"} /\ Accept(Ok) /\ UNCHANGED <<linked, mode>>
          \/ job = "CIFSR" /\ Accept(<<"+", ".">> \o Ok) /\ UNCHANGED <<linked, mode>>
          \/ job = "CIPSTART" /\ Accept(Ok) /\ linked' = TRUE /\ UNCHANGED mode
          \/ job = "CIPSEND" /\ linked /\ Accept(Ok) /\ UNCHANGED <<linked, mode>>
          \/ job = "prompt" /\ Accept(<<".", ">">>) /\ mode' = "data" /\ UNCHANGED linked
          \/ Refuse(job \in {"CWJAP", "CIPSTART"} \union Messages \/ (job = "CIPSEND" /\ ~linked))
  /\ UNCHANGED <<driver, lost>>

Datagram(payload) ==
  <<"+", "I", "P", "D", ",", DigitOf[Len(payload)], ":">> \o payload

\* Somebody sends a datagram to the module.
DatagramArrives ==
  /\ linked /\ mode = "command" /\ Len(line) <= LineBound
  /\ \E payload \in Payloads : Say(Datagram(payload))
  /\ UNCHANGED <<driver, module, lost>>
=============================================================================
