-------------------------------- MODULE Iec --------------------------------
(***************************************************************************)
(* The serial bus: the main loop of iec.c with its listen and talk          *)
(* handlers, the ATN interrupt, and the computer at the other end.         *)
(*                                                                         *)
(* The computer works through a script, one event after the other: raise   *)
(* ATN (pull the line low), send a byte under ATN, release ATN, send a      *)
(* data byte, fetch one.  The transfer of a byte is one step of both sides. *)
(* Bytes under ATN are records: what they ask for, and the channel.         *)
(*                                                                         *)
(* Left out: the fast protocols (JiffyDOS, DolphinDOS, the loaders), the    *)
(* bits of a byte, and the contents of files: a channel knows how many      *)
(* bytes it still has to deliver.                                          *)
(***************************************************************************)
EXTENDS Integers, Sequences

CONSTANTS
  Channels,     (* the file channels the computer uses, out of 0 .. 14 *)
  CommandSize,  (* CONFIG_COMMAND_BUFFER_SIZE *)
  Lengths,      (* the lengths of the commands and names sent *)
  FileSize,     (* a bound on the length of a file or status text *)
  Prompt,       (* the computer leaves the drive the few microseconds between
                   the end of a transfer and the state it rests in *)
  CanBreak,     (* RUN/STOP and RESTORE may end an operation at any point *)
  None

ASSUME IecAssumption ==
  /\ Channels \subseteq 0 .. 14
  /\ CommandSize \in Nat \ {0} /\ FileSize \in Nat \ {0}
  /\ Lengths \subseteq Nat \ {0}
  /\ Prompt \in BOOLEAN /\ CanBreak \in BOOLEAN

VARIABLES
  (* the drive *)
  bus_state, device_state,
  cmd,                (* the byte last received under ATN; None after a -1 *)
  secondary_address,
  command_buffer,     (* with its length, command_length *)
  eoi, recvd,         (* the flags EOI_RECVD and COMMAND_RECVD *)
  irq,                (* the ATN interrupt is enabled *)
  data, clock,        (* the drive pulls the line low *)
  chan,               (* what is open on each channel *)
  (* the computer *)
  atn,                (* it pulls ATN low *)
  todo,               (* the rest of its script *)
  op,                 (* the operation the script belongs to *)
  mark,               (* tells the text of one command from the next one's *)
  (* history *)
  asked,              (* the command taken and not carried out yet *)
  served              (* what was carried out last *)

bus    == <<bus_state, device_state, cmd, secondary_address, eoi>>
lines  == <<irq, data, clock>>
host   == <<atn, todo, op, mark>>
ghosts == <<asked, served>>
vars   == <<bus, command_buffer, recvd, lines, chan, host, ghosts>>

StatusChannel == 15
DeviceAddress == 8

(* A channel: not open, to be read (the bytes left), read to the end, to be *)
(* written, or a direct access buffer, read and written.                    *)
Closed   == [mode |-> "none", left |-> 0]
Modes    == {"none", "read", "spent", "write", "direct"}
OpenFor(mode) == [mode |-> mode, left |-> FileSize]
Mode(c)  == IF c \in DOMAIN chan THEN chan[c].mode ELSE "none"

(* find_buffer(cmd & 0x0f): a byte that never came is 0xff, and one that is *)
(* a primary address has the device address in it.                          *)
Low(c)    == IF c = None THEN StatusChannel
             ELSE IF c.kind \in {"LISTEN", "TALK"} THEN DeviceAddress ELSE c.ch
IsOpen(c) == c = None \/ c.kind = "OPEN"

Init ==
  /\ bus_state = "IDLE" /\ device_state = "IDLE"
  /\ cmd = None /\ secondary_address = 0
  /\ command_buffer = <<>> /\ eoi = FALSE /\ recvd = FALSE
  /\ irq = FALSE /\ data = FALSE /\ clock = FALSE
  /\ chan = [c \in Channels \cup {StatusChannel} |->
               IF c = StatusChannel THEN OpenFor("direct") ELSE Closed]
  /\ atn = FALSE /\ todo = <<>> /\ op = None /\ mark = 0
  /\ asked = None /\ served = None
-----------------------------------------------------------------------------
(***************************************************************************)
(* The computer: one script for each operation of its system.              *)
(***************************************************************************)
Ev(name)    == [ev |-> name]
B(kind, ch) == [ev |-> "byte", kind |-> kind, ch |-> ch]
Send(token, last) == [ev |-> "send", token |-> token, last |-> last]

UnderAtn(bytes) == <<Ev("atn")>> \o bytes \o <<Ev("off")>>
Unlisten == UnderAtn(<<B("UNLISTEN", 0)>>)
Untalk   == UnderAtn(<<B("UNTALK", 0)>>)

TextOf(m, n) == [i \in 1 .. n |-> <<m, i>>]
Text(n)     == TextOf(mark, n)
Sends(text) == [i \in 1 .. Len(text) |-> Send(text[i], i = Len(text))]

(* What the drive keeps of a command: the buffer has CommandSize bytes.     *)
Taken(text) == SubSeq(text, 1, IF Len(text) < CommandSize THEN Len(text) ELSE CommandSize)

Begin(ch, text, script) ==
  /\ todo = <<>>
  /\ todo' = script
  /\ op' = [ch |-> ch, text |-> Taken(text)]
  /\ mark' = IF text = <<>> THEN mark ELSE 1 - mark
  /\ UNCHANGED <<bus, command_buffer, recvd, lines, chan, atn, ghosts>>

(* OPEN with a name; on channel 15 it is a command.                         *)
Open(ch, n) ==
  Begin(ch, Text(n), UnderAtn(<<B("LISTEN", 0), B("OPEN", ch)>>) \o Sends(Text(n)) \o Unlisten)

(* PRINT#15, a command.                                                    *)
Command(n) ==
  Begin(StatusChannel, Text(n),
        UnderAtn(<<B("LISTEN", 0), B("DATA", StatusChannel)>>) \o Sends(Text(n)) \o Unlisten)

(* PRINT# to a file: two bytes.                                            *)
PrintFile(ch) ==
  Begin(ch, <<>>,
        UnderAtn(<<B("LISTEN", 0), B("DATA", ch)>>)
          \o <<Send(<<>>, FALSE), Send(<<>>, TRUE)>> \o Unlisten)

(* INPUT# or GET#: some bytes, at most up to the end.                       *)
Read(ch) ==
  Begin(ch, <<>>, UnderAtn(<<B("TALK", 0), B("DATA", ch)>>) \o <<Ev("get")>> \o Untalk)

Close(ch) ==
  Begin(ch, <<>>, UnderAtn(<<B("LISTEN", 0), B("CLOSE", ch)>>) \o Unlisten)

(* The computer talks to another device on the bus.                         *)
Elsewhere ==
  Begin(None, <<>>, UnderAtn(<<B("OTHER", 0), B("DATA", 0)>>) \o <<Ev("pass")>> \o Unlisten)

StartOp ==
  \/ \E ch \in Channels, n \in Lengths : Open(ch, n)
  \/ \E n \in Lengths : Command(n)
  \/ \E ch \in Channels : PrintFile(ch)
  \/ \E ch \in Channels \cup {StatusChannel} : Read(ch) \/ Close(ch)
  \/ Elsewhere

Expects(name) == todo # <<>> /\ Head(todo).ev = name

Proceed(rest) ==
  /\ todo' = rest
  /\ op' = IF rest = <<>> THEN None ELSE op
  /\ UNCHANGED mark

(* An operation that fails goes on with its last ATN sequence, if any.      *)
Ending ==
  LET starts == {i \in DOMAIN todo : todo[i].ev = "atn"}
  IN IF starts = {} THEN <<>>
     ELSE SubSeq(todo, CHOOSE i \in starts : \A j \in starts : i <= j, Len(todo))

(* The states in which the drive does nothing but wait for ATN to be        *)
(* released, which it notices before the computer raises it again, and those *)
(* it is in for a few microseconds.                                        *)
AwaitsRelease == {"FOUNDATN", "ATNACTIVE", "FORME", "NOTFORME", "ATNFINISH"}
Fleeting      == {"ATNPROCESS", "CLEANUP", "RELEASE"}

(* The interrupt handler, when enabled, answers with DATA.                  *)
AtnHandler == data' = (data \/ irq)

AtnOn ==
  /\ Expects("atn")
  /\ bus_state \notin AwaitsRelease
  /\ Prompt => bus_state \notin Fleeting
  /\ atn' = TRUE
  /\ AtnHandler
  /\ Proceed(Tail(todo))
  /\ UNCHANGED <<bus, command_buffer, recvd, irq, clock, chan, ghosts>>

AtnOff ==
  /\ Expects("off")
  /\ atn' = FALSE
  /\ Proceed(Tail(todo))
  /\ UNCHANGED <<bus, command_buffer, recvd, lines, chan, ghosts>>

(* Nobody pulls DATA under ATN: "device not present".                       *)
NotPresent ==
  /\ Expects("byte") /\ op.ch # None
  /\ ~data /\ bus_state \in {"EXECUTE", "SLEEP"}
  /\ Proceed(<<Ev("off")>>)
  /\ UNCHANGED <<bus, command_buffer, recvd, lines, chan, atn, ghosts>>

(* A byte between the computer and another device, which the drive leaves   *)
(* alone as long as it leaves DATA alone.                                  *)
PassBy ==
  /\ ~data
  /\ \/ Expects("pass") /\ ~atn
     \/ Expects("byte") /\ op.ch = None /\ bus_state \in {"ATNFINISH", "EXECUTE", "SLEEP"}
  /\ Proceed(Tail(todo))
  /\ UNCHANGED <<bus, command_buffer, recvd, lines, chan, atn, ghosts>>

(* The drive does not listen, or does not talk: an error or a time-out.     *)
GivesUp ==
  /\ ~atn
  /\ \/ Expects("send") /\ ~data /\ bus_state # "LISTENING"
     \/ Expects("get") /\ bus_state \in {"CLEANUP", "RELEASE", "EXECUTE", "IDLE", "SLEEP"}
  /\ Proceed(Ending)
  /\ UNCHANGED <<bus, command_buffer, recvd, lines, chan, atn, ghosts>>

(* The computer's break key: its system releases ATN, the drive is not told. *)
Break ==
  /\ CanBreak /\ todo # <<>>
  /\ atn' = FALSE
  /\ Proceed(<<>>)
  /\ UNCHANGED <<bus, command_buffer, recvd, lines, chan, ghosts>>
-----------------------------------------------------------------------------
(***************************************************************************)
(* The drive: the states of iec_mainloop.                                  *)
(***************************************************************************)

(* BUS_IDLE waits for ATN, or for the sleep key.                            *)
Idle ==
  /\ bus_state = "IDLE" /\ (atn \/ ~irq)
  /\ irq' = TRUE
  /\ bus_state' = IF atn THEN "FOUNDATN" ELSE "IDLE"
  /\ UNCHANGED <<device_state, cmd, secondary_address, eoi, command_buffer, recvd, data,
                 clock, chan, host, ghosts>>

SleepKey ==
  /\ bus_state = "IDLE" /\ ~atn
  /\ bus_state' = "SLEEP"
  /\ irq' = FALSE /\ data' = FALSE /\ clock' = FALSE
  /\ UNCHANGED <<device_state, cmd, secondary_address, eoi, command_buffer, recvd, chan, host,
                 ghosts>>

WakeKey ==
  /\ bus_state = "SLEEP"
  /\ bus_state' = "IDLE"
  /\ UNCHANGED <<device_state, cmd, secondary_address, eoi, command_buffer, recvd, lines, chan,
                 host, ghosts>>

FoundAtn ==
  /\ bus_state = "FOUNDATN"
  /\ clock' = FALSE /\ data' = TRUE /\ irq' = FALSE
  /\ device_state' = "IDLE" /\ eoi' = FALSE
  /\ bus_state' = IF atn THEN "ATNACTIVE" ELSE "ATNPROCESS"
  /\ UNCHANGED <<cmd, secondary_address, command_buffer, recvd, chan, host, ghosts>>

(* A byte under ATN, by what it asks for.                                   *)
Hears(kinds) ==
  /\ bus_state = "ATNACTIVE"
  /\ Expects("byte") /\ Head(todo).kind \in kinds
  /\ cmd' = [kind |-> Head(todo).kind, ch |-> Head(todo).ch]
  /\ Proceed(Tail(todo))
  /\ UNCHANGED <<eoi, command_buffer, recvd, lines, chan, atn, ghosts>>

UnlistenUntalk(kind, state) ==
  /\ Hears({kind})
  /\ device_state' = IF device_state = state THEN "IDLE" ELSE device_state
  /\ bus_state' = "ATNFINISH"
  /\ UNCHANGED secondary_address

MyAddress(kind) ==
  /\ Hears({kind})
  /\ device_state' = kind
  /\ bus_state' = "FORME"
  /\ UNCHANGED secondary_address

Secondary ==
  /\ Hears({"DATA", "OPEN", "CLOSE"})
  /\ secondary_address' = Head(todo).ch
  /\ bus_state' = IF Head(todo).kind = "CLOSE" THEN "CLOSING" ELSE "ATNFINISH"
  /\ UNCHANGED device_state

NotForMe ==
  /\ Hears({"OTHER"})
  /\ bus_state' = "NOTFORME"
  /\ UNCHANGED <<device_state, secondary_address>>

(* iec_getc notices that ATN is released: no byte, cmd becomes -1.          *)
AtnReleased ==
  /\ bus_state = "ATNACTIVE" /\ ~atn
  /\ cmd' = None
  /\ bus_state' = "ATNPROCESS"
  /\ UNCHANGED <<device_state, secondary_address, eoi, command_buffer, recvd, lines, chan, host,
                 ghosts>>

(* The buffers a CLOSE frees; writing the rest of a file takes its time and *)
(* may fail.                                                               *)
Closes(c) == IF c = StatusChannel THEN Channels ELSE {c} \cap Channels

DoClose ==
  /\ bus_state = "CLOSING"
  /\ chan' = [c \in DOMAIN chan |->
                IF c \in Closes(secondary_address) THEN Closed ELSE chan[c]]
  /\ \/ bus_state' = "FORME"
     \/ /\ \E c \in Closes(secondary_address) : chan[c].mode = "write"
        /\ bus_state' = "CLEANUP"
  /\ UNCHANGED <<device_state, cmd, secondary_address, eoi, command_buffer, recvd, lines, host,
                 ghosts>>

ForMe ==
  /\ bus_state = "FORME"
  /\ bus_state' = IF atn THEN "ATNACTIVE" ELSE "ATNPROCESS"
  /\ UNCHANGED <<device_state, cmd, secondary_address, eoi, command_buffer, recvd, lines, chan,
                 host, ghosts>>

LetGo ==
  /\ bus_state = "NOTFORME"
  /\ irq' = FALSE /\ data' = FALSE /\ clock' = FALSE
  /\ bus_state' = "ATNFINISH"
  /\ UNCHANGED <<device_state, cmd, secondary_address, eoi, command_buffer, recvd, chan, host,
                 ghosts>>

AtnFinish ==
  /\ bus_state = "ATNFINISH" /\ ~atn
  /\ bus_state' = "ATNPROCESS"
  /\ UNCHANGED <<device_state, cmd, secondary_address, eoi, command_buffer, recvd, lines, chan,
                 host, ghosts>>

(* A talker takes CLOCK over from the computer.                             *)
Turnaround ==
  IF device_state = "TALK" THEN data' = FALSE /\ clock' = TRUE ELSE UNCHANGED <<data, clock>>

(* BUS_ATNPROCESS, and the beginning of the two handlers.                   *)
AtnProcess ==
  /\ bus_state = "ATNPROCESS"
  /\ irq' = TRUE
  /\ Turnaround
  /\ bus_state' =
       IF device_state = "LISTEN" /\ (IsOpen(cmd) \/ Mode(Low(cmd)) \in {"write", "direct"})
         THEN "LISTENING"
       ELSE IF device_state = "TALK" /\ Mode(Low(cmd)) \in {"read", "direct"} THEN "TALKING"
       ELSE "CLEANUP"
  /\ UNCHANGED <<device_state, cmd, secondary_address, eoi, command_buffer, recvd, chan, host,
                 ghosts>>

(* mutant: only the talk handler checks ATN *)
SeesAtnTalking ==
  /\ bus_state = "TALKING" /\ atn
  /\ bus_state' = "FOUNDATN"
  /\ UNCHANGED <<device_state, cmd, secondary_address, eoi, command_buffer, recvd, lines, chan,
                 host, ghosts>>

(* The handlers leave as soon as they see ATN.                              *)
SeesAtn ==
  /\ bus_state \in {"LISTENING", "TALKING"} /\ atn
  /\ bus_state' = "FOUNDATN"
  /\ UNCHANGED <<device_state, cmd, secondary_address, eoi, command_buffer, recvd, lines, chan,
                 host, ghosts>>

(* A byte for iec_listen_handler.                                           *)
Listens ==
  /\ bus_state = "LISTENING" /\ Expects("send") /\ ~atn
  /\ eoi' = (eoi \/ Head(todo).last)
  /\ Proceed(Tail(todo))
  /\ UNCHANGED <<device_state, cmd, secondary_address, lines, atn>>

(* A byte of a command is kept as long as there is room.                    *)
Keep(token) ==
  IF Len(command_buffer) < CommandSize THEN Append(command_buffer, token) ELSE command_buffer

(* ... of a command or name, complete at EOI.                               *)
CommandByte ==
  /\ Listens
  /\ Low(cmd) = StatusChannel \/ IsOpen(cmd)
  /\ command_buffer' = Keep(Head(todo).token)
  /\ recvd' = (recvd \/ eoi')
  /\ asked' = IF Head(todo).last THEN op ELSE asked
  /\ UNCHANGED <<bus_state, chan, served>>

(* ... of a file: stored, unless the full block before it cannot be; then   *)
(* the buffer is gone, the handler returns and is entered again.            *)
FileByte ==
  /\ Listens
  /\ Low(cmd) # StatusChannel /\ ~IsOpen(cmd)
  /\ \/ UNCHANGED <<bus_state, chan>>
     \/ /\ Mode(Low(cmd)) = "write"
        /\ chan' = [chan EXCEPT ![Low(cmd)] = Closed]
        /\ bus_state' = "ATNPROCESS"
  /\ UNCHANGED <<command_buffer, recvd, ghosts>>

(* A byte from iec_talk_handler, the last one with EOI.  After it a file is *)
(* at its end and the status or direct access buffer starts again; between   *)
(* two blocks a file may turn out to be unreadable.                         *)
TalkByte ==
  LET c == Low(cmd)
      finalbyte == chan[c].left = 1
  IN /\ bus_state = "TALKING" /\ Expects("get") /\ ~atn
     /\ \/ /\ ~finalbyte
           /\ chan' = [chan EXCEPT ![c].left = @ - 1]
           /\ UNCHANGED bus_state
        \/ /\ ~finalbyte /\ chan[c].mode = "read"
           /\ chan' = [chan EXCEPT ![c] = Closed]
           /\ bus_state' = "CLEANUP"
        \/ /\ finalbyte /\ chan[c].mode = "read"
           /\ chan' = [chan EXCEPT ![c] = [mode |-> "spent", left |-> 0]]
           /\ bus_state' = "CLEANUP"
        \/ /\ finalbyte /\ chan[c].mode = "direct"
           /\ chan' = [chan EXCEPT ![c] = OpenFor("direct")]
           /\ UNCHANGED bus_state
     /\ \/ Proceed(Tail(todo))
        \/ ~finalbyte /\ UNCHANGED <<todo, op, mark>>
     /\ UNCHANGED <<device_state, cmd, secondary_address, eoi, command_buffer, recvd, lines, atn,
                    ghosts>>

(* BUS_CLEANUP, in the order of its writes to the interrupt and the lines.  *)
Cleanup ==
  /\ bus_state = "CLEANUP"
  /\ irq' = TRUE
  /\ bus_state' = "RELEASE"
  /\ UNCHANGED <<device_state, cmd, secondary_address, eoi, command_buffer, recvd, data, clock,
                 chan, host, ghosts>>

(* mutant: CLOCK is not released *)
ReleaseData ==
  /\ bus_state = "RELEASE"
  /\ data' = FALSE
  /\ bus_state' = IF recvd THEN "EXECUTE" ELSE "IDLE"
  /\ UNCHANGED <<device_state, cmd, secondary_address, eoi, command_buffer, recvd, irq, clock,
                 chan, host, ghosts>>

(* mutant: a name waits in the buffer until the next listener *)
ReleaseCommandsOnly ==
  /\ bus_state = "RELEASE"
  /\ data' = FALSE /\ clock' = FALSE
  /\ bus_state' = IF recvd /\ secondary_address = StatusChannel THEN "EXECUTE" ELSE "IDLE"
  /\ UNCHANGED <<device_state, cmd, secondary_address, eoi, command_buffer, recvd, irq, chan,
                 host, ghosts>>

Release ==
  /\ bus_state = "RELEASE"
  /\ data' = FALSE /\ clock' = FALSE
  /\ bus_state' = IF recvd THEN "EXECUTE" ELSE "IDLE"
  /\ UNCHANGED <<device_state, cmd, secondary_address, eoi, command_buffer, recvd, irq, chan,
                 host, ghosts>>

(* mutant: the length of the command is not reset *)
EndOfCommandKept == recvd' = FALSE /\ UNCHANGED command_buffer

(* The command is forgotten after it was carried out.                       *)
EndOfCommand == command_buffer' = <<>> /\ recvd' = FALSE

(* The command or name is carried out: parse_doscommand or file_open.  A    *)
(* command may close channels, a name opens one, or nothing.                *)
Execute ==
  /\ bus_state = "EXECUTE"
  /\ EndOfCommand
  /\ \/ /\ secondary_address = StatusChannel
        /\ chan' \in {chan, [c \in DOMAIN chan |-> IF c \in Channels THEN Closed ELSE chan[c]]}
     \/ /\ secondary_address # StatusChannel
        /\ \E mode \in {"read", "write", "direct"} :
             chan' \in {[chan EXCEPT ![secondary_address] = Closed],
                       [chan EXCEPT ![secondary_address] = OpenFor(mode)]}
  /\ served' = [ch |-> secondary_address, text |-> command_buffer]
  /\ asked' = None
  /\ bus_state' = "IDLE"
  /\ UNCHANGED <<device_state, cmd, secondary_address, eoi, lines, host>>

-----------------------------------------------------------------------------
(* Bytes pass when both sides are ready for them.                           *)
Transfer ==
  \/ UnlistenUntalk("UNLISTEN", "LISTEN") \/ UnlistenUntalk("UNTALK", "TALK")
  \/ MyAddress("LISTEN") \/ MyAddress("TALK") \/ Secondary \/ NotForMe
  \/ CommandByte \/ FileByte \/ TalkByte

Drive ==
  \/ Idle \/ FoundAtn \/ AtnReleased \/ DoClose \/ ForMe \/ LetGo \/ AtnFinish
  \/ AtnProcess \/ SeesAtn \/ Cleanup \/ Release \/ Execute

Computer == AtnOn \/ AtnOff \/ NotPresent \/ PassBy \/ GivesUp

Next ==
  \/ StartOp \/ Computer \/ Break
  \/ Transfer
  \/ Drive \/ SleepKey \/ WakeKey

Spec == Init /\ [][Next]_vars

(* The drive's loop never stops, and a computer in an operation goes on     *)
(* with it; nobody has to start an operation, press a key or break.         *)
Fairness == WF_vars(Drive) /\ WF_vars(Computer) /\ WF_vars(Transfer)

FairSpec == Spec /\ Fairness

-----------------------------------------------------------------------------
(***************************************************************************)
(* Properties.                                                             *)
(***************************************************************************)
Requests == {[ch |-> c, text |-> Taken(TextOf(m, n))] :
               c \in Channels \cup {StatusChannel}, m \in 0 .. 1, n \in Lengths}

(* None is no channel, no operation of the computer and no byte under ATN.    *)
ASSUME NoneAssumption ==
  /\ None \notin Requests /\ None \notin 0 .. 15
  /\ \A ch \in 0 .. 15 \cup {None} : None # [ch |-> ch, text |-> <<>>]
  /\ \A kind \in {"LISTEN", "TALK", "DATA", "OPEN", "CLOSE", "UNLISTEN", "UNTALK", "OTHER"}, ch \in 0 .. 15 :
       None # [kind |-> kind, ch |-> ch]

(* The states, the flags and the channels have their types; the script is   *)
(* made of the events of one operation.                                    *)
TypeOK ==
  /\ bus_state \in {"SLEEP", "IDLE", "FOUNDATN", "ATNACTIVE", "CLOSING", "FORME", "NOTFORME",
                    "ATNFINISH", "ATNPROCESS", "LISTENING", "TALKING", "CLEANUP", "RELEASE",
                    "EXECUTE"}
  /\ device_state \in {"IDLE", "LISTEN", "TALK"}
  /\ secondary_address \in 0 .. 15
  /\ Len(command_buffer) <= CommandSize
  /\ {eoi, recvd, irq, data, clock, atn} \subseteq BOOLEAN
  /\ DOMAIN chan = Channels \cup {StatusChannel}
  /\ \A c \in DOMAIN chan : chan[c].mode \in Modes /\ chan[c].left \in 0 .. FileSize
  /\ chan[StatusChannel].mode = "direct"
  /\ (op = None) = (todo = <<>>)
  /\ mark \in 0 .. 1
  /\ asked \in Requests \cup {None}

(* Every command and name that was taken is carried out once, as it was     *)
(* sent and on its channel, before the next is taken.                       *)
CS == INSTANCE CommandService WITH pending <- asked

Serves == CS!Spec

(* The lines are as the other side expects them.  While a command is carried *)
(* out, which may take seconds, the interrupt answers for the main loop: the *)
(* computer that raises ATN finds DATA low and does not report that the      *)
(* device is not present.  In the rest state the bus is free for the other   *)
(* devices.  While the computer sends, to this drive or to another, the      *)
(* drive does not pull CLOCK, the sender's line.                             *)
LinesAsExpected ==
  /\ TypeOK
  /\ bus_state = "EXECUTE" /\ atn => data
  /\ bus_state = "IDLE" /\ ~atn => ~data /\ ~clock
  /\ (Expects("send") \/ Expects("pass")) /\ ~atn => ~clock

(* The drive never talks with a command pending: the answer and the status  *)
(* the computer reads are those after its last command.                     *)
AnswersAfterCommand == bus_state = "TALKING" => asked = None

(* No operation of the computer hangs: it ends, if with an error.           *)
OperationsEnd == todo # <<>> ~> todo = <<>>
=============================================================================
