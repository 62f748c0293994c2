----------------------------- MODULE IecProofs -----------------------------
(***************************************************************************)
(* The safety of module Iec, for every set of channels, every size of the   *)
(* command buffer and every length of commands and files, with a computer   *)
(* that does not break off.                                                *)
(*                                                                         *)
(* What the drive may do at a moment depends on where the computer is in    *)
(* its script, so the inductive invariant names the places in a script and  *)
(* says, for each, in which states the drive can be.                        *)
(***************************************************************************)
EXTENDS Iec, SequenceTheorems, TLAPS

(***************************************************************************)
(* Places in a script: t is what is left of it.                            *)
(***************************************************************************)
Kinds == {"LISTEN", "TALK", "DATA", "OPEN", "CLOSE", "UNLISTEN", "UNTALK", "OTHER"}
Bytes == [kind : Kinds, ch : 0 .. 15]
Tokens == {<<>>} \cup {<<m, i>> : m \in 0 .. 1, i \in Nat}
Event ==
  [ev : {"atn", "off", "get", "pass"}] \cup [ev : {"byte"}, kind : Kinds, ch : 0 .. 15]
    \cup [ev : {"send"}, token : Tokens, last : BOOLEAN]

Starts(t, e) == t # <<>> /\ Head(t) = e

(* The last ATN sequence, UNLISTEN or UNTALK, and its ends.                 *)
LastOff(t)     == Starts(t, Ev("off")) /\ Tail(t) = <<>>
LastByte(t, k) == Starts(t, B(k, 0)) /\ LastOff(Tail(t))
Last(t, k)     == Starts(t, Ev("atn")) /\ LastByte(Tail(t), k)

(* Bytes k to n of command m and UNLISTEN; those of a file; a byte for the   *)
(* computer; a byte for another device.                                    *)
RestOf(t, m, k, n) ==
  /\ t \in Seq(Event) /\ Len(t) = n - k + 4
  /\ \A i \in 1 .. n - k + 1 : t[i] = Send(<<m, k + i - 1>>, k + i - 1 = n)
  /\ t[n - k + 2] = Ev("atn") /\ t[n - k + 3] = B("UNLISTEN", 0) /\ t[n - k + 4] = Ev("off")
PrintsLast(t) == Starts(t, Send(<<>>, TRUE)) /\ Last(Tail(t), "UNLISTEN")
PrintsBoth(t) == Starts(t, Send(<<>>, FALSE)) /\ PrintsLast(Tail(t))
Gets(t)       == Starts(t, Ev("get")) /\ Last(Tail(t), "UNTALK")
Passes(t)     == Starts(t, Ev("pass")) /\ Last(Tail(t), "UNLISTEN")

(* The secondary address b of a command, and what belongs to it.            *)
IsCommand(b) ==
  \/ b.kind = "OPEN" /\ b.ch \in Channels
  \/ b.kind = "DATA" /\ b.ch = StatusChannel
Commands(t, m, o, b) ==
  /\ IsCommand(b)
  /\ \E n \in Lengths :
       RestOf(t, 1 - m, 1, n) /\ o = [ch |-> b.ch, text |-> Taken(TextOf(1 - m, n))]

(* What follows the primary address prim and the secondary address b.       *)
Follows(t, m, o, prim, b) ==
  /\ prim # "OTHER" => o.ch = b.ch
  /\ \/ prim = "LISTEN" /\ Commands(t, m, o, b)
     \/ prim = "LISTEN" /\ b.kind = "DATA" /\ b.ch \in Channels /\ PrintsBoth(t)
     \/ prim = "LISTEN" /\ b.kind = "CLOSE" /\ b.ch \in Channels \cup {StatusChannel} /\ Last(t, "UNLISTEN")
     \/ prim = "TALK" /\ b.kind = "DATA" /\ b.ch \in Channels \cup {StatusChannel} /\ Gets(t)
     \/ prim = "OTHER" /\ b.kind = "DATA" /\ b.ch = 0 /\ Passes(t)

(* The first ATN sequence: all of it, from the primary address on, from the  *)
(* secondary address b on, and its end.                                    *)
FirstOff(t, m, o, prim, b)  == Starts(t, Ev("off")) /\ Follows(Tail(t), m, o, prim, b)
Secondly(t, m, o, prim, b)  == Starts(t, B(b.kind, b.ch)) /\ FirstOff(Tail(t), m, o, prim, b)
Firstly(t, m, o, prim, b)   == Starts(t, B(prim, 0)) /\ Secondly(Tail(t), m, o, prim, b)
Whole(t, m, o, prim, b)     == Starts(t, Ev("atn")) /\ Firstly(Tail(t), m, o, prim, b)

Primaries == {"LISTEN", "TALK", "OTHER"}

(***************************************************************************)
(* The invariant.                                                          *)
(***************************************************************************)
States == {"SLEEP", "IDLE", "FOUNDATN", "ATNACTIVE", "CLOSING", "FORME", "NOTFORME", "ATNFINISH",
           "ATNPROCESS", "LISTENING", "TALKING", "CLEANUP", "RELEASE", "EXECUTE"}

(* A channel that is read or written has bytes left; the bus talks for one   *)
(* that can be read.                                                       *)
Typed ==
  /\ bus_state \in States
  /\ device_state \in {"IDLE", "LISTEN", "TALK"}
  /\ secondary_address \in 0 .. 15
  /\ command_buffer \in Seq(Tokens) /\ Len(command_buffer) <= CommandSize
  /\ eoi \in BOOLEAN /\ recvd \in BOOLEAN /\ irq \in BOOLEAN
  /\ data \in BOOLEAN /\ clock \in BOOLEAN /\ atn \in BOOLEAN
  /\ chan \in [Channels \cup {StatusChannel} -> [mode : Modes, left : 0 .. FileSize]]
  /\ \A c \in DOMAIN chan : chan[c].mode \in {"read", "direct"} => chan[c].left > 0
  /\ chan[StatusChannel].mode = "direct"
  /\ bus_state = "TALKING" => Low(cmd) \in DOMAIN chan /\ chan[Low(cmd)].mode \in {"read", "direct"}
  /\ mark \in 0 .. 1
  /\ cmd \in Bytes \cup {None}
  /\ todo \in Seq(Event)
  /\ asked \in Requests \cup {None}

(* In the middle of a command: what came so far is in the buffer.            *)
Sending ==
  \E n \in Lengths : \E k \in 1 .. n :
    /\ RestOf(todo, 1 - mark, k, n)
    /\ op = [ch |-> secondary_address, text |-> Taken(TextOf(1 - mark, n))]
    /\ command_buffer = Taken(TextOf(1 - mark, k - 1))
    /\ cmd # None /\ IsCommand(cmd) /\ cmd.ch = secondary_address
    /\ bus_state \in {"ATNFINISH", "ATNPROCESS", "LISTENING"} /\ device_state = "LISTEN"
    /\ ~atn /\ ~recvd /\ ~eoi /\ data

(* The places, and the states of the drive at each.                         *)
AtStart(prim, b) == Whole(todo, mark, op, prim, b) /\ ~atn

AtFirst(prim, b) ==
  Firstly(todo, mark, op, prim, b) /\ atn /\ bus_state \notin {"FORME", "NOTFORME", "CLOSING", "ATNFINISH"}

AtSecond(prim, b) ==
  /\ Secondly(todo, mark, op, prim, b) /\ atn
  /\ prim # "OTHER" => bus_state \in {"FORME", "ATNACTIVE"} /\ device_state = prim

AtFirstOff(prim, b) ==
  /\ FirstOff(todo, mark, op, prim, b) /\ atn
  /\ b.kind # "CLOSE" /\ prim # "OTHER" =>
       /\ bus_state = "ATNFINISH" /\ device_state = prim
       /\ cmd = b /\ secondary_address = b.ch
       /\ data

Printing ==
  /\ PrintsBoth(todo) \/ PrintsLast(todo)
  /\ ~atn /\ ~recvd
  /\ bus_state \in {"ATNFINISH", "ATNPROCESS", "LISTENING", "CLEANUP", "RELEASE", "IDLE", "SLEEP"}
  /\ bus_state \in {"ATNFINISH", "ATNPROCESS", "LISTENING"} =>
       cmd # None /\ cmd.kind = "DATA" /\ cmd.ch \in Channels

Getting ==
  /\ Gets(todo) /\ ~atn /\ ~recvd
  /\ bus_state \in {"ATNFINISH", "ATNPROCESS", "TALKING", "CLEANUP", "RELEASE", "IDLE", "SLEEP"}
  /\ bus_state \in {"ATNFINISH", "ATNPROCESS"} => device_state = "TALK"

Passing == Passes(todo) /\ ~atn

AtEnd(k) ==
  \/ Last(todo, k) /\ ~atn
  \/ LastByte(todo, k) /\ atn /\ bus_state \notin {"NOTFORME", "ATNFINISH"}

Finishing == LastOff(todo) /\ atn

Place ==
  \/ todo = <<>> /\ ~atn
  \/ \E prim \in Primaries, b \in Bytes :
       AtStart(prim, b) \/ AtFirst(prim, b) \/ AtSecond(prim, b) \/ AtFirstOff(prim, b)
  \/ Sending \/ Printing \/ Getting \/ Passing
  \/ AtEnd("UNLISTEN") \/ AtEnd("UNTALK") \/ Finishing

(* A script is that of an operation.                                       *)
Operating ==
  /\ op = None <=> todo = <<>>
  /\ op # None => op \in [ch : 0 .. 15 \cup {None}, text : Seq(Tokens)]

(* A command that was taken is in the buffer, and on its way to be carried   *)
(* out nothing but UNLISTEN comes; without one the buffer is empty.          *)
Pending ==
  /\ recvd <=> asked # None
  /\ recvd =>
       /\ asked = [ch |-> secondary_address, text |-> command_buffer]
       /\ bus_state \in {"LISTENING", "FOUNDATN", "ATNACTIVE", "ATNFINISH", "ATNPROCESS", "CLEANUP",
                         "RELEASE", "EXECUTE"}
       /\ bus_state = "LISTENING" => AtEnd("UNLISTEN")
       /\ bus_state \in {"FOUNDATN", "ATNACTIVE"} => LastByte(todo, "UNLISTEN") /\ atn
       /\ bus_state \in {"ATNFINISH", "ATNPROCESS"} => device_state = "IDLE"
       /\ Prompt /\ bus_state \in {"ATNPROCESS", "CLEANUP", "RELEASE"} => ~atn
  /\ ~recvd => command_buffer = <<>> \/ Sending
  /\ bus_state = "EXECUTE" => recvd

(* The drive listens and talks as long as the computer wants it to.          *)
Listening ==
  /\ bus_state = "LISTENING" => device_state = "LISTEN"
  /\ bus_state = "CLOSING" => AtEnd("UNLISTEN") \/ \E b \in Bytes : AtFirstOff("LISTEN", b)
  /\ device_state = "LISTEN"
     /\ bus_state \in {"ATNACTIVE", "FORME", "NOTFORME", "CLOSING", "ATNFINISH", "ATNPROCESS",
                      "LISTENING"} =>
       \/ \E b \in Bytes : AtSecond("LISTEN", b) \/ AtFirstOff("LISTEN", b)
       \/ Sending \/ Printing \/ AtEnd("UNLISTEN")

Talking ==
  /\ bus_state = "TALKING" => Getting \/ AtEnd("UNTALK")
  /\ device_state = "TALK"
     /\ bus_state \in {"ATNACTIVE", "FORME", "NOTFORME", "CLOSING", "ATNFINISH", "ATNPROCESS"} =>
       \/ \E b \in Bytes : AtSecond("TALK", b) \/ AtFirstOff("TALK", b)
       \/ Getting

(* The lines and the flag.                                                 *)
Lines ==
  /\ clock => /\ bus_state \in {"TALKING", "CLEANUP", "RELEASE", "FOUNDATN"}
              /\ Getting \/ AtEnd("UNTALK")
  /\ bus_state \in {"IDLE", "EXECUTE"} /\ data => Expects("byte") /\ atn
  /\ bus_state = "SLEEP" => ~data /\ ~irq
  /\ bus_state \in {"ATNACTIVE", "FORME", "CLOSING"} => data
  /\ bus_state \in {"RELEASE", "EXECUTE"} => irq
  /\ Prompt /\ bus_state = "EXECUTE" /\ atn => data
  /\ bus_state \in {"ATNACTIVE", "FORME", "CLOSING", "NOTFORME", "ATNFINISH"} => ~eoi

IInv == Typed /\ Place /\ Operating /\ Pending /\ Listening /\ Talking /\ Lines

-----------------------------------------------------------------------------
(***************************************************************************)
(* The computer's next event tells the place.                              *)
(***************************************************************************)
LEMMA FollowsKinds ==
  ASSUME NEW t, NEW m, NEW o, NEW prim, NEW b, Follows(t, m, o, prim, b)
  PROVE  /\ b.kind \in {"DATA", "OPEN", "CLOSE"}
         /\ prim \in Primaries
BY DEF Follows, Commands, IsCommand, Primaries

LEMMA FirstOffKinds ==
  \A t, m, o, prim, b :
    FirstOff(t, m, o, prim, b) \/ Secondly(t, m, o, prim, b) =>
      b.kind \in {"DATA", "OPEN", "CLOSE"} /\ (b.kind = "CLOSE" => prim = "LISTEN")
BY DEF FirstOff, Secondly, Follows, Commands, IsCommand

(* The event that comes first at each place.                               *)
LEMMA Heads ==
  /\ \A t, m, o, prim, b :
       /\ Whole(t, m, o, prim, b) => t # <<>> /\ Head(t).ev = "atn"
       /\ Firstly(t, m, o, prim, b) =>
            t # <<>> /\ Head(t).ev = "byte" /\ Head(t).kind = prim /\ Head(t).ch = 0
       /\ Secondly(t, m, o, prim, b) =>
            t # <<>> /\ Head(t).ev = "byte" /\ Head(t).kind = b.kind /\ Head(t).ch = b.ch
       /\ FirstOff(t, m, o, prim, b) => t # <<>> /\ Head(t).ev = "off"
  /\ \A t, k :
       /\ Last(t, k) => t # <<>> /\ Head(t).ev = "atn"
       /\ LastByte(t, k) => t # <<>> /\ Head(t).ev = "byte" /\ Head(t).kind = k /\ Head(t).ch = 0
  /\ \A t :
       /\ LastOff(t) => t # <<>> /\ Head(t).ev = "off"
       /\ PrintsBoth(t) => t # <<>> /\ Head(t).ev = "send" /\ Head(t).last = FALSE
       /\ PrintsLast(t) => t # <<>> /\ Head(t).ev = "send" /\ Head(t).last = TRUE
       /\ Gets(t) => t # <<>> /\ Head(t).ev = "get"
       /\ Passes(t) => t # <<>> /\ Head(t).ev = "pass"
PROOF
  <1> USE DEF Starts, Ev, B, Send
  <1>1. ASSUME NEW t, NEW m, NEW o, NEW prim, NEW b
        PROVE  /\ Whole(t, m, o, prim, b) => t # <<>> /\ Head(t).ev = "atn"
               /\ Firstly(t, m, o, prim, b) =>
                    t # <<>> /\ Head(t).ev = "byte" /\ Head(t).kind = prim /\ Head(t).ch = 0
               /\ Secondly(t, m, o, prim, b) =>
                    t # <<>> /\ Head(t).ev = "byte" /\ Head(t).kind = b.kind /\ Head(t).ch = b.ch
               /\ FirstOff(t, m, o, prim, b) => t # <<>> /\ Head(t).ev = "off"
    <2>1. Whole(t, m, o, prim, b) => t # <<>> /\ Head(t).ev = "atn"
      BY DEF Whole
    <2>2. Firstly(t, m, o, prim, b) =>
            t # <<>> /\ Head(t).ev = "byte" /\ Head(t).kind = prim /\ Head(t).ch = 0
      BY DEF Firstly
    <2>3. Secondly(t, m, o, prim, b) =>
            t # <<>> /\ Head(t).ev = "byte" /\ Head(t).kind = b.kind /\ Head(t).ch = b.ch
      BY DEF Secondly
    <2>4. FirstOff(t, m, o, prim, b) => t # <<>> /\ Head(t).ev = "off"
      BY DEF FirstOff
    <2> QED
      BY <2>1, <2>2, <2>3, <2>4
  <1>2. ASSUME NEW t, NEW k
        PROVE  /\ Last(t, k) => t # <<>> /\ Head(t).ev = "atn"
               /\ LastByte(t, k) => t # <<>> /\ Head(t).ev = "byte" /\ Head(t).kind = k /\ Head(t).ch = 0
    BY DEF Last, LastByte
  <1>3. ASSUME NEW t
        PROVE  /\ LastOff(t) => t # <<>> /\ Head(t).ev = "off"
               /\ Gets(t) => t # <<>> /\ Head(t).ev = "get"
               /\ Passes(t) => t # <<>> /\ Head(t).ev = "pass"
    BY DEF LastOff, Gets, Passes
  <1>4. ASSUME NEW t
        PROVE  /\ PrintsBoth(t) => t # <<>> /\ Head(t).ev = "send" /\ Head(t).last = FALSE
               /\ PrintsLast(t) => t # <<>> /\ Head(t).ev = "send" /\ Head(t).last = TRUE
    BY DEF PrintsBoth, PrintsLast
  <1> QED
    BY <1>1, <1>2, <1>3, <1>4

(* A sequence by its elements.                                             *)
LEMMA NotEmpty ==
  ASSUME NEW S, NEW s \in Seq(S), Len(s) > 0
  PROVE  s # <<>> /\ Head(s) = s[1]
PROOF
  <1>1. s # <<>>
    BY EmptySeq
  <1>2. Head(s) = s[1]
    OBVIOUS
  <1> QED
    BY <1>1, <1>2

LEMMA TailIs ==
  ASSUME NEW S, NEW s \in Seq(S), Len(s) > 0
  PROVE  /\ Tail(s) \in Seq(S) /\ Len(Tail(s)) = Len(s) - 1
         /\ \A i \in 1 .. Len(s) - 1 : Tail(s)[i] = s[i + 1]
PROOF
  <1>1. s # <<>>
    BY NotEmpty
  <1>2. Tail(s) \in Seq(S)
    BY <1>1, HeadTailProperties
  <1>3. Len(Tail(s)) = Len(s) - 1
    BY <1>1, HeadTailProperties
  <1>4. \A i \in 1 .. Len(Tail(s)) : Tail(s)[i] = s[i + 1]
    BY <1>1, HeadTailProperties
  <1> QED
    BY <1>2, <1>3, <1>4

LEMMA TailAt ==
  ASSUME NEW S, NEW s \in Seq(S), Len(s) > 0
  PROVE  /\ 1 < Len(s) => Tail(s)[1] = s[2]
         /\ 2 < Len(s) => Tail(s)[2] = s[3]
         /\ 3 < Len(s) => Tail(s)[3] = s[4]
BY TailIs

(* Three events are an ATN sequence.                                       *)
LEMMA OneEvent ==
  ASSUME NEW w \in Seq(Event), Len(w) = 1, w[1] = Ev("off")
  PROVE  LastOff(w)
PROOF
  <1>1. w # <<>> /\ Head(w) = w[1]
    BY NotEmpty
  <1>2. Tail(w) \in Seq(Event) /\ Len(Tail(w)) = 0
    BY TailIs
  <1>3. Tail(w) = <<>>
    BY <1>2, EmptySeq
  <1> QED
    BY <1>1, <1>3 DEF LastOff, Starts

LEMMA TwoEvents ==
  ASSUME NEW v \in Seq(Event), Len(v) = 2, NEW k, v[1] = B(k, 0), v[2] = Ev("off")
  PROVE  LastByte(v, k)
PROOF
  <1>1. v # <<>> /\ Head(v) = v[1]
    BY NotEmpty
  <1>2. Tail(v) \in Seq(Event) /\ Len(Tail(v)) = 1
    BY TailIs
  <1>3. Tail(v)[1] = v[2]
    BY TailIs
  <1> QED
    BY <1>1, <1>2, <1>3, OneEvent DEF LastByte, Starts

LEMMA ThreeEvents ==
  ASSUME NEW u \in Seq(Event), Len(u) = 3, NEW k,
         u[1] = Ev("atn"), u[2] = B(k, 0), u[3] = Ev("off")
  PROVE  Last(u, k)
PROOF
  <1>1. u # <<>> /\ Head(u) = u[1]
    BY NotEmpty
  <1>2. Tail(u) \in Seq(Event) /\ Len(Tail(u)) = 2
    BY TailIs
  <1>3. Tail(u)[1] = u[2] /\ Tail(u)[2] = u[3]
    BY TailAt
  <1> QED
    BY <1>1, <1>2, <1>3, TwoEvents DEF Last, Starts

(* A command, byte by byte.                                                *)
LEMMA RestOfHead ==
  ASSUME NEW t, NEW m \in 0 .. 1, NEW n \in Nat, NEW k \in 1 .. n, RestOf(t, m, k, n)
  PROVE  /\ t # <<>> /\ Head(t) = Send(<<m, k>>, k = n)
         /\ k < n => RestOf(Tail(t), m, k + 1, n)
         /\ k = n => Last(Tail(t), "UNLISTEN")
PROOF
  <1>1. t \in Seq(Event) /\ Len(t) = n - k + 4 /\ Len(t) > 3
    BY DEF RestOf
  <1>2. t # <<>> /\ Head(t) = t[1]
    BY <1>1, NotEmpty
  <1>3. /\ Tail(t) \in Seq(Event) /\ Len(Tail(t)) = n - k + 3
        /\ \A i \in 1 .. n - k + 3 : Tail(t)[i] = t[i + 1]
    BY <1>1, TailIs
  <1>4. Head(t) = Send(<<m, k>>, k = n)
    BY <1>1, <1>2 DEF RestOf
  <1>5. ASSUME k < n PROVE RestOf(Tail(t), m, k + 1, n)
    BY <1>3, <1>5 DEF RestOf
  <1>6. ASSUME k = n PROVE Last(Tail(t), "UNLISTEN")
    <2>1. t[2] = Ev("atn") /\ t[3] = B("UNLISTEN", 0) /\ t[4] = Ev("off")
      BY <1>6 DEF RestOf
    <2>2. Len(t) = 4
      BY <1>1, <1>6
    <2>3. Tail(t) \in Seq(Event) /\ Len(Tail(t)) = 3
      BY <1>1, <2>2, TailIs
    <2>4. Tail(t)[1] = t[2] /\ Tail(t)[2] = t[3] /\ Tail(t)[3] = t[4]
      BY <1>1, <2>2, TailAt
    <2> QED
      BY <2>1, <2>3, <2>4, ThreeEvents
  <1> QED
    BY <1>2, <1>4, <1>5, <1>6

(* Between two bytes of a command only a byte can come.                    *)
LEMMA NotSending ==
  ASSUME Typed, ~Expects("send")
  PROVE  ~Sending
PROOF
  <1> SUFFICES ASSUME NEW n \in Lengths, NEW k \in 1 .. n, RestOf(todo, 1 - mark, k, n)
               PROVE  FALSE
    BY DEF Sending
  <1> QED
    BY RestOfHead, IecAssumption DEF Typed, Expects, Send

(* What the next event says of the place.                                  *)
LEMMA NextPlace ==
  ASSUME Typed, Place
  PROVE  /\ Expects("atn") =>
              \/ \E prim \in Primaries, b \in Bytes : AtStart(prim, b)
              \/ \E k \in {"UNLISTEN", "UNTALK"} : Last(todo, k) /\ ~atn
         /\ Expects("byte") =>
              \/ \E prim \in Primaries, b \in Bytes : AtFirst(prim, b) \/ AtSecond(prim, b)
              \/ \E k \in {"UNLISTEN", "UNTALK"} : LastByte(todo, k) /\ AtEnd(k)
         /\ Expects("off") => Finishing \/ \E prim \in Primaries, b \in Bytes : AtFirstOff(prim, b)
         /\ Expects("send") => Sending \/ Printing
         /\ Expects("get") => Getting
         /\ Expects("pass") => Passing
PROOF
  <1> USE NotSending, Heads DEF Place, AtStart, AtFirst, AtSecond, AtFirstOff, Printing, Getting, Passing,
          AtEnd, Finishing
  <1>1. Expects("atn") =>
          \/ \E prim \in Primaries, b \in Bytes : AtStart(prim, b)
          \/ \E k \in {"UNLISTEN", "UNTALK"} : Last(todo, k) /\ ~atn
    BY DEF Expects
  <1>2. Expects("byte") =>
          \/ \E prim \in Primaries, b \in Bytes : AtFirst(prim, b) \/ AtSecond(prim, b)
          \/ \E k \in {"UNLISTEN", "UNTALK"} : LastByte(todo, k) /\ AtEnd(k)
    BY DEF Expects
  <1>3. Expects("off") => Finishing \/ \E prim \in Primaries, b \in Bytes : AtFirstOff(prim, b)
    BY DEF Expects
  <1>4. Expects("send") => Sending \/ Printing
    BY DEF Expects
  <1>5. Expects("get") => Getting
    BY DEF Expects
  <1>6. Expects("pass") => Passing
    BY DEF Expects
  <1> QED
    BY <1>1, <1>2, <1>3, <1>4, <1>5, <1>6

(* The place after the event.                                              *)
LEMMA Steps ==
  /\ \A t, m, o, prim, b :
       /\ Whole(t, m, o, prim, b) => Firstly(Tail(t), m, o, prim, b)
       /\ Firstly(t, m, o, prim, b) => Secondly(Tail(t), m, o, prim, b)
       /\ Secondly(t, m, o, prim, b) => FirstOff(Tail(t), m, o, prim, b)
       /\ FirstOff(t, m, o, prim, b) => Follows(Tail(t), m, o, prim, b)
  /\ \A t, k :
       /\ Last(t, k) => LastByte(Tail(t), k)
       /\ LastByte(t, k) => LastOff(Tail(t))
  /\ \A t :
       /\ LastOff(t) => Tail(t) = <<>>
       /\ PrintsBoth(t) => PrintsLast(Tail(t))
       /\ PrintsLast(t) \/ Passes(t) => Last(Tail(t), "UNLISTEN")
       /\ Gets(t) => Last(Tail(t), "UNTALK")
PROOF
  <1>1. ASSUME NEW t, NEW m, NEW o, NEW prim, NEW b
        PROVE  /\ Whole(t, m, o, prim, b) => Firstly(Tail(t), m, o, prim, b)
               /\ Firstly(t, m, o, prim, b) => Secondly(Tail(t), m, o, prim, b)
               /\ Secondly(t, m, o, prim, b) => FirstOff(Tail(t), m, o, prim, b)
               /\ FirstOff(t, m, o, prim, b) => Follows(Tail(t), m, o, prim, b)
    BY DEF Whole, Firstly, Secondly, FirstOff
  <1>2. ASSUME NEW t, NEW k
        PROVE  /\ Last(t, k) => LastByte(Tail(t), k)
               /\ LastByte(t, k) => LastOff(Tail(t))
    BY DEF Last, LastByte
  <1>3. ASSUME NEW t
        PROVE  /\ LastOff(t) => Tail(t) = <<>>
               /\ PrintsBoth(t) => PrintsLast(Tail(t))
               /\ PrintsLast(t) \/ Passes(t) => Last(Tail(t), "UNLISTEN")
               /\ Gets(t) => Last(Tail(t), "UNTALK")
    BY DEF LastOff, PrintsBoth, PrintsLast, Gets, Passes
  <1> QED
    BY <1>1, <1>2, <1>3

-----------------------------------------------------------------------------
(***************************************************************************)
(* The steps of the drive alone.                                           *)
(***************************************************************************)
LEMMA IdleStep ==
  ASSUME IInv, Idle
  PROVE  IInv'
PROOF
  <1> USE DEF IInv, Idle, host, ghosts
  <1>1. Typed'
    BY DEF Typed, States
  <1>2. Place'
    BY DEF Typed, Place, AtStart, AtFirst, AtSecond, AtFirstOff, Sending, Printing, Getting, Passing, AtEnd,
           Finishing
  <1>3. Operating'
    BY DEF Operating
  <1>4. Pending'
    BY DEF Pending, Sending, AtEnd
  <1>5. Listening'
    BY DEF Listening
  <1>6. Talking'
    BY DEF Talking
  <1>7. Lines'
    BY DEF Typed, Lines, Expects
  <1> QED
    BY <1>1, <1>2, <1>3, <1>4, <1>5, <1>6, <1>7
LEMMA SleepKeyStep ==
  ASSUME IInv, SleepKey
  PROVE  IInv'
PROOF
  <1> USE DEF IInv, SleepKey, host, ghosts
  <1>1. Typed'
    BY DEF Typed, States
  <1>2. Place'
    BY DEF Typed, Place, AtStart, AtFirst, AtSecond, AtFirstOff, Sending, Printing, Getting, Passing, AtEnd,
           Finishing
  <1>3. Operating'
    BY DEF Operating
  <1>4. Pending'
    BY DEF Typed, Pending, Sending, AtEnd
  <1>5. Listening'
    BY DEF Typed, Listening, AtSecond, AtFirstOff, Sending, Printing, AtEnd
  <1>6. Talking'
    BY DEF Typed, Talking, AtSecond, AtFirstOff, Getting, AtEnd
  <1>7. Lines'
    BY DEF Typed, Lines, Expects, Getting, AtEnd
  <1> QED
    BY <1>1, <1>2, <1>3, <1>4, <1>5, <1>6, <1>7

LEMMA WakeKeyStep ==
  ASSUME IInv, WakeKey
  PROVE  IInv'
PROOF
  <1> USE DEF IInv, WakeKey, host, ghosts, lines
  <1>1. Typed'
    BY DEF Typed, States
  <1>2. Place'
    BY DEF Typed, Place, AtStart, AtFirst, AtSecond, AtFirstOff, Sending, Printing, Getting, Passing, AtEnd,
           Finishing
  <1>3. Operating'
    BY DEF Operating
  <1>4. Pending'
    BY DEF Typed, Pending, Sending, AtEnd
  <1>5. Listening'
    BY DEF Typed, Listening, AtSecond, AtFirstOff, Sending, Printing, AtEnd
  <1>6. Talking'
    BY DEF Typed, Talking, AtSecond, AtFirstOff, Getting, AtEnd
  <1>7. Lines'
    BY DEF Typed, Lines, Expects, Getting, AtEnd
  <1> QED
    BY <1>1, <1>2, <1>3, <1>4, <1>5, <1>6, <1>7

LEMMA FoundAtnStep ==
  ASSUME IInv, FoundAtn
  PROVE  IInv'
PROOF
  <1> USE DEF IInv, FoundAtn, host, ghosts
  <1>1. Typed'
    BY DEF Typed, States
  <1>2. Place'
    BY DEF Typed, Place, AtStart, AtFirst, AtSecond, AtFirstOff, Sending, Printing, Getting, Passing, AtEnd,
           Finishing
  <1>3. Operating'
    BY DEF Operating
  <1>4. Pending'
    BY DEF Typed, Pending, Sending, AtEnd
  <1>5. Listening'
    BY DEF Typed, Listening, AtSecond, AtFirstOff, Sending, Printing, AtEnd
  <1>6. Talking'
    BY DEF Typed, Talking, AtSecond, AtFirstOff, Getting, AtEnd
  <1>7. Lines'
    BY DEF Typed, Lines, Expects, Getting, AtEnd
  <1> QED
    BY <1>1, <1>2, <1>3, <1>4, <1>5, <1>6, <1>7

LEMMA AtnReleasedStep ==
  ASSUME IInv, AtnReleased
  PROVE  IInv'
PROOF
  <1> USE DEF IInv, AtnReleased, host, ghosts, lines
  <1>1. Typed'
    BY DEF Typed, States
  <1>2. Place'
    BY DEF Typed, Place, AtStart, AtFirst, AtSecond, AtFirstOff, Sending, Printing, Getting, Passing, AtEnd,
           Finishing
  <1>3. Operating'
    BY DEF Operating
  <1>4. Pending'
    BY DEF Typed, Pending, Sending, AtEnd
  <1>5. Listening'
    BY DEF Typed, Listening, AtSecond, AtFirstOff, Sending, Printing, AtEnd
  <1>6. Talking'
    BY DEF Typed, Talking, AtSecond, AtFirstOff, Getting, AtEnd
  <1>7. Lines'
    BY DEF Typed, Lines, Expects, Getting, AtEnd
  <1> QED
    BY <1>1, <1>2, <1>3, <1>4, <1>5, <1>6, <1>7

LEMMA ForMeStep ==
  ASSUME IInv, ForMe
  PROVE  IInv'
PROOF
  <1> USE DEF IInv, ForMe, host, ghosts, lines
  <1>1. Typed'
    BY DEF Typed, States
  <1>2. Place'
    BY DEF Typed, Place, AtStart, AtFirst, AtSecond, AtFirstOff, Sending, Printing, Getting, Passing, AtEnd,
           Finishing
  <1>3. Operating'
    BY DEF Operating
  <1>4. Pending'
    BY DEF Typed, Pending, Sending, AtEnd
  <1>5. Listening'
    BY DEF Typed, Listening, AtSecond, AtFirstOff, Sending, Printing, AtEnd
  <1>6. Talking'
    BY DEF Typed, Talking, AtSecond, AtFirstOff, Getting, AtEnd
  <1>7. Lines'
    BY DEF Typed, Lines, Expects, Getting, AtEnd
  <1> QED
    BY <1>1, <1>2, <1>3, <1>4, <1>5, <1>6, <1>7

LEMMA LetGoStep ==
  ASSUME IInv, LetGo
  PROVE  IInv'
PROOF
  <1> USE DEF IInv, LetGo, host, ghosts
  <1>1. Typed'
    BY DEF Typed, States
  <1>2. Place'
    BY DEF Typed, Place, AtStart, AtFirst, AtSecond, AtFirstOff, Sending, Printing, Getting, Passing, AtEnd,
           Finishing
  <1>3. Operating'
    BY DEF Operating
  <1>4. Pending'
    BY DEF Typed, Pending, Sending, AtEnd
  <1>5. Listening'
    BY DEF Typed, Listening, AtSecond, AtFirstOff, Sending, Printing, AtEnd
  <1>6. Talking'
    BY DEF Typed, Talking, AtSecond, AtFirstOff, Getting, AtEnd
  <1>7. Lines'
    BY DEF Typed, Lines, Expects, Getting, AtEnd
  <1> QED
    BY <1>1, <1>2, <1>3, <1>4, <1>5, <1>6, <1>7

LEMMA AtnFinishStep ==
  ASSUME IInv, AtnFinish
  PROVE  IInv'
PROOF
  <1> USE DEF IInv, AtnFinish, host, ghosts, lines
  <1>1. Typed'
    BY DEF Typed, States
  <1>2. Place'
    BY DEF Typed, Place, AtStart, AtFirst, AtSecond, AtFirstOff, Sending, Printing, Getting, Passing, AtEnd,
           Finishing
  <1>3. Operating'
    BY DEF Operating
  <1>4. Pending'
    BY DEF Typed, Pending, Sending, AtEnd
  <1>5. Listening'
    BY DEF Typed, Listening, AtSecond, AtFirstOff, Sending, Printing, AtEnd
  <1>6. Talking'
    BY DEF Typed, Talking, AtSecond, AtFirstOff, Getting, AtEnd
  <1>7. Lines'
    BY DEF Typed, Lines, Expects, Getting, AtEnd
  <1> QED
    BY <1>1, <1>2, <1>3, <1>4, <1>5, <1>6, <1>7

LEMMA SeesAtnStep ==
  ASSUME IInv, SeesAtn
  PROVE  IInv'
PROOF
  <1> USE DEF IInv, SeesAtn, host, ghosts, lines
  <1>1. Typed'
    BY DEF Typed, States
  <1>2. Place'
    BY DEF Typed, Place, AtStart, AtFirst, AtSecond, AtFirstOff, Sending, Printing, Getting, Passing, AtEnd,
           Finishing
  <1>3. Operating'
    BY DEF Operating
  <1>4. Pending'
    BY DEF Typed, Pending, Sending, AtEnd
  <1>5. Listening'
    BY DEF Typed, Listening, AtSecond, AtFirstOff, Sending, Printing, AtEnd
  <1>6. Talking'
    BY DEF Typed, Talking, AtSecond, AtFirstOff, Getting, AtEnd
  <1>7. Lines'
    BY DEF Typed, Lines, Expects, Getting, AtEnd
  <1> QED
    BY <1>1, <1>2, <1>3, <1>4, <1>5, <1>6, <1>7

LEMMA CleanupStep ==
  ASSUME IInv, Cleanup
  PROVE  IInv'
PROOF
  <1> USE DEF IInv, Cleanup, host, ghosts
  <1>1. Typed'
    BY DEF Typed, States
  <1>2. Place'
    BY DEF Typed, Place, AtStart, AtFirst, AtSecond, AtFirstOff, Sending, Printing, Getting, Passing, AtEnd,
           Finishing
  <1>3. Operating'
    BY DEF Operating
  <1>4. Pending'
    BY DEF Typed, Pending, Sending, AtEnd
  <1>5. Listening'
    BY DEF Typed, Listening, AtSecond, AtFirstOff, Sending, Printing, AtEnd
  <1>6. Talking'
    BY DEF Typed, Talking, AtSecond, AtFirstOff, Getting, AtEnd
  <1>7. Lines'
    BY DEF Typed, Lines, Expects, Getting, AtEnd
  <1> QED
    BY <1>1, <1>2, <1>3, <1>4, <1>5, <1>6, <1>7

LEMMA ReleaseStep ==
  ASSUME IInv, Release
  PROVE  IInv'
PROOF
  <1> USE DEF IInv, Release, host, ghosts
  <1>1. Typed'
    BY DEF Typed, States
  <1>2. Place'
    BY DEF Typed, Place, AtStart, AtFirst, AtSecond, AtFirstOff, Sending, Printing, Getting, Passing, AtEnd,
           Finishing
  <1>3. Operating'
    BY DEF Operating
  <1>4. Pending'
    BY DEF Typed, Pending, Sending, AtEnd
  <1>5. Listening'
    BY DEF Typed, Listening, AtSecond, AtFirstOff, Sending, Printing, AtEnd
  <1>6. Talking'
    BY DEF Typed, Talking, AtSecond, AtFirstOff, Getting, AtEnd
  <1>7. Lines'
    BY DEF Typed, Lines, Expects, Getting, AtEnd, Pending
  <1> QED
    BY <1>1, <1>2, <1>3, <1>4, <1>5, <1>6, <1>7

LEMMA AtnProcessStep ==
  ASSUME IInv, AtnProcess
  PROVE  IInv'
PROOF
  <1> USE DEF IInv, AtnProcess, host, ghosts, Turnaround
  <1>1. Typed'
    BY DEF Typed, States, Mode
  <1>2. Place'
    BY Heads, FirstOffKinds
       DEF Typed, Talking, Listening, IsCommand, IsOpen, Mode, Low, Place, AtStart, AtFirst, AtSecond,
           AtFirstOff, Sending, Printing, Getting, Passing, AtEnd, Finishing
  <1>3. Operating'
    BY DEF Operating
  <1>4. Pending'
    BY Heads DEF Typed, Pending, Sending, AtEnd, IsCommand, IsOpen, Mode, Low
  <1>5. Listening'
    BY DEF Typed, Listening, AtSecond, AtFirstOff, Sending, Printing, AtEnd
  <1>6. Talking'
    BY FirstOffKinds DEF Typed, Talking, AtSecond, AtFirstOff, Getting, AtEnd
  <1>7. Lines'
    BY FirstOffKinds DEF Typed, Lines, Expects, Talking, AtSecond, AtFirstOff, Getting, AtEnd, Pending
  <1> QED
    BY <1>1, <1>2, <1>3, <1>4, <1>5, <1>6, <1>7

LEMMA DoCloseStep ==
  ASSUME IInv, DoClose
  PROVE  IInv'
PROOF
  <1> USE DEF IInv, DoClose, host, ghosts, lines
  <1>1. Typed'
    BY IecAssumption DEF Typed, States, Closes, Closed, Modes, StatusChannel
  <1>2. Place'
    BY DEF Typed, Place, AtStart, AtFirst, AtSecond, AtFirstOff, Sending, Printing, Getting, Passing, AtEnd,
           Finishing
  <1>3. Operating'
    BY DEF Operating
  <1>4. Pending'
    BY DEF Typed, Pending, Sending, AtEnd
  <1>5. Listening'
    BY DEF Typed, Listening, AtSecond, AtFirstOff, Sending, Printing, AtEnd
  <1>6. Talking'
    BY DEF Typed, Talking, AtSecond, AtFirstOff, Getting, AtEnd
  <1>7. Lines'
    BY DEF Typed, Lines, Expects, Getting, AtEnd
  <1> QED
    BY <1>1, <1>2, <1>3, <1>4, <1>5, <1>6, <1>7

LEMMA ExecuteStep ==
  ASSUME IInv, Execute
  PROVE  IInv'
PROOF
  <1> USE DEF IInv, Execute, host, ghosts, lines, EndOfCommand
  <1>1. Typed'
    <2> DEFINE Chans == [Channels \cup {StatusChannel} -> [mode : Modes, left : 0 .. FileSize]]
               ch    == secondary_address
    <2>1. Closed \in [mode : Modes, left : 0 .. FileSize]
      BY IecAssumption DEF Closed, Modes
    <2>2. \A mode \in {"read", "write", "direct"} :
            OpenFor(mode) \in [mode : Modes, left : 0 .. FileSize] /\ OpenFor(mode).left > 0
      BY IecAssumption DEF OpenFor, Modes
    <2>3. chan \in Chans
      BY DEF Typed
    <2>4. /\ chan' \in Chans /\ chan'[StatusChannel].mode = "direct"
          /\ \A c \in DOMAIN chan' : chan'[c].mode \in {"read", "direct"} => chan'[c].left > 0
      <3>1. CASE chan' = chan
        BY <3>1 DEF Typed
      <3>2. CASE chan' = [c \in DOMAIN chan |-> IF c \in Channels THEN Closed ELSE chan[c]]
        BY <2>1, <2>3, <3>2, IecAssumption DEF Typed, StatusChannel, Closed
      <3>3. CASE ch # StatusChannel /\ chan' = [chan EXCEPT ![ch] = Closed]
        BY <2>1, <2>3, <3>3 DEF Typed, Closed
      <3>4. ASSUME ch # StatusChannel, NEW mode \in {"read", "write", "direct"},
                   chan' = [chan EXCEPT ![ch] = OpenFor(mode)]
            PROVE  /\ chan' \in Chans /\ chan'[StatusChannel].mode = "direct"
                   /\ \A c \in DOMAIN chan' : chan'[c].mode \in {"read", "direct"} => chan'[c].left > 0
        BY <2>2, <2>3, <3>4 DEF Typed
      <3> QED
        BY <3>1, <3>2, <3>3, <3>4
    <2>5. command_buffer' \in Seq(Tokens) /\ Len(command_buffer') <= CommandSize
      BY EmptySeq, IecAssumption
    <2> QED
      BY <2>4, <2>5 DEF Typed, States
  <1>2. Place'
    BY DEF Typed, Place, AtStart, AtFirst, AtSecond, AtFirstOff, Sending, Printing, Getting, Passing, AtEnd,
           Finishing
  <1>3. Operating'
    BY DEF Operating
  <1>4. Pending'
    BY DEF Typed, Pending, Sending, AtEnd
  <1>5. Listening'
    BY DEF Typed, Listening, AtSecond, AtFirstOff, Sending, Printing, AtEnd
  <1>6. Talking'
    BY DEF Typed, Talking, AtSecond, AtFirstOff, Getting, AtEnd
  <1>7. Lines'
    BY DEF Typed, Lines, Expects, Getting, AtEnd
  <1> QED
    BY <1>1, <1>2, <1>3, <1>4, <1>5, <1>6, <1>7

-----------------------------------------------------------------------------
(***************************************************************************)
(* Bytes under ATN.                                                        *)
(***************************************************************************)
LEMMA ProceedOn ==
  ASSUME Typed, Operating, todo # <<>>, Proceed(Tail(todo))
  PROVE  /\ todo' = Tail(todo) /\ todo' \in Seq(Event) /\ mark' = mark
         /\ todo' # <<>> => op' = op
         /\ Operating'
PROOF
  <1>1. todo' \in Seq(Event)
    BY HeadTailProperties DEF Typed, Proceed
  <1> QED
    BY <1>1 DEF Operating, Proceed

(* A byte the drive hears leaves the rest of its state alone.              *)
LEMMA HearsByte ==
  ASSUME IInv, NEW kinds, Hears(kinds)
  PROVE  /\ Expects("byte") /\ todo # <<>> /\ Proceed(Tail(todo)) /\ atn
         /\ cmd' \in Bytes
         /\ ~clock /\ data /\ ~eoi
         /\ command_buffer = <<>> \/ recvd
         /\ recvd => LastByte(todo, "UNLISTEN")
PROOF
  <1>1. Expects("byte") /\ todo # <<>> /\ Proceed(Tail(todo))
    BY DEF Hears, Expects
  <1>2. atn
    BY <1>1, NextPlace, Heads DEF IInv, AtFirst, AtSecond, AtEnd
  <1>3. cmd' \in Bytes
    <2>1. \/ \E prim \in Primaries, b \in Bytes : AtFirst(prim, b) \/ AtSecond(prim, b)
          \/ \E k \in {"UNLISTEN", "UNTALK"} : LastByte(todo, k)
      BY <1>1, NextPlace DEF IInv
    <2>2. Head(todo).kind \in Kinds /\ Head(todo).ch \in 0 .. 15
      BY <2>1, Heads DEF AtFirst, AtSecond, Bytes, Kinds, Primaries
    <2> QED
      BY <2>2 DEF Hears, Bytes
  <1>4. ~clock /\ data /\ ~eoi
    BY DEF IInv, Hears, Lines
  <1>5. ~Sending
    BY NotSending, <1>2 DEF IInv, Sending
  <1>6. (command_buffer = <<>> \/ recvd) /\ (recvd => LastByte(todo, "UNLISTEN"))
    BY <1>5 DEF IInv, Hears, Pending
  <1> QED
    BY <1>1, <1>2, <1>3, <1>4, <1>6

LEMMA UnlistenUntalkStep ==
  ASSUME IInv, NEW kind, NEW state, UnlistenUntalk(kind, state),
         \/ kind = "UNLISTEN" /\ state = "LISTEN"
         \/ kind = "UNTALK" /\ state = "TALK"
  PROVE  IInv'
PROOF
  <1> USE DEF IInv, UnlistenUntalk
  <1>1. /\ Expects("byte") /\ todo # <<>> /\ Proceed(Tail(todo)) /\ atn
        /\ cmd' \in Bytes /\ ~clock /\ data /\ ~eoi
        /\ command_buffer = <<>> \/ recvd
    BY HearsByte
  <1>2. LastByte(todo, kind)
    BY <1>1, NextPlace, Heads, FirstOffKinds DEF Hears, AtFirst, AtSecond, Primaries
  <1>3. LastOff(todo') /\ todo' \in Seq(Event) /\ mark' = mark
    BY <1>1, <1>2, ProceedOn, Steps
  <1>4. ~Sending /\ ~Printing /\ ~Getting
    BY <1>1 DEF Sending, Printing, Getting
  <1>5. kind # "UNTALK" => ~AtEnd("UNTALK")
    BY <1>2, Heads DEF AtEnd
  <1>6. kind # "UNLISTEN" => ~AtEnd("UNLISTEN")
    BY <1>2, Heads DEF AtEnd
  <1>7. \A prim, b : ~AtSecond(prim, b) /\ ~AtFirstOff(prim, b)
    BY <1>2, Heads, FirstOffKinds DEF AtSecond, AtFirstOff
  <1>8. device_state' = "IDLE"
    BY <1>4, <1>5, <1>6, <1>7 DEF Typed, Listening, Talking, Hears
  <1>9. Typed'
    BY <1>1, <1>3 DEF Typed, States, Hears, lines, ghosts
  <1>10. Place'
    BY <1>1, <1>3 DEF Place, Finishing, Hears
  <1>11. Operating'
    BY <1>1, ProceedOn
  <1>12. Pending'
    BY <1>1, <1>8 DEF Pending, Hears, ghosts
  <1>13. Listening'
    BY <1>8 DEF Listening, Hears
  <1>14. Talking'
    BY <1>8 DEF Talking, Hears
  <1>15. Lines'
    BY <1>1 DEF Lines, Hears, lines
  <1> QED
    BY <1>9, <1>10, <1>11, <1>12, <1>13, <1>14, <1>15

LEMMA MyAddressStep ==
  ASSUME IInv, NEW kind \in {"LISTEN", "TALK"}, MyAddress(kind)
  PROVE  IInv'
PROOF
  <1> USE DEF IInv, MyAddress
  <1>1. /\ Expects("byte") /\ todo # <<>> /\ Proceed(Tail(todo)) /\ atn
        /\ cmd' \in Bytes /\ ~clock /\ data /\ ~eoi
        /\ command_buffer = <<>> \/ recvd
        /\ recvd => LastByte(todo, "UNLISTEN")
    BY HearsByte
  <1>2. PICK b \in Bytes : AtFirst(kind, b)
    BY <1>1, NextPlace, Heads, FirstOffKinds DEF Hears, AtFirst, AtSecond, Primaries
  <1>3. ~recvd
    BY <1>1, <1>2, Heads DEF AtFirst
  <1>4. Secondly(Tail(todo), mark, op, kind, b)
    BY <1>2, Steps DEF AtFirst
  <1>5. Secondly(todo', mark', op', kind, b) /\ todo' \in Seq(Event) /\ mark' = mark
    BY <1>1, <1>4, ProceedOn, Heads
  <1>6. AtSecond(kind, b)'
    BY <1>1, <1>5 DEF AtSecond, Hears
  <1>7. Typed'
    BY <1>1, <1>5 DEF Typed, States, Hears, lines, ghosts
  <1>8. Place'
    BY <1>6 DEF Place, Primaries
  <1>9. Operating'
    BY <1>1, ProceedOn
  <1>10. Pending'
    BY <1>1, <1>3 DEF Pending, Hears, ghosts
  <1>11. Listening'
    BY <1>6 DEF Listening, Hears
  <1>12. Talking'
    BY <1>6 DEF Talking, Hears
  <1>13. Lines'
    BY <1>1 DEF Lines, Hears, lines
  <1> QED
    BY <1>7, <1>8, <1>9, <1>10, <1>11, <1>12, <1>13

LEMMA NotForMeStep ==
  ASSUME IInv, NotForMe
  PROVE  IInv'
PROOF
  <1> USE DEF IInv, NotForMe
  <1>1. /\ Expects("byte") /\ todo # <<>> /\ Proceed(Tail(todo)) /\ atn
        /\ cmd' \in Bytes /\ ~clock /\ data /\ ~eoi
        /\ command_buffer = <<>> \/ recvd
        /\ recvd => LastByte(todo, "UNLISTEN")
    BY HearsByte
  <1>2. PICK b \in Bytes : AtFirst("OTHER", b)
    BY <1>1, NextPlace, Heads, FirstOffKinds DEF Hears, AtFirst, AtSecond, Primaries
  <1>3. ~recvd
    BY <1>1, <1>2, Heads DEF AtFirst
  <1>4. Secondly(Tail(todo), mark, op, "OTHER", b)
    BY <1>2, Steps DEF AtFirst
  <1>5. Secondly(todo', mark', op', "OTHER", b) /\ todo' \in Seq(Event) /\ mark' = mark
    BY <1>1, <1>4, ProceedOn, Heads
  <1>6. AtSecond("OTHER", b)'
    BY <1>1, <1>5 DEF AtSecond, Hears
  <1>7. ~Sending /\ ~Printing /\ ~Getting /\ ~AtEnd("UNLISTEN") /\ ~AtEnd("UNTALK")
    BY <1>1, <1>2, Heads DEF Sending, Printing, Getting, AtEnd, AtFirst
  <1>8. \A prim, b2 : ~AtSecond(prim, b2) /\ ~AtFirstOff(prim, b2)
    BY <1>2, Heads, FirstOffKinds DEF AtFirst, AtSecond, AtFirstOff
  <1>9. device_state = "IDLE"
    BY <1>7, <1>8 DEF Typed, Listening, Talking, Hears
  <1>10. Typed'
    BY <1>1, <1>5 DEF Typed, States, Hears, lines, ghosts
  <1>11. Place'
    BY <1>6 DEF Place, Primaries
  <1>12. Operating'
    BY <1>1, ProceedOn
  <1>13. Pending'
    BY <1>1, <1>3 DEF Pending, Hears, ghosts
  <1>14. Listening'
    BY <1>9 DEF Listening, Hears
  <1>15. Talking'
    BY <1>9 DEF Talking, Hears
  <1>16. Lines'
    BY <1>1 DEF Lines, Hears, lines
  <1> QED
    BY <1>10, <1>11, <1>12, <1>13, <1>14, <1>15, <1>16

(* The secondary address: the channel is known.                            *)
LEMMA SecondaryStep ==
  ASSUME IInv, Secondary
  PROVE  IInv'
PROOF
  <1> USE DEF IInv, Secondary
  <1>1. /\ Expects("byte") /\ todo # <<>> /\ Proceed(Tail(todo)) /\ atn
        /\ cmd' \in Bytes /\ ~clock /\ data /\ ~eoi
        /\ command_buffer = <<>> \/ recvd
        /\ recvd => LastByte(todo, "UNLISTEN")
    BY HearsByte
  <1>2. PICK prim \in Primaries, b \in Bytes : AtSecond(prim, b)
    BY <1>1, NextPlace, Heads DEF Hears, AtFirst, AtSecond, Primaries
  <1>3. ~recvd
    BY <1>1, <1>2, Heads, FirstOffKinds DEF AtSecond
  <1>4. todo' \in Seq(Event) /\ mark' = mark
    BY <1>1, ProceedOn
  <1>5. ASSUME NEW p \in Primaries, NEW c \in Bytes, AtSecond(p, c)
        PROVE  AtFirstOff(p, c)'
    <2>1. FirstOff(Tail(todo), mark, op, p, c) /\ Head(todo).kind = c.kind /\ Head(todo).ch = c.ch
      BY <1>5, Steps, Heads DEF AtSecond
    <2>2. FirstOff(todo', mark', op', p, c)
      BY <2>1, <1>1, ProceedOn, Heads
    <2>3. cmd' = c /\ secondary_address' = c.ch
      BY <2>1 DEF Bytes, Hears
    <2> QED
      BY <2>1, <2>2, <2>3, <1>1, <1>5 DEF AtFirstOff, AtSecond, Hears, lines
  <1>6. ~Sending /\ ~Printing /\ ~Getting /\ ~AtEnd("UNLISTEN") /\ ~AtEnd("UNTALK")
    BY <1>1, <1>2, Heads, FirstOffKinds DEF Sending, Printing, Getting, AtEnd, AtSecond
  <1>7. \A p, c : ~AtFirstOff(p, c)
    BY <1>2, Heads DEF AtSecond, AtFirstOff
  <1>8. Head(todo).ch \in 0 .. 15
    BY <1>2, Heads DEF AtSecond, Bytes
  <1>9. Typed'
    BY <1>1, <1>4, <1>8 DEF Typed, States, Hears, lines, ghosts
  <1>10. Place'
    BY <1>2, <1>5 DEF Place
  <1>11. Operating'
    BY <1>1, ProceedOn
  <1>12. Pending'
    BY <1>1, <1>3 DEF Pending, Hears, ghosts
  <1>13. b.kind = Head(todo).kind /\ (b.kind = "CLOSE" => prim = "LISTEN")
    BY <1>2, Heads, FirstOffKinds DEF AtSecond
  <1>14. Listening'
    BY <1>2, <1>5, <1>6, <1>7, <1>13 DEF Listening, Hears, Primaries
  <1>15. Talking'
    BY <1>5, <1>6, <1>7 DEF Talking, Hears, Primaries
  <1>16. Lines'
    BY <1>1 DEF Lines, Hears, lines
  <1> QED
    BY <1>9, <1>10, <1>11, <1>12, <1>14, <1>15, <1>16

-----------------------------------------------------------------------------
(***************************************************************************)
(* The steps of the computer alone.                                        *)
(***************************************************************************)
LEMMA AtnOnStep ==
  ASSUME IInv, AtnOn
  PROVE  IInv'
PROOF
  <1> USE DEF IInv, AtnOn
  <1>1. todo # <<>> /\ todo' \in Seq(Event) /\ mark' = mark
    BY ProceedOn DEF Expects
  <1>2. ASSUME NEW prim \in Primaries, NEW b \in Bytes, AtStart(prim, b)
        PROVE  AtFirst(prim, b)'
    <2>1. Firstly(Tail(todo), mark, op, prim, b)
      BY <1>2, Steps DEF AtStart
    <2>2. Firstly(todo', mark', op', prim, b)
      BY <2>1, ProceedOn, Heads DEF Expects
    <2>3. bus_state # "CLOSING"
      <3>1. Head(Tail(todo)).kind = prim
        BY <2>1, Heads
      <3>2. ~Last(todo, "UNLISTEN")
        <4> SUFFICES ASSUME Last(todo, "UNLISTEN") PROVE FALSE
          OBVIOUS
        <4>1. LastByte(Tail(todo), "UNLISTEN")
          BY Steps
        <4>2. Head(Tail(todo)).kind = "UNLISTEN"
          BY <4>1, Heads
        <4> QED
          BY <3>1, <4>2 DEF Primaries
      <3> QED
        BY <1>2, <3>2, Heads DEF AtStart, Listening, AtEnd, AtFirstOff
    <2> QED
      BY <2>2, <2>3 DEF AtFirst, AwaitsRelease, bus
  <1>3. ASSUME NEW k, Last(todo, k)
        PROVE  AtEnd(k)' /\ LastByte(todo', k)
    BY <1>1, <1>3, Steps, ProceedOn DEF AtEnd, AwaitsRelease, Expects, bus
  <1>4. ~Sending /\ ~Printing /\ ~Getting
    BY NotSending, Heads DEF Printing, Getting, Expects
  <1>5. \A prim, b : ~AtSecond(prim, b) /\ ~AtFirstOff(prim, b)
    BY Heads DEF AtSecond, AtFirstOff, Expects
  <1>6. ASSUME NEW k, AtEnd(k)
        PROVE  Last(todo, k)
    BY <1>6, Heads DEF AtEnd, Expects
  <1>7. \/ \E prim \in Primaries, b \in Bytes : AtStart(prim, b)
        \/ \E k \in {"UNLISTEN", "UNTALK"} : Last(todo, k)
    BY NextPlace
  <1>8. Expects("byte")'
    <2>1. CASE \E prim \in Primaries, b \in Bytes : AtStart(prim, b)
      BY <2>1, <1>2, Heads DEF AtFirst, Expects
    <2>2. CASE \E k \in {"UNLISTEN", "UNTALK"} : Last(todo, k)
      BY <2>2, <1>3, Heads DEF Expects
    <2> QED
      BY <1>7, <2>1, <2>2
  <1>9. Typed'
    BY <1>1 DEF Typed, States, AtnHandler, bus, ghosts
  <1>10. Place'
    BY <1>2, <1>3, <1>7 DEF Place
  <1>11. Operating'
    BY <1>1, ProceedOn
  <1>12. Pending'
    BY <1>3, <1>4, <1>6 DEF Pending, AwaitsRelease, Fleeting, bus, ghosts
  <1>13. Listening'
    BY <1>3, <1>4, <1>5, <1>6 DEF Listening, AwaitsRelease, bus
  <1>14. Talking'
    BY <1>3, <1>4, <1>5, <1>6 DEF Talking, AwaitsRelease, bus
  <1>15. Lines'
    BY <1>3, <1>4, <1>6, <1>8 DEF Typed, Lines, AtnHandler, AwaitsRelease, Fleeting, bus
  <1> QED
    BY <1>9, <1>10, <1>11, <1>12, <1>13, <1>14, <1>15

(* A text, and what is kept of it.                                         *)
LEMMA TextIs ==
  ASSUME NEW m \in 0 .. 1, NEW n \in Nat
  PROVE  /\ TextOf(m, n) \in Seq(Tokens) /\ Len(TextOf(m, n)) = n
         /\ Taken(TextOf(m, n)) = TextOf(m, IF n < CommandSize THEN n ELSE CommandSize)
PROOF
  <1>1. TextOf(m, n) \in Seq(Tokens) /\ Len(TextOf(m, n)) = n
    BY DEF TextOf, Tokens
  <1> DEFINE l == IF n < CommandSize THEN n ELSE CommandSize
  <1>2. l \in Nat /\ l <= n
    BY IecAssumption
  <1>3. Taken(TextOf(m, n)) = SubSeq(TextOf(m, n), 1, l)
    BY <1>1 DEF Taken
  <1> HIDE DEF l
  <1>4. TextOf(m, l) \in Seq(Tokens) /\ Len(TextOf(m, l)) = l
    BY <1>2 DEF TextOf, Tokens
  <1>5. \A i \in 1 .. l : TextOf(m, n)[i] \in Tokens /\ TextOf(m, n)[i] = TextOf(m, l)[i]
    BY <1>2 DEF TextOf, Tokens
  <1>6. /\ SubSeq(TextOf(m, n), 1, l) \in Seq(Tokens) /\ Len(SubSeq(TextOf(m, n), 1, l)) = l
        /\ \A i \in 1 .. l : SubSeq(TextOf(m, n), 1, l)[i] = TextOf(m, n)[i]
    BY <1>2, <1>5, SubSeqProperties
  <1>7. SubSeq(TextOf(m, n), 1, l) = TextOf(m, l)
    BY <1>4, <1>5, <1>6, SeqEqual
  <1> QED
    BY <1>1, <1>3, <1>7 DEF l

LEMMA NoText ==
  ASSUME NEW m \in 0 .. 1
  PROVE  Taken(TextOf(m, 0)) = <<>>
PROOF
  <1>1. Taken(TextOf(m, 0)) = TextOf(m, 0) /\ TextOf(m, 0) \in Seq(Tokens) /\ Len(TextOf(m, 0)) = 0
    BY TextIs, IecAssumption
  <1> QED
    BY <1>1, EmptySeq

(* The end of an ATN sequence: the data follows.                           *)
LEMMA AtnOffStep ==
  ASSUME IInv, AtnOff
  PROVE  IInv'
PROOF
  <1> USE DEF IInv, AtnOff
  <1>1. todo # <<>> /\ todo' \in Seq(Event) /\ mark' = mark /\ todo' = Tail(todo)
    BY ProceedOn DEF Expects
  <1>2. ASSUME Finishing
        PROVE  todo' = <<>>
    BY <1>1, <1>2, Steps DEF Finishing
  <1>3. ASSUME NEW prim \in Primaries, NEW b \in Bytes, AtFirstOff(prim, b)
        PROVE  /\ \/ prim = "LISTEN" /\ (Sending' \/ Printing' \/ AtEnd("UNLISTEN")')
                  \/ prim = "TALK" /\ Getting'
                  \/ prim = "OTHER" /\ Passing'
               /\ b.kind = "CLOSE" => AtEnd("UNLISTEN")'
    <2>1. Follows(Tail(todo), mark, op, prim, b)
      BY <1>3, Steps DEF AtFirstOff
    <2>2. CASE prim = "LISTEN" /\ Commands(Tail(todo), mark, op, b)
      <3>1. PICK n \in Lengths : /\ RestOf(todo', 1 - mark, 1, n)
                                 /\ op = [ch |-> b.ch, text |-> Taken(TextOf(1 - mark, n))]
        BY <1>1, <2>2 DEF Commands
      <3>2. n \in Nat /\ 1 \in 1 .. n
        BY IecAssumption
      <3>3. todo' # <<>>
        <4>1. 1 - mark \in 0 .. 1
          BY DEF Typed
        <4> QED
          BY <3>1, <3>2, <4>1, RestOfHead
      <3>4. op' = op
        BY <1>1, <3>3, ProceedOn
      <3>5. /\ bus_state = "ATNFINISH" /\ device_state = "LISTEN" /\ cmd = b /\ secondary_address = b.ch
            /\ data
        BY <1>3, <2>2 DEF AtFirstOff, Commands, IsCommand
      <3>6. ~recvd /\ ~eoi
        BY <3>5 DEF Pending, Lines, Typed
      <3>7. command_buffer = <<>>
        BY <3>6, NotSending, <1>3, Heads DEF Pending, AtFirstOff, Sending
      <3>8. command_buffer = Taken(TextOf(1 - mark, 1 - 1))
        BY <3>7, NoText DEF Typed
      <3>9. b # None /\ IsCommand(b)
        BY <2>2, NoneAssumption DEF Commands, Bytes, Kinds
      <3>10. Sending'
        BY <1>1, <3>1, <3>2, <3>4, <3>5, <3>6, <3>8, <3>9 DEF Sending, bus, lines
      <3> QED
        BY <3>10, <2>2 DEF Commands, IsCommand
    <2>3. CASE prim = "LISTEN" /\ b.kind = "DATA" /\ b.ch \in Channels /\ PrintsBoth(Tail(todo))
      <3>1. bus_state = "ATNFINISH" /\ device_state = "LISTEN" /\ cmd = b
        BY <1>3, <2>3 DEF AtFirstOff
      <3>2. ~recvd
        BY <3>1 DEF Pending, Typed
      <3>3. b # None
        BY NoneAssumption DEF Bytes, Kinds
      <3> QED
        BY <1>1, <2>3, <3>1, <3>2, <3>3 DEF Printing, bus
    <2>4. CASE prim = "LISTEN" /\ Last(Tail(todo), "UNLISTEN")
      BY <1>1, <2>4 DEF AtEnd
    <2>5. CASE prim = "TALK" /\ b.kind = "DATA" /\ Gets(Tail(todo))
      <3>1. bus_state = "ATNFINISH" /\ device_state = "TALK"
        BY <1>3, <2>5 DEF AtFirstOff
      <3>2. ~recvd
        BY <3>1 DEF Pending, Typed
      <3>3. Getting'
        BY <1>1, <2>5, <3>1, <3>2 DEF Getting, bus
      <3>4. b.kind # "CLOSE"
        BY <2>5
      <3> QED
        BY <2>5, <3>3, <3>4
    <2>6. CASE prim = "OTHER" /\ b.kind = "DATA" /\ Passes(Tail(todo))
      BY <1>1, <2>6 DEF Passing
    <2> QED
      BY <2>1, <2>2, <2>3, <2>4, <2>5, <2>6 DEF Follows
  <1>4. Finishing \/ \E prim \in Primaries, b \in Bytes : AtFirstOff(prim, b)
    BY NextPlace
  <1>5. ~Sending /\ ~Printing /\ ~Getting /\ ~AtEnd("UNLISTEN") /\ ~AtEnd("UNTALK")
    BY NotSending, Heads DEF Printing, Getting, AtEnd, Expects
  <1>6. \A k : ~LastByte(todo, k)
    BY Heads DEF Expects
  <1>7. \A prim, b : ~AtSecond(prim, b)
    BY Heads DEF AtSecond, Expects
  <1>8. ~Expects("byte")
    BY DEF Expects
  <1>9. Typed'
    BY <1>1 DEF Typed, bus, lines, ghosts
  <1>10. Place'
    BY <1>2, <1>3, <1>4 DEF Place
  <1>11. Operating'
    BY <1>1, ProceedOn
  <1>12. Pending'
    BY <1>5, <1>6 DEF Pending, bus, ghosts
  <1>13. Listening'
    <2>1. CASE bus_state = "CLOSING"
      <3>1. PICK b \in Bytes : AtFirstOff("LISTEN", b)
        BY <2>1, <1>5 DEF Listening
      <3>2. b.kind = "CLOSE"
        BY <2>1, <3>1 DEF AtFirstOff
      <3> QED
        BY <1>3, <2>1, <3>1, <3>2 DEF Listening, bus, Primaries
    <2>2. CASE bus_state # "CLOSING"
      BY <1>3, <1>5, <1>7, <2>2 DEF Listening, bus, Primaries
    <2> QED
      BY <2>1, <2>2
  <1>14. Talking'
    BY <1>3, <1>5, <1>7 DEF Talking, bus, Primaries
  <1>15. Lines'
    BY <1>5, <1>8 DEF Typed, Lines, bus, lines
  <1> QED
    BY <1>9, <1>10, <1>11, <1>12, <1>13, <1>14, <1>15

LEMMA NotPresentStep ==
  ASSUME IInv, NotPresent
  PROVE  IInv'
PROOF
  <1> USE DEF IInv, NotPresent
  <1>1. todo' = <<Ev("off")>> /\ todo' \in Seq(Event) /\ todo' # <<>> /\ mark' = mark /\ op' = op
    BY DEF Proceed, Ev, Event
  <1>2. LastOff(todo')
    BY <1>1 DEF LastOff, Starts, Ev
  <1>3. atn
    BY NextPlace, Heads DEF AtFirst, AtSecond, AtEnd
  <1>4. ~clock /\ todo # <<>> /\ ~Sending
    BY <1>3 DEF Lines, Expects, Sending
  <1>5. Typed'
    BY <1>1 DEF Typed, bus, lines, ghosts
  <1>6. Place'
    BY <1>2, <1>3 DEF Place, Finishing
  <1>7. Operating'
    BY <1>1, <1>4 DEF Operating
  <1>8. Pending'
    BY <1>4 DEF Pending, bus, ghosts
  <1>9. Listening'
    BY DEF Listening, bus
  <1>10. Talking'
    BY DEF Talking, bus
  <1>11. Lines'
    BY <1>4 DEF Typed, Lines, bus, lines
  <1> QED
    BY <1>5, <1>6, <1>7, <1>8, <1>9, <1>10, <1>11

(* The other device's bytes: only under "OTHER", and after it.              *)
LEMMA PassByStep ==
  ASSUME IInv, PassBy
  PROVE  IInv'
PROOF
  <1> USE DEF IInv, PassBy
  <1>1. todo # <<>> /\ todo' \in Seq(Event) /\ mark' = mark /\ todo' = Tail(todo)
    BY ProceedOn DEF Expects
  <1>2. ~Sending /\ ~Printing /\ ~Getting
    BY NotSending, Heads DEF Printing, Getting, Expects
  <1>3. /\ ~clock
        /\ bus_state \notin {"CLOSING", "TALKING", "LISTENING"} \/ Expects("pass")
        /\ AtEnd("UNTALK") => LastByte(todo, "UNTALK")
    <2>1. AtEnd("UNTALK") => LastByte(todo, "UNTALK")
      BY Heads DEF AtEnd, Expects
    <2>2. ~clock
      BY <1>2, <2>1, Heads DEF Lines, Expects
    <2> QED
      BY <2>1, <2>2
  <1>4. CASE Expects("pass") /\ ~atn
    <2>1. AtEnd("UNLISTEN")'
      BY <1>1, <1>4, NextPlace, Steps DEF Passing, AtEnd
    <2>2. ~AtEnd("UNLISTEN") /\ ~AtEnd("UNTALK")
      BY <1>4, Heads DEF AtEnd, Expects
    <2>3. \A k : ~LastByte(todo, k)
      BY <1>4, Heads DEF Expects
    <2>4. \A prim, b : ~AtSecond(prim, b) /\ ~AtFirstOff(prim, b)
      BY <1>4, Heads DEF AtSecond, AtFirstOff, Expects
    <2>5. Typed'
      BY <1>1 DEF Typed, bus, lines, ghosts
    <2>6. Place'
      BY <2>1 DEF Place
    <2>7. Operating'
      BY <1>1, ProceedOn
    <2>8. Pending'
      BY <1>2, <2>1, <2>2, <2>3 DEF Pending, bus, ghosts
    <2>9. Listening'
      BY <2>1 DEF Listening, bus
    <2>10. Talking'
      BY <1>2, <2>2, <2>4 DEF Talking, bus
    <2>11. Lines'
      BY <1>3, <1>4 DEF Typed, Lines, bus, lines
    <2> QED
      BY <2>5, <2>6, <2>7, <2>8, <2>9, <2>10, <2>11
  <1>5. CASE Expects("byte") /\ op.ch = None /\ bus_state \in {"ATNFINISH", "EXECUTE", "SLEEP"}
    <2>1. ASSUME NEW prim \in Primaries, NEW b \in Bytes, AtFirst(prim, b)
          PROVE  prim = "OTHER" /\ AtSecond(prim, b)'
      <3>1. Secondly(Tail(todo), mark, op, prim, b)
        BY <2>1, Steps DEF AtFirst
      <3>2. Secondly(todo', mark', op', prim, b)
        BY <1>1, <3>1, ProceedOn, Heads
      <3>3. Follows(Tail(Tail(Tail(todo))), mark, op, prim, b)
        BY <3>1, Steps
      <3>4. prim = "OTHER"
        BY <1>5, <3>3, NoneAssumption DEF Follows, Bytes
      <3> QED
        BY <2>1, <3>2, <3>4 DEF AtSecond, AtFirst
    <2>2. ASSUME NEW prim \in Primaries, NEW b \in Bytes, AtSecond(prim, b)
          PROVE  prim = "OTHER" /\ AtFirstOff(prim, b)'
      <3>1. prim = "OTHER"
        BY <1>5, <2>2 DEF AtSecond
      <3>2. FirstOff(Tail(todo), mark, op, prim, b)
        BY <2>2, Steps DEF AtSecond
      <3>3. FirstOff(todo', mark', op', prim, b)
        BY <1>1, <3>2, ProceedOn, Heads
      <3> QED
        BY <2>2, <3>1, <3>3 DEF AtSecond, AtFirstOff
    <2>3. ASSUME NEW k \in {"UNLISTEN", "UNTALK"}, LastByte(todo, k), AtEnd(k)
          PROVE  bus_state # "ATNFINISH" /\ Finishing'
      <3>1. atn /\ bus_state # "ATNFINISH"
        BY <2>3, Heads DEF AtEnd
      <3> QED
        BY <1>1, <2>3, <3>1, Steps DEF Finishing
    <2>4. \/ \E prim \in Primaries, b \in Bytes : AtFirst(prim, b) \/ AtSecond(prim, b)
          \/ \E k \in {"UNLISTEN", "UNTALK"} : LastByte(todo, k) /\ AtEnd(k)
      BY <1>5, NextPlace
    <2>5. atn
      BY <2>4, Heads DEF AtFirst, AtSecond, AtEnd
    <2>6. \A prim, b : ~AtFirstOff(prim, b)
      BY <1>5, Heads DEF AtFirstOff, Expects
    <2>7. bus_state = "ATNFINISH" => device_state = "IDLE"
      <3>1. SUFFICES ASSUME bus_state = "ATNFINISH"
                     PROVE  device_state \notin {"LISTEN", "TALK"}
        BY DEF Typed
      <3>2. \E b \in Bytes : AtSecond("OTHER", b)
        BY <2>2, <2>3, <2>4, <3>1 DEF AtFirst
      <3>3. ~AtEnd("UNLISTEN")
        BY <3>1, <2>3, <2>5, Heads DEF AtEnd
      <3>4. \A b \in Bytes : ~AtSecond("LISTEN", b) /\ ~AtSecond("TALK", b)
        BY <3>1 DEF AtSecond
      <3> QED
        BY <1>2, <2>6, <3>1, <3>3, <3>4 DEF Listening, Talking
    <2>8. Typed'
      BY <1>1 DEF Typed, bus, lines, ghosts
    <2>9. Place'
      BY <2>1, <2>2, <2>3, <2>4 DEF Place
    <2>10. Operating'
      BY <1>1, ProceedOn
    <2>11. Pending'
      BY <1>2, <1>5, <2>5 DEF Pending, bus, ghosts
    <2>12. Listening'
      BY <1>5, <2>7 DEF Listening, bus
    <2>13. Talking'
      BY <1>5, <2>7 DEF Talking, bus
    <2>14. Lines'
      BY <1>3, <1>5 DEF Typed, Lines, bus, lines
    <2> QED
      BY <2>8, <2>9, <2>10, <2>11, <2>12, <2>13, <2>14
  <1> QED
    BY <1>4, <1>5

(* An operation that fails goes on with UNLISTEN or UNTALK.                 *)
LEMMA EndingIsLast ==
  ASSUME NEW k, todo \in Seq(Event), todo # <<>>, Head(todo).ev # "atn"
  PROVE  /\ Last(Tail(todo), k) => Ending = Tail(todo)
         /\ Last(Tail(Tail(todo)), k) /\ Tail(todo) # <<>> /\ Head(Tail(todo)).ev # "atn" =>
              Ending = Tail(Tail(todo))
PROOF
  <1> DEFINE starts == {i \in DOMAIN todo : todo[i].ev = "atn"}
  <1>1. Len(todo) \in Nat /\ Len(todo) > 0 /\ DOMAIN todo = 1 .. Len(todo) /\ todo[1].ev # "atn"
    BY LenProperties, EmptySeq
  <1>2. ASSUME NEW i \in starts, \A j \in starts : i <= j
        PROVE  Ending = SubSeq(todo, i, Len(todo))
    <2>1. (CHOOSE x \in starts : \A j \in starts : x <= j) = i
      <3>1. PICK y \in starts : /\ y = (CHOOSE x \in starts : \A j \in starts : x <= j)
                                 /\ \A j \in starts : y <= j
        BY <1>2
      <3>2. y <= i /\ i <= y /\ y \in Int /\ i \in Int
        BY <1>1, <1>2, <3>1
      <3> QED
        BY <3>1, <3>2
    <2> QED
      BY <1>2, <2>1 DEF Ending
  <1>3. Tail(todo) = SubSeq(todo, 2, Len(todo))
    BY TailIsSubSeq
  <1>4. ASSUME Last(Tail(todo), k)
        PROVE  Ending = Tail(todo)
    <2>1. Tail(todo) # <<>> /\ Head(Tail(todo)).ev = "atn"
      BY <1>4, Heads
    <2>2. Tail(todo) \in Seq(Event) /\ Len(Tail(todo)) = Len(todo) - 1
      BY <1>1, TailIs
    <2>3. Len(todo) > 1
      BY <1>1, <2>1, <2>2, EmptySeq
    <2>4. todo[2].ev = "atn"
      <3>1. Tail(todo)[1] = todo[2]
        BY <2>3, TailAt
      <3>2. Head(Tail(todo)) = Tail(todo)[1]
        BY <2>2, <2>3, NotEmpty
      <3> QED
        BY <2>1, <3>1, <3>2
    <2>5. 2 \in starts /\ \A j \in starts : 2 <= j
      BY <1>1, <2>3, <2>4
    <2> QED
      BY <1>2, <1>3, <2>5
  <1>5. ASSUME Last(Tail(Tail(todo)), k), Tail(todo) # <<>>, Head(Tail(todo)).ev # "atn"
        PROVE  Ending = Tail(Tail(todo))
    <2>1. Tail(Tail(todo)) # <<>> /\ Head(Tail(Tail(todo))).ev = "atn"
      BY <1>5, Heads
    <2>2. Tail(todo) \in Seq(Event) /\ Len(Tail(todo)) = Len(todo) - 1 /\ Len(Tail(todo)) > 0
      <3>1. Tail(todo) \in Seq(Event) /\ Len(Tail(todo)) = Len(todo) - 1
        BY <1>1, TailIs
      <3> QED
        BY <1>5, <3>1, EmptySeq
    <2>3. Tail(Tail(todo)) \in Seq(Event) /\ Len(Tail(Tail(todo))) = Len(todo) - 2
      <3>1. Tail(Tail(todo)) \in Seq(Event) /\ Len(Tail(Tail(todo))) = Len(Tail(todo)) - 1
        BY <2>2, TailIs
      <3> QED
        BY <1>1, <2>2, <3>1
    <2>4. Len(Tail(Tail(todo))) > 0
      BY <2>1, <2>3, EmptySeq
    <2>5. Len(todo) > 2
      BY <1>1, <2>3, <2>4
    <2>6. todo[2].ev # "atn"
      <3>1. Tail(todo)[1] = todo[2]
        BY <2>5, TailAt
      <3>2. Head(Tail(todo)) = Tail(todo)[1]
        BY <2>2, NotEmpty
      <3> QED
        BY <1>5, <3>1, <3>2
    <2>7. todo[3].ev = "atn"
      <3>1. Tail(todo)[2] = todo[3]
        BY <2>5, TailAt
      <3>2. Tail(Tail(todo))[1] = Tail(todo)[2]
        BY <1>1, <2>2, <2>5, TailAt
      <3>3. Head(Tail(Tail(todo))) = Tail(Tail(todo))[1]
        BY <2>3, <2>4, NotEmpty
      <3> QED
        BY <2>1, <3>1, <3>2, <3>3
    <2>8. 3 \in starts /\ \A j \in starts : 3 <= j
      BY <1>1, <2>5, <2>6, <2>7
    <2>9. Ending = SubSeq(todo, 3, Len(todo))
      BY <1>2, <2>8
    <2>10. Tail(SubSeq(todo, 2, Len(todo))) = SubSeq(todo, 2 + 1, Len(todo))
      BY <1>1, <2>5, HeadTailOfSubSeq
    <2> QED
      BY <1>3, <2>9, <2>10
  <1> QED
    BY <1>4, <1>5

LEMMA GivesUpStep ==
  ASSUME IInv, GivesUp
  PROVE  IInv'
PROOF
  <1> USE DEF IInv, GivesUp
  <1>1. todo # <<>> /\ Head(todo).ev # "atn" /\ todo \in Seq(Event)
    BY DEF Expects, Typed
  <1>2. ~Sending
    BY NotSending DEF Sending, Expects
  <1>3. \A prim, b : ~AtSecond(prim, b) /\ ~AtFirstOff(prim, b)
    BY DEF AtSecond, AtFirstOff
  <1>4. ~AtEnd("UNLISTEN") /\ ~AtEnd("UNTALK")
    BY Heads DEF AtEnd, Expects
  <1>5. \/ Getting /\ Last(Ending, "UNTALK") /\ Ending = Tail(todo)
        \/ Printing /\ Last(Ending, "UNLISTEN") /\ (Ending = Tail(todo) \/ Ending = Tail(Tail(todo)))
    <2>1. CASE Expects("get")
      BY <1>1, <2>1, NextPlace, Steps, EndingIsLast DEF Getting
    <2>2. CASE Expects("send")
      <3>1. Printing
        BY <1>2, <2>2, NextPlace
      <3>2. CASE PrintsLast(todo)
        BY <1>1, <3>1, <3>2, Steps, EndingIsLast
      <3>3. CASE PrintsBoth(todo)
        <4>1. PrintsLast(Tail(todo))
          BY <3>3, Steps
        <4>2. Last(Tail(Tail(todo)), "UNLISTEN") /\ Tail(todo) # <<>> /\ Head(Tail(todo)).ev # "atn"
          BY <4>1, Steps, Heads
        <4> QED
          BY <1>1, <3>1, <4>2, EndingIsLast
      <3> QED
        BY <3>1, <3>2, <3>3 DEF Printing
    <2> QED
      BY <2>1, <2>2
  <1>6. \/ Getting /\ AtEnd("UNTALK")'
        \/ Printing /\ AtEnd("UNLISTEN")'
    BY <1>5 DEF Proceed, AtEnd
  <1>7. todo' \in Seq(Event) /\ todo' # <<>> /\ mark' = mark /\ op' = op
    <2>1. todo' # <<>> /\ todo' = Ending
      BY <1>5, Heads DEF Proceed
    <2>2. Tail(todo) \in Seq(Event)
      BY <1>1, HeadTailProperties
    <2>3. Ending = Tail(Tail(todo)) => Tail(todo) # <<>>
      BY <1>5, Steps, Heads DEF Printing
    <2>4. Tail(todo) # <<>> => Tail(Tail(todo)) \in Seq(Event)
      BY <2>2, HeadTailProperties
    <2> QED
      BY <1>5, <2>1, <2>2, <2>3, <2>4 DEF Proceed
  <1>8. \A k : ~LastByte(todo, k)
    BY Heads DEF Expects
  <1>9. Typed'
    BY <1>7 DEF Typed, bus, lines, ghosts
  <1>10. Place'
    BY <1>6 DEF Place
  <1>11. Operating'
    BY <1>1, <1>7 DEF Operating
  <1>12. Pending'
    BY <1>2, <1>4, <1>8 DEF Pending, bus, ghosts
  <1>13. Listening'
    BY <1>2, <1>3, <1>4, <1>6, Heads DEF Listening, Printing, Getting, bus
  <1>14. Talking'
    BY <1>3, <1>4, <1>6, Heads DEF Talking, Printing, Getting, Expects, bus
  <1>15. Lines'
    BY <1>4, <1>6, Heads DEF Typed, Lines, Printing, Getting, Expects, bus, lines
  <1> QED
    BY <1>9, <1>10, <1>11, <1>12, <1>13, <1>14, <1>15

-----------------------------------------------------------------------------
(***************************************************************************)
(* Data bytes.                                                             *)
(***************************************************************************)

(* The buffer holds what came of a text, as far as there is room.           *)
LEMMA KeepsText ==
  ASSUME NEW m \in 0 .. 1, NEW k \in Nat \ {0}, command_buffer = Taken(TextOf(m, k - 1))
  PROVE  Keep(<<m, k>>) = Taken(TextOf(m, k))
PROOF
  <1> DEFINE l == IF k - 1 < CommandSize THEN k - 1 ELSE CommandSize
  <1>1. k - 1 \in Nat /\ l \in Nat
    BY IecAssumption
  <1>2. command_buffer = TextOf(m, l) /\ Len(command_buffer) = l
    BY <1>1, TextIs
  <1>3. Taken(TextOf(m, k)) = TextOf(m, IF k < CommandSize THEN k ELSE CommandSize)
    BY TextIs
  <1>4. /\ k - 1 < CommandSize => (IF k < CommandSize THEN k ELSE CommandSize) = k
        /\ ~(k - 1 < CommandSize) => (IF k < CommandSize THEN k ELSE CommandSize) = CommandSize
    BY IecAssumption
  <1>5. CASE k - 1 < CommandSize
    <2>1. l = k - 1 /\ Keep(<<m, k>>) = Append(TextOf(m, k - 1), <<m, k>>)
      BY <1>2, <1>5 DEF Keep
    <2>2. /\ TextOf(m, k - 1) \in Seq(Tokens) /\ Len(TextOf(m, k - 1)) = k - 1
          /\ TextOf(m, k) \in Seq(Tokens) /\ Len(TextOf(m, k)) = k
      BY <1>1, TextIs
    <2>3. <<m, k>> \in Tokens
      BY DEF Tokens
    <2> DEFINE a == Append(TextOf(m, k - 1), <<m, k>>)
    <2>4. /\ a \in Seq(Tokens) /\ Len(a) = k
          /\ \A i \in 1 .. k - 1 : a[i] = TextOf(m, k - 1)[i]
          /\ a[k] = <<m, k>>
      <3>1. a \in Seq(Tokens) /\ Len(a) = Len(TextOf(m, k - 1)) + 1
        BY <2>2, <2>3, AppendProperties
      <3>2. \A i \in 1 .. Len(TextOf(m, k - 1)) : a[i] = TextOf(m, k - 1)[i]
        BY <2>2, <2>3, AppendProperties
      <3>3. a[Len(TextOf(m, k - 1)) + 1] = <<m, k>>
        BY <2>2, <2>3, AppendProperties
      <3> QED
        BY <2>2, <3>1, <3>2, <3>3
    <2> HIDE DEF a
    <2>5. \A i \in 1 .. k : a[i] = TextOf(m, k)[i]
      <3>1. ASSUME NEW i \in 1 .. k - 1 PROVE a[i] = TextOf(m, k)[i]
        <4>1. TextOf(m, k - 1)[i] = <<m, i>> /\ TextOf(m, k)[i] = <<m, i>>
          BY DEF TextOf
        <4> QED
          BY <2>4, <4>1
      <3>2. a[k] = TextOf(m, k)[k]
        BY <2>4 DEF TextOf
      <3> QED
        BY <3>1, <3>2
    <2>6. a = TextOf(m, k)
      BY <2>2, <2>4, <2>5, SeqEqual
    <2>7. Taken(TextOf(m, k)) = TextOf(m, k)
      BY <1>5, <1>3, <1>4
    <2> QED
      BY <2>1, <2>6, <2>7 DEF a
  <1>6. CASE ~(k - 1 < CommandSize)
    <2>1. l = CommandSize /\ Keep(<<m, k>>) = TextOf(m, CommandSize)
      BY <1>2, <1>6 DEF Keep
    <2>2. Taken(TextOf(m, k)) = TextOf(m, CommandSize)
      BY <1>6, <1>3, <1>4
    <2> QED
      BY <2>1, <2>2
  <1> QED
    BY <1>5, <1>6

(* The last byte of a command completes a request.                         *)
LEMMA CommandByteStep ==
  ASSUME IInv, CommandByte
  PROVE  IInv'
PROOF
  <1> USE DEF IInv, CommandByte, Listens
  <1>1. todo # <<>> /\ todo' \in Seq(Event) /\ mark' = mark /\ todo' = Tail(todo)
    BY ProceedOn DEF Expects
  <1>2. Sending
    <2>1. ~Printing
      BY NoneAssumption, IecAssumption DEF Printing, Low, IsOpen, StatusChannel
    <2> QED
      BY <2>1, NextPlace
  <1>3. PICK n \in Lengths, k \in Nat :
          /\ k \in 1 .. n
          /\ RestOf(todo, 1 - mark, k, n)
          /\ op = [ch |-> secondary_address, text |-> Taken(TextOf(1 - mark, n))]
          /\ command_buffer = Taken(TextOf(1 - mark, k - 1))
    BY <1>2, IecAssumption DEF Sending
  <1>4. /\ cmd # None /\ IsCommand(cmd) /\ cmd.ch = secondary_address /\ device_state = "LISTEN"
        /\ ~atn /\ ~recvd /\ ~eoi /\ data
    BY <1>2 DEF Sending
  <1>5. n \in Nat /\ k \in Nat \ {0} /\ 1 - mark \in 0 .. 1
    BY <1>3, IecAssumption DEF Typed
  <1>6. Head(todo) = Send(<<1 - mark, k>>, k = n)
    BY <1>3, <1>5, RestOfHead
  <1>7. Head(todo).token = <<1 - mark, k>>
    BY <1>6 DEF Send
  <1>8. /\ k = n => Head(todo).last = TRUE
        /\ k # n => Head(todo).last = FALSE
    <2>1. k = n => (k = n) = TRUE
      BY Zenon
    <2>2. k # n => (k = n) = FALSE
      BY Zenon
    <2>3. /\ k = n => Head(todo) = Send(<<1 - mark, k>>, TRUE)
          /\ k # n => Head(todo) = Send(<<1 - mark, k>>, FALSE)
      BY <1>6, <2>1, <2>2, Zenon
    <2> QED
      BY <2>3 DEF Send
  <1>9. command_buffer' = Taken(TextOf(1 - mark, k))
    BY <1>3, <1>5, <1>7, KeepsText
  <1>10. command_buffer' \in Seq(Tokens) /\ Len(command_buffer') <= CommandSize
    <2> DEFINE l == IF k < CommandSize THEN k ELSE CommandSize
    <2>1. l \in Nat /\ l <= CommandSize
      BY <1>5, IecAssumption
    <2>2. command_buffer' = TextOf(1 - mark, l)
      BY <1>5, <1>9, TextIs
    <2> HIDE DEF l
    <2> QED
      BY <1>5, <2>1, <2>2, TextIs
  <1>11. ~clock
    BY <1>4 DEF Lines
  <1>12. CASE k < n
    <2>1. RestOf(todo', 1 - mark, k + 1, n) /\ todo' # <<>> /\ k + 1 \in 1 .. n
      <3>1. k + 1 \in 1 .. n
        BY <1>3, <1>5, <1>12
      <3>2. RestOf(todo', 1 - mark, k + 1, n)
        BY <1>1, <1>3, <1>5, <1>12, RestOfHead
      <3> QED
        BY <1>5, <3>1, <3>2, RestOfHead
    <2>2. op' = op
      BY <1>1, <2>1, ProceedOn
    <2>3. ~eoi' /\ ~recvd' /\ asked' = asked
      <3>1. Head(todo).last = FALSE
        BY <1>3, <1>5, <1>8, <1>12
      <3>2. ~eoi'
        BY <1>4, <3>1
      <3>3. ~recvd'
        BY <1>4, <3>2
      <3> QED
        BY <3>1, <3>2, <3>3
    <2>4. command_buffer' = Taken(TextOf(1 - mark, (k + 1) - 1))
      BY <1>5, <1>9
    <2>5. Sending'
      BY <1>1, <1>3, <1>4, <2>1, <2>2, <2>3, <2>4 DEF Sending, lines
    <2>6. Typed'
      BY <1>1, <1>10, <2>3 DEF Typed, lines
    <2>7. Place'
      BY <2>5 DEF Place
    <2>8. Operating'
      BY <1>1, ProceedOn
    <2>9. Pending'
      BY <1>4, <2>3, <2>5 DEF Pending
    <2>10. Listening'
      BY <1>4, <2>5 DEF Listening
    <2>11. Talking'
      BY <1>4 DEF Talking
    <2>12. Lines'
      BY <1>11 DEF Typed, Lines, lines
    <2> QED
      BY <2>6, <2>7, <2>8, <2>9, <2>10, <2>11, <2>12
  <1>13. CASE k = n
    <2>1. Last(todo', "UNLISTEN")
      BY <1>1, <1>3, <1>5, <1>13, RestOfHead
    <2>2. eoi' /\ recvd' /\ asked' = op
      BY <1>4, <1>8, <1>13
    <2>3. asked' = [ch |-> secondary_address, text |-> command_buffer']
      BY <1>3, <1>9, <1>13, <2>2
    <2>4. asked' \in Requests
      <3>1. secondary_address \in Channels \cup {StatusChannel}
        BY <1>4 DEF IsCommand
      <3> QED
        BY <1>3, <1>5, <2>2, <3>1 DEF Requests
    <2>5. AtEnd("UNLISTEN")'
      BY <1>4, <2>1 DEF AtEnd
    <2>6. Typed'
      BY <1>1, <1>10, <2>2, <2>4 DEF Typed, lines
    <2>7. Place'
      BY <2>5 DEF Place
    <2>8. Operating'
      BY <1>1, ProceedOn
    <2>9. Pending'
      BY <2>2, <2>3, <2>4, <2>5, NoneAssumption DEF Pending
    <2>10. Listening'
      BY <1>4, <2>5 DEF Listening
    <2>11. Talking'
      BY <1>4 DEF Talking
    <2>12. Lines'
      BY <1>11 DEF Typed, Lines, lines
    <2> QED
      BY <2>6, <2>7, <2>8, <2>9, <2>10, <2>11, <2>12
  <1> QED
    BY <1>3, <1>5, <1>12, <1>13

LEMMA FileByteStep ==
  ASSUME IInv, FileByte
  PROVE  IInv'
PROOF
  <1> USE DEF IInv, FileByte, Listens
  <1>1. todo # <<>> /\ todo' \in Seq(Event) /\ mark' = mark /\ todo' = Tail(todo)
    BY ProceedOn DEF Expects
  <1>2. Printing /\ ~Sending
    <2>1. ~Sending
      BY IecAssumption DEF Sending, IsCommand, Low, IsOpen, StatusChannel
    <2> QED
      BY <2>1, NextPlace
  <1>3. Printing' \/ AtEnd("UNLISTEN")'
    <2>1. CASE PrintsBoth(todo)
      <3>1. PrintsLast(todo')
        BY <1>1, <2>1, Steps
      <3> QED
        BY <1>2, <3>1 DEF Printing
    <2>2. CASE PrintsLast(todo)
      BY <1>1, <2>2, Steps DEF AtEnd
    <2> QED
      BY <1>2, <2>1, <2>2 DEF Printing
  <1>4. ~recvd /\ ~clock /\ command_buffer = <<>> /\ device_state = "LISTEN"
    BY <1>2 DEF Printing, Lines, Pending, Listening
  <1>5. eoi' \in BOOLEAN
    <2>1. Head(todo).last \in BOOLEAN
      BY <1>2, Heads DEF Printing
    <2> QED
      BY <2>1 DEF Typed
  <1>6. chan' = chan \/ chan' = [chan EXCEPT ![Low(cmd)] = Closed]
    OBVIOUS
  <1>7. Typed'
    <2>1. Closed \in [mode : Modes, left : 0 .. FileSize]
      BY IecAssumption DEF Closed, Modes
    <2>2. /\ chan' \in [Channels \cup {StatusChannel} -> [mode : Modes, left : 0 .. FileSize]]
          /\ \A c \in DOMAIN chan' : chan'[c].mode \in {"read", "direct"} => chan'[c].left > 0
          /\ chan'[StatusChannel].mode = "direct"
      <3>1. CASE chan' = chan
        BY <3>1 DEF Typed
      <3>2. CASE Mode(Low(cmd)) = "write" /\ chan' = [chan EXCEPT ![Low(cmd)] = Closed]
        <4>1. Low(cmd) \in DOMAIN chan /\ chan[Low(cmd)].mode = "write"
          BY <3>2 DEF Mode
        <4> QED
          BY <2>1, <3>2, <4>1 DEF Typed, Closed
      <3> QED
        BY <3>1, <3>2
    <2> QED
      BY <1>1, <1>5, <2>2 DEF Typed, States, lines, ghosts
  <1>8. Place'
    BY <1>3 DEF Place
  <1>9. Operating'
    BY <1>1, ProceedOn
  <1>10. Pending'
    BY <1>4 DEF Pending, ghosts
  <1>11. Listening'
    BY <1>3, <1>4 DEF Listening
  <1>12. Talking'
    BY <1>4 DEF Talking
  <1>13. Lines'
    BY <1>4 DEF Typed, Lines, lines
  <1> QED
    BY <1>7, <1>8, <1>9, <1>10, <1>11, <1>12, <1>13

LEMMA TalkByteStep ==
  ASSUME IInv, TalkByte
  PROVE  IInv'
PROOF
  <1> USE DEF IInv, TalkByte
  <1> DEFINE c == Low(cmd)
  <1>1. /\ todo # <<>> /\ mark' = mark /\ todo' \in Seq(Event) /\ Operating'
        /\ todo' = Tail(todo) \/ todo' = todo
    <2>1. CASE Proceed(Tail(todo))
      BY <2>1, ProceedOn DEF Expects
    <2>2. CASE UNCHANGED <<todo, op, mark>>
      BY <2>2 DEF Expects, Typed, Operating
    <2> QED
      BY <2>1, <2>2
  <1>2. Getting
    BY NextPlace
  <1>3. Getting' \/ AtEnd("UNTALK")'
    <2>1. CASE todo' = todo
      BY <1>2, <2>1 DEF Getting
    <2>2. CASE todo' = Tail(todo)
      BY <1>2, <2>2, Steps DEF Getting, AtEnd
    <2> QED
      BY <1>1, <2>1, <2>2
  <1>4. ~Sending /\ ~recvd /\ command_buffer = <<>>
    BY <1>2 DEF Getting, Pending, Sending
  <1>5. c \in DOMAIN chan /\ chan[c].mode \in {"read", "direct"} /\ chan[c].left \in 1 .. FileSize
    BY IecAssumption DEF Typed
  <1>6. /\ chan' \in [Channels \cup {StatusChannel} -> [mode : Modes, left : 0 .. FileSize]]
        /\ \A d \in DOMAIN chan' : chan'[d].mode \in {"read", "direct"} => chan'[d].left > 0
        /\ chan'[StatusChannel].mode = "direct"
        /\ bus_state' = "TALKING" => chan'[c].mode \in {"read", "direct"}
        /\ bus_state' \in {"TALKING", "CLEANUP"}
    <2> HIDE DEF c
    <2>1. /\ chan \in [Channels \cup {StatusChannel} -> [mode : Modes, left : 0 .. FileSize]]
          /\ \A d \in DOMAIN chan : chan[d].mode \in {"read", "direct"} => chan[d].left > 0
          /\ chan[StatusChannel].mode = "direct" /\ bus_state = "TALKING"
      BY DEF Typed
    <2>2. CASE /\ chan[c].left # 1
               /\ chan' = [chan EXCEPT ![c].left = @ - 1] /\ UNCHANGED bus_state
      BY <1>5, <2>1, <2>2, IecAssumption
    <2>3. ASSUME NEW closed \in {Closed, [mode |-> "spent", left |-> 0]}, chan[c].mode = "read",
                 chan' = [chan EXCEPT ![c] = closed], bus_state' = "CLEANUP"
          PROVE  /\ chan' \in [Channels \cup {StatusChannel} -> [mode : Modes, left : 0 .. FileSize]]
                 /\ \A d \in DOMAIN chan' : chan'[d].mode \in {"read", "direct"} => chan'[d].left > 0
                 /\ chan'[StatusChannel].mode = "direct"
      <3>1. closed \in [mode : Modes, left : 0 .. FileSize] /\ closed.mode \notin {"read", "direct"}
        BY IecAssumption DEF Closed, Modes
      <3> QED
        BY <1>5, <2>1, <2>3, <3>1
    <2>4. CASE /\ chan[c].mode = "direct" /\ UNCHANGED bus_state
               /\ chan' = [chan EXCEPT ![c] = OpenFor("direct")]
      <3>1. OpenFor("direct") \in [mode : Modes, left : 0 .. FileSize] /\ OpenFor("direct").left > 0
            /\ OpenFor("direct").mode = "direct"
        BY IecAssumption DEF OpenFor, Modes
      <3> QED
        BY <1>5, <2>1, <2>4, <3>1
    <2> QED
      BY <2>2, <2>3, <2>4 DEF c
  <1>7. Typed'
    BY <1>1, <1>5, <1>6 DEF Typed, States, lines, ghosts
  <1>8. Place'
    BY <1>3 DEF Place
  <1>9. Operating'
    BY <1>1
  <1>10. Pending'
    BY <1>4, <1>6 DEF Pending, ghosts
  <1>11. Listening'
    BY <1>6 DEF Listening
  <1>12. Talking'
    BY <1>3, <1>6 DEF Talking
  <1>13. Lines'
    BY <1>3, <1>6 DEF Typed, Lines, lines
  <1> QED
    BY <1>7, <1>8, <1>9, <1>10, <1>11, <1>12, <1>13

-----------------------------------------------------------------------------
(***************************************************************************)
(* The scripts.                                                            *)
(***************************************************************************)
LEMMA HeadTailOfConcat ==
  ASSUME NEW S, NEW s \in Seq(S), s # <<>>, NEW u \in Seq(S)
  PROVE  /\ s \o u # <<>> /\ s \o u \in Seq(S)
         /\ Head(s \o u) = Head(s)
         /\ Tail(s \o u) = Tail(s) \o u
PROOF
  <1>1. Len(s) \in Nat /\ Len(s) > 0 /\ Len(u) \in Nat
    BY EmptySeq, LenProperties
  <1>2. s \o u \in Seq(S) /\ Len(s \o u) = Len(s) + Len(u)
    BY ConcatProperties
  <1>3. \A i \in 1 .. Len(s) + Len(u) : (s \o u)[i] = IF i <= Len(s) THEN s[i] ELSE u[i - Len(s)]
    BY ConcatProperties
  <1>4. Len(s \o u) > 0
    BY <1>1, <1>2
  <1>5. s \o u # <<>> /\ Head(s \o u) = (s \o u)[1]
    BY <1>2, <1>4, NotEmpty
  <1>6. Head(s) = s[1]
    BY <1>1, NotEmpty
  <1>7. (s \o u)[1] = s[1]
    BY <1>1, <1>3
  <1>8. /\ Tail(s) \in Seq(S) /\ Len(Tail(s)) = Len(s) - 1
        /\ \A i \in 1 .. Len(s) - 1 : Tail(s)[i] = s[i + 1]
    BY <1>1, TailIs
  <1>9. /\ Tail(s \o u) \in Seq(S) /\ Len(Tail(s \o u)) = Len(s \o u) - 1
        /\ \A i \in 1 .. Len(s \o u) - 1 : Tail(s \o u)[i] = (s \o u)[i + 1]
    BY <1>2, <1>4, TailIs
  <1> DEFINE l == Tail(s)
             r == Tail(s \o u)
  <1>10. l \in Seq(S) /\ Len(l) = Len(s) - 1 /\ \A i \in 1 .. Len(s) - 1 : l[i] = s[i + 1]
    BY <1>8
  <1>11. /\ r \in Seq(S) /\ Len(r) = Len(s) + Len(u) - 1
         /\ \A i \in 1 .. Len(s) + Len(u) - 1 : r[i] = (s \o u)[i + 1]
    BY <1>2, <1>9
  <1> HIDE DEF l, r
  <1>12. /\ l \o u \in Seq(S) /\ Len(l \o u) = Len(l) + Len(u)
         /\ \A i \in 1 .. Len(l) + Len(u) : (l \o u)[i] = IF i <= Len(l) THEN l[i] ELSE u[i - Len(l)]
    BY <1>10, ConcatProperties
  <1>13. Len(r) = Len(l \o u)
    BY <1>1, <1>10, <1>11, <1>12
  <1>14. ASSUME NEW i \in 1 .. Len(r)
         PROVE  r[i] = (l \o u)[i]
    <2>1. i \in 1 .. Len(s) + Len(u) - 1 /\ i + 1 \in 1 .. Len(s) + Len(u)
      BY <1>1, <1>11
    <2>2. r[i] = IF i + 1 <= Len(s) THEN s[i + 1] ELSE u[i + 1 - Len(s)]
      BY <1>3, <1>11, <2>1
    <2>3. (l \o u)[i] = IF i <= Len(s) - 1 THEN l[i] ELSE u[i - (Len(s) - 1)]
      BY <1>1, <1>10, <1>12, <2>1
    <2>4. CASE i + 1 <= Len(s)
      BY <1>1, <1>10, <2>1, <2>2, <2>3, <2>4
    <2>5. CASE ~(i + 1 <= Len(s))
      <3>1. i + 1 - Len(s) = i - (Len(s) - 1) /\ ~(i <= Len(s) - 1)
        BY <1>1, <2>1, <2>5
      <3> QED
        BY <2>2, <2>3, <2>5, <3>1
    <2> QED
      BY <2>4, <2>5
  <1>15. r = l \o u
    BY <1>11, <1>12, <1>13, <1>14, SeqEqual
  <1> QED
    BY <1>2, <1>5, <1>6, <1>7, <1>15 DEF l, r

LEMMA HeadOfConcat ==
  ASSUME NEW S, NEW e \in S, NEW u \in Seq(S)
  PROVE  <<e>> \o u # <<>> /\ <<e>> \o u \in Seq(S) /\ Head(<<e>> \o u) = e /\ Tail(<<e>> \o u) = u
PROOF
  <1>1. <<e>> \in Seq(S) /\ <<e>> # <<>> /\ Head(<<e>>) = e /\ Tail(<<e>>) = <<>>
    OBVIOUS
  <1>2. <<>> \o u = u
    BY ConcatEmptySeq
  <1> QED
    BY <1>1, <1>2, HeadTailOfConcat

(* The first ATN sequence and what follows it.                             *)
LEMMA FirstSequence ==
  ASSUME NEW u \in Seq(Event), NEW m, NEW o, NEW prim \in Primaries, NEW b \in Bytes,
         Follows(u, m, o, prim, b)
  PROVE  /\ UnderAtn(<<B(prim, 0), B(b.kind, b.ch)>>) \o u \in Seq(Event)
         /\ Whole(UnderAtn(<<B(prim, 0), B(b.kind, b.ch)>>) \o u, m, o, prim, b)
PROOF
  <1> DEFINE a == Ev("atn")
             p == B(prim, 0)
             c == B(b.kind, b.ch)
             z == Ev("off")
  <1>1. a \in Event /\ p \in Event /\ c \in Event /\ z \in Event
    BY DEF Event, Ev, B, Bytes, Kinds, Primaries
  <1> HIDE DEF a, p, c, z
  <1>2. /\ <<a>> \in Seq(Event) /\ <<p, c>> \in Seq(Event) /\ <<z>> \in Seq(Event) /\ <<c>> \in Seq(Event)
        /\ <<p, c>> # <<>> /\ Head(<<p, c>>) = p /\ Tail(<<p, c>>) = <<c>>
    BY <1>1
  <1> DEFINE s1 == <<z>> \o u
             s3 == <<p, c>> \o s1
             s4 == <<a>> \o s3
  <1>3. s1 \in Seq(Event) /\ s1 # <<>> /\ Head(s1) = z /\ Tail(s1) = u
    BY <1>1, HeadOfConcat
  <1> HIDE DEF s1
  <1>4. s3 \in Seq(Event) /\ s3 # <<>> /\ Head(s3) = p /\ Tail(s3) = <<c>> \o s1
    BY <1>2, <1>3, HeadTailOfConcat
  <1>5. <<c>> \o s1 # <<>> /\ Head(<<c>> \o s1) = c /\ Tail(<<c>> \o s1) = s1
    BY <1>1, <1>3, HeadOfConcat
  <1> HIDE DEF s3
  <1>6. s4 \in Seq(Event) /\ s4 # <<>> /\ Head(s4) = a /\ Tail(s4) = s3
    BY <1>1, <1>4, HeadOfConcat
  <1>7. ((<<a>> \o <<p, c>>) \o <<z>>) \o u = s4
    <2>1. <<a>> \o <<p, c>> \in Seq(Event)
      BY <1>2, ConcatProperties
    <2>2. ((<<a>> \o <<p, c>>) \o <<z>>) \o u = (<<a>> \o <<p, c>>) \o s1
      BY <1>2, <2>1, ConcatAssociative DEF s1
    <2>3. (<<a>> \o <<p, c>>) \o s1 = <<a>> \o s3
      BY <1>2, <1>3, ConcatAssociative DEF s3
    <2> QED
      BY <2>2, <2>3
  <1> HIDE DEF s4
  <1>8. Whole(s4, m, o, prim, b)
    BY <1>3, <1>4, <1>5, <1>6 DEF Whole, Firstly, Secondly, FirstOff, Starts, a, p, c, z
  <1> QED
    BY <1>6, <1>7, <1>8 DEF UnderAtn, a, p, c, z

(* UNLISTEN or UNTALK.                                                     *)
LEMMA LastSequence ==
  ASSUME NEW k \in Kinds
  PROVE  /\ UnderAtn(<<B(k, 0)>>) \in Seq(Event) /\ Len(UnderAtn(<<B(k, 0)>>)) = 3
         /\ UnderAtn(<<B(k, 0)>>)[1] = Ev("atn") /\ UnderAtn(<<B(k, 0)>>)[2] = B(k, 0)
         /\ UnderAtn(<<B(k, 0)>>)[3] = Ev("off")
         /\ Last(UnderAtn(<<B(k, 0)>>), k)
PROOF
  <1> DEFINE a == Ev("atn")
             p == B(k, 0)
             z == Ev("off")
             u == (<<a>> \o <<p>>) \o <<z>>
  <1>1. a \in Event /\ p \in Event /\ z \in Event
    BY DEF Event, Ev, B
  <1> HIDE DEF a, p, z
  <1>2. <<a>> \in Seq(Event) /\ <<p>> \in Seq(Event) /\ <<z>> \in Seq(Event)
    BY <1>1
  <1>3. /\ <<a>> \o <<p>> \in Seq(Event) /\ Len(<<a>> \o <<p>>) = 2
        /\ (<<a>> \o <<p>>)[1] = a /\ (<<a>> \o <<p>>)[2] = p
    BY <1>2, ConcatProperties
  <1>4. u \in Seq(Event) /\ Len(u) = 3 /\ u[1] = a /\ u[2] = p /\ u[3] = z
    BY <1>2, <1>3, ConcatProperties
  <1> HIDE DEF u
  <1>5. Last(u, k)
    BY <1>4, ThreeEvents DEF a, p, z
  <1> QED
    BY <1>4, <1>5 DEF UnderAtn, u, a, p, z

LEMMA NothingTaken == Taken(<<>>) = <<>>
PROOF
  <1>1. Len(<<>>) = 0
    BY EmptySeq
  <1>2. Taken(<<>>) = SubSeq(<<>>, 1, 0)
    BY <1>1, IecAssumption DEF Taken
  <1> QED
    BY <1>2, SubSeqEmpty

LEMMA RequestIs ==
  ASSUME NEW ch \in Channels \cup {StatusChannel}, NEW m \in 0 .. 1, NEW n \in Lengths
  PROVE  [ch |-> ch, text |-> Taken(TextOf(m, n))] \in Requests
BY DEF Requests

(* An operation begins with its first ATN sequence.                         *)
LEMMA BeginStep ==
  ASSUME IInv, NEW ch, NEW text, NEW script, NEW prim \in Primaries, NEW b \in Bytes,
         Begin(ch, text, script),
         \/ text = <<>> /\ ch \in 0 .. 15 \cup {None}
         \/ ch \in Channels \cup {StatusChannel} /\ \E n \in Lengths : text = Text(n),
         script \in Seq(Event), Whole(script, mark', op', prim, b)
  PROVE  IInv'
PROOF
  <1> USE DEF IInv
  <1>1. /\ todo = <<>> /\ todo' = script /\ todo' # <<>>
        /\ UNCHANGED <<bus, command_buffer, recvd, lines, chan, atn, ghosts>>
    BY Heads DEF Begin
  <1>2. mark' \in 0 .. 1
    BY DEF Begin, Typed
  <1>3. /\ ch \in 0 .. 15 \cup {None} /\ Taken(text) \in Seq(Tokens)
        /\ [ch |-> ch, text |-> Taken(text)] # None
    <2>1. CASE text = <<>> /\ ch \in 0 .. 15 \cup {None}
      BY <2>1, NothingTaken, NoneAssumption, EmptySeq
    <2>2. ASSUME ch \in Channels \cup {StatusChannel}, NEW n \in Lengths, text = Text(n)
          PROVE  /\ ch \in 0 .. 15 /\ Taken(text) \in Seq(Tokens)
                 /\ [ch |-> ch, text |-> Taken(text)] # None
      <3>1. ch \in 0 .. 15
        BY <2>2, IecAssumption DEF StatusChannel
      <3>2. n \in Nat /\ mark \in 0 .. 1 /\ (IF n < CommandSize THEN n ELSE CommandSize) \in Nat
        BY IecAssumption DEF Typed
      <3>3. Taken(text) \in Seq(Tokens)
        BY <2>2, <3>2, TextIs DEF Text
      <3>4. [ch |-> ch, text |-> Taken(text)] \in Requests
        <4>1. Taken(text) = Taken(TextOf(mark, n))
          BY <2>2 DEF Text
        <4>2. [ch |-> ch, text |-> Taken(TextOf(mark, n))] \in Requests
          BY <2>2, <3>2, RequestIs
        <4> QED
          BY <4>1, <4>2
      <3> QED
        BY <3>1, <3>3, <3>4, NoneAssumption
    <2> QED
      BY <2>1, <2>2
  <1>4. op' # None /\ op' \in [ch : 0 .. 15 \cup {None}, text : Seq(Tokens)]
    BY <1>3 DEF Begin
  <1>5. /\ ~atn /\ ~Sending /\ ~Printing /\ ~Getting /\ ~AtEnd("UNLISTEN") /\ ~AtEnd("UNTALK")
        /\ ~Expects("byte")
    <2>1. \A p, c : ~AtStart(p, c) /\ ~AtFirst(p, c) /\ ~AtSecond(p, c) /\ ~AtFirstOff(p, c)
      BY <1>1, Heads DEF AtStart, AtFirst, AtSecond, AtFirstOff
    <2>2. ~Printing /\ ~Getting /\ ~Passing /\ ~Finishing /\ ~AtEnd("UNLISTEN") /\ ~AtEnd("UNTALK")
      BY <1>1, Heads DEF Printing, Getting, Passing, Finishing, AtEnd
    <2>3. ~Sending /\ ~Expects("byte")
      BY <1>1, NotSending DEF Expects
    <2> QED
      BY <2>1, <2>2, <2>3 DEF Place
  <1>6. \A p, c : ~AtSecond(p, c) /\ ~AtFirstOff(p, c)
    BY <1>1, Heads DEF AtSecond, AtFirstOff
  <1>7. \A k : ~LastByte(todo, k)
    BY <1>1, Heads
  <1>8. Typed'
    BY <1>1, <1>2 DEF Typed, bus, lines, ghosts
  <1>9. Place'
    <2>1. AtStart(prim, b)'
      BY <1>1, <1>5 DEF AtStart
    <2> QED
      BY <2>1 DEF Place
  <1>10. Operating'
    BY <1>1, <1>4 DEF Operating
  <1>11. Pending'
    BY <1>1, <1>5, <1>7 DEF Pending, bus, ghosts
  <1>12. Listening'
    BY <1>1, <1>5, <1>6 DEF Listening, bus
  <1>13. Talking'
    BY <1>1, <1>5, <1>6 DEF Talking, bus
  <1>14. Lines'
    BY <1>1, <1>5 DEF Typed, Lines, bus, lines
  <1> QED
    BY <1>8, <1>9, <1>10, <1>11, <1>12, <1>13, <1>14

(* The bytes of a command and UNLISTEN.                                    *)
LEMMA CommandScript ==
  ASSUME NEW m \in 0 .. 1, NEW n \in Nat \ {0}
  PROVE  Sends(TextOf(m, n)) \o Unlisten \in Seq(Event) /\ RestOf(Sends(TextOf(m, n)) \o Unlisten, m, 1, n)
PROOF
  <1> DEFINE s == Sends(TextOf(m, n))
             z == Unlisten
  <1>1. TextOf(m, n) \in Seq(Tokens) /\ Len(TextOf(m, n)) = n
    BY TextIs
  <1>2. s = [i \in 1 .. n |-> Send(TextOf(m, n)[i], i = n)]
    BY <1>1 DEF Sends
  <1>3. \A i \in 1 .. n : TextOf(m, n)[i] = <<m, i>> /\ Send(<<m, i>>, i = n) \in Event
    BY DEF TextOf, Send, Event, Tokens
  <1> HIDE DEF s
  <1>4. s = [i \in 1 .. n |-> Send(<<m, i>>, i = n)]
    BY <1>2, <1>3
  <1>5. s \in Seq(Event) /\ Len(s) = n
    BY <1>3, <1>4
  <1>6. z \in Seq(Event) /\ Len(z) = 3 /\ z[1] = Ev("atn") /\ z[2] = B("UNLISTEN", 0) /\ z[3] = Ev("off")
    BY LastSequence DEF Unlisten, Kinds
  <1> HIDE DEF z
  <1> DEFINE t == s \o z
  <1>7. t \in Seq(Event) /\ Len(t) = Len(s) + Len(z)
    BY <1>5, <1>6, ConcatProperties
  <1>8. \A i \in 1 .. Len(s) + Len(z) : t[i] = IF i <= Len(s) THEN s[i] ELSE z[i - Len(s)]
    BY <1>5, <1>6, ConcatProperties
  <1> HIDE DEF t
  <1>9. Len(t) = n + 3 /\ \A i \in 1 .. n + 3 : t[i] = IF i <= n THEN s[i] ELSE z[i - n]
    BY <1>5, <1>6, <1>7, <1>8
  <1>10. \A i \in 1 .. n : t[i] = Send(<<m, i>>, i = n)
    <2>1. \A i \in 1 .. n : t[i] = s[i]
      BY <1>9
    <2> QED
      BY <1>4, <2>1
  <1>11. t[n + 1] = z[1] /\ t[n + 2] = z[2] /\ t[n + 3] = z[3]
    <2>1. t[n + 1] = z[n + 1 - n] /\ t[n + 2] = z[n + 2 - n] /\ t[n + 3] = z[n + 3 - n]
      BY <1>9
    <2>2. n + 1 - n = 1 /\ n + 2 - n = 2 /\ n + 3 - n = 3
      OBVIOUS
    <2> QED
      BY <2>1, <2>2
  <1> HIDE DEF t
  <1>12. RestOf(t, m, 1, n)
    BY <1>6, <1>7, <1>11, <1>9, <1>10 DEF RestOf
  <1> QED
    BY <1>7, <1>12 DEF s, z, t

(* Every operation begins with a script that has a place.                  *)
LEMMA StartOpStep ==
  ASSUME IInv, StartOp
  PROVE  IInv'
PROOF
  <1> DEFINE first(prim, b) == UnderAtn(<<B(prim, 0), B(b.kind, b.ch)>>)
  <1>1. ASSUME NEW b \in Bytes, IsCommand(b), NEW n \in Lengths,
               Begin(b.ch, Text(n), first("LISTEN", b) \o Sends(Text(n)) \o Unlisten)
        PROVE  IInv'
    <2> DEFINE u == Sends(Text(n)) \o Unlisten
               script == first("LISTEN", b) \o Sends(Text(n)) \o Unlisten
    <2>1. n \in Nat \ {0} /\ mark \in 0 .. 1
      BY IecAssumption DEF IInv, Typed
    <2>2. u \in Seq(Event) /\ RestOf(u, mark, 1, n)
      BY <2>1, CommandScript DEF Text
    <2>3. mark' = 1 - mark /\ op' = [ch |-> b.ch, text |-> Taken(TextOf(mark, n))]
      <3>1. Text(n) # <<>>
        BY <2>1, TextIs, EmptySeq DEF Text
      <3> QED
        BY <1>1, <3>1 DEF Begin, Text
    <2>4. 1 - mark' = mark
      BY <2>1, <2>3
    <2>5. Follows(u, mark', op', "LISTEN", b)
      BY <1>1, <2>2, <2>3, <2>4 DEF Follows, Commands
    <2>6. first("LISTEN", b) \o u \in Seq(Event) /\ Whole(first("LISTEN", b) \o u, mark', op', "LISTEN", b)
      BY <2>2, <2>5, FirstSequence DEF Primaries
    <2>7. script = first("LISTEN", b) \o u
      BY <1>1
    <2> QED
      BY <1>1, <2>6, <2>7, BeginStep DEF IsCommand, Primaries
  <1>2. ASSUME NEW prim \in Primaries, NEW b \in Bytes,
               NEW ch \in 0 .. 15 \cup {None}, prim # "OTHER" => ch = b.ch,
               NEW u \in Seq(Event), Begin(ch, <<>>, first(prim, b) \o u),
               \A m, o : (prim # "OTHER" => o.ch = b.ch) => Follows(u, m, o, prim, b)
        PROVE  IInv'
    <2>1. op' = [ch |-> ch, text |-> Taken(<<>>)]
      BY <1>2 DEF Begin
    <2>2. Follows(u, mark', op', prim, b)
      BY <1>2, <2>1
    <2>3. first(prim, b) \o u \in Seq(Event) /\ Whole(first(prim, b) \o u, mark', op', prim, b)
      BY <2>2, FirstSequence
    <2> QED
      BY <1>2, <2>3, BeginStep
  <1>3. /\ Unlisten \in Seq(Event) /\ Last(Unlisten, "UNLISTEN")
        /\ Untalk \in Seq(Event) /\ Last(Untalk, "UNTALK")
    BY LastSequence DEF Unlisten, Untalk, Kinds
  <1>4. Channels \subseteq 0 .. 15 /\ StatusChannel \in 0 .. 15
    BY IecAssumption DEF StatusChannel
  <1>5. ASSUME NEW ch \in Channels, NEW n \in Lengths, Open(ch, n)
        PROVE  IInv'
    <2> DEFINE b == [kind |-> "OPEN", ch |-> ch]
    <2>1. b \in Bytes /\ IsCommand(b) /\ b.kind = "OPEN" /\ b.ch = ch
      BY <1>4, <1>5 DEF Bytes, Kinds, IsCommand
    <2> HIDE DEF b
    <2>2. Begin(b.ch, Text(n), first("LISTEN", b) \o Sends(Text(n)) \o Unlisten)
      BY <1>5, <2>1 DEF Open
    <2> QED
      BY <1>1, <2>1, <2>2
  <1>6. ASSUME NEW n \in Lengths, Command(n)
        PROVE  IInv'
    <2> DEFINE b == [kind |-> "DATA", ch |-> StatusChannel]
    <2>1. b \in Bytes /\ IsCommand(b) /\ b.kind = "DATA" /\ b.ch = StatusChannel
      BY <1>4 DEF Bytes, Kinds, IsCommand
    <2> HIDE DEF b
    <2>2. Begin(b.ch, Text(n), first("LISTEN", b) \o Sends(Text(n)) \o Unlisten)
      BY <1>6, <2>1 DEF Command
    <2> QED
      BY <1>1, <2>1, <2>2
  <1>7. ASSUME NEW ch \in Channels, PrintFile(ch)
        PROVE  IInv'
    <2> DEFINE b == [kind |-> "DATA", ch |-> ch]
               p == Send(<<>>, FALSE)
               q == Send(<<>>, TRUE)
               u == <<p, q>> \o Unlisten
    <2>1. b \in Bytes /\ b.kind = "DATA" /\ b.ch = ch
      BY <1>4, <1>7 DEF Bytes, Kinds
    <2>2. p \in Event /\ q \in Event
      BY DEF Event, Send, Tokens
    <2> HIDE DEF b, p, q
    <2>3. <<p, q>> \in Seq(Event) /\ <<p, q>> # <<>> /\ Head(<<p, q>>) = p /\ Tail(<<p, q>>) = <<q>>
      BY <2>2
    <2>4. u \in Seq(Event) /\ u # <<>> /\ Head(u) = p /\ Tail(u) = <<q>> \o Unlisten
      BY <1>3, <2>3, HeadTailOfConcat
    <2>5. /\ <<q>> \o Unlisten # <<>> /\ Head(<<q>> \o Unlisten) = q
          /\ Tail(<<q>> \o Unlisten) = Unlisten
      BY <1>3, <2>2, HeadOfConcat
    <2>6. PrintsBoth(u)
      BY <1>3, <2>4, <2>5 DEF PrintsBoth, PrintsLast, Starts, p, q
    <2>7. first("LISTEN", b) \o u = first("LISTEN", b) \o <<p, q>> \o Unlisten
      OBVIOUS
    <2>8. Begin(ch, <<>>, first("LISTEN", b) \o <<p, q>> \o Unlisten)
      BY <1>7, <2>1 DEF PrintFile, p, q
    <2>9. Begin(ch, <<>>, first("LISTEN", b) \o u)
      BY <2>7, <2>8
    <2> HIDE DEF u
    <2>10. \A m, o : ("LISTEN" # "OTHER" => o.ch = b.ch) => Follows(u, m, o, "LISTEN", b)
      BY <2>1, <2>6 DEF Follows
    <2> QED
      BY <1>2, <1>4, <2>1, <2>4, <2>9, <2>10 DEF Primaries
  <1>8. ASSUME NEW ch \in Channels \cup {StatusChannel}, Read(ch)
        PROVE  IInv'
    <2> DEFINE b == [kind |-> "DATA", ch |-> ch]
               u == <<Ev("get")>> \o Untalk
    <2>1. b \in Bytes /\ b.kind = "DATA" /\ b.ch = ch
      BY <1>4, <1>8 DEF Bytes, Kinds
    <2>2. Ev("get") \in Event
      BY DEF Event, Ev
    <2> HIDE DEF b
    <2>3. u \in Seq(Event) /\ u # <<>> /\ Head(u) = Ev("get") /\ Tail(u) = Untalk
      BY <1>3, <2>2, HeadOfConcat
    <2>4. Gets(u)
      BY <1>3, <2>3 DEF Gets, Starts
    <2>5. first("TALK", b) \o u = first("TALK", b) \o <<Ev("get")>> \o Untalk
      OBVIOUS
    <2>6. Begin(ch, <<>>, first("TALK", b) \o <<Ev("get")>> \o Untalk)
      BY <1>8, <2>1 DEF Read
    <2>7. Begin(ch, <<>>, first("TALK", b) \o u)
      BY <2>5, <2>6
    <2> HIDE DEF u
    <2>8. \A m, o : ("TALK" # "OTHER" => o.ch = b.ch) => Follows(u, m, o, "TALK", b)
      BY <2>1, <2>4 DEF Follows
    <2> QED
      BY <1>2, <1>4, <2>1, <2>3, <2>7, <2>8 DEF Primaries
  <1>9. ASSUME NEW ch \in Channels \cup {StatusChannel}, Close(ch)
        PROVE  IInv'
    <2> DEFINE b == [kind |-> "CLOSE", ch |-> ch]
    <2>1. b \in Bytes /\ b.kind = "CLOSE" /\ b.ch = ch
      BY <1>4, <1>9 DEF Bytes, Kinds
    <2> HIDE DEF b
    <2>2. Begin(ch, <<>>, first("LISTEN", b) \o Unlisten)
      BY <1>9, <2>1 DEF Close
    <2>3. \A m, o : ("LISTEN" # "OTHER" => o.ch = b.ch) => Follows(Unlisten, m, o, "LISTEN", b)
      BY <1>3, <2>1 DEF Follows
    <2> QED
      BY <1>2, <1>3, <1>4, <2>1, <2>2, <2>3 DEF Primaries
  <1>10. ASSUME Elsewhere
         PROVE  IInv'
    <2> DEFINE b == [kind |-> "DATA", ch |-> 0]
               u == <<Ev("pass")>> \o Unlisten
    <2>1. b \in Bytes /\ b.kind = "DATA" /\ b.ch = 0
      BY DEF Bytes, Kinds
    <2>2. Ev("pass") \in Event
      BY DEF Event, Ev
    <2> HIDE DEF b
    <2>3. u \in Seq(Event) /\ u # <<>> /\ Head(u) = Ev("pass") /\ Tail(u) = Unlisten
      BY <1>3, <2>2, HeadOfConcat
    <2>4. Passes(u)
      BY <1>3, <2>3 DEF Passes, Starts
    <2>5. first("OTHER", b) \o u = first("OTHER", b) \o <<Ev("pass")>> \o Unlisten
      OBVIOUS
    <2>6. Begin(None, <<>>, first("OTHER", b) \o <<Ev("pass")>> \o Unlisten)
      BY <1>10, <2>1 DEF Elsewhere
    <2>7. Begin(None, <<>>, first("OTHER", b) \o u)
      BY <2>5, <2>6
    <2> HIDE DEF u
    <2>8. \A m, o : ("OTHER" # "OTHER" => o.ch = b.ch) => Follows(u, m, o, "OTHER", b)
      BY <2>1, <2>4 DEF Follows
    <2> QED
      BY <1>2, <2>1, <2>3, <2>7, <2>8 DEF Primaries
  <1> QED
    BY <1>5, <1>6, <1>7, <1>8, <1>9, <1>10 DEF StartOp

-----------------------------------------------------------------------------
(***************************************************************************)
(* The theorems.                                                           *)
(***************************************************************************)
LEMMA InitIInv == Init => IInv
PROOF
  <1> SUFFICES ASSUME Init PROVE IInv
    OBVIOUS
  <1> USE DEF Init
  <1>1. Typed
    <2>1. /\ Closed \in [mode : Modes, left : 0 .. FileSize] /\ Closed.mode = "none"
          /\ OpenFor("direct") \in [mode : Modes, left : 0 .. FileSize]
          /\ OpenFor("direct").mode = "direct" /\ OpenFor("direct").left > 0
      BY IecAssumption DEF Closed, OpenFor, Modes
    <2>2. /\ chan \in [Channels \cup {StatusChannel} -> [mode : Modes, left : 0 .. FileSize]]
          /\ \A c \in DOMAIN chan : chan[c].mode \in {"read", "direct"} => chan[c].left > 0
          /\ chan[StatusChannel].mode = "direct"
      BY <2>1
    <2>3. <<>> \in Seq(Tokens) /\ <<>> \in Seq(Event) /\ Len(<<>>) <= CommandSize
      BY EmptySeq, IecAssumption
    <2>4. /\ bus_state \in States /\ bus_state # "TALKING" /\ device_state \in {"IDLE", "LISTEN", "TALK"}
          /\ secondary_address \in 0 .. 15 /\ mark \in 0 .. 1
      BY DEF States
    <2>5. cmd \in Bytes \cup {None} /\ asked \in Requests \cup {None}
      OBVIOUS
    <2>6. /\ eoi \in BOOLEAN /\ recvd \in BOOLEAN /\ irq \in BOOLEAN
          /\ data \in BOOLEAN /\ clock \in BOOLEAN /\ atn \in BOOLEAN
      OBVIOUS
    <2>7. command_buffer \in Seq(Tokens) /\ Len(command_buffer) <= CommandSize /\ todo \in Seq(Event)
      BY <2>3
    <2> QED
      BY <2>2, <2>4, <2>7, <2>5, <2>6 DEF Typed
  <1>2. Place
    BY DEF Place
  <1>3. Operating
    BY DEF Operating
  <1>4. Pending
    BY DEF Pending
  <1>5. Listening /\ Talking
    BY DEF Listening, Talking
  <1>6. Lines
    BY DEF Lines
  <1> QED
    BY <1>1, <1>2, <1>3, <1>4, <1>5, <1>6 DEF IInv

LEMMA NextIInv ==
  ASSUME ~CanBreak, IInv, [Next]_vars
  PROVE  IInv'
PROOF
  <1>1. CASE StartOp
    BY <1>1, StartOpStep
  <1>2. CASE Computer
    BY <1>2, AtnOnStep, AtnOffStep, NotPresentStep, PassByStep, GivesUpStep DEF Computer
  <1>3. CASE Break
    BY <1>3 DEF Break
  <1>4. CASE Transfer
    BY <1>4, UnlistenUntalkStep, MyAddressStep, SecondaryStep, NotForMeStep, CommandByteStep, FileByteStep,
       TalkByteStep DEF Transfer
  <1>5. CASE Drive
    BY <1>5, IdleStep, FoundAtnStep, AtnReleasedStep, DoCloseStep, ForMeStep, LetGoStep, AtnFinishStep,
       AtnProcessStep, SeesAtnStep, CleanupStep, ReleaseStep, ExecuteStep DEF Drive
  <1>6. CASE SleepKey \/ WakeKey
    BY <1>6, SleepKeyStep, WakeKeyStep
  <1>7. CASE UNCHANGED vars
    <2> USE <1>7 DEF vars, bus, lines, host, ghosts, IInv
    <2>1. Typed' /\ Operating'
      BY DEF Typed, Operating
    <2>2. Place'
      BY DEF Place, AtStart, AtFirst, AtSecond, AtFirstOff, Sending, Printing, Getting, Passing, AtEnd,
             Finishing
    <2>3. Pending'
      BY DEF Pending, Sending, AtEnd
    <2>4. Listening'
      BY DEF Listening, AtSecond, AtFirstOff, Sending, Printing, AtEnd
    <2>5. Talking'
      BY DEF Talking, AtSecond, AtFirstOff, Getting, AtEnd
    <2>6. Lines'
      BY DEF Lines, Expects, Getting, AtEnd
    <2> QED
      BY <2>1, <2>2, <2>3, <2>4, <2>5, <2>6
  <1> QED
    BY <1>1, <1>2, <1>3, <1>4, <1>5, <1>6, <1>7 DEF Next

(* The inductive invariant, of a computer that breaks nothing off.           *)
THEOREM InvariantOfTheBus ==
  ASSUME ~CanBreak
  PROVE  Spec => []IInv
PROOF
  <1>1. Init => IInv
    BY InitIInv
  <1>2. IInv /\ [Next]_vars => IInv'
    BY NextIInv
  <1> QED
    BY <1>1, <1>2, PTL DEF Spec

(* The drive never talks with a command pending, whatever lengths commands   *)
(* and files have and however late the computer comes back.                 *)
THEOREM AnswersFollowCommands ==
  ASSUME ~CanBreak
  PROVE  Spec => []AnswersAfterCommand
PROOF
  <1>1. IInv => AnswersAfterCommand
    BY DEF IInv, Typed, Pending, AnswersAfterCommand
  <1> QED
    BY <1>1, InvariantOfTheBus, PTL

(* With a computer that leaves the drive the few microseconds it needs, the  *)
(* lines are as the other side expects them in every state the bus rests in. *)
THEOREM LinesAreAsExpected ==
  ASSUME ~CanBreak, Prompt
  PROVE  Spec => []LinesAsExpected
PROOF
  <1>1. IInv => LinesAsExpected
    <2> SUFFICES ASSUME IInv PROVE LinesAsExpected
      OBVIOUS
    <2> USE DEF IInv
    <2>1. TypeOK
      BY DEF TypeOK, Typed, States, Operating
    <2>2. bus_state = "EXECUTE" /\ atn => data
      BY DEF Lines
    <2>3. bus_state = "IDLE" /\ ~atn => ~data /\ ~clock
      BY DEF Lines
    <2>4. (Expects("send") \/ Expects("pass")) /\ ~atn => ~clock
      BY Heads DEF Lines, Getting, AtEnd, Expects
    <2> QED
      BY <2>1, <2>2, <2>3, <2>4 DEF LinesAsExpected
  <1> QED
    BY <1>1, InvariantOfTheBus, PTL

(* The protocol implements the abstract service, but for its liveness: a     *)
(* step of the bus takes a command when none is pending, carries out the one *)
(* that is, unaltered, or does neither.                                    *)
THEOREM TakenAreServed ==
  ASSUME ~CanBreak
  PROVE  Spec => CS!Init /\ [][CS!Next]_CS!vars
PROOF
  <1>1. Init => CS!Init
    BY DEF Init, CS!Init
  <1>2. ASSUME IInv, IInv', [Next]_vars
        PROVE  [CS!Next]_CS!vars
    <2> USE DEF CS!Next, CS!vars
    <2>1. CASE CommandByte
      <3>1. asked = None
        <4>1. ~Printing
          BY <2>1, NoneAssumption, IecAssumption
             DEF CommandByte, Listens, Printing, Low, IsOpen, StatusChannel
        <4>2. Sending
          BY <1>2, <2>1, <4>1, NextPlace DEF IInv, CommandByte, Listens
        <4> QED
          BY <1>2, <4>2 DEF IInv, Pending, Sending
      <3>2. asked' \in Requests \cup {None} /\ served' = served
        BY <1>2, <2>1 DEF IInv, Typed, CommandByte
      <3> QED
        BY <3>1, <3>2 DEF CS!Take
    <2>2. CASE Execute
      <3>1. asked # None /\ asked = [ch |-> secondary_address, text |-> command_buffer]
        BY <1>2, <2>2 DEF IInv, Pending, Execute
      <3> QED
        BY <2>2, <3>1 DEF Execute, CS!Serve
    <2>3. CASE ~CommandByte /\ ~Execute
      <3>1. UNCHANGED <<asked, served>>
        <4>1. CASE StartOp
          BY <4>1 DEF StartOp, Open, Command, PrintFile, Read, Close, Elsewhere, Begin, ghosts
        <4>2. CASE Computer
          BY <4>2 DEF Computer, AtnOn, AtnOff, NotPresent, PassBy, GivesUp, ghosts
        <4>3. CASE Break
          BY <4>3 DEF Break, ghosts
        <4>4. CASE Transfer
          BY <4>4, <2>3 DEF Transfer, UnlistenUntalk, MyAddress, Secondary, NotForMe, Hears, FileByte, TalkByte,
             ghosts
        <4>5. CASE Drive
          BY <4>5, <2>3 DEF Drive, Idle, FoundAtn, AtnReleased, DoClose, ForMe, LetGo, AtnFinish, AtnProcess,
             SeesAtn, Cleanup, Release, ghosts
        <4>6. CASE SleepKey \/ WakeKey
          BY <4>6 DEF SleepKey, WakeKey, ghosts
        <4>7. CASE UNCHANGED vars
          BY <4>7 DEF vars, ghosts
        <4> QED
          BY <1>2, <4>1, <4>2, <4>3, <4>4, <4>5, <4>6, <4>7 DEF Next
      <3> QED
        BY <3>1
    <2> QED
      BY <2>1, <2>2, <2>3
  <1> QED
    BY <1>1, <1>2, InvariantOfTheBus, PTL DEF Spec
=============================================================================
