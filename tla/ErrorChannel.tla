---------------------------- MODULE ErrorChannel ----------------------------
(***************************************************************************)
(* Channel 15 read by the computer: buffers[ERRORBUFFER_IDX] with its text   *)
(* in error_buffer (errormsg.c, and iec_talk_handler on that channel).  A     *)
(* text is a record with the index of its last byte; what the bytes are is   *)
(* told apart only where another module does.                               *)
(***************************************************************************)
EXTENDS Naturals

VARIABLES
  error_buffer,   (* [text, position, lastused] *)
  got             (* how many bytes of this answer the computer has taken *)

errorVars == <<error_buffer, got>>

(* Error numbers stand for their messages; short and longer ones. *)
Message(e) == [about |-> "message", is |-> e, last |-> IF e = "ok" THEN 1 ELSE 2]

set_error(e) == [text |-> Message(e), position |-> 0, lastused |-> Message(e).last]

StartedNowhere == error_buffer   (* mutant: the last answer goes on *)

(* parse_doscommand begins with "everything ok".                             *)
Started == set_error("ok")

(* An answer put into error_buffer by a handler that sets lastused and leaves *)
(* the position where it is, or sets both.                                   *)
AnswerIn(b, text)  == [b EXCEPT !.text = text, !.lastused = text.last]
AnswerFrom0(text)  == [text |-> text, position |-> 0, lastused |-> text.last]

ErrorInit == error_buffer = set_error("dosversion") /\ got = 0

(* The refill of the buffer, when the last byte was sent with EOI.           *)
set_ok_message == set_error("ok")

(* One byte to the computer, which may stop talking to the drive after any:  *)
(* iec_talk_handler then returns and the position stays.                     *)
TalkByte ==
  IF error_buffer.position < error_buffer.lastused
    THEN error_buffer' = [error_buffer EXCEPT !.position = @ + 1] /\ got' = got + 1
    ELSE error_buffer' = set_ok_message /\ got' = 0

(* What the computer reads from the channel up to EOI is the whole answer to  *)
(* its last command, from the first byte to the last, and "00, OK" after it   *)
(* (errormsg.c 188-278, the handlers that fill error_buffer, iec.c 427-494).  *)
AnswersWhole ==
  /\ error_buffer.position = got
  /\ error_buffer.lastused = error_buffer.text.last
=============================================================================
