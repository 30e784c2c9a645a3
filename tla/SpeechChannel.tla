---------------------------- MODULE SpeechChannel ----------------------------
(***************************************************************************)
(* The framed byte channel between the synthesizer driver of NVDA and the  *)
(* helper in the ARM guest (guest/samsung_protocol.h): two FIFO streams of *)
(* messages over one virtio-serial port.  A frame is written under one     *)
(* mutex on each side, so a message is sent and received as a whole; a     *)
(* writer that finds the stream full blocks.                               *)
(***************************************************************************)
EXTENDS Integers, Sequences

CONSTANTS
  Text,        \* the texts the driver may ask the guest to speak
  NoText,      \* stands for the absence of one
  GenOf,       \* the generation under which the driver submits each text
  Chunks,      \* the number of pieces the guest cuts a text into
  ToGuestCap,  \* frames the stream to the guest holds before a write blocks
  ToHostCap    \* frames the stream to the host holds before a write blocks

ASSUME ChannelAssumption ==
  /\ NoText \notin Text
  /\ GenOf \in [Text -> Nat \ {0}]
  /\ Chunks \in Nat \ {0}
  /\ ToGuestCap \in Nat \ {0}
  /\ ToHostCap \in Nat \ {0}

VARIABLES
  toGuest,     \* frames written by the host and not yet read by the guest
  toHost       \* frames written by the guest and not yet read by the host

channelVars == <<toGuest, toHost>>

Maybe(S) == S \cup {NoText}

\* What the host sends.  "bad" stands for everything that ends the guest's
\* reading loop: end of stream, a wrong magic number, an oversized payload.
ToGuestMessage ==
  [type : {"speak", "cancel", "quit", "bad"}, gen : Nat, text : Maybe(Text)]

\* What the guest sends.  The text and the piece of an audio frame stand for
\* its samples; "eof" is what the host reads from a helper that has gone.
ToHostMessage ==
  [type : {"audio", "done", "error", "cancelled", "eof"},
   gen : Nat, text : Maybe(Text), chunk : Nat]

Speak(t)  == [type |-> "speak", gen |-> GenOf[t], text |-> t]
Cancel(g) == [type |-> "cancel", gen |-> g, text |-> NoText]
Empty(g)  == [type |-> "speak", gen |-> g, text |-> NoText]
Quit      == [type |-> "quit", gen |-> 0, text |-> NoText]
Bad       == [type |-> "bad", gen |-> 0, text |-> NoText]

Frame(type, g, t, k) == [type |-> type, gen |-> g, text |-> t, chunk |-> k]
Eof == Frame("eof", 0, NoText, 0)

ChannelInit == toGuest = <<>> /\ toHost = <<>>

ChannelTypeOK ==
  /\ toGuest \in Seq(ToGuestMessage)
  /\ toHost \in Seq(ToHostMessage)
  /\ Len(toGuest) <= ToGuestCap

\* A write returns once the stream has room for the frame.
SendToGuest(m) ==
  /\ Len(toGuest) < ToGuestCap
  /\ toGuest' = Append(toGuest, m)

SendToHost(m) ==
  /\ Len(toHost) < ToHostCap
  /\ toHost' = Append(toHost, m)
==============================================================================
