------------------------------ MODULE MamService ------------------------------
(***************************************************************************)
(* What the event server promises, without descriptors, tables or events:  *)
(* clients are admitted in the order they arrived, a client that is served *)
(* gets at most one reply each time something of it arrived and is let go  *)
(* only after it hung up.  The service may end while nobody is known to    *)
(* it, over what a served client sent that is no request line, and over    *)
(* the reply to a served client that hung up; nothing else ends it.        *)
(***************************************************************************)
EXTENDS Naturals, Sequences

CONSTANT Clients

VARIABLES
  line,        (* clients that wait to be admitted, in order of arrival      *)
  phase,       (* "away", "waiting", "served" or "left", per client          *)
  hungUp,      (* clients that closed their side                             *)
  asked,       (* how often something arrived, per client                    *)
  garbled,     (* clients whose unread bytes do not begin with a request     *)
               (* line that can be read                                      *)
  replies,     (* replies received in full, per client                       *)
  up           (* the service is running                                     *)

serviceVars == <<line, phase, hungUp, asked, garbled, replies, up>>

ServiceInit ==
  /\ line = <<>>
  /\ phase = [c \in Clients |-> "away"]
  /\ hungUp = {}
  /\ asked = [c \in Clients |-> 0]
  /\ garbled = {}
  /\ replies = [c \in Clients |-> 0]
  /\ up = TRUE

Arrive(c) ==
  /\ up /\ phase[c] = "away"
  /\ phase' = [phase EXCEPT ![c] = "waiting"]
  /\ line' = Append(line, c)
  /\ UNCHANGED <<hungUp, asked, garbled, replies, up>>

Ask(c) ==
  /\ up /\ phase[c] # "away" /\ c \notin hungUp
  /\ asked' = [asked EXCEPT ![c] = @ + 1]
  /\ garbled' \in {garbled \ {c}, garbled \cup {c}}
  /\ UNCHANGED <<line, phase, hungUp, replies, up>>

HangUp(c) ==
  /\ up /\ phase[c] # "away"
  /\ hungUp' = hungUp \cup {c}
  /\ UNCHANGED <<line, phase, asked, garbled, replies, up>>

Admit(c) ==
  /\ up /\ line # <<>> /\ c = Head(line)
  /\ line' = Tail(line)
  /\ phase' = [phase EXCEPT ![c] = "served"]
  /\ UNCHANGED <<hungUp, asked, garbled, replies, up>>

(* A client whose socket cannot be set up is turned away when its turn comes. *)
TurnAway(c) ==
  /\ up /\ line # <<>> /\ c = Head(line)
  /\ line' = Tail(line)
  /\ phase' = [phase EXCEPT ![c] = "left"]
  /\ hungUp' \in {hungUp, hungUp \cup {c}}
  /\ UNCHANGED <<asked, garbled, replies, up>>

(* What is no request line may also be passed over, or be answered.          *)
PassOver(c) ==
  /\ up /\ phase[c] = "served" /\ c \in garbled
  /\ garbled' = garbled \ {c}
  /\ UNCHANGED <<line, phase, hungUp, asked, replies, up>>

Reply(c) ==
  /\ up /\ phase[c] = "served" /\ replies[c] < asked[c]
  /\ replies' = [replies EXCEPT ![c] = @ + 1]
  /\ UNCHANGED <<line, phase, hungUp, asked, garbled, up>>

LetGo(c) ==
  /\ up /\ phase[c] = "served" /\ c \in hungUp
  /\ phase' = [phase EXCEPT ![c] = "left"]
  /\ UNCHANGED <<line, hungUp, asked, garbled, replies, up>>

Breaks(c) ==
  /\ phase[c] = "served"
  /\ c \in garbled \/ (c \in hungUp /\ replies[c] < asked[c])

End ==
  /\ up
  /\ (\E c \in Clients : Breaks(c)) \/ (\A c \in Clients : phase[c] = "away")
  /\ up' = FALSE
  /\ garbled' \subseteq garbled
  /\ UNCHANGED <<line, phase, hungUp, asked, replies>>

ServiceNext ==
  \/ End
  \/ \E c \in Clients : \/ Arrive(c) \/ Ask(c) \/ HangUp(c) \/ Admit(c)
                        \/ TurnAway(c) \/ PassOver(c) \/ Reply(c) \/ LetGo(c)

ServiceSpec == ServiceInit /\ [][ServiceNext]_serviceVars
=============================================================================
