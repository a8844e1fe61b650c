---------------------------- MODULE FtpDialogue ----------------------------
(***************************************************************************)
(* What a client may rely on in the dialogue on its control connection,    *)
(* whatever the server does meanwhile: a greeting, then to every command   *)
(* exactly one final reply, after at most one 150; after a 150 the reply   *)
(* is 226 or 550; only 421, or the loss of the connection, ends it.        *)
(* FtpSession implements this specification.                               *)
(***************************************************************************)
EXTENDS Naturals

CONSTANTS Session, FinalCode, NoCode

VARIABLES phase,   \* where the dialogue stands
          answer,  \* the final reply owed to the client
          up       \* the connection works

dialogueVars == <<phase, answer, up>>

Phase == {"down", "greeting", "ready", "opening", "moving", "answering"}

DialogueInit ==
    /\ phase = [s \in Session |-> "down"]
    /\ answer = [s \in Session |-> NoCode]
    /\ up = [s \in Session |-> FALSE]

Becomes(s, from, to) == phase[s] \in from /\ phase' = [phase EXCEPT ![s] = to]

Dial(s) ==
    /\ Becomes(s, {"down"}, "greeting")
    /\ up' = [up EXCEPT ![s] = TRUE]
    /\ UNCHANGED answer

Greet(s) ==
    /\ up[s] /\ Becomes(s, {"greeting"}, "ready")
    /\ UNCHANGED <<answer, up>>

(* A command is answered at once, or is a transfer and opens with a 150.   *)
TakeCommand(s) ==
    /\ up[s]
    /\ \/ \E c \in FinalCode :
             Becomes(s, {"ready"}, "answering") /\ answer' = [answer EXCEPT ![s] = c]
       \/ Becomes(s, {"ready"}, "opening") /\ UNCHANGED answer
    /\ UNCHANGED up

Opened(s) ==
    /\ Becomes(s, {"opening"}, "moving")
    /\ UNCHANGED <<answer, up>>

Moved(s) ==
    /\ Becomes(s, {"opening", "moving"}, "answering")
    /\ \E c \in {226, 550} :
          /\ phase[s] = "opening" => c = 550
          /\ answer' = [answer EXCEPT ![s] = c]
    /\ UNCHANGED up

Answer(s) ==
    /\ answer[s] # 421
    /\ Becomes(s, {"answering"}, "ready")
    /\ answer' = [answer EXCEPT ![s] = NoCode]
    /\ UNCHANGED up

HangUp(s) ==
    /\ answer[s] = 421 \/ ~up[s]
    /\ Becomes(s, {"greeting", "ready", "answering"}, "down")
    /\ answer' = [answer EXCEPT ![s] = NoCode]
    /\ up' = [up EXCEPT ![s] = FALSE]

Lose(s) ==
    /\ up[s] /\ up' = [up EXCEPT ![s] = FALSE]
    /\ UNCHANGED <<phase, answer>>

DialogueNext ==
    \E s \in Session :
        \/ Dial(s) \/ Greet(s) \/ TakeCommand(s) \/ Opened(s) \/ Moved(s)
        \/ Answer(s) \/ HangUp(s) \/ Lose(s)

DialogueSpec == DialogueInit /\ [][DialogueNext]_dialogueVars
=============================================================================
