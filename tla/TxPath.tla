-------------------------------- MODULE TxPath --------------------------------
(***************************************************************************)
(* The way of a packet from the just-in-time queue to the air: thread_jit, *)
(* having dequeued it, reads the TX status of the radio chain and then     *)
(* programs the chain with lgw_send.  mx_concent is free between the two,  *)
(* and the radio goes on by itself: a programmed packet starts when the    *)
(* counter meets its trigger, and only then.  One queue and its chain.     *)
(***************************************************************************)
EXTENDS JitQueue

VARIABLES
    radio,    \* the TX state machine of the chain and the packet it holds
    checked   \* thread_jit has read TX_STATUS for jit.pkt

txvars == <<vars, radio, checked>>

TxInit == Init /\ radio = [state |-> "free", pkt |-> NoPkt] /\ checked = FALSE

-----------------------------------------------------------------------------
(* The SX1302: trigger comparator and TX state machine.                      *)

\* The counter value programmed by sx1302_send: the departure minus tx_start_delay.
Trigger(p) == Minus(p.count, StartDelay)

Starting == radio.state = "scheduled" /\ now = Trigger(radio.pkt)
Ending == radio.state = "emitting" /\ now = Plus(radio.pkt.count, radio.pkt.post)

RadioStart ==
    /\ Starting
    /\ radio' = [radio EXCEPT !.state = "emitting"]
    /\ UNCHANGED <<vars, checked>>

RadioDone ==
    /\ Ending
    /\ radio' = [state |-> "free", pkt |-> NoPkt]
    /\ UNCHANGED <<vars, checked>>

\* The radio does not wait: time goes on when it has nothing to do now.
TxTick ==
    /\ Tick
    /\ ~Starting /\ ~Ending
    /\ UNCHANGED <<radio, checked>>

-----------------------------------------------------------------------------
(* thread_jit, from the dequeue to the end of the round.                     *)

\* TX_EMITTING: "continue", the packet is gone.
SkipEmitting ==
    /\ jit.pc = "picked" /\ ~checked
    /\ radio.state = "emitting"
    /\ JitRelease
    /\ UNCHANGED <<radio, checked>>

\* Free, or already scheduled ("overwritting it..."): go on to lgw_send.
PassStatus ==
    /\ jit.pc = "picked" /\ ~checked
    /\ radio.state # "emitting"
    /\ checked' = TRUE
    /\ UNCHANGED <<vars, radio>>

\* lgw_send refuses the packet, or an access to the concentrator fails.
SendFails ==
    /\ jit.pc = "picked" /\ checked
    /\ JitRelease
    /\ checked' = FALSE
    /\ UNCHANGED radio

\* sx1302_send resets the state machine of the chain and arms the trigger.
Send ==
    /\ jit.pc = "picked" /\ checked
    /\ JitRelease
    /\ radio' = [state |-> "scheduled", pkt |-> jit.pkt]
    /\ checked' = FALSE

TxNext ==
    \/ (DownNext \/ PeekNext) /\ UNCHANGED <<radio, checked>>
    \/ SkipEmitting \/ PassStatus \/ SendFails \/ Send
    \/ RadioStart \/ RadioDone \/ TxTick

TxSpec == TxInit /\ [][TxNext]_txvars

-----------------------------------------------------------------------------
TxTypeOK ==
    /\ TypeOK
    /\ radio \in [state : {"free", "scheduled", "emitting"}, pkt : Packet]
    /\ checked \in BOOLEAN

\* While thread_jit keeps its pace, a packet is programmed before its trigger: else
\* the comparator would let it wait for a whole turn of the counter, the chain armed.
TriggerAhead ==
    radio.state = "scheduled" => Minus(Trigger(radio.pkt), now) < JitDelay

\* A packet that has been programmed is radiated whole: no other is programmed on the
\* chain before its end, although the status and the send are under two locks.
RadiatedWhole ==
    [][radio.state # "free" =>
         \/ radio'.pkt = radio.pkt
         \/ radio.state = "emitting" /\ radio'.state = "free"]_txvars

\* A downlink taken from the queue finds the chain silent: none is given up on the way.
NoneSkipped == jit.pc = "picked" /\ ~checked => radio.state # "emitting"
=============================================================================
