---------------------------- MODULE Concentrator ----------------------------
(***************************************************************************)
(* The concentrator as the HAL starts it, sends through it and stops it    *)
(* (loragw_hal.c, loragw_sx1302.c, loragw_lbt.c): the host on one side, on *)
(* the other the AGC and arbiter micro-controllers, the TX state machine   *)
(* of one radio chain and the sx1261 that listens before it talks.         *)
(*                                                                         *)
(* lgw_start is the script StartScript(conf); at is the operation it is    *)
(* at.  A bus access may fail MaxFaults times.  What the code ignores of   *)
(* these failures is kept in mishaps, which no code reads.  The firmware of *)
(* the arbiter, some thousand bytes, takes longer to load than the AGC to  *)
(* read a mailbox.                                                         *)
(***************************************************************************)
EXTENDS Firmware, TLC

CONSTANTS Configurations, MaxFaults, MaxSends

ASSUME BoundsAssumption == MaxFaults \in Nat /\ MaxSends \in Nat

VARIABLES
  conf,      \* lgw_context, as the lgw_*_setconf calls left it
  host,      \* what the host is doing
  at,        \* the operation of StartScript(conf) it is at
  val,       \* the variable val of the function, kept by a failing read; -1 before
             \* it is first read, when it holds anything
  started,   \* CONTEXT_STARTED
  connected, \* what is open: the concentrator, the I2C bus
  agc, arb,  \* the micro-controllers: mailboxes and what they have taken
  calls,     \* calibrations the host has commanded
  collected, \* <<what the host believes it read, what it read>>
  tx,        \* the TX state machine
  sx1261,    \* what the sx1261 does
  decision,  \* what the AGC decided of the packet being sent
  answer,    \* what lgw_send returned last
  error,     \* what went wrong in lgw_send: before or at the trigger, or after
  sends,     \* calls of lgw_send
  faults,    \* bus accesses that may still fail
  mishaps    \* what failed and left no trace the code would look at

startVars == <<at, val, calls, collected>>
sendVars  == <<tx, sx1261, decision, answer, error, sends>>
vars == <<conf, host, at, val, started, connected, agc, arb, calls, collected,
          tx, sx1261, decision, answer, error, sends, faults, mishaps>>

\* lgw_context, as the lgw_*_setconf calls may leave it.
Configuration == [type : [Chains -> {"none", "sx1250", "sx1255", "sx1257"}], enable : [Chains -> BOOLEAN], tx : [Chains -> BOOLEAN], clksrc : Chains,
                  lbt : BOOLEAN, fdd : BOOLEAN, ftime : {"off", "all", "high"}, service : BOOLEAN, fsk : BOOLEAN,
                  gains : Nat]
ASSUME ConfigurationAssumption == Configurations \subseteq Configuration

\* The script of each configuration. TLC computes it once because of the fold, which is over
\* one element.
Script == [c \in Configurations |->
             MapThenFoldSet(LAMBDA script, none : script, <<>>, StartScript, LAMBDA S : CHOOSE x \in S : TRUE, {c})]

Op == Script[conf][at]
AtOp(kind) == /\ host = "starting"
              /\ at <= Len(Script[conf])
              /\ Op.op = kind

\* A micro-controller held by the host, or after a reset.
Held == [fw |-> "none", status |-> 0, put |-> [m \in 0 .. 3 |-> 0], show |-> [m \in 0 .. 3 |-> 0],
         round |-> 0, mode |-> 0, runs |-> 0, taken |-> <<>>]

Init == /\ conf \in Configurations
        /\ host = "starting" /\ at = 1 /\ val = -1
        /\ started = FALSE /\ connected = {}
        /\ agc = Held /\ arb = Held
        /\ calls = 0 /\ collected = <<0, 0>>
        /\ tx = "free" /\ sx1261 = "idle"
        /\ decision = "none" /\ answer = "none" /\ error = "none"
        /\ sends = 0 /\ faults = MaxFaults /\ mishaps = {}

\* A bus access fails.
Fault == faults > 0 /\ faults' = faults - 1

----------------------------------------------------------------------------
(* lgw_start.                                                              *)

\* A function whose failure ends lgw_start, everything left as it is.
Loaded(what) ==
  CASE what = "load cal" -> [Held EXCEPT !.fw = "cal", !.put = agc.put]
    [] what = "load agc" -> [Held EXCEPT !.fw = "agc", !.put = agc.put]
    [] OTHER             -> agc

\* The AGC has been told what it waits for.
Rounds == AgcRounds(conf.type[conf.clksrc])
AgcTold == /\ agc.fw = "agc" /\ agc.round \in 1 .. Len(Rounds)
           /\ agc.put[3] = Rounds[agc.round].code

StepDone ==
  /\ AtOp("do")
  /\ Op.what = "load arb" => ~AgcTold
  /\ at' = at + 1
  /\ val' = IF Op.what \in {"load agc", "load arb"} THEN -1 ELSE val
  /\ agc' = Loaded(Op.what)
  /\ arb' = IF Op.what = "load arb" THEN [Held EXCEPT !.fw = "arb"] ELSE arb
  /\ connected' = connected \cup (CASE Op.what = "connect" -> {"com"}
                                    [] Op.what = "i2c"     -> {"i2c"}
                                    [] OTHER               -> {})
  /\ UNCHANGED <<conf, host, started, calls, collected, sendVars, faults, mishaps>>

StepFails ==
  /\ AtOp("do")
  /\ Fault
  /\ host' = "failed"
  /\ UNCHANGED <<conf, startVars, started, connected, agc, arb, sendVars, mishaps>>

Written(mcu, m, v) == [mcu EXCEPT !.put[m] = v]

\* A mailbox write whose result the code does not look at.
WriteBox ==
  /\ AtOp("put")
  /\ at' = at + 1
  /\ \/ /\ agc' = IF Op.mcu = "agc" THEN Written(agc, Op.box, Op.value) ELSE agc
        /\ arb' = IF Op.mcu = "arb" THEN Written(arb, Op.box, Op.value) ELSE arb
        /\ UNCHANGED <<faults, mishaps>>
     \/ /\ Fault
        /\ mishaps' = mishaps \cup {IF Op.mcu = "agc" THEN "agc write" ELSE "arb write"}
        /\ UNCHANGED <<agc, arb>>
  /\ UNCHANGED <<conf, host, val, started, connected, calls, collected, sendVars>>

Mcu == IF Op.mcu = "agc" THEN agc ELSE arb

\* Mutant: any status ends the wait.
AnsweredAnyhow == Mcu.status # 0

Answered == Mcu.status = Op.value

\* sx1302_agc_wait_status, sx1302_arb_wait_status: no timeout, and callers
\* that do not look at the error.
AwaitStatus ==
  /\ AtOp("await")
  /\ at' = at + 1
  /\ \/ /\ Answered
        /\ UNCHANGED <<faults, mishaps>>
     \/ /\ Fault
        /\ mishaps' = mishaps \cup {"wait"}
  /\ UNCHANGED <<conf, host, val, started, connected, agc, arb, calls, collected, sendVars>>

\* A mailbox read and its comparison; a failing read leaves val as it was.
CheckBox ==
  /\ AtOp("check")
  /\ \/ val' = Mcu.show[Op.box] /\ UNCHANGED <<faults, mishaps>>
     \/ /\ val' \in IF val = -1 THEN {-1, Op.value} ELSE {val}
        /\ Fault /\ mishaps' = mishaps \cup {"read"}
  /\ IF Same(val', Op.value, Op.how)
     THEN at' = at + 1 /\ UNCHANGED host
     ELSE host' = "failed" /\ UNCHANGED at
  /\ UNCHANGED <<conf, started, connected, agc, arb, calls, collected, sendVars>>

\* The results of a calibration round are read.
CollectRound ==
  /\ AtOp("collect")
  /\ at' = at + 1
  /\ collected' = <<<<calls, Op.round>>, <<agc.runs, agc.round - 2>>>>
  /\ UNCHANGED <<conf, host, val, started, connected, agc, arb, calls, sendVars, faults, mishaps>>

\* The PLLs lock and the calibration is commanded, or it is left out.
LockPll ==
  /\ AtOp("locked")
  /\ \/ at' = at + 1 /\ calls' = calls + 1
     \/ at' = at + 1 + Op.count /\ UNCHANGED calls
  /\ UNCHANGED <<conf, host, val, started, connected, agc, arb, collected, sendVars, faults, mishaps>>

\* cal_rx_result_assert, cal_tx_result_assert on the three results.
JudgeResults ==
  /\ AtOp("judge")
  /\ \/ at' = at + 1 + Op.count /\ UNCHANGED host
     \/ Op.count > 0 /\ at' = at + 1 /\ UNCHANGED host
     \/ Op.count = 0 /\ host' = "failed" /\ UNCHANGED at
  /\ UNCHANGED <<conf, val, started, connected, agc, arb, calls, collected, sendVars, faults, mishaps>>

StartDone ==
  /\ host = "starting" /\ at > Len(Script[conf])
  /\ host' = "up" /\ started' = TRUE
  /\ UNCHANGED <<conf, startVars, connected, agc, arb, sendVars, faults, mishaps>>

----------------------------------------------------------------------------
(* The micro-controllers (external).                                       *)

\* A firmware starts: it shows its version with status 1.
Boot(mcu) == [mcu EXCEPT !.status = 1, !.round = 1,
                         !.show[0] = CASE mcu.fw = "cal" -> CalVersion
                                       [] mcu.fw = "agc" -> AgcVersion(conf.type[conf.clksrc])
                                       [] mcu.fw = "arb" -> ArbVersion]

McuBoots ==
  /\ \/ agc.fw # "none" /\ agc.round = 0 /\ agc' = Boot(agc) /\ UNCHANGED arb
     \/ arb.fw # "none" /\ arb.round = 0 /\ arb' = Boot(arb) /\ UNCHANGED agc
  /\ UNCHANGED <<conf, host, startVars, started, connected, sendVars, faults, mishaps>>

\* The AGC takes the values of the exchange it has been told of.
AgcTakes ==
  /\ AgcTold
  /\ agc' = [agc EXCEPT !.status = Rounds[agc.round].status, !.round = @ + 1,
                        !.show = [m \in 0 .. 3 |-> agc.put[m]],
                        !.taken = Append(@, <<agc.put[0], agc.put[1], agc.put[2]>>)]
  /\ UNCHANGED <<conf, host, startVars, started, connected, arb, sendVars, faults, mishaps>>

\* The calibration firmware: told to resume, then one code after the other.
\* Round 1 is the wait for 255, round 2 the wait for a command.
CalTakes ==
  /\ agc.fw = "cal" /\ agc.round > 0
  /\ \/ /\ agc.round = 1 /\ agc.put[3] = 255
        /\ agc' = [agc EXCEPT !.status = 0, !.round = 2, !.taken = <<>>]
     \/ /\ agc.round = 2 /\ agc.put[3] = 1
        /\ agc' = [agc EXCEPT !.status = 1, !.round = 3, !.mode = agc.put[2], !.runs = @ + 1]
     \/ /\ agc.round \in 3 .. Len(CalCodes(agc.mode)) + 1
        /\ agc.put[3] = CalCodes(agc.mode)[agc.round - 1]
        /\ agc' = [agc EXCEPT !.status = CalAnswer(agc.mode, agc.round - 1),
                              !.round = IF @ = Len(CalCodes(agc.mode)) + 1 THEN 2 ELSE @ + 1]
  /\ UNCHANGED <<conf, host, startVars, started, connected, arb, sendVars, faults, mishaps>>

\* The arbiter resumes with the mode it finds.
ArbTakes ==
  /\ arb.fw = "arb" /\ arb.round = 1 /\ arb.put[1] = 1
  /\ arb' = [arb EXCEPT !.status = 0, !.round = 2, !.taken = <<<<arb.put[0], arb.put[2], arb.put[3]>>>>]
  /\ UNCHANGED <<conf, host, startVars, started, connected, agc, sendVars, faults, mishaps>>

----------------------------------------------------------------------------
(* lgw_send, with and without listen-before-talk.                          *)

sendUnchanged == <<conf, startVars, started, connected, arb>>

Return(what) == /\ host' = "up"
                /\ answer' = what

\* The checks fail: nothing has been touched.
SendRefused ==
  /\ host = "up" /\ sends < MaxSends
  /\ sends' = sends + 1
  /\ decision' = "none" /\ error' = "none"
  /\ Return("error")
  /\ UNCHANGED <<sendUnchanged, agc, tx, sx1261, faults, mishaps>>

\* lgw_lbt_start: the sx1261 receives on the channel, then scans it.
SendStarts ==
  /\ host = "up" /\ sends < MaxSends
  /\ sends' = sends + 1
  /\ decision' = "none" /\ error' = "none"
  /\ \/ /\ ~conf.lbt \/ sx1261' = "lbt"
        /\ conf.lbt \/ UNCHANGED sx1261
        /\ host' = "triggering"
        /\ UNCHANGED <<answer, faults>>
     \/ /\ conf.lbt /\ Fault
        /\ sx1261' \in {sx1261, "rx"}
        /\ Return("error")
  /\ UNCHANGED <<sendUnchanged, agc, tx, mishaps>>

\* sx1302_send: the trigger is its last access.
SendTriggers ==
  /\ host = "triggering"
  /\ \/ /\ tx' = "scheduled"
        /\ IF conf.lbt THEN host' = "polling" /\ UNCHANGED answer ELSE Return("sent")
        /\ UNCHANGED <<faults, error>>
     \/ /\ Fault
        /\ error' = "send"
        /\ IF conf.lbt THEN host' = "stopping" /\ UNCHANGED answer ELSE Return("error")
        /\ UNCHANGED tx
  /\ UNCHANGED <<sendUnchanged, agc, sx1261, decision, sends, mishaps>>

\* A mailbox write, whose error is mishaps too.
Tell(v, more) ==
  \/ agc' = Written(agc, 0, v) /\ mishaps' = mishaps \cup more /\ UNCHANGED faults
  \/ Fault /\ mishaps' = mishaps \cup more \cup {"agc write"} /\ UNCHANGED agc

\* Bits 0 and 6 of the status.
Initiated == agc.status % 2 = 1
Allowed == (agc.status \div 64) % 2 = 0

\* lgw_lbt_tx_status: the AGC says the TX was initiated, and whether it was
\* allowed; or half a second passes; or the status cannot be read.
PollInitiated ==
  /\ host = "polling"
  /\ \/ /\ Initiated
        /\ answer' = IF Allowed THEN "sent" ELSE "blocked"
        /\ Tell(255, {})
        /\ host' = "clearing"
        /\ UNCHANGED error
     \/ /\ error' = "status"
        /\ Tell(255, {"timeout"})
        /\ host' = "clearing"
        /\ UNCHANGED answer
     \/ /\ Fault
        /\ error' = "status"
        /\ mishaps' = mishaps \cup {"status"}
        /\ host' = "aborting"
        /\ UNCHANGED <<agc, answer>>
  /\ UNCHANGED <<sendUnchanged, tx, sx1261, decision, sends>>

\* Mutant: the status is not waited for after it was asked to be cleared.
PollClearedAtOnce ==
  /\ host = "clearing"
  /\ Tell(0, {})
  /\ host' = IF error # "none" THEN "aborting" ELSE "stopping"
  /\ UNCHANGED <<sendUnchanged, tx, sx1261, decision, answer, sends, error>>

\* The AGC has cleared its status, and that is acknowledged.
PollCleared ==
  /\ host = "clearing"
  /\ \/ /\ agc.status = 0
        /\ Tell(0, {})
        /\ host' = IF error # "none" THEN "aborting" ELSE "stopping"
        /\ UNCHANGED error
     \/ /\ error' = "status"
        /\ Tell(0, {"timeout"})
        /\ host' = "aborting"
     \/ /\ Fault
        /\ error' = "status"
        /\ mishaps' = mishaps \cup {"status"}
        /\ host' = "aborting"
        /\ UNCHANGED agc
  /\ UNCHANGED <<sendUnchanged, tx, sx1261, decision, answer, sends>>

\* sx1302_tx_abort: the triggers are cleared, the TX state machine comes free.
Abort ==
  \/ tx' = "free" /\ UNCHANGED <<faults, mishaps>>
  \/ Fault /\ mishaps' = mishaps \cup {"abort"} /\ UNCHANGED tx

SendAborts ==
  /\ host = "aborting"
  /\ Abort
  /\ host' = "stopping"
  /\ UNCHANGED <<sendUnchanged, agc, sx1261, decision, answer, error, sends>>

\* lgw_lbt_stop; failing to stop makes an error of a packet that was sent.
SendStops ==
  /\ host = "stopping"
  /\ \/ /\ sx1261' = "idle" /\ UNCHANGED <<faults, mishaps>>
        /\ Return(IF error # "none" THEN "error" ELSE answer)
     \/ /\ Fault /\ UNCHANGED sx1261
        /\ mishaps' = mishaps \cup {"stop"}
        /\ Return("error")
  /\ UNCHANGED <<sendUnchanged, agc, tx, decision, error, sends>>

----------------------------------------------------------------------------
(* The AGC and the modem while the concentrator runs (external).           *)

AgcRuns == agc.fw = "agc" /\ agc.round > Len(Rounds)

\* The departure time comes: the AGC lets the packet go, or not when it was
\* told to listen and the sx1261 says the channel is busy.
Departs ==
  /\ tx = "scheduled" /\ AgcRuns
  /\ \E free \in IF conf.lbt THEN BOOLEAN ELSE {TRUE} :
        /\ tx' = IF free THEN "emitting" ELSE "free"
        /\ decision' = IF free THEN "allowed" ELSE "blocked"
        /\ agc' = IF conf.lbt THEN [agc EXCEPT !.status = IF free THEN 1 ELSE 65] ELSE agc
  /\ UNCHANGED <<sendUnchanged, host, sx1261, answer, error, sends, faults, mishaps>>

AgcClears ==
  /\ AgcRuns /\ agc.put[0] = 255 /\ agc.status # 0
  /\ agc' = [agc EXCEPT !.status = 0]
  /\ UNCHANGED <<sendUnchanged, host, sendVars, faults, mishaps>>

Emitted ==
  /\ tx = "emitting"
  /\ tx' = "free"
  /\ UNCHANGED <<sendUnchanged, agc, host, sx1261, decision, answer, error, sends, faults, mishaps>>

----------------------------------------------------------------------------
(* lgw_stop aborts what is being sent, disconnects, closes the I2C bus.    *)

Stop ==
  /\ host = "up"
  /\ Abort
  /\ host' = "stopped" /\ started' = FALSE /\ connected' = {}
  /\ UNCHANGED <<conf, startVars, agc, arb, sx1261, decision, answer, error, sends>>

Host == \/ StepDone \/ StepFails \/ WriteBox \/ AwaitStatus \/ CheckBox \/ CollectRound
        \/ LockPll \/ JudgeResults \/ StartDone
        \/ SendRefused \/ SendStarts \/ SendTriggers \/ PollInitiated \/ PollCleared
        \/ SendAborts \/ SendStops \/ Stop
Concentrator == McuBoots \/ AgcTakes \/ CalTakes \/ ArbTakes \/ Departs \/ AgcClears \/ Emitted

Next == Host \/ Concentrator

\* The host's task runs, and so do the micro-controllers and the modem.
Spec == /\ Init /\ [][Next]_vars
        /\ WF_vars(Host) /\ WF_vars(McuBoots \/ AgcTakes \/ CalTakes \/ ArbTakes)

----------------------------------------------------------------------------
TypeOK == /\ conf \in Configurations
          /\ host \in {"starting", "failed", "up", "triggering", "polling", "clearing",
                       "aborting", "stopping", "stopped"}
          /\ at \in 1 .. Len(Script[conf]) + 1
          /\ started \in BOOLEAN /\ connected \subseteq {"com", "i2c"}
          /\ agc.fw \in {"none", "cal", "agc"} /\ arb.fw \in {"none", "arb"}
          /\ tx \in {"free", "scheduled", "emitting"}
          /\ sx1261 \in {"idle", "rx", "lbt"}
          /\ decision \in {"none", "allowed", "blocked"}
          /\ error \in {"none", "send", "status"}
          /\ answer \in {"none", "sent", "blocked", "error"}
          /\ faults \in 0 .. MaxFaults
          /\ mishaps \subseteq {"agc write", "arb write", "wait", "read", "timeout", "status", "abort", "stop"}

\* The AGC runs with the parameters sx1302_agc_start means it to have, round by
\* round, whatever writes were lost, as long as no wait for its status and no
\* reading back failed: the variable that is read into still holds the value
\* compared before, often the one looked for (loragw_sx1302.c:1280). They are
\* exactly the numbers it means, and the last, whether to listen before talking,
\* is 0 when it means 0: with the write of a 1 lost the AGC takes the 8 of the
\* exchange before, and the cast to bool lets it pass (loragw_sx1302.c:1612).
AgcTookParameters ==
  started /\ mishaps \cap {"wait", "read"} = {} =>
    LET params == AgcParams(conf.type[conf.clksrc], IF conf.fdd THEN 1 ELSE 0, IF conf.lbt THEN 1 ELSE 0)
    IN  \A i \in 1 .. Len(params) :
          /\ i <= Len(agc.taken)
          /\ \A m \in 1 .. Len(params[i].put) : Same(agc.taken[i][m], params[i].put[m], params[i].how)

\* The arbiter resumed with the dual demodulation mode of the configuration,
\* unless one of its writes was lost, which is not read back
\* (loragw_sx1302.c:1811).
ArbTookMode ==
  started /\ mishaps \cap {"wait", "arb write"} = {} =>
    arb.taken = <<<<7, 3, ArbDualDemod(conf.ftime)>>>>

\* lgw_start reports success only when both micro-controllers took the parameters of the
\* configuration, although it ignores the errors of the writes to their mailboxes.
McusTookParameters == AgcTookParameters /\ ArbTookMode

\* The values read in a round of calibration are those of that round of the
\* calibration commanded last, not of an earlier one (loragw_cal.c:338).
RoundsInStep == mishaps \cap {"wait", "agc write"} = {} => collected[1] = collected[2]

\* When lgw_send returns, the sx1261 no longer listens, unless starting or
\* stopping it failed (loragw_hal.c:1407).
ListeningEnds == host = "up" /\ sx1261 = "lbt" => "stop" \in mishaps

\* What lgw_send returns of a packet is what the AGC decided of it: none is
\* reported sent that was held back, nor the reverse, as long as the AGC was
\* never given up on (loragw_lbt.c:172).
AnswerIsDecision ==
  host = "up" /\ conf.lbt /\ mishaps = {} =>
    /\ answer = "sent" => decision = "allowed"
    /\ answer = "blocked" => decision = "blocked"

\* When lgw_send gives up on a packet it had triggered, that packet is not left
\* to be sent, nor being sent, unless aborting it failed
\* (loragw_hal.c:1391).
ErrorIsSilence ==
  host = "up" /\ error = "status" /\ "abort" \notin mishaps => tx = "free"

\* What lgw_send leaves behind is what it reports: the answer is the decision of the AGC,
\* after an error nothing goes out, and the sx1261 no longer listens.
SendIsHonest == ListeningEnds /\ AnswerIsDecision /\ ErrorIsSilence

\* lgw_start ends, unless a write to a micro-controller was lost: it waits
\* without a timeout for an answer that then never comes
\* (loragw_sx1302.c:1222).
StartEnds == (host = "starting") ~> (host # "starting" \/ mishaps \cap {"agc write", "arb write", "wait"} # {})
=============================================================================
