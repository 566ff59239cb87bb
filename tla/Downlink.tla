------------------------------ MODULE Downlink ------------------------------
(***************************************************************************)
(* thread_down, from the keepalive to the TX_ACK, with the three tasks it  *)
(* shares counters with: PULL_DATA and PULL_ACK over a network that loses, *)
(* delays, reorders and repeats datagrams; autoquit; a PULL_RESP that is   *)
(* parsed, checked, offered to the queue and answered; thread_jit, which   *)
(* empties the queue; the main loop, which reports the counters and resets *)
(* them, under mx_meas_dw, between any two steps.                          *)
(*                                                                         *)
(* The queue is a bag here: jit_enqueue says FULL when it is, and anything *)
(* otherwise (JitQueue says when).  Tokens are random: two PULL_DATA may   *)
(* have the same one.  A PULL_DATA and its PULL_ACK are one message that   *)
(* may be lost, late or repeated on its way.  Of the counters, those about *)
(* the downlinks are kept.  The server has one address, that of dest_addr. *)
(***************************************************************************)
EXTENDS Txpk, Functions

CONSTANTS
    Tokens,             \* the values of a token
    Requests,           \* the requests of the server
    Gps,                \* "unlocked", "valid", "inconvertible": the GPS reference
    QueueSize,          \* JIT_QUEUE_MAX
    AutoquitThreshold,  \* autoquit_threshold, 0 when disabled
    MaxResponses,       \* bound: PULL_RESP received
    MaxInFlight,        \* bound: PULL_RESP in flight
    MaxReports          \* bound: reports of the main loop

ASSUME DownlinkAssumption ==
    /\ Tokens # {} /\ Requests # {}
    /\ Gps \in {"unlocked", "valid", "inconvertible"}
    /\ QueueSize \in Nat \ {0} /\ AutoquitThreshold \in Nat
    /\ MaxResponses \in Nat /\ MaxInFlight \in Nat /\ MaxReports \in Nat

Refusals == {"FULL", "TOO_LATE", "TOO_EARLY", "COLLISION_PACKET", "COLLISION_BEACON"}

\* The errors send_tx_ack writes and counts, those it only writes, and the rest.
CountedErrors == {"TOO_LATE", "TOO_EARLY", "COLLISION_PACKET", "COLLISION_BEACON"}
Answers == CountedErrors \cup {"OK", "TX_POWER", "TX_FREQ", "GPS_UNLOCKED"}

Counters == {"dgram_rcv", "tx_requested", "tx_ok", "tx_fail"} \cup CountedErrors

VARIABLES
    acks,      \* tokens of PULL_DATA under way to the server, or PULL_ACK from it
    resps,     \* PULL_RESP on their way to the gateway
    down,      \* thread_down: pc, token, req_ack, autoquit_cnt, request, result
    queued,    \* number of packets in the queue
    jit,       \* thread_jit: no packet, a packet in hand, or one to count
    meas,      \* the counters
    reported,  \* the main loop's copies, added up over the reports
    reports,   \* number of reports
    exit_sig,
    answered,  \* history: TX_ACK sent, by what they say
    accepted,  \* history: packets jit_enqueue took
    missed,    \* history: packets jit_peek dropped, emitting chains included
    silence,   \* history: PULL_DATA since the last PULL_ACK for the current one
    taken      \* history: PULL_RESP received

vars == <<acks, resps, down, queued, jit, meas, reported, reports, exit_sig,
          answered, accepted, missed, silence, taken>>
network == <<acks, resps>>
history == <<answered, accepted, missed, silence, taken>>

NoRequest == [json |-> "none"]

Init ==
    /\ acks = {} /\ resps = {}
    /\ down = [pc |-> "pull", token |-> CHOOSE t \in Tokens : TRUE, req_ack |-> FALSE,
               autoquit |-> 0, request |-> NoRequest, result |-> "OK"]
    /\ queued = 0 /\ jit = "idle"
    /\ meas = [c \in Counters |-> 0] /\ reported = meas /\ reports = 0
    /\ exit_sig = FALSE
    /\ answered = [a \in Answers |-> 0]
    /\ accepted = 0 /\ missed = 0 /\ silence = 0 /\ taken = 0

Count(c) == meas' = [meas EXCEPT ![c] = @ + 1]

-----------------------------------------------------------------------------
(* The network and the server.                                               *)

ServerResponds(r) ==
    /\ taken < MaxResponses /\ Cardinality(resps) < MaxInFlight
    /\ resps' = resps \cup {r}
    /\ UNCHANGED <<acks, down, queued, jit, meas, reported, reports, exit_sig,
                   history>>

Lost ==
    /\ \/ \E t \in acks : acks' = acks \ {t} /\ UNCHANGED resps
       \/ \E r \in resps : resps' = resps \ {r} /\ UNCHANGED acks
    /\ UNCHANGED <<down, queued, jit, meas, reported, reports, exit_sig, history>>

\* A datagram is received; the network may deliver it again.
Delivered(set, d) == {set, set \ {d}}

-----------------------------------------------------------------------------
(* thread_down: keepalive.                                                   *)

Over == AutoquitThreshold > 0 /\ down.autoquit >= AutoquitThreshold

\* Nothing else sets exit_sig while the gateway runs.
Autoquit ==
    /\ down.pc = "pull" /\ ~exit_sig /\ Over
    /\ exit_sig' = TRUE
    /\ down' = [down EXCEPT !.pc = "ended"]
    /\ UNCHANGED <<network, queued, jit, meas, reported, reports, history>>

\* The count of unanswered PULL_DATA stops where nothing depends on it any more.
OneMore(n) == IF n < AutoquitThreshold THEN n + 1 ELSE n

SendPull ==
    /\ down.pc = "pull" /\ ~exit_sig /\ ~Over
    /\ \E t \in Tokens :
          /\ acks' = acks \cup {t}
          /\ down' = [down EXCEPT !.pc = "listen", !.token = t, !.req_ack = FALSE,
                                  !.autoquit = OneMore(@)]
    /\ silence' = OneMore(silence)
    /\ UNCHANGED <<resps, queued, jit, meas, reported, reports, exit_sig,
                   answered, accepted, missed, taken>>

\* keepalive_time is over, seen after a datagram or a timeout of the socket.
KeepaliveOver ==
    /\ down.pc = "listen" /\ ~exit_sig
    /\ down' = [down EXCEPT !.pc = "pull"]
    /\ UNCHANGED <<network, queued, jit, meas, reported, reports, exit_sig, history>>

\* Mutants: an acknowledgement resets the count whatever its token; only a
\* second one resets it.
AnyAckResets(t) ==
    /\ down.pc = "listen" /\ ~exit_sig
    /\ t \in acks /\ acks' \in Delivered(acks, t)
    /\ down' = [down EXCEPT !.req_ack = TRUE, !.autoquit = 0]
    /\ silence' = IF t = down.token THEN 0 ELSE silence
    /\ UNCHANGED <<resps, queued, jit, meas, reported, reports, exit_sig,
                   answered, accepted, missed, taken>>
SecondAckResets(t) ==
    /\ down.pc = "listen" /\ ~exit_sig
    /\ t \in acks /\ acks' \in Delivered(acks, t)
    /\ down' = IF t = down.token
               THEN [down EXCEPT !.req_ack = TRUE, !.autoquit = IF down.req_ack THEN 0 ELSE @]
               ELSE down
    /\ silence' = IF t = down.token THEN 0 ELSE silence
    /\ UNCHANGED <<resps, queued, jit, meas, reported, reports, exit_sig,
                   answered, accepted, missed, taken>>

\* A PULL_ACK of another token is out of sync; a second one changes nothing.
ReceiveAck(t) ==
    /\ down.pc = "listen" /\ ~exit_sig
    /\ t \in acks /\ acks' \in Delivered(acks, t)
    /\ down' = IF t = down.token /\ ~down.req_ack
               THEN [down EXCEPT !.req_ack = TRUE, !.autoquit = 0]
               ELSE down
    /\ silence' = IF t = down.token THEN 0 ELSE silence
    /\ UNCHANGED <<resps, queued, jit, meas, reported, reports, exit_sig,
                   answered, accepted, missed, taken>>

-----------------------------------------------------------------------------
(* thread_down: a PULL_RESP.                                                 *)

Receive(r, next) ==
    /\ down.pc = "listen" /\ ~exit_sig
    /\ taken < MaxResponses
    /\ r \in resps /\ resps' \in Delivered(resps, r)
    /\ down' = next
    /\ taken' = taken + 1
    /\ UNCHANGED <<acks, queued, jit, reported, reports, exit_sig,
                   answered, accepted, missed, silence>>

IgnoreResp(r) == Malformed(r, Gps) /\ Receive(r, down) /\ UNCHANGED meas

RefuseGps(r) ==
    /\ NeedsGps(r, Gps)
    /\ Receive(r, [down EXCEPT !.pc = "answer", !.result = "GPS_UNLOCKED"])
    /\ UNCHANGED meas

\* The datagram is counted, and its frequency and power are checked.
TakeResp(r) ==
    /\ ~Malformed(r, Gps) /\ ~NeedsGps(r, Gps)
    /\ Receive(r, IF FreqRefused(r)
                  THEN [down EXCEPT !.pc = "answer", !.result = "TX_FREQ"]
                  ELSE [down EXCEPT !.pc = "checked", !.request = r, !.result = Warning(r)])
    /\ Count("dgram_rcv")

\* Mutant: a rejection leaves the warning as the answer.
EnqueueHidingErrors ==
    /\ down.pc = "checked"
    /\ \/ /\ queued < QueueSize
          /\ queued' = queued + 1 /\ accepted' = accepted + 1
       \/ UNCHANGED <<queued, accepted>>
    /\ down' = [down EXCEPT !.pc = "enqueued"]
    /\ UNCHANGED <<network, jit, meas, reported, reports, exit_sig, answered, missed,
                   silence, taken>>

\* jit_enqueue: its error replaces the warning, its success does not.
Enqueue ==
    /\ down.pc = "checked"
    /\ \/ /\ queued < QueueSize
          /\ queued' = queued + 1 /\ accepted' = accepted + 1
          /\ down' = [down EXCEPT !.pc = "enqueued"]
       \/ /\ \E v \in Refusals :
                /\ (v = "FULL") <=> (queued = QueueSize)
                /\ down' = [down EXCEPT !.pc = "enqueued", !.result = v]
          /\ UNCHANGED <<queued, accepted>>
    /\ UNCHANGED <<network, jit, meas, reported, reports, exit_sig, answered, missed,
                   silence, taken>>

CountRequest ==
    /\ down.pc = "enqueued"
    /\ Count("tx_requested")
    /\ down' = [down EXCEPT !.pc = "answer"]
    /\ UNCHANGED <<network, queued, jit, reported, reports, exit_sig, history>>

\* The error send_tx_ack writes.
AckError(result) == IF result = "FULL" THEN "COLLISION_PACKET" ELSE result

Answer ==
    /\ down.pc = "answer"
    /\ LET e == AckError(down.result) IN
          /\ answered' = [answered EXCEPT ![e] = @ + 1]
          /\ IF e \in CountedErrors THEN Count(e) ELSE UNCHANGED meas
    /\ down' = [down EXCEPT !.pc = "listen", !.request = NoRequest, !.result = "OK"]
    /\ UNCHANGED <<network, queued, jit, reported, reports, exit_sig, accepted, missed,
                   silence, taken>>

-----------------------------------------------------------------------------
(* thread_jit and the main loop.                                             *)

\* jit_peek drops a packet whose time is over: nothing counts it.
JitMiss ==
    /\ jit = "idle" /\ ~exit_sig /\ queued > 0
    /\ queued' = queued - 1 /\ missed' = missed + 1
    /\ UNCHANGED <<network, down, jit, meas, reported, reports, exit_sig, answered,
                   accepted, silence, taken>>

JitTake ==
    /\ jit = "idle" /\ ~exit_sig /\ queued > 0
    /\ queued' = queued - 1 /\ jit' = "hand"
    /\ UNCHANGED <<network, down, meas, reported, reports, exit_sig, history>>

\* The chain is emitting: the packet in hand is given up, and nothing counts it.
JitGivesUp ==
    /\ jit = "hand"
    /\ jit' = "idle" /\ missed' = missed + 1
    /\ UNCHANGED <<network, down, queued, meas, reported, reports, exit_sig, answered,
                   accepted, silence, taken>>

JitSend ==
    /\ jit = "hand"
    /\ jit' \in {"tx_ok", "tx_fail"}
    /\ UNCHANGED <<network, down, queued, meas, reported, reports, exit_sig, history>>

JitCount ==
    /\ jit \in {"tx_ok", "tx_fail"}
    /\ Count(jit) /\ jit' = "idle"
    /\ UNCHANGED <<network, down, queued, reported, reports, exit_sig, history>>

\* Mutant: the counters are reset to what they were when they were copied.
ReportLate ==
    /\ ~exit_sig /\ reports < MaxReports
    /\ reported' = [c \in Counters |-> reported[c] + meas[c]]
    /\ \E c \in Counters : meas' = [d \in Counters |-> IF d = c THEN meas[d] ELSE 0]
    /\ reports' = reports + 1
    /\ UNCHANGED <<network, down, queued, jit, exit_sig, history>>

\* The counters are copied and reset in one critical section.
Report ==
    /\ ~exit_sig /\ reports < MaxReports
    /\ reported' = [c \in Counters |-> reported[c] + meas[c]]
    /\ meas' = [c \in Counters |-> 0]
    /\ reports' = reports + 1
    /\ UNCHANGED <<network, down, queued, jit, exit_sig, history>>

-----------------------------------------------------------------------------
Environment == Lost \/ \E r \in Requests : ServerResponds(r)

Handle == Enqueue \/ CountRequest \/ Answer

DownNext ==
    \/ Autoquit \/ SendPull \/ KeepaliveOver \/ Handle
    \/ \E t \in Tokens : ReceiveAck(t)
    \/ \E r \in Requests : IgnoreResp(r) \/ RefuseGps(r) \/ TakeResp(r)

JitNext == JitMiss \/ JitTake \/ JitGivesUp \/ JitSend \/ JitCount

Next == Environment \/ DownNext \/ JitNext \/ Report

Spec == Init /\ [][Next]_vars

\* No task is starved, and time goes on: each keepalive interval is over some
\* time, though datagrams may come in between.
FairSpec ==
    /\ Spec
    /\ WF_vars(Autoquit \/ SendPull \/ Handle)
    /\ SF_vars(KeepaliveOver)
    /\ WF_vars(JitTake \/ JitMiss) /\ WF_vars(JitGivesUp \/ JitSend \/ JitCount)

-----------------------------------------------------------------------------
Accepted(result) == result \in {"OK", "TX_POWER"}

DownType ==
    [pc : {"pull", "listen", "checked", "enqueued", "answer", "ended"},
     token : Tokens, req_ack : BOOLEAN, autoquit : 0 .. AutoquitThreshold,
     request : Requests \cup {NoRequest}, result : Answers \cup {"FULL"}]

TypeOK ==
    /\ acks \subseteq Tokens /\ resps \subseteq Requests
    /\ down \in DownType
    /\ queued \in 0 .. QueueSize
    /\ jit \in {"idle", "hand", "tx_ok", "tx_fail"}
    /\ meas \in [Counters -> Nat] /\ reported \in [Counters -> Nat]
    /\ reports \in Nat /\ exit_sig \in BOOLEAN
    /\ answered \in [Answers -> Nat]
    /\ accepted \in Nat /\ missed \in Nat /\ silence \in 0 .. AutoquitThreshold
    /\ taken \in Nat

\* All that was counted, whatever the reports took away.
Total(c) == reported[c] + meas[c]
Rejected == Total("TOO_LATE") + Total("TOO_EARLY")
              + Total("COLLISION_PACKET") + Total("COLLISION_BEACON")

One(condition) == IF condition THEN 1 ELSE 0

\* What the server is told is what happened: a TX_ACK without an error for each packet
\* that is in the queue, or was; one with the error for each rejection the reports count.
AnswersTrue ==
    /\ \A e \in CountedErrors : answered[e] = Total(e)
    /\ accepted = answered["OK"] + answered["TX_POWER"]
          + One(down.pc \in {"enqueued", "answer"} /\ Accepted(down.result))

\* Each datagram counted is answered, once, unless thread_down is still at it.
DatagramsAnswered ==
    Total("dgram_rcv") = answered["OK"] + answered["TX_POWER"] + answered["TX_FREQ"]
        + Rejected
        + One(\/ down.pc \in {"checked", "enqueued"}
              \/ down.pc = "answer" /\ down.result # "GPS_UNLOCKED")

\* Over all reports, each request is either accepted or rejected for one reason,
\* though its two counters are incremented in two critical sections.
RequestsAddUp ==
    Total("tx_requested") + One(down.pc = "enqueued")
        = accepted + Rejected
            + One(/\ down.pc \in {"enqueued", "answer"}
                  /\ down.result \in Refusals)

\* Each accepted packet is in the queue, in thread_jit's hand, sent, failed, or missed
\* without being counted.
EmissionsAddUp ==
    accepted = queued + One(jit # "idle") + Total("tx_ok") + Total("tx_fail") + missed

\* The counters of datagrams, requests and emissions, which three tasks increment and a
\* fourth takes away in critical sections of their own, agree over all reports.
DownlinksAddUp == DatagramsAnswered /\ RequestsAddUp /\ EmissionsAddUp

\* The gateway quits only after as many keepalive intervals in a row as the threshold
\* in which no PULL_ACK of the current PULL_DATA came, whatever came late or twice.
QuitOnlyInSilence ==
    exit_sig => AutoquitThreshold > 0 /\ silence = AutoquitThreshold

\* A gateway whose PULL_DATA are not acknowledged any more quits.
PullAcked == \E t \in Tokens : t = down.token /\ ReceiveAck(t)
QuitsInSilence ==
    AutoquitThreshold > 0 => <>exit_sig \/ []<><<PullAcked>>_vars
=============================================================================
