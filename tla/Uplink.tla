------------------------------- MODULE Uplink -------------------------------
(***************************************************************************)
(* thread_up and the main loop's statistics.  thread_up fetches packets,   *)
(* filters and counts them one by one, sends what is left with the status  *)
(* report, if one is ready, as a PUSH_DATA, and waits twice for its        *)
(* PUSH_ACK with mx_meas_up in its hand.  The main loop copies and resets  *)
(* the counters under mx_meas_up, prints, and some time later makes the    *)
(* report under mx_stat_rep.  thread_up looks at report_ready before it    *)
(* serialises the packets, without a lock, and copies the report after.    *)
(*                                                                         *)
(* The network loses, delays and repeats datagrams: one that was sent may  *)
(* be received at any later time, often or never.  Tokens are random, and  *)
(* two PUSH_DATA may have the same one.  A critical section in which       *)
(* nothing waits is one step; mx_meas_up, held over recvfrom, is state.    *)
(* Packets are numbered in the order the concentrator hands them out.      *)
(***************************************************************************)
EXTENDS Rxpk, FiniteSetsExt

CONSTANTS
    Kinds,       \* packets, but for their number
    Tokens,      \* the values of a token
    MaxFetch,    \* NB_PKT_MAX
    MaxPackets,  \* bound: packets received
    MaxReports   \* bound: reports of the main loop

ASSUME UplinkAssumption ==
    /\ Tokens # {}
    /\ MaxFetch \in Nat \ {0} /\ MaxPackets \in Nat /\ MaxReports \in Nat

Counters == {"rcv", "ok", "bad", "nocrc", "fwd", "sent", "ack"}
NoCount == [c \in Counters |-> 0]
NoReport == [seq |-> 0, count |-> NoCount]

VARIABLES
    fetched,        \* number of packets the concentrator handed out
    up,             \* thread_up: pc, batch, dgram, send_report, token, tries
    mx_meas_up,     \* TRUE when thread_up holds it over recvfrom
    meas,           \* the counters
    main,           \* the main loop: pc, and its copy of the counters
    status_report,  \* the report: its number and the counters in it
    report_ready,
    pushed,         \* tokens of the datagrams sent
    heard,          \* tokens of those the server received, and acknowledged
    exit_sig,
    sent,           \* history: [packets, reports] over all datagrams
    skipped,        \* history: packets filtered out
    replaced,       \* history: reports replaced before they were sent
    reported        \* history: the counters added up over the reports

vars == <<fetched, up, mx_meas_up, meas, main, status_report, report_ready, pushed,
          heard, exit_sig, sent, skipped, replaced, reported>>
network == <<pushed, heard>>
mainVars == <<main, status_report, replaced, reported>>

Empty == [packets |-> <<>>, report |-> 0]
NoToken == CHOOSE t \in Tokens : TRUE

Init ==
    /\ fetched = 0
    /\ up = [pc |-> "fetch", batch |-> <<>>, dgram |-> Empty, send_report |-> FALSE,
             token |-> NoToken, tries |-> 0]
    /\ mx_meas_up = FALSE /\ meas = NoCount
    /\ main = [pc |-> "sleep", cp |-> NoReport]
    /\ status_report = NoReport /\ report_ready = FALSE
    /\ pushed = {} /\ heard = {} /\ exit_sig = FALSE
    /\ sent = [packets |-> <<>>, reports |-> <<>>]
    /\ skipped = 0 /\ replaced = {} /\ reported = NoCount

\* The counters with those of cs incremented.
Plus(cs) == [c \in Counters |-> meas[c] + (IF c \in cs THEN 1 ELSE 0)]

-----------------------------------------------------------------------------
(* The network and the server.                                               *)

ServerHears(t) ==
    /\ t \in pushed \ heard
    /\ heard' = heard \cup {t}
    /\ UNCHANGED <<fetched, up, mx_meas_up, meas, mainVars, report_ready, pushed, exit_sig, sent,
                   skipped>>

-----------------------------------------------------------------------------
(* thread_up: packets.                                                       *)

\* lgw_receive, under mx_concent.
Fetch ==
    /\ up.pc = "fetch" /\ ~exit_sig
    /\ \E n \in 0 .. Min({MaxFetch, MaxPackets - fetched}) : \E kinds \in [1 .. n -> Kinds] :
          /\ up' = [up EXCEPT !.pc = "look",
                              !.batch = [i \in 1 .. n |-> [id |-> fetched + i, kind |-> kinds[i]]]]
          /\ fetched' = fetched + n
    /\ UNCHANGED <<mx_meas_up, meas, mainVars, report_ready, network, exit_sig, sent,
                   skipped>>

\* A failing lgw_receive ends the program, with exit().
FetchFails ==
    /\ up.pc = "fetch" /\ ~exit_sig
    /\ up' = [up EXCEPT !.pc = "exit"]
    /\ UNCHANGED <<fetched, mx_meas_up, meas, mainVars, report_ready, network, exit_sig,
                   sent, skipped>>

\* Mutant: report_ready is cleared when it is read.
LookClearing ==
    /\ up.pc = "look"
    /\ up' = IF up.batch = <<>> /\ ~report_ready
             THEN [up EXCEPT !.pc = "fetch"]
             ELSE [up EXCEPT !.pc = "serialise", !.send_report = report_ready]
    /\ report_ready' = FALSE
    /\ UNCHANGED <<fetched, mx_meas_up, meas, mainVars, network, exit_sig, sent, skipped>>

\* report_ready is read without mx_stat_rep, once for the whole datagram.
Look ==
    /\ up.pc = "look"
    /\ up' = IF up.batch = <<>> /\ ~report_ready
             THEN [up EXCEPT !.pc = "fetch"]
             ELSE [up EXCEPT !.pc = "serialise", !.send_report = report_ready]
    /\ UNCHANGED <<fetched, mx_meas_up, meas, mainVars, report_ready, network, exit_sig,
                   sent, skipped>>

\* The counter of a status; an unknown status has none.
StatusCounter(p) ==
    CASE p.status = "CRC_OK"  -> {"ok"}
      [] p.status = "CRC_BAD" -> {"bad"}
      [] p.status = "NO_CRC"  -> {"nocrc"}
      [] OTHER                -> {}

\* Mutant: a packet that is filtered out takes the rest of the batch with it.
SerialiseStopping ==
    /\ up.pc = "serialise" /\ up.batch # <<>>
    /\ LET p == Head(up.batch) IN
          /\ meas' = Plus({"rcv"} \cup StatusCounter(p.kind)
                            \cup (IF Forwarded(p.kind) THEN {"fwd"} ELSE {}))
          /\ IF ~Forwarded(p.kind)
             THEN up' = [up EXCEPT !.batch = <<>>] /\ skipped' = skipped + 1
             ELSE up' = [up EXCEPT !.batch = Tail(@), !.dgram.packets = Append(@, p)]
                  /\ UNCHANGED skipped
    /\ UNCHANGED <<fetched, mx_meas_up, mainVars, report_ready, network, exit_sig, sent>>

\* The main loop never holds mx_meas_up over a step.
Serialise ==
    /\ up.pc = "serialise" /\ up.batch # <<>>
    /\ LET p == Head(up.batch) IN
          /\ meas' = Plus({"rcv"} \cup StatusCounter(p.kind)
                            \cup (IF Forwarded(p.kind) THEN {"fwd"} ELSE {}))
          /\ IF ~Forwarded(p.kind)
             THEN up' = [up EXCEPT !.batch = Tail(@)] /\ skipped' = skipped + 1
             ELSE /\ UNCHANGED skipped
                  /\ up' = IF Encodable(p.kind)
                           THEN [up EXCEPT !.batch = Tail(@), !.dgram.packets = Append(@, p)]
                           ELSE [up EXCEPT !.pc = "exit"]
    /\ UNCHANGED <<fetched, mx_meas_up, mainVars, report_ready, network, exit_sig, sent>>

-----------------------------------------------------------------------------
(* thread_up: the report and the datagram.                                   *)

Skip ==
    /\ up.pc = "serialise" /\ up.batch = <<>>
    /\ up.dgram.packets = <<>> /\ ~up.send_report
    /\ up' = [up EXCEPT !.pc = "fetch"]
    /\ UNCHANGED <<fetched, mx_meas_up, meas, mainVars, report_ready, network, exit_sig,
                   sent, skipped>>

\* The report is copied, as it is now, and report_ready cleared, under mx_stat_rep.
CopyReport ==
    /\ up.pc = "serialise" /\ up.batch = <<>> /\ up.send_report
    /\ up' = [up EXCEPT !.pc = "send", !.dgram.report = status_report.seq]
    /\ report_ready' = FALSE
    /\ UNCHANGED <<fetched, mx_meas_up, meas, mainVars, network, exit_sig, sent, skipped>>

\* Without a report the datagram is complete after its packets.
Complete ==
    /\ up.pc = "serialise" /\ up.batch = <<>>
    /\ up.dgram.packets # <<>> /\ ~up.send_report
    /\ up' = [up EXCEPT !.pc = "send"]
    /\ UNCHANGED <<fetched, mx_meas_up, meas, mainVars, report_ready, network, exit_sig,
                   sent, skipped>>

\* sendto comes before the mutex.
Send ==
    /\ up.pc = "send"
    /\ \E t \in Tokens :
          /\ pushed' = pushed \cup {t}
          /\ up' = [up EXCEPT !.pc = "count", !.token = t]
    /\ sent' = [packets |-> sent.packets \o [i \in DOMAIN up.dgram.packets |-> up.dgram.packets[i].id],
                reports |-> IF up.dgram.report = 0 THEN sent.reports
                            ELSE Append(sent.reports, up.dgram.report)]
    /\ UNCHANGED <<fetched, mx_meas_up, meas, mainVars, report_ready, heard, exit_sig, skipped>>

\* Mutant: mx_meas_up is given back before the wait.
CountSentOnly ==
    /\ up.pc = "count"
    /\ meas' = Plus({"sent"})
    /\ up' = [up EXCEPT !.pc = "await", !.tries = 0, !.dgram = Empty]
    /\ UNCHANGED <<fetched, mx_meas_up, mainVars, report_ready, network, exit_sig, sent,
                   skipped>>

CountSent ==
    /\ up.pc = "count"
    /\ mx_meas_up' = TRUE
    /\ meas' = Plus({"sent"})
    /\ up' = [up EXCEPT !.pc = "await", !.tries = 0, !.dgram = Empty]
    /\ UNCHANGED <<fetched, mainVars, report_ready, network, exit_sig, sent, skipped>>

-----------------------------------------------------------------------------
(* thread_up: the acknowledgement.                                           *)

\* The token is not used again.
Done == [up EXCEPT !.pc = "fetch", !.send_report = FALSE, !.tries = 0, !.token = NoToken]
NextTry == IF up.tries = 1 THEN Done ELSE [up EXCEPT !.tries = @ + 1]

\* A timeout, or a datagram that is no PUSH_ACK.
AwaitInVain ==
    /\ up.pc = "await"
    /\ up' = NextTry /\ mx_meas_up' = (up'.pc = "await")
    /\ UNCHANGED <<fetched, meas, mainVars, report_ready, network, exit_sig, sent, skipped>>

\* Mutant: the error path leaves the loop without giving the mutex back.
AwaitFailsLocked ==
    /\ up.pc = "await"
    /\ up' = Done /\ UNCHANGED mx_meas_up
    /\ UNCHANGED <<fetched, meas, mainVars, report_ready, network, exit_sig, sent, skipped>>

\* Any other error of the socket ends the wait.
AwaitFails ==
    /\ up.pc = "await"
    /\ up' = Done /\ mx_meas_up' = FALSE
    /\ UNCHANGED <<fetched, meas, mainVars, report_ready, network, exit_sig, sent, skipped>>

ReceiveAck(t) ==
    /\ up.pc = "await"
    /\ t \in heard
    /\ IF t = up.token
       THEN up' = Done /\ meas' = Plus({"ack"})
       ELSE up' = NextTry /\ UNCHANGED meas
    /\ mx_meas_up' = (up'.pc = "await")
    /\ UNCHANGED <<fetched, mainVars, report_ready, network, exit_sig, sent, skipped>>

UpEnds ==
    /\ up.pc = "fetch" /\ exit_sig
    /\ up' = [up EXCEPT !.pc = "ended"]
    /\ UNCHANGED <<fetched, mx_meas_up, meas, mainVars, report_ready, network, exit_sig,
                   sent, skipped>>

-----------------------------------------------------------------------------
(* The main loop.                                                            *)

\* exit() ends the other tasks as well.
Exited == up.pc = "exit"

IntervalOver ==
    /\ main.pc = "sleep" /\ ~exit_sig /\ ~Exited /\ main.cp.seq < MaxReports
    /\ main' = [main EXCEPT !.pc = "copy"]
    /\ UNCHANGED <<fetched, up, mx_meas_up, meas, status_report, report_ready, network,
                   exit_sig, sent, skipped, replaced, reported>>

CopyCounters ==
    /\ main.pc = "copy" /\ ~mx_meas_up /\ ~Exited
    /\ main' = [pc |-> "write", cp |-> [seq |-> main.cp.seq + 1, count |-> meas]]
    /\ meas' = NoCount
    /\ reported' = [c \in Counters |-> reported[c] + meas[c]]
    /\ UNCHANGED <<fetched, up, mx_meas_up, status_report, report_ready, network, exit_sig,
                   sent, skipped, replaced>>

WriteReport ==
    /\ main.pc = "write" /\ ~Exited
    /\ status_report' = main.cp /\ report_ready' = TRUE
    /\ replaced' = IF report_ready THEN replaced \cup {status_report.seq} ELSE replaced
    /\ main' = [main EXCEPT !.pc = "sleep"]
    /\ UNCHANGED <<fetched, up, mx_meas_up, meas, network, exit_sig, sent, skipped,
                   reported>>

\* exit_sig, set by another task (autoquit) or by a signal.
ExitSignal ==
    /\ ~exit_sig /\ ~Exited /\ exit_sig' = TRUE
    /\ UNCHANGED <<fetched, up, mx_meas_up, meas, mainVars, report_ready, network, sent,
                   skipped>>

-----------------------------------------------------------------------------
UpNext ==
    \/ Fetch \/ FetchFails \/ Look \/ Serialise \/ Skip \/ CopyReport \/ Complete
    \/ Send \/ CountSent \/ AwaitInVain \/ AwaitFails \/ UpEnds
    \/ \E t \in Tokens : ReceiveAck(t)

MainNext == IntervalOver \/ CopyCounters \/ WriteReport

Next == (\E t \in Tokens : ServerHears(t)) \/ UpNext \/ MainNext \/ ExitSignal

Spec == Init /\ [][Next]_vars

\* No task is starved.  CopyCounters waits for a mutex thread_up takes again and again:
\* while thread_up is in the bus transactions of the next fetch, the main loop, which has
\* the same priority, gets it.
FairSpec == Spec /\ WF_vars(UpNext) /\ WF_vars(IntervalOver \/ WriteReport) /\ SF_vars(CopyCounters)

-----------------------------------------------------------------------------
Ids(packets) == [i \in DOMAIN packets |-> packets[i].id]
Increasing(s) == \A i, j \in DOMAIN s : i < j => s[i] < s[j]

TypeOK ==
    /\ fetched \in 0 .. MaxPackets
    /\ up.pc \in {"fetch", "look", "serialise", "send", "count", "await", "exit", "ended"}
    /\ up.tries \in {0, 1} /\ up.token \in Tokens /\ up.send_report \in BOOLEAN
    /\ Len(up.batch) + Len(up.dgram.packets) <= MaxFetch
    /\ up.dgram.report \in 0 .. MaxReports
    /\ mx_meas_up \in BOOLEAN /\ report_ready \in BOOLEAN /\ exit_sig \in BOOLEAN
    /\ meas \in [Counters -> Nat] /\ reported \in [Counters -> Nat]
    /\ main.pc \in {"sleep", "copy", "write"}
    /\ main.cp \in [seq : 0 .. MaxReports, count : [Counters -> Nat]]
    /\ status_report \in [seq : 0 .. MaxReports, count : [Counters -> Nat]]
    /\ heard \subseteq pushed /\ pushed \subseteq Tokens

\* Packets leave in the order the concentrator received them, none twice, and each that
\* was fetched is waiting, in the datagram at hand, sent, or was filtered out.
PacketsInOrder ==
    LET inHand == IF up.pc = "count" THEN <<>> ELSE Ids(up.dgram.packets)
        all    == sent.packets \o inHand \o Ids(up.batch)
    IN  Increasing(all) /\ Len(all) + skipped = fetched

\* Reports are sent in the order they are made, each at most once, ...
ReportsInOrder == Increasing(sent.reports)

\* ... and one that was made and not sent is ready, on its way, or was replaced by a
\* later one before thread_up had copied it.
NoReportForgotten ==
    \A r \in 1 .. status_report.seq :
        \/ r \in {sent.reports[i] : i \in DOMAIN sent.reports}
        \/ r = up.dgram.report
        \/ r = status_report.seq /\ report_ready
        \/ r \in replaced

\* A report, handed over by a flag that thread_up reads under no lock, is sent once and
\* in its turn, unless a later one replaced it.
ReportsOnce == ReportsInOrder /\ NoReportForgotten

\* What a report says of one interval is consistent: no more acknowledgements than
\* datagrams ("ackr" is at most 100), no more packets forwarded than received.
ReportConsistent ==
    LET c == status_report.count IN
    /\ c.ack <= c.sent
    /\ c.fwd <= c.ok + c.bad + c.nocrc
    /\ c.ok + c.bad + c.nocrc <= c.rcv

\* Over all reports nothing is counted twice or lost.
Total(c) == reported[c] + meas[c]
CountersAddUp ==
    LET open == Len(up.batch) - (IF up.pc = "exit" /\ up.batch # <<>> THEN 1 ELSE 0) IN
    /\ Total("rcv") = fetched - open
    /\ Total("fwd") + skipped = Total("rcv")

\* The counters that the main loop takes from thread_up in the middle of its batch are
\* consistent within each report and complete over all of them.
CountersKept == ReportConsistent /\ CountersAddUp

\* A report that is ready is sent or replaced by a later one, unless the program ends.
ReportLeaves == \A r \in 1 .. MaxReports :
    (report_ready /\ status_report.seq = r) ~> (~report_ready \/ status_report.seq # r
                                                    \/ exit_sig \/ Exited)

\* The main loop gets its counters though thread_up waits for the server with the mutex.
MainLoopGoesOn == main.pc = "copy" ~> main.pc = "write" \/ Exited

\* Neither task holds up the other for ever: a report that is ready leaves, and the
\* statistics loop gets its counters.
EverybodyGoesOn == ReportLeaves /\ MainLoopGoesOn
=============================================================================
