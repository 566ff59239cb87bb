-------------------------------- MODULE SetUp --------------------------------
(***************************************************************************)
(* Setting up a radio: the sx1250, sx1255 or sx1257, which receives and    *)
(* sends for the SX1302, and the sx1261 that listens and scans.  A set-up   *)
(* is a script of accesses to the radio, any of which may fail; a failing  *)
(* write may have reached the radio.  Registers that no property tells     *)
(* apart are one.                                                          *)
(***************************************************************************)
EXTENDS Frequencies, FiniteSets

CONSTANTS Tunings,      \* frequencies of radios, in Hz
          Leftovers,    \* what the registers may hold as a set-up begins
          MaxFailures   \* accesses that fail

Registers == {"mode", "calibrated", "image", "rate", "dio", "gain", "freq", "offset", "input", "fpga",
              "patching", "patch", "pram", "base", "sensi", "clkout", "xosc", "filters", "msb", "mid", "lsb"}

ASSUME SetUpAssumption ==
  Tunings \subseteq Nat /\ Leftovers \subseteq [Registers -> Int] /\ MaxFailures \in Nat

----------------------------------------------------------------------------
(* The scripts: what each access does, and what becomes of the set-up when  *)
(* it fails.  "note" goes on and remembers it, "stop" ends with an error,   *)
(* "ignore" does neither.                                                  *)

W(reg, value, policy) == [op |-> "write", reg |-> reg, value |-> value, policy |-> policy]

\* Reading a register and comparing it: what is not as expected ends the set-up.
Check(reg, value, policy) == [op |-> "check", reg |-> reg, value |-> value, policy |-> policy]

Read(policy) == [op |-> "read", policy |-> policy]

Refusal == [op |-> "refuse"]

\* Starting the PLL of an sx125x and looking whether it has locked, time and again.
Lock == [op |-> "lock", reg |-> "mode", value |-> 3, policy |-> "ignore"]

\* The modes as the status reports them.
StdbyRc == 2
StdbyXosc == 3
RxMode == 5

\* sx1250_calibrate and sx1261_calibrate, where policy differs.  The calibration itself
\* does not fail.
Calibrate(f, policy) ==
  IF Bands(f) = {} THEN <<Read(policy), Refusal>>
  ELSE <<Read(policy), W("image", CHOOSE i \in Bands(f) : TRUE, policy), Read(policy)>>

Sx1250Setup(f, single) ==
  << W("mode", StdbyRc, "note"), Check("mode", StdbyRc, "note"), W("calibrated", 127, "note"),
     W("mode", StdbyXosc, "note"), Check("mode", StdbyXosc, "note"),
     W("rate", 1, "note"), W("dio", 1, "note"), W("gain", 42, "note"),
     W("freq", Sx1250FreqToReg(f), "note"), W("offset", 0, "note"), W("mode", RxMode, "note") >>
  \o (IF single THEN <<W("input", 13, "note")>> ELSE <<>>)
  \o << W("fpga", 11, "note") >>

\* The patch, its words as one, and the version the sx1261 then reports.
Sx1261LoadPram ==
  << W("mode", StdbyRc, "ignore"), Check("mode", StdbyRc, "stop"), Read("stop"),
     W("patching", 1, "stop"), W("patch", 1, "stop"), W("patching", 0, "stop"), W("pram", 2, "stop"),
     Check("pram", 2, "stop") >>

Sx1261Setup ==
  << W("mode", StdbyRc, "stop"), Check("mode", StdbyRc, "stop"),
     W("base", 128, "stop"), W("sensi", 203, "stop") >>

\* The errors of sx125x_reg_w are ignored, all of them.
Sx125xSetup(type, clkout, f) ==
  LET parts == Sx125xParts(type, f)
  IN  << Read("ignore"), W("clkout", IF clkout THEN 2 ELSE 0, "ignore"), W("xosc", 1, "ignore"), W("filters", 1, "ignore"),
         W("msb", parts[1] % 256, "ignore"), W("mid", (parts[2] \div 256) % 256, "ignore"),
         W("lsb", parts[2] % 256, "ignore"), Lock >>

Scripts == {Calibrate(f, policy) : f \in Tunings, policy \in {"note", "stop"}}
             \cup {Sx1250Setup(f, single) : f \in Tunings, single \in BOOLEAN}
             \cup {Sx1261LoadPram, Sx1261Setup}
             \cup {Sx125xSetup(type, clkout, f) : type \in {"SX1255", "SX1257"}, clkout \in BOOLEAN, f \in Tunings}

----------------------------------------------------------------------------

VARIABLES script,    \* the set-up under way, or done
          at,        \* its next access
          chip,      \* the registers of the radio
          noted,     \* err # LGW_REG_SUCCESS
          outcome,   \* "none" before, then "running", "ok" or "error"
          failures,  \* accesses that failed
          attempts   \* to lock the PLL

setUpVars == <<script, at, chip, noted, outcome, failures, attempts>>

SetUpInit == /\ script = <<>> /\ at = 1 /\ noted = FALSE /\ outcome = "none"
             /\ failures = 0 /\ attempts = 0
             /\ chip = [r \in Registers |-> 0]

BeginSetUp == /\ outcome = "none"
              /\ outcome' = "running"
              /\ script' \in Scripts
              /\ chip' \in Leftovers
              /\ UNCHANGED <<at, noted, failures, attempts>>

\* The access that comes next.
Access == script[at]

Comes(op) == outcome = "running" /\ at \in DOMAIN script /\ Access.op = op

May(fail) == /\ fail => failures < MaxFailures
             /\ failures' = IF fail THEN failures + 1 ELSE failures

GoOn == at' = at + 1 /\ UNCHANGED <<script, outcome>>

End(verdict) == outcome' = verdict /\ UNCHANGED <<script, at, noted>>

\* Mutant: only the last access is looked at.
NotedLast(fail) == noted' = fail

\* err |= ..., then "Check if something went wrong".
Noted(fail) == noted' = (noted \/ fail)

\* What is made of an access that failed or did not.
Judge(fail) ==
  CASE fail /\ Access.policy = "stop" -> End("error")
    [] Access.policy = "note"         -> Noted(fail) /\ GoOn
    [] OTHER                          -> GoOn /\ UNCHANGED noted

\* What is written, or is not.
Written(fail) == \/ chip' = [chip EXCEPT ![Access.reg] = Access.value]
                 \/ fail /\ UNCHANGED chip

\* sx1250_reg_w, sx1261_reg_w, sx125x_reg_w
RegW(fail) == Comes("write") /\ May(fail) /\ Judge(fail) /\ Written(fail) /\ UNCHANGED attempts

\* sx1250_reg_r, sx1261_reg_r, sx125x_reg_r
RegR(fail) == Comes("read") /\ May(fail) /\ Judge(fail) /\ UNCHANGED <<chip, attempts>>

\* A status that could not be read is taken for another than expected.
CheckStatus(fail) ==
  /\ Comes("check") /\ May(fail)
  /\ IF fail \/ chip[Access.reg] # Access.value THEN End("error") ELSE GoOn /\ UNCHANGED noted
  /\ UNCHANGED <<chip, attempts>>

PllLockMaxAttempts == 5

\* The status says that the PLL has locked, or not yet.
LockPll(fail) ==
  /\ Comes("lock") /\ attempts < PllLockMaxAttempts /\ May(fail) /\ Written(fail)
  /\ attempts' = attempts + 1
  /\ GoOn \/ UNCHANGED <<script, at, outcome>>
  /\ UNCHANGED noted

\* "FAIL TO LOCK PLL"
GiveUp == /\ Comes("lock") /\ attempts >= PllLockMaxAttempts
          /\ End("error") /\ UNCHANGED <<chip, failures, attempts>>

\* "frequency range not supported"
RefuseFrequency == Comes("refuse") /\ End("error") /\ UNCHANGED <<chip, failures, attempts>>

EndSetUp == /\ outcome = "running" /\ at = Len(script) + 1
            /\ End(IF noted THEN "error" ELSE "ok") /\ UNCHANGED <<chip, failures, attempts>>

SetUpNext == \/ BeginSetUp \/ RefuseFrequency \/ GiveUp \/ EndSetUp
             \/ \E fail \in BOOLEAN : RegW(fail) \/ RegR(fail) \/ CheckStatus(fail) \/ LockPll(fail)

SetUpSpec == SetUpInit /\ [][SetUpNext]_setUpVars

----------------------------------------------------------------------------

Writes == {"write", "lock"}

\* Access k is the last one before access n to write its register.
LastWrite(k, n) ==
  script[k].op \in Writes /\ \A j \in k + 1 .. n - 1 : script[j].op \in Writes => script[j].reg # script[k].reg

Holds(k) == chip[script[k].reg] = script[k].value

\* The set-up of an sx1255 or sx1257, which looks at no error.
Careless == \E k \in DOMAIN script : script[k] = Lock

\* A set-up of an sx1250 or sx1261 that reports success left the radio as asked, in
\* every register it writes, whatever the radio held before and whichever of the
\* accesses failed: the errors that are noted and looked at in the end, those that end the
\* set-up, and the checks after a write whose error is ignored, leave no gap.  That of an
\* sx125x does if no access failed.  And one that reports an error met with a failure, with a
\* frequency outside the bands, or with a PLL that did not lock in five attempts
\* (loragw_sx1250.c:253).
SetUpSound ==
  /\ outcome = "ok" /\ (Careless => failures = 0) =>
       \A k \in DOMAIN script : LastWrite(k, Len(script) + 1) => Holds(k)
  /\ outcome = "error" => \/ failures > 0
                          \/ \E f \in Tunings : Bands(f) = {} /\ script \in {Calibrate(f, "note"), Calibrate(f, "stop")}
                          \/ Careless /\ attempts = PllLockMaxAttempts
=============================================================================
