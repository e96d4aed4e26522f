------------------------------- MODULE WifiScan -------------------------------
(***************************************************************************)
(* A Wi-Fi scan (wifi_scan.cpp): Scan asks wpa_cli to scan, asks it for    *)
(* the results until there are some, and falls back to iw; every command   *)
(* is a child process whose output RunCommand reads from a pipe, and which *)
(* it kills when it takes too long.                                        *)
(*                                                                         *)
(* Output is counted in chunks of one read, time in turns of the loop, to   *)
(* which the code gives 100 ms each, also when poll returns at once.       *)
(***************************************************************************)
EXTENDS Naturals

CONSTANTS Timeout,      \* kScanTimeoutMs, in poll steps
          Attempts,     \* kScanResultsAttempts
          MaxOutput,    \* kMaxCommandOutputBytes, in chunks
          Capacity,     \* chunks a pipe holds
          MaxChunks     \* bound: chunks one command writes

ASSUME ScanAssumption ==
  /\ Timeout \in Nat \ {0} /\ Attempts \in Nat \ {0}
  /\ MaxOutput \in Nat \ {0} /\ Capacity \in Nat \ {0} /\ MaxChunks \in Nat

VARIABLES command,   \* what Scan is running
          attempt,   \* of its loop
          at,        \* where RunCommand is
          child,     \* the child process
          pipe,      \* chunks in the pipe
          wrote,     \* chunks the child has written
          output,    \* chunks in result.output
          elapsed,   \* elapsed_ms
          result,    \* how the command ended
          answer     \* of the scan

scanVars == <<command, attempt, at, child, pipe, wrote, output, elapsed, result, answer>>
callVars == <<command, attempt, answer>>
childVars == <<child, pipe, wrote>>

ScanInit ==
  /\ command = "none" /\ attempt = 0 /\ at = "idle"
  /\ child = "none" /\ pipe = 0 /\ wrote = 0 /\ output = 0
  /\ elapsed = 0
  /\ result = "none" /\ answer = "none"

AtMost(m, n) == IF n <= m THEN n ELSE m

-----------------------------------------------------------------------------
(* RunCommand. *)

Fork ==
  /\ at = "fork"
  /\ child' = "forked" /\ pipe' = 0 /\ wrote' = 0 /\ output' = 0
  /\ elapsed' = 0 /\ result' = "none"
  /\ at' = "poll"
  /\ UNCHANGED callVars

(* pipe or fork fails.                                                     *)
ForkFails ==
  /\ at = "fork"
  /\ wrote' = 0 /\ output' = 0
  /\ at' = "returned" /\ result' = "failed"
  /\ UNCHANGED <<callVars, child, pipe, elapsed>>

(* poll returns when there is data, or after a step; then one read.        *)
PollStep ==
  /\ at = "poll"
  /\ at' = "wait"
  /\ IF pipe > 0
     THEN pipe' = pipe - 1 /\ output' = AtMost(MaxOutput, output + 1)
     ELSE UNCHANGED <<pipe, output>>
  /\ UNCHANGED <<callVars, child, wrote, elapsed, result>>

(* mutant: what is left in the pipe is not read                            *)
ReapUndrained(r) ==
  /\ at = "wait" /\ child = "zombie"
  /\ child' = "none" /\ pipe' = 0 /\ output' = output
  /\ result' = r /\ at' = "returned"
  /\ UNCHANGED <<callVars, wrote, elapsed>>

(* waitpid finds the child ended, with status r; the pipe is read empty.   *)
Reap(r) ==
  /\ at = "wait" /\ child = "zombie"
  /\ child' = "none" /\ pipe' = 0 /\ output' = AtMost(MaxOutput, output + pipe)
  /\ result' = r /\ at' = "returned"
  /\ UNCHANGED <<callVars, wrote, elapsed>>

StillRuns ==
  /\ at = "wait" /\ child # "zombie"
  /\ elapsed' = elapsed + 1
  /\ at' = IF elapsed' >= Timeout THEN "kill" ELSE "poll"
  /\ UNCHANGED <<callVars, childVars, output, result>>

(* kill(-pid) reaches the child once it has its own process group. The     *)
(* specification assumes that it has by then.                              *)
KillGroup ==
  /\ at = "kill" /\ child # "forked"
  /\ child' = "zombie"
  /\ at' = "reap"
  /\ UNCHANGED <<callVars, pipe, wrote, output, elapsed, result>>

ReapKilled ==
  /\ at = "reap" /\ child = "zombie"
  /\ child' = "none" /\ pipe' = 0
  /\ result' = "timeout" /\ at' = "returned"
  /\ UNCHANGED <<callVars, wrote, output, elapsed>>

-----------------------------------------------------------------------------
(* The child. *)

SetsGroup ==
  /\ child = "forked"
  /\ child' = "running"
  /\ UNCHANGED <<callVars, at, pipe, wrote, output, elapsed, result>>

Writes ==
  /\ child = "running" /\ pipe < Capacity /\ wrote < MaxChunks
  /\ pipe' = pipe + 1 /\ wrote' = wrote + 1
  /\ UNCHANGED <<callVars, at, child, output, elapsed, result>>

(* An ending process closes its files before it can be waited for.         *)
ClosesFiles ==
  /\ child = "running"
  /\ child' = "closed"
  /\ UNCHANGED <<callVars, at, pipe, wrote, output, elapsed, result>>

Dies ==
  /\ child = "closed"
  /\ child' = "zombie"
  /\ UNCHANGED <<callVars, at, pipe, wrote, output, elapsed, result>>

Child == SetsGroup \/ Writes \/ ClosesFiles \/ Dies

-----------------------------------------------------------------------------
(* Scan: which command comes next. A failure may be that the supplicant is *)
(* busy, and a success may bring no network.                               *)

runVars == <<childVars, output, elapsed>>

Runs(c, n) == command' = c /\ attempt' = n /\ at' = "fork" /\ UNCHANGED answer

Ends(a) == command' = "none" /\ attempt' = 0 /\ at' = "idle" /\ answer' = a

HandleWifiScan ==
  /\ command = "none"
  /\ Runs("scan", 0)
  /\ UNCHANGED <<runVars, result>>

AfterTrigger ==
  /\ at = "returned" /\ command = "scan"
  /\ IF result \in {"ok", "busy"} THEN Runs("scan_results", 1) ELSE Runs("iw", 0)
  /\ UNCHANGED <<runVars, result>>

AfterResults ==
  /\ at = "returned" /\ command = "scan_results"
  /\ \/ result = "ok" /\ Ends("networks")
     \/ attempt < Attempts /\ Runs("scan_results", attempt + 1)
     \/ attempt = Attempts /\ Runs("iw", 0)
  /\ UNCHANGED <<runVars, result>>

AfterIw ==
  /\ at = "returned" /\ command = "iw"
  /\ Ends(IF result = "ok" THEN "networks" ELSE "error")
  /\ UNCHANGED <<runVars, result>>

Scanner ==
  \/ Fork \/ ForkFails \/ PollStep \/ StillRuns \/ KillGroup \/ ReapKilled
  \/ \E r \in {"ok", "busy", "failed"} : Reap(r)
  \/ AfterTrigger \/ AfterResults \/ AfterIw

ScanNext == HandleWifiScan \/ Scanner \/ Child

ScanSpec == ScanInit /\ [][ScanNext]_scanVars

-----------------------------------------------------------------------------
(* A command that succeeded delivers all it wrote, up to the limit, however*)
(* its end falls between poll, read and waitpid; and no child and no pipe  *)
(* outlives a call (wifi_scan.cpp:113-165).                                *)
SuccessIsComplete ==
  at = "returned" =>
    /\ child = "none" /\ pipe = 0
    /\ result = "ok" => output = AtMost(MaxOutput, wrote)

=============================================================================
