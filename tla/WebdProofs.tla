------------------------------ MODULE WebdProofs ------------------------------
(***************************************************************************)
(* Proofs about webd's process: what its threads share with its stop, and  *)
(* what a scan's command delivers.                                         *)
(***************************************************************************)
EXTENDS Webd, TLAPS

(* How far the main thread is tells what the server's thread may find.     *)
ServerInv ==
  /\ main \in {"down", "mdns", "up", "join mdns", "close", "join", "free", "exit"}
  /\ main = "down" => thread = "none"
  /\ main \in {"mdns", "up", "join mdns", "close", "join"} => ctx = "live"
  /\ main \in {"free", "exit"} => thread = "ended"

(* What was read is what was written and is no longer in the pipe. The     *)
(* property says so only of a call that returned, so it is not inductive.  *)
ScanInv ==
  /\ pipe \in Nat /\ wrote \in Nat /\ output \in Nat
  /\ command = "none" <=> at = "idle"
  /\ answer # "none" => at = "idle"
  /\ at \in {"idle", "fork", "returned"} => child = "none" /\ pipe = 0
  /\ at \in {"poll", "wait"} => pipe <= wrote /\ output = AtMost(MaxOutput, wrote - pipe)
  /\ at = "returned" /\ result = "ok" => output = AtMost(MaxOutput, wrote)

-----------------------------------------------------------------------------
(* The server. *)

(* No step leaves the server's thread without its context. *)
LEMMA ServerStep == ServerInv /\ [Next]_vars => ServerInv'
<1> SUFFICES ASSUME ServerInv, [Next]_vars PROVE ServerInv'
  OBVIOUS
<1> USE DEF ServerInv
<1>1. CASE MainThread
  <2> USE DEF serverVars
  <2>1. CASE StartServer
    BY <2>1 DEF StartServer, Start
  <2>2. CASE StartMdns \/ StopMdns
    BY <2>2 DEF StartMdns, StopMdns
  <2>3. CASE JoinMdns
    BY <2>3 DEF JoinMdns, StopRunning
  <2>4. CASE CloseListener
    BY <2>4 DEF CloseListener, StopListening
  <2>5. CASE JoinServer
    BY <2>5 DEF JoinServer, AcceptThreadJoined
  <2>6. CASE FreeServer
    BY <2>6 DEF FreeServer, FreeContext
  <2>7. CASE ExitWebd
    BY <2>7 DEF ExitWebd
  <2>. QED
    BY <1>1, <2>1, <2>2, <2>3, <2>4, <2>5, <2>6, <2>7 DEF MainThread
<1>2. CASE Serves
  <2>1. thread \notin {"none", "ended"} /\ UNCHANGED <<main, ctx>>
    BY <1>2 DEF Serves, ServerThread, AcceptLoop, Accept, AcceptFails, AcceptClosed,
                NewSession, Handshake, ReadHttpRequest, WriteAllSsl, Turn, Closes
  <2>. QED
    BY <2>1
<1>3. CASE ScanStep
  <2>1. thread = "scan" /\ UNCHANGED <<main, ctx>>
    BY <1>3 DEF ScanStep, Turn, serverVars
  <2>. QED
    BY <2>1
<1>4. CASE Signal \/ ScanChild \/ Responds \/ UNCHANGED vars
  BY <1>4 DEF Signal, ScanChild, Responds, vars, serverVars
<1>5. CASE Aborts
  BY <1>5 DEF Aborts
<1>6. CASE Client
  BY <1>6 DEF Client, ClientStep, Connects, Stalls, Resumes
<1>. QED
  BY <1>1, <1>2, <1>3, <1>4, <1>5, <1>6 DEF Next

(* For any clients: the server's thread never runs without the TLS context,*)
(* wherever a signal stops webd.                                           *)
THEOREM ContextIsThere == Spec => []ContextOutlivesThread
<1>1. Init => ServerInv
  BY DEF Init, ServerInit, ServerInv
<1>2. ServerInv => ContextOutlivesThread
  BY DEF ServerInv, ContextOutlivesThread
<1>. QED
  BY <1>1, <1>2, ServerStep, PTL DEF Spec

-----------------------------------------------------------------------------
(* A scan's command. *)

(* Reading in one go or by the piece comes to the same.                    *)
LEMMA ReadOn ==
  ASSUME NEW n \in Nat, NEW m \in Nat
  PROVE  AtMost(MaxOutput, AtMost(MaxOutput, n) + m) = AtMost(MaxOutput, n + m)
         /\ AtMost(MaxOutput, n) \in Nat
BY ScanAssumption DEF AtMost

(* Every step of the call accounts for the bytes in the pipe. *)
LEMMA RunStep ==
  ASSUME ScanInv,
         \/ Fork \/ ForkFails \/ PollStep \/ StillRuns \/ KillGroup \/ ReapKilled
         \/ \E r \in {"ok", "busy", "failed"} : Reap(r)
  PROVE  ScanInv'
<1> USE DEF ScanInv, callVars, childVars
<1>1. CASE Fork \/ ForkFails
  BY <1>1, ScanAssumption DEF Fork, ForkFails, AtMost
<1>2. CASE PollStep
  <2>1. CASE pipe > 0
    <3>1. /\ pipe' = pipe - 1 /\ wrote' = wrote /\ at' = "wait"
          /\ output' = AtMost(MaxOutput, output + 1) /\ UNCHANGED <<command, answer>>
      BY <1>2, <2>1 DEF PollStep
    <3>2. pipe <= wrote /\ output = AtMost(MaxOutput, wrote - pipe)
      BY <1>2 DEF PollStep
    <3>3. wrote - pipe \in Nat
      BY <3>2
    <3>4. output' = AtMost(MaxOutput, (wrote - pipe) + 1)
      BY <3>1, <3>2, <3>3, ReadOn
    <3>5. (wrote - pipe) + 1 = wrote' - pipe' /\ pipe' \in Nat /\ pipe' <= wrote'
      BY <2>1, <3>1, <3>2
    <3>6. output' \in Nat
      BY <3>3, <3>4, ReadOn
    <3>7. at = "poll"
      BY <1>2 DEF PollStep
    <3>. QED
      BY <3>1, <3>4, <3>5, <3>6, <3>7
  <2>2. CASE ~ (pipe > 0)
    BY <1>2, <2>2 DEF PollStep
  <2>. QED
    BY <2>1, <2>2
<1>3. CASE StillRuns
  BY <1>3 DEF StillRuns
<1>4. CASE KillGroup \/ ReapKilled
  BY <1>4 DEF KillGroup, ReapKilled
<1>5. ASSUME NEW r \in {"ok", "busy", "failed"}, Reap(r) PROVE ScanInv'
  <2>1. /\ at = "wait" /\ at' = "returned" /\ child' = "none" /\ pipe' = 0 /\ wrote' = wrote
        /\ output' = AtMost(MaxOutput, output + pipe) /\ UNCHANGED <<command, answer>>
    BY <1>5 DEF Reap
  <2>2. pipe <= wrote /\ output = AtMost(MaxOutput, wrote - pipe) /\ wrote - pipe \in Nat
    BY <2>1
  <2>3. output' = AtMost(MaxOutput, (wrote - pipe) + pipe) /\ output' \in Nat
    BY <2>1, <2>2, ReadOn
  <2>4. (wrote - pipe) + pipe = wrote
    BY <2>2
  <2>. QED
    BY <2>1, <2>3, <2>4
<1>. QED
  BY <1>1, <1>2, <1>3, <1>4, <1>5

(* No step of webd or of the child breaks that account. *)
LEMMA ScanInvStep == ScanInv /\ [Next]_vars => ScanInv'
<1> SUFFICES ASSUME ScanInv, [Next]_vars PROVE ScanInv'
  OBVIOUS
<1>1. CASE ScanStep
  <2>1. CASE answer = "none" /\ HandleWifiScan
    BY <2>1 DEF ScanInv, HandleWifiScan, Runs, runVars, childVars
  <2>2. CASE Scanner
    <3>1. CASE AfterTrigger \/ AfterResults \/ AfterIw
      BY <3>1 DEF ScanInv, AfterTrigger, AfterResults, AfterIw, Runs, Ends, runVars, childVars
    <3>. QED
      BY <2>2, <3>1, RunStep DEF Scanner
  <2>3. CASE answer # "none" /\ answer' = "none" /\ wrote' = 0 /\ output' = 0
             /\ UNCHANGED <<command, attempt, at, child, pipe>>
    BY <2>3 DEF ScanInv
  <2>. QED
    BY <1>1, <2>1, <2>2, <2>3 DEF ScanStep
<1>2. CASE ScanChild
  BY <1>2 DEF ScanChild, Child, SetsGroup, Writes, ClosesFiles, Dies, ScanInv, callVars
<1>3. CASE Aborts
  BY <1>3 DEF Aborts, ScanInv
<1>4. CASE UNCHANGED scanVars
  BY <1>4 DEF scanVars, ScanInv
<1>5. ScanStep \/ ScanChild \/ Aborts \/ UNCHANGED scanVars
  BY DEF Next, MainThread, StartServer, StartMdns, StopMdns, JoinMdns, CloseListener,
         JoinServer, FreeServer, ExitWebd, Signal, Serves, Responds, Client, vars
<1>. QED
  BY <1>1, <1>2, <1>3, <1>4, <1>5

(* For any limits of time, attempts and output and any pipe: a command that*)
(* succeeded delivers all it wrote, up to the limit, and leaves nothing.   *)
THEOREM ScansAreComplete == Spec => []SuccessIsComplete
<1>1. Init => ScanInv
  BY DEF Init, ScanInit, ScanInv
<1>2. ScanInv => SuccessIsComplete
  BY DEF ScanInv, SuccessIsComplete
<1>. QED
  BY <1>1, <1>2, ScanInvStep, PTL DEF Spec

=============================================================================
