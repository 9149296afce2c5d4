----------------------------- MODULE CaptureRun -----------------------------
(***************************************************************************)
(* One experiment of main.py: the Ryu controller, the Mininet network, the *)
(* capture processes in the namespaces of its switches, the traffic, and   *)
(* the clean-up in the finally block.  The capturers are those of          *)
(* network/packet_capture.py: PacketCapturer ("pcap") writes pcap files,   *)
(* NodeTsharkOnlinePacketCapturer and NodeXdpPacketCapturer ("online")     *)
(* start one online capture process per point and check that they live,    *)
(* and --capture-mode xdp-verify runs both through CombinedPacketCapturer. *)
(*                                                                         *)
(* Capture processes may die by themselves at any time, every call may     *)
(* raise where it can, and Ctrl-C may come at any time and again in the    *)
(* finally block, where nothing catches it.                                *)
(***************************************************************************)
EXTENDS Naturals, Sequences, FiniteSets, SequencesExt

CONSTANT PointCount   \* host-facing capture points

ASSUME PointAssumption == PointCount \in Nat

Points == 1 .. PointCount
Modes == {"pcap", "tshark", "xdp", "xdp-verify", "none"}
Capturers == {"pcap", "online"}
Processes == Capturers \X Points

VARIABLES
  mode,         \* --capture-mode
  pc,           \* where main is
  position,     \* index of the capturer being started
  processes,    \* self.processes of each capturer: how many it has appended
  process,      \* what became of each capture process
  started,      \* CombinedPacketCapturer._started
  toStop,       \* processes the running stop() has still to look at
  network,      \* the Mininet network
  ryu,          \* the controller process
  copied,       \* what the run directory holds of the files of each process
  saved,        \* history: the last copytree that began ran to its end
  done          \* history: stop() and the steps of the finally block that returned

startVars == <<position, processes, started>>
capturerVars == <<startVars, process, toStop>>
vars == <<mode, pc, capturerVars, network, ryu, copied, saved, done>>

TryPcs == {"network", "start", "append", "check", "unwind", "traffic", "stop", "copy", "analysis"}
FinallyPcs == {"stopAgain", "copyAgain", "networkStop", "terminate", "mnClean", "pkill"}
Pcs == {"ryu", "wait", "ended"} \cup TryPcs \cup FinallyPcs
StoppingPcs == {"stop", "unwind", "stopAgain"}

TypeOK ==
  /\ mode \in Modes
  /\ pc \in Pcs
  /\ position \in 1 .. 3
  /\ processes \in [Capturers -> 0 .. PointCount]
  /\ process \in [Processes -> {"none", "up", "signalled", "stopped", "killed", "died", "swept"}]
  /\ started \in Seq(Capturers)
  /\ toStop \in Seq(Processes)
  /\ network \in {"none", "partial", "built", "stopped", "cleaned"}
  /\ ryu \in {"none", "up", "terminated"}
  /\ copied \in [Processes -> {"none", "cut", "complete"}]
  /\ saved \in BOOLEAN
  /\ done \subseteq {"stop"} \cup FinallyPcs

Init ==
  /\ mode \in Modes
  /\ pc = "ryu"
  /\ position = 1
  /\ processes = [c \in Capturers |-> 0]
  /\ process = [p \in Processes |-> "none"]
  /\ started = <<>>
  /\ toStop = <<>>
  /\ network = "none"
  /\ ryu = "none"
  /\ copied = [p \in Processes |-> "none"]
  /\ saved = FALSE
  /\ done = {}

-----------------------------------------------------------------------------
(* Before the capture. *)

StartRyu ==
  /\ pc = "ryu"
  /\ ryu' = "up"
  /\ pc' = "wait"
  /\ UNCHANGED <<mode, capturerVars, network, copied, saved, done>>

\* time.sleep(3), before the try block.
WaitForRyu ==
  /\ pc = "wait"
  /\ pc' = "network"
  /\ UNCHANGED <<mode, capturerVars, network, ryu, copied, saved, done>>

\* The capturers of the mode, in the order they are started.
CapturersOf(m) == CASE m = "pcap" -> <<"pcap">>
                    [] m \in {"tshark", "xdp"} -> <<"online">>
                    [] m = "xdp-verify" -> <<"pcap", "online">>
                    [] m = "none" -> <<>>

\* fatTreeBuilder and network.start, and the directory the captures write to.
StartNetwork ==
  /\ pc = "network"
  /\ network' = "built"
  /\ pc' = IF mode = "none" THEN "traffic" ELSE "start"
  /\ UNCHANGED <<mode, capturerVars, ryu, copied, saved, done>>

-----------------------------------------------------------------------------
(* start() of the capturers. *)

Starting == CapturersOf(mode)[position]
NextNumber == processes[Starting] + 1

\* Mutant of OpenProcess: one round too many.
OpenProcessPastEnd ==
  /\ pc = "start"
  /\ processes[Starting] <= PointCount
  /\ process' = [p \in Processes |-> IF p = <<Starting, NextNumber>> THEN "up" ELSE process[p]]
  /\ pc' = "append"
  /\ UNCHANGED <<mode, startVars, toStop, network, ryu, copied, saved, done>>

\* cp.node.popen, in the loop over the capture points.
OpenProcess ==
  /\ pc = "start"
  /\ processes[Starting] < PointCount
  /\ process' = [process EXCEPT ![<<Starting, NextNumber>>] = "up"]
  /\ pc' = "append"
  /\ UNCHANGED <<mode, startVars, toStop, network, ryu, copied, saved, done>>

\* self.processes.append
AppendProcess ==
  /\ pc = "append"
  /\ processes' = [processes EXCEPT ![Starting] = NextNumber]
  /\ pc' = "start"
  /\ UNCHANGED <<mode, position, started, process, toStop, network, ryu, copied, saved, done>>

\* The loop is over; the online capturers sleep before they look at poll().
AllStarted ==
  /\ pc = "start"
  /\ processes[Starting] = PointCount
  /\ pc' = "check"
  /\ UNCHANGED <<mode, capturerVars, network, ryu, copied, saved, done>>

Live(p) == process[p] \in {"up", "signalled"}
Failed == Starting = "online" /\ \E n \in Points : ~Live(<<Starting, n>>)

\* start() returns: PacketCapturer's always, the others' when all are alive.
StartReturns ==
  /\ pc = "check"
  /\ ~Failed
  /\ started' = IF mode = "xdp-verify" THEN Append(started, Starting) ELSE started
  /\ position' = position + 1
  /\ pc' = IF position < Len(CapturersOf(mode)) THEN "start" ELSE "traffic"
  /\ UNCHANGED <<mode, processes, process, toStop, network, ryu, copied, saved, done>>

ProcessesOf(c) == [n \in 1 .. processes[c] |-> <<c, n>>]

\* Mutant of ManagedProcesses: the combined capturer stops the last one only.
LastStarted ==
  IF mode = "xdp-verify"
    THEN IF started = <<>> THEN <<>> ELSE ProcessesOf(Last(started))
    ELSE FlattenSeq([i \in DOMAIN CapturersOf(mode) |-> ProcessesOf(CapturersOf(mode)[i])])

\* The processes capturer.stop() goes through: those of the capturer, or in
\* xdp-verify those of the started ones, the last started first.
ManagedProcesses ==
  IF mode = "xdp-verify"
    THEN FlattenSeq([i \in DOMAIN started |-> ProcessesOf(Reverse(started)[i])])
    ELSE FlattenSeq([i \in DOMAIN CapturersOf(mode) |-> ProcessesOf(CapturersOf(mode)[i])])

\* stop() begins; without a capturer it has nothing to go through.
BeginStop(at) ==
  /\ pc' = at
  /\ toStop' = ManagedProcesses

\* A popen raises, or a process died: start() raises, and the combined capturer
\* stops what it has started before it passes the exception on.
StartRaises ==
  /\ \/ pc = "start" /\ processes[Starting] < PointCount
     \/ pc = "check" /\ Failed
  /\ BeginStop(IF mode = "xdp-verify" THEN "unwind" ELSE "stopAgain")
  /\ UNCHANGED <<mode, startVars, process, network, ryu, copied, saved, done>>

-----------------------------------------------------------------------------
(* The traffic, and the end of the try block. *)

\* flowGenerator has waited for all clients.
TrafficEnds ==
  /\ pc = "traffic"
  /\ BeginStop("stop")
  /\ UNCHANGED <<mode, startVars, process, network, ryu, copied, saved, done>>

\* poll() of the next process, and SIGINT if it is alive.
SignalProcess ==
  /\ pc \in StoppingPcs
  /\ toStop # <<>>
  /\ process[Head(toStop)] = "up"
  /\ process' = [process EXCEPT ![Head(toStop)] = "signalled"]
  /\ UNCHANGED <<mode, pc, startVars, toStop, network, ryu, copied, saved, done>>

\* Mutant of NextProcess: no kill after the timeout.
NextProcessUnkilled ==
  /\ pc \in StoppingPcs
  /\ toStop # <<>>
  /\ process[Head(toStop)] # "up"
  /\ toStop' = Tail(toStop)
  /\ UNCHANGED <<mode, pc, startVars, process, network, ryu, copied, saved, done>>

\* wait() returns, or its timeout expires and the process is killed.
NextProcess ==
  /\ pc \in StoppingPcs
  /\ toStop # <<>>
  /\ process[Head(toStop)] # "up"
  /\ process' = [process EXCEPT ![Head(toStop)] = IF @ = "signalled" THEN "killed" ELSE @]
  /\ toStop' = Tail(toStop)
  /\ UNCHANGED <<mode, pc, startVars, network, ryu, copied, saved, done>>

\* stop() is through; CombinedPacketCapturer clears _started.
StopReturns ==
  /\ pc \in StoppingPcs
  /\ toStop = <<>>
  /\ started' = <<>>
  /\ pc' = CASE pc = "stop" -> "copy"
             [] pc = "unwind" -> "stopAgain"
             [] pc = "stopAgain" -> "copyAgain"
  /\ done' = IF pc = "unwind" THEN done ELSE done \cup {pc}
  /\ UNCHANGED <<mode, position, processes, process, toStop, network, ryu, copied, saved>>

\* What a copy has of the files of p: a process that is still writing, was
\* killed or died may leave a pcap whose last record, or a log whose last
\* lines, are missing.
CopyOf(p) == CASE process[p] = "none" -> "none"
               [] process[p] = "stopped" -> "complete"
               [] OTHER -> "cut"

\* shutil.copytree, over an earlier copy.
CopyFiles ==
  /\ copied' = [p \in Processes |-> CopyOf(p)]
  /\ saved' = TRUE

\* A copytree that is broken off has copied some files, and has opened and not
\* filled others, which an earlier copy may have had complete.
CopySome ==
  /\ copied' \in {some \in [Processes -> {"none", "cut", "complete"}] :
                    \A p \in Processes :
                      \/ some[p] \in {copied[p], CopyOf(p)}
                      \/ some[p] = "cut" /\ process[p] # "none"}
  /\ saved' = FALSE

Copy ==
  /\ pc = "copy"
  /\ CopyFiles
  /\ pc' = "analysis"
  /\ UNCHANGED <<mode, capturerVars, network, ryu, done>>

\* result.py has run for every source; the try block ends.
Analyse ==
  /\ pc = "analysis"
  /\ BeginStop("stopAgain")
  /\ UNCHANGED <<mode, startVars, process, network, ryu, copied, saved, done>>

\* Ctrl-C anywhere in the try block, whose only handler is that of start() for
\* Exception; and what else may raise in it, with the same effect.
LeaveTry ==
  /\ pc \in TryPcs
  /\ BeginStop("stopAgain")
  /\ IF pc = "network" THEN network' \in {"none", "partial", "built"} ELSE UNCHANGED network
  /\ IF pc = "copy" THEN CopySome ELSE UNCHANGED <<copied, saved>>
  /\ UNCHANGED <<mode, startVars, process, ryu, done>>

-----------------------------------------------------------------------------
(* The finally block. *)

\* An Exception of stop() is printed, and the block goes on.
StopAgainRaises ==
  /\ pc = "stopAgain"
  /\ pc' = "copyAgain"
  /\ UNCHANGED <<mode, capturerVars, network, ryu, copied, saved, done>>

CopyAgain ==
  /\ pc = "copyAgain"
  /\ CopyFiles
  /\ pc' = "networkStop"
  /\ done' = done \cup {pc}
  /\ UNCHANGED <<mode, capturerVars, network, ryu>>

\* network.stop, when fatTreeBuilder had returned a network.
StopNetwork ==
  /\ pc = "networkStop"
  /\ network' = IF network = "built" THEN "stopped" ELSE network
  /\ pc' = "terminate"
  /\ done' = done \cup {pc}
  /\ UNCHANGED <<mode, capturerVars, ryu, copied, saved>>

TerminateRyu ==
  /\ pc = "terminate"
  /\ ryu' = "terminated"
  /\ pc' = "mnClean"
  /\ done' = done \cup {pc}
  /\ UNCHANGED <<mode, capturerVars, network, copied, saved>>

\* mn -c removes what a broken off fatTreeBuilder has left.
CleanMininet ==
  /\ pc = "mnClean"
  /\ network' = IF network = "partial" THEN "cleaned" ELSE network
  /\ pc' = "pkill"
  /\ done' = done \cup {pc}
  /\ UNCHANGED <<mode, capturerVars, ryu, copied, saved>>

\* Ctrl-C while os.system runs mn -c ends the command and not main.
CleaningCutOff ==
  /\ pc = "mnClean"
  /\ pc' = "pkill"
  /\ UNCHANGED <<mode, capturerVars, network, ryu, copied, saved, done>>

\* Processes that are a tshark, or end with the tshark they read from.
Tsharks == {p \in Processes : p[1] = "pcap" \/ mode = "tshark"}

\* pkill -KILL tshark
KillTsharks ==
  /\ pc = "pkill"
  /\ process' = [p \in Processes |->
                   IF Live(p) /\ p \in Tsharks THEN "swept" ELSE process[p]]
  /\ pc' = "ended"
  /\ done' = done \cup {pc}
  /\ UNCHANGED <<mode, startVars, toStop, network, ryu, copied, saved>>

\* Ctrl-C before the try block or in the finally block, or an exception of the
\* second copy or of network.stop: what is left of the program is skipped.
EndEarly ==
  /\ pc \in {"ryu", "wait"} \cup FinallyPcs
  /\ pc' = "ended"
  /\ IF pc = "copyAgain" THEN CopySome ELSE UNCHANGED <<copied, saved>>
  /\ UNCHANGED <<mode, capturerVars, network, ryu, done>>

\* A process that got SIGINT ends, also when nobody waits for it any more.
ProcessEnds(p) ==
  /\ process[p] = "signalled"
  /\ process' = [process EXCEPT ![p] = "stopped"]
  /\ UNCHANGED <<mode, pc, startVars, toStop, network, ryu, copied, saved, done>>

\* A capture process dies: no tshark, no XDP support, a lost interface.
ProcessDies(p) ==
  /\ Live(p)
  /\ process' = [process EXCEPT ![p] = "died"]
  /\ UNCHANGED <<mode, pc, startVars, toStop, network, ryu, copied, saved, done>>

TryStep ==
  \/ StartRyu \/ WaitForRyu \/ StartNetwork
  \/ OpenProcess \/ AppendProcess \/ AllStarted \/ StartReturns \/ StartRaises
  \/ TrafficEnds \/ Copy \/ Analyse \/ LeaveTry
StopStep == SignalProcess \/ NextProcess \/ StopReturns
FinallyStep ==
  \/ StopAgainRaises \/ CopyAgain \/ StopNetwork \/ TerminateRyu
  \/ CleanMininet \/ CleaningCutOff \/ KillTsharks

Next ==
  \/ TryStep \/ StopStep \/ FinallyStep \/ EndEarly
  \/ \E p \in Processes : ProcessEnds(p) \/ ProcessDies(p)

Spec == Init /\ [][Next]_vars

-----------------------------------------------------------------------------
(* Properties. *)

\* Processes that stop() does not know: one whose popen was not followed by its
\* append, and in xdp-verify all of a capturer whose start() did not return.
Unlisted(p) == /\ position <= Len(CapturersOf(mode))
               /\ p[1] = Starting
               /\ mode = "xdp-verify" \/ p[2] > processes[Starting]

\* One of the two stop() of main has returned.
Stopped == done \cap {"stop", "stopAgain"} # {}

\* Once main's stop() has returned, in the try block or in the finally block,
\* no capture process is alive but those it does not know; a finally block that
\* reached its end has left no running network, no controller and none of the
\* tsharks, known or not, so that only the XDP processes of a broken off start()
\* outlive it; what a broken off fatTreeBuilder has built is left only if mn -c
\* was broken off too.  Nothing is said of a run that Ctrl-C ended before the try
\* block, or of the steps of the finally block that it or an exception skipped.
NothingOutlivesRun ==
  /\ Stopped => \A p \in Processes : Live(p) => Unlisted(p)
  /\ "mnClean" \in done => network # "partial"
  /\ "pkill" \in done => /\ network # "built"
                         /\ ryu # "up"
                         /\ \A p \in Tsharks : ~Live(p)

\* When the last copy that began ran to its end, the run directory has the files
\* of every process the run started, however often stop() and copytree were
\* called and wherever the try block was left; after a stop() that returned, a
\* pcap with a cut-off last record, which the dataset builder raises on, comes
\* only of a process that died, was killed after stop()'s time-out, or was
\* unknown to it.  A copy that is broken off may cut files that were complete.
CopiesAreComplete ==
  /\ "copyAgain" \in done => saved
  /\ saved => \A p \in Processes : process[p] = "none" <=> copied[p] = "none"
  /\ saved /\ Stopped => \A p \in Processes :
       copied[p] = "cut" => process[p] \in {"died", "killed"} \/ Unlisted(p)

-----------------------------------------------------------------------------
(* The inductive invariant of the proofs. *)

\* The capturers whose start() returned, as the combined capturer knows them.
ReturnedCapturers == CASE mode # "xdp-verify" \/ position = 1 -> <<>>
                       [] mode = "xdp-verify" /\ position = 2 -> <<"pcap">>
                       [] mode = "xdp-verify" /\ position = 3 -> <<"pcap", "online">>

\* What a capturer has started is known by number, but for the process it is
\* about to append, and belongs to one of the capturers up to the one being
\* started.
ListsAreRight ==
  /\ \A c \in Capturers, n \in Points :
       /\ n <= processes[c] => process[<<c, n>>] # "none"
       /\ process[<<c, n>>] # "none" => n <= processes[c] \/ Unlisted(<<c, n>>)
  /\ \A c \in Capturers : processes[c] > 0 =>
       \E i \in DOMAIN CapturersOf(mode) : i <= position /\ CapturersOf(mode)[i] = c

\* How far start() has come, and what the combined capturer has started.
StartFacts ==
  /\ pc \in {"start", "append", "check"} => position \in DOMAIN CapturersOf(mode)
  /\ pc = "append" => /\ processes[Starting] < PointCount
                      /\ process[<<Starting, NextNumber>>] # "none"
  /\ pc = "check" => processes[Starting] = PointCount
  /\ pc \in {"ryu", "wait", "network"} => position = 1
  /\ pc \in {"ryu", "wait", "network", "start", "append", "check", "traffic", "stop", "unwind"} =>
       started = ReturnedCapturers
  /\ pc \in {"copy", "analysis"} => started = <<>>

\* What is alive is on the list of the stop() that is running, or on nobody's.
LiveAreListed ==
  pc \in StoppingPcs => \A p \in Processes :
    Live(p) => Unlisted(p) \/ \E i \in DOMAIN toStop : toStop[i] = p

\* How far the stopping of the processes, the copies and the clean-up have come.
StoppingFacts ==
  /\ pc \in {"copy", "analysis"} => "stop" \in done
  /\ done # {} => pc \in {"copy", "analysis", "ended"} \cup FinallyPcs
  /\ saved => /\ pc \in {"analysis", "ended"} \cup FinallyPcs
              /\ pc \in {"analysis", "stopAgain"} => "stop" \in done
  /\ "copyAgain" \in done => pc \in {"networkStop", "terminate", "mnClean", "pkill", "ended"}
  /\ pc \in {"networkStop", "terminate", "mnClean", "pkill"} => saved
  /\ pc \in {"terminate", "mnClean", "pkill"} => network # "built"
  /\ pc \in {"mnClean", "pkill"} => ryu # "up"
  /\ "mnClean" \in done => pc \in {"pkill", "ended"}
  /\ "pkill" \in done => pc = "ended"
  /\ pc # "ended" => \A p \in Processes : process[p] # "swept"

IndInv ==
  /\ TypeOK
  /\ ListsAreRight
  /\ StartFacts
  /\ LiveAreListed
  /\ StoppingFacts
  /\ NothingOutlivesRun
  /\ CopiesAreComplete
=============================================================================
