--------------------------- MODULE SignalHandling ---------------------------
(***************************************************************************)
(* SignalHandler (signal_handling.go) between the Go runtime, which sends  *)
(* the signals of the process on its channel, and whoever sends on quit:   *)
(* the goroutine that Receive starts.  main.go makes the quit channel and  *)
(* never sends on it; the tests do.                                        *)
(***************************************************************************)
EXTENDS Naturals, Sequences

CONSTANT Signal  \* the signals the process is notified of

VARIABLES
    signals,   \* the channel s.Signals
    quitter,   \* a goroutine that sends on quit: "idle" or "sending"
    receiver,  \* the goroutine of Receive: at its "select", in "f" or in "q"
    unseen     \* history: the signals that arrived since the last call of f

vars == <<signals, quitter, receiver, unseen>>

(* The channel is made with room for one signal.                           *)
Capacity == 1

TypeOK ==
    /\ signals \in Seq(Signal) /\ Len(signals) <= Capacity
    /\ quitter \in {"idle", "sending"}
    /\ receiver \in {"select", "f", "q"}
    /\ unseen \subseteq Signal

Init ==
    /\ signals = <<>> /\ quitter = "idle" /\ receiver = "select"
    /\ unseen = {}

(* Mutant: the channel has no room, so only a waiting receiver gets one.   *)
Notify_Unbuffered(s) ==
    /\ signals' = IF receiver = "select" /\ signals = <<>>
                  THEN <<s>> ELSE signals
    /\ unseen' = unseen \cup {s}
    /\ UNCHANGED <<quitter, receiver>>

(* The runtime does not wait: a signal that finds the channel full is      *)
(* dropped.                                                                *)
Notify(s) ==
    /\ signals' = IF Len(signals) < Capacity THEN Append(signals, s) ELSE signals
    /\ unseen' = unseen \cup {s}
    /\ UNCHANGED <<quitter, receiver>>

SendQuit ==
    /\ quitter = "idle"
    /\ quitter' = "sending"
    /\ UNCHANGED <<signals, receiver, unseen>>

ReceiveSignal ==
    /\ receiver = "select" /\ signals # <<>>
    /\ receiver' = "f"
    /\ signals' = Tail(signals)
    /\ unseen' = {}
    /\ UNCHANGED quitter

Processed ==
    /\ receiver = "f"
    /\ receiver' = "select"
    /\ UNCHANGED <<signals, quitter, unseen>>

ReceiveQuit ==
    /\ receiver = "select" /\ quitter = "sending"
    /\ receiver' = "q" /\ quitter' = "idle"
    /\ UNCHANGED <<signals, unseen>>

(* The break of the code leaves only the select: the loop goes on, and the *)
(* goroutine takes signals as before, although the log says that the       *)
(* signal handler is quitting.                                             *)
QuitProcessed ==
    /\ receiver = "q"
    /\ receiver' = "select"
    /\ UNCHANGED <<signals, quitter, unseen>>

Next == \/ \E s \in Signal : Notify(s)
        \/ SendQuit \/ ReceiveSignal \/ Processed
        \/ ReceiveQuit \/ QuitProcessed

Spec == Init /\ [][Next]_vars

-----------------------------------------------------------------------------
(* A signal that is dropped because the channel is full is not ignored:    *)
(* the callback has still to run for one that arrived no earlier than its  *)
(* last call.                                                              *)
NoSignalIgnored == unseen # {} => signals # <<>>

(* The handler keeps the contract that main.go's life cycle relies on.     *)
Contract == INSTANCE SignalContract
                WITH pending <- signals # <<>>, busy <- receiver = "f"
KeepsContract == Contract!Spec
=============================================================================
