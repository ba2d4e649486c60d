----------------------------- MODULE TuiRuntime -----------------------------
(***************************************************************************)
(* What the programs of src/internal/tui have in common.                   *)
(*                                                                         *)
(* Each is a Bubble Tea program: an event loop takes one message at a time *)
(* and calls Update, which may change the model and return commands.  Each *)
(* command runs in a goroutine of its own, calls the cluster, and then     *)
(* waits to deliver its one message, in no order with the others.  A       *)
(* command that only makes a message is a message from the start.  When    *)
(* the loop takes the message of tea.Quit the program ends and what was    *)
(* under way is lost.                                                      *)
(*                                                                         *)
(* Messages that only change what the screen shows (spinners, window       *)
(* sizes, progress, the init messages of the parts) are left out.          *)
(***************************************************************************)
EXTENDS Naturals, Sequences, FiniteSets

CONSTANTS Clients,    \* the terminals in which a program runs
          Sessions,   \* which programs may run in them: a set of functions
          MaxFaults,  \* bound: calls that fail
          MaxKeys     \* bound: keys pressed

ASSUME RuntimeAssumption == MaxFaults \in Nat /\ MaxKeys \in Nat

VARIABLES program,    \* program[c]: the program that runs in terminal c
          calls,      \* calls[c]: commands under way
          inbox,      \* inbox[c]: messages to be delivered
          ended,      \* ended[c]: "no", "quit", or "crash" after a nil dereference
          failed,     \* failed[c]: finalError is set, and shown
          faults,     \* counts the failed calls
          keys        \* counts the keys

runtimeVars == <<program, calls, inbox, ended, failed, faults, keys>>

Msg(m) == [msg |-> m]
Cmd(a) == [cmd |-> a]
Error == Msg("error")
QuitMsg == Msg("quit")

Runs(c, p) == program[c] = p /\ ended[c] = "no"

(* The command that the program's Init returns.                            *)
RuntimeInit ==
    /\ program \in Sessions
    /\ calls = [c \in Clients |->
                  CASE program[c] \in {"apply", "run", "serve", "notebook"} -> {Cmd("find")}
                    [] program[c] = "get" -> {Cmd("watch")}
                    [] OTHER -> {}]
    /\ inbox = [c \in Clients |-> IF program[c] = "delete" THEN {Msg("deleteInit")} ELSE {}]
    /\ ended = [c \in Clients |-> "no"]
    /\ failed = [c \in Clients |-> FALSE]
    /\ faults = 0
    /\ keys = 0

----------------------------------------------------------------------------
(* A command of c ends with some messages, most often one.                 *)
Answer(c, call, messages) ==
    /\ ended[c] = "no" /\ call \in calls[c]
    /\ calls' = [calls EXCEPT ![c] = @ \ {call}]
    /\ inbox' = [inbox EXCEPT ![c] = @ \cup messages]
    /\ UNCHANGED <<program, ended, failed, keys>>

NoFault == faults' = faults
Fault == faults < MaxFaults /\ faults' = faults + 1

(* The event loop of c takes a message; Update starts commands and sends   *)
(* messages.                                                               *)
Handle(c, message, started, sent) ==
    /\ ended[c] = "no" /\ message \in inbox[c]
    /\ calls' = [calls EXCEPT ![c] = @ \cup started]
    /\ inbox' = [inbox EXCEPT ![c] = (@ \ {message}) \cup sent]
    /\ UNCHANGED <<program, ended, faults, keys>>

NoError == failed' = failed
ShowError(c) == failed' = [failed EXCEPT ![c] = TRUE]

Press(c, started, sent) ==
    /\ ended[c] = "no" /\ keys < MaxKeys
    /\ keys' = keys + 1
    /\ calls' = [calls EXCEPT ![c] = @ \cup started]
    /\ inbox' = [inbox EXCEPT ![c] = @ \cup sent]
    /\ UNCHANGED <<program, ended, failed, faults>>

(* A goroutine or Update dereferences nil: the program is killed.          *)
Crash(c) ==
    /\ ended' = [ended EXCEPT ![c] = "crash"]
    /\ UNCHANGED <<program, calls, inbox, failed, faults, keys>>

Quit(c) ==
    /\ ended[c] = "no" /\ QuitMsg \in inbox[c]
    /\ ended' = [ended EXCEPT ![c] = "quit"]
    /\ UNCHANGED <<program, calls, inbox, failed, faults, keys>>

----------------------------------------------------------------------------
(* findManifests reads and decodes; manifestsModel selects the first       *)
(* object of a kind the program wants.  That there is none is an error     *)
(* too; here it is already one of FindManifests.                           *)
FindManifests(c) ==
    \/ /\ NoFault
       /\ Answer(c, Cmd("find"), {Msg("found")})
    \/ /\ Fault
       /\ Answer(c, Cmd("find"), {Error})

SelectManifest(c) ==
    /\ program[c] \in {"run", "serve", "notebook"}
    /\ Handle(c, Msg("found"), {}, {Msg("selected")})
    /\ NoError

RuntimeTypeOK ==
    /\ program \in Sessions
    /\ \A c \in Clients : \A call \in calls[c] : "cmd" \in DOMAIN call
    /\ \A c \in Clients : \A message \in inbox[c] : "msg" \in DOMAIN message
    /\ ended \in [Clients -> {"no", "quit", "crash"}]
    /\ failed \in [Clients -> BOOLEAN]
    /\ faults \in 0 .. MaxFaults
    /\ keys \in 0 .. MaxKeys
=============================================================================
