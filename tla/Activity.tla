------------------------------ MODULE Activity ------------------------------
(* What the processes of one user's machine are doing. A CLI process runs   *)
(* one command and exits (app.ts runHandler); a page that uses the wallet   *)
(* SDK makes one call at a time here. Two activities may be in progress at  *)
(* once in every part of the system, for none of the parts takes a lock. What *)
(* then goes wrong is put down to the activities that met.                  *)
EXTENDS Naturals, FiniteSets, TLC

CONSTANTS
  Actors,    \* the processes
  MaxOps,    \* bound on the commands and calls that are ever started
  MaxFaults  \* bound on deaths of a process and failed writes

ASSUME ActivityBounds == MaxOps \in Nat /\ MaxFaults \in Nat

VARIABLES
  at,          \* what each actor is doing: a record with its part and its step
  ops, faults, \* the activities started and the faults so far
  overlapped   \* history: the actors whose last activity met another of its part

activity == <<at, ops, faults, overlapped>>

Idle == [in |-> "none", pc |-> "idle"]

In(a, part, pc) == at[a].in = part /\ at[a].pc = pc

ActivityInit ==
  /\ at = [a \in Actors |-> Idle]
  /\ ops = 0
  /\ faults = 0
  /\ overlapped = {}

(* A command of a part starts: the layer of services is built and its       *)
(* handler runs.                                                            *)
Begin(a, part, step) ==
  /\ at[a] = Idle
  /\ ops < MaxOps
  /\ ops' = ops + 1
  /\ at' = [at EXCEPT ![a] = step]
  /\ LET others == {b \in Actors : at[b].in = part} IN
       overlapped' = IF others = {} THEN overlapped \ {a} ELSE overlapped \cup others \cup {a}
  /\ UNCHANGED faults

Go(a, step) ==
  /\ at' = [at EXCEPT ![a] = step]
  /\ UNCHANGED <<ops, faults, overlapped>>

Goto(a, pc) == Go(a, [at[a] EXCEPT !.pc = pc])

(* The handler returns, or fails with an error that is printed: either way  *)
(* the process exits.                                                       *)
Exit(a) == Go(a, Idle)

(* The process is killed, or a write of it fails and the command with it.   *)
Fault(a) ==
  /\ faults < MaxFaults
  /\ faults' = faults + 1
  /\ at' = [at EXCEPT ![a] = Idle]
  /\ UNCHANGED <<ops, overlapped>>

(* A step of a part's activity that was in progress together with another.  *)
Meddles(part) == \E a \in overlapped : at[a].in = part /\ at'[a] # at[a]
=============================================================================
